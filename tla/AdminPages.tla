------------------------------ MODULE AdminPages ------------------------------
(***************************************************************************)
(* The pages of the administration that show accounts and languages         *)
(* (features/admin-users, features/admin-languages) on top of the session   *)
(* of the web client: which queries and mutations a page has, what their    *)
(* outcomes do, and when the page leads to the login.                       *)
(*                                                                         *)
(* There is one managed account, with the version of its row, and one       *)
(* language, with the version (updatedAt) of its prefix; other              *)
(* administrators change both.  The prefix editor is keyed by the version,  *)
(* so that a newer one replaces the editor with its draft.                  *)
(***************************************************************************)
EXTENDS WebSession

First == "first"                       \* the prefix at the beginning
Theirs == "theirs"                     \* the one another administrator writes

UserMutations == {"createUser", "updateUserStatus", "resetUserPassword"}
Mutations == UserMutations \cup {"login", "logout", "changePassword", "updateLanguageSetting"}

\* Every mutation is read by one of the readers of api-client.ts.
ASSUME ReadersAssumption ==
    \A name \in Mutations : Client[name].reader \in {"json", "void", "multipart"}

\* What a page observes; the menu of every shell observes the session.
Observed(p) ==
    CASE p = "users" -> {"session", "users"}
      [] p \in {"languages", "language"} -> {"session", "languages"}
      [] p \in Pages \ {"users", "languages", "language"} -> {"session"}
      [] OTHER -> {}

Init ==
    /\ container = 1 /\ signedIn \in Accounts \cup {NoOne} /\ revoked = FALSE
    /\ mustChange = Accounts \ Admins
    /\ user = [version |-> 1, status |-> "ACTIVE", taken |-> FALSE]
    /\ prefix = [version |-> 1, text |-> First]
    /\ csrfToken = 0 /\ csrfRequest = 0 /\ loads = {} /\ ops = {}
    /\ cache = [q \in Queries |-> IF q = "session" THEN Asking(Idle) ELSE Idle]
    /\ page = "blank" /\ going \in {"users", "language", "password"} /\ back = "home"
    /\ draft = NoDraft /\ temporary = FALSE
    /\ acts = 0 /\ faults = 0

-----------------------------------------------------------------------------
(* What the pages show and offer. *)

languages == cache["languages"]
users == cache["users"]

\* The list of accounts, or what stands in its place.
UsersState ==
    CASE users.data = NoData /\ users.error = 0 -> "loading"
      [] users.error # 0 -> "error"
      [] OTHER -> "rows"

UserRowActions ==
    IF isPending("updateUserStatus") \/ isPending("resetUserPassword") THEN {} ELSE {"reset", "toggle"}

CreateUserDialog == IF isPending("createUser") THEN {} ELSE {"create"}

AdminUsersPage ==
    CreateUserDialog \cup (CASE UsersState = "rows" -> UserRowActions
                             [] UsersState = "error" -> {"refetch users"}
                             [] OTHER -> {})

LanguagesState ==
    CASE languages.data = NoData /\ languages.error = 0 -> "loading"
      [] languages.error # 0 -> "error"
      [] OTHER -> "shown"

AdminLanguageListPage ==
    CASE LanguagesState = "shown" -> {"language"}
      [] LanguagesState = "error" -> {"refetch languages"}
      [] OTHER -> {}

\* The editor: what it holds, and what may be done with it.
dirty == draft # NoDraft

conflict ==
    \E o \in ops : /\ o.name = "updateLanguageSetting" /\ o.mounted = "page" /\ o.stage = "done"
                   /\ o.reply.code = "ROW_VERSION_CONFLICT"

canSave ==
    dirty /\ draft.text # Blank /\ ~conflict /\ ~isPending("updateLanguageSetting")

PrefixEditor ==
    (IF isPending("updateLanguageSetting") THEN {} ELSE {"edit"})
    \cup (IF conflict THEN {"discard"} ELSE {})
    \cup (IF ~conflict /\ dirty /\ ~isPending("updateLanguageSetting") THEN {"revert"} ELSE {})
    \cup (IF canSave THEN {"save"} ELSE {})

AdminLanguageEditPage ==
    CASE LanguagesState = "shown" -> PrefixEditor
      [] LanguagesState = "error" -> {"refetch languages"}
      [] OTHER -> {}

\* Everything the page offers.
Offered ==
    CASE temporary -> {}
      [] ~temporary /\ page = "users" -> AdminAppShell(page) \cup AdminUsersPage
      [] page = "languages" -> AdminAppShell(page) \cup AdminLanguageListPage
      [] page = "language" -> AdminAppShell(page) \cup AdminLanguageEditPage
      [] page = "admin" -> AdminAppShell(page)
      [] page = "home" -> SiteAppShell \cup HomePage
      [] page = "forbidden" -> SiteAppShell \cup ForbiddenPage
      [] page \in {"problems", "login", "password"} -> SiteAppShell
      [] OTHER -> {}

-----------------------------------------------------------------------------
(* Leaving and entering pages. *)

Shell(p) == IF p \in AdminArea THEN "admin" ELSE "site"

\* The mutations whose component goes: results are forgotten, the rest ends
\* without it.
Unmounted(set, names) ==
    {[o EXCEPT !.mounted = IF @ = "page" /\ o.name \in names THEN "app" ELSE @] :
        o \in {m \in set : m.name \notin names \/ m.stage # "done"}}

\* Those of the page, and the logout of the menu when the shell changes.
Leaving(p) ==
    Mutations \ (IF Shell(p) = Shell(page) /\ page \in Pages THEN {"logout"} ELSE {})

\* Page p's queries are fetched when there is no data or it is old; those it
\* does not observe are aborted.
Mounted(p, old) ==
    [q \in Queries |->
        IF q \notin Observed(p) THEN Cancelled(cache[q])
        ELSE IF cache[q].asked = "no" /\ (cache[q].data = NoData \/ cache[q].stale \/ old)
        THEN Asking(cache[q])
        ELSE cache[q]]

\* invalidateQueries: an observed query is fetched anew, another one later; a
\* first fetch that is still running goes on.
invalidateQueries(name) ==
    IF name \in Observed(page) /\ ~(cache[name].data = NoData /\ cache[name].asked # "no")
    THEN [cache EXCEPT ![name] = [Asking(@) EXCEPT !.stale = TRUE]]
    ELSE [cache EXCEPT ![name].stale = TRUE]

\* Does page p lead to the login when query q has failed with that status?
\* Mutant: no page does.
NeverRedirects(p, q, status) == FALSE

useRedirectWhenSignedOut(p, q, status) ==
    /\ status = 401
    /\ (p = "users" /\ q = "users") \/ (p \in {"languages", "language"} /\ q = "languages")

Leads(p, c) == \E q \in Queries : useRedirectWhenSignedOut(p, q, c[q].error)

\* The effect that forgets the session of cache c and goes to the login.
ToLogin(c, returnTo) ==
    /\ cache' = [c EXCEPT !["session"].data = Anonymous, !["session"].error = 0]
    /\ going' = "login" /\ back' = returnTo

\* The guard of the page we are going to has its session, or cannot get it.
Arrive ==
    /\ going # "none"
    /\ IF Guarded(going) /\ session = NoData
       THEN /\ cache["session"].asked = "no" /\ cache["session"].error # 0
            /\ page' = "broken" /\ going' = "none"
            /\ ops' = Unmounted(ops, Mutations) /\ draft' = NoDraft /\ temporary' = FALSE
            /\ UNCHANGED <<cache, back>>
       ELSE IF beforeLoad(going) # "none"
       THEN /\ going' = beforeLoad(going)
            /\ back' = IF going' = "login" THEN safeReturnPath(going) ELSE back
            /\ UNCHANGED <<page, ops, cache, draft, temporary>>
       ELSE /\ page' = going
            /\ \E old \in BOOLEAN :
                   IF Leads(going, Mounted(going, old))
                   THEN ToLogin(Mounted(going, old), going)
                   ELSE cache' = Mounted(going, old) /\ going' = "none" /\ back' = back
            /\ ops' = Unmounted(ops, Leaving(going)) /\ draft' = NoDraft /\ temporary' = FALSE
    /\ UNCHANGED <<serverVars, csrfVars, acts, faults>>

\* The user follows a link; unsaved text in the editor is given up.
Navigate ==
    \E p \in Offered \cap Pages :
        /\ p # page /\ Acted
        /\ Goes(p, "home")
        /\ cache' = IF Guarded(p) THEN ensureQueryData("session") ELSE cache
        /\ UNCHANGED <<serverVars, csrfVars, ops, pageVars, faults>>

\* The user loads the document of page p, when nothing else is left to do.
Open(p) ==
    /\ page = "broken" /\ Acted
    /\ Reload(p, "home") /\ ops' = Orphans(ops)
    /\ UNCHANGED <<serverVars, faults>>

\* The window gets the focus or the user tries again: an observed query is
\* fetched.
Refetch ==
    \E q \in Observed(page) :
        /\ cache[q].asked = "no" /\ Acted
        /\ cache' = [cache EXCEPT ![q] = Asking(@)]
        /\ UNCHANGED <<serverVars, csrfVars, ops, routeVars, pageVars, faults>>

-----------------------------------------------------------------------------
(* Queries. *)

QueryAnswer(q) ==
    CASE q = "session" -> SessionAnswer
      [] q # "session" /\ Admitted -> Ok(200, IF q = "users" THEN user ELSE prefix)
      [] OTHER -> Refusal

ServeQuery(q) ==
    \E lost \in BOOLEAN :
        /\ cache[q].asked = "sent" /\ DisturbedIf(lost /\ cache[q].failures = 0)
        /\ cache' = [cache EXCEPT ![q].asked = "answered",
                                  ![q].reply = IF lost THEN Lost ELSE requestJson(QueryAnswer(q))]
        /\ IF lost THEN UNCHANGED gatewayVars ELSE Noticed /\ UNCHANGED mustChange
        /\ UNCHANGED <<user, prefix, csrfVars, ops, routeVars, pageVars, acts>>

\* Mutant: a newer version leaves the editor as it is.
AlwaysSameEditor(before, after) == after.error = 0

\* The editor is keyed by the version and shown unless the query failed.
SameEditor(before, after) == before.data = after.data /\ after.error = 0

\* The editor and its save when the query of languages becomes q.
EditorAfter(q) ==
    IF page # "language" \/ SameEditor(languages, q) THEN UNCHANGED <<draft, ops>>
    ELSE draft' = NoDraft /\ ops' = Unmounted(ops, {"updateLanguageSetting"})

HearQuery(q) ==
    /\ cache[q].asked = "answered"
    /\ LET reply == cache[q].reply
           signedOut == q = "session" /\ reply.status = 401
           heard == Heard(cache[q], IF q = "session" THEN getSession(reply) ELSE reply)
           c == [cache EXCEPT ![q] = heard] IN
       /\ IF signedOut THEN Cleared /\ UNCHANGED loads ELSE UNCHANGED csrfVars
       /\ IF Leads(page, c) /\ ~Leads(page, cache) THEN ToLogin(c, page)
          ELSE cache' = c /\ UNCHANGED <<going, back>>
       /\ IF q = "languages" THEN EditorAfter(heard) ELSE UNCHANGED <<draft, ops>>
    /\ UNCHANGED <<serverVars, page, temporary, acts, faults>>

-----------------------------------------------------------------------------
(* What the user sends. *)

LeaveAll == <<serverVars, cache, routeVars, pageVars, faults>>

SubmitLogin ==
    /\ page = "login" /\ ~isPending("login")
    /\ \E name \in Accounts \cup {"stranger"} : mutate("login", name, 0, 0)
    /\ UNCHANGED LeaveAll

SubmitPassword ==
    /\ page = "password" /\ ~isPending("changePassword")
    /\ \E current \in {"right", "wrong"} : mutate("changePassword", current, 0, 0)
    /\ UNCHANGED LeaveAll

ClickLogout ==
    /\ "logout" \in Offered
    /\ mutate("logout", "none", 0, 0)
    /\ UNCHANGED LeaveAll

SubmitCreateUser ==
    /\ "create" \in Offered
    /\ mutate("createUser", "none", 0, 0)
    /\ UNCHANGED LeaveAll

toggleStatus ==
    /\ "toggle" \in Offered
    /\ mutate("updateUserStatus", IF users.data.status = "ACTIVE" THEN "DISABLED" ELSE "ACTIVE",
              users.data.version, 0)
    /\ UNCHANGED LeaveAll

resetPassword ==
    /\ "reset" \in Offered
    /\ mutate("resetUserPassword", "none", users.data.version, 0)
    /\ UNCHANGED LeaveAll

SavePrefix ==
    /\ "save" \in Offered
    /\ mutate("updateLanguageSetting", draft.text, languages.data.version, draft.base)
    /\ UNCHANGED LeaveAll

\* Typing forgets a failed save, but not a conflict.
EditPrefix ==
    \E t \in Texts \cup {Blank} :
        /\ "edit" \in Offered
        /\ draft' = IF t = languages.data.text THEN NoDraft
                    ELSE [base |-> IF dirty THEN draft.base ELSE languages.data.version, text |-> t]
        /\ draft' # draft
        /\ ops' = IF conflict THEN ops ELSE ops \ Ended("updateLanguageSetting")
        /\ UNCHANGED <<serverVars, csrfVars, cache, routeVars, temporary, acts, faults>>

Revert ==
    /\ "revert" \in Offered
    /\ draft' = NoDraft
    /\ UNCHANGED <<serverVars, csrfVars, ops, cache, routeVars, temporary, acts, faults>>

Discard ==
    /\ "discard" \in Offered
    /\ draft' = NoDraft /\ ops' = ops \ Ended("updateLanguageSetting")
    /\ cache' = invalidateQueries("languages")
    /\ UNCHANGED <<serverVars, csrfVars, routeVars, temporary, acts, faults>>

TemporaryPasswordDialog ==
    /\ temporary /\ temporary' = FALSE
    /\ UNCHANGED <<serverVars, csrfVars, ops, cache, routeVars, draft, acts, faults>>

-----------------------------------------------------------------------------
(* Mutations at the server: the gateway, user-service, problem-service. *)

UserAnswer(o) ==
    CASE o.name = "createUser" ->
             IF user.taken THEN Problem(409, "USERNAME_ALREADY_EXISTS") ELSE Ok(201, user)
      [] o.name # "createUser" /\ o.base # user.version -> Problem(409, "ROW_VERSION_CONFLICT")
      [] OTHER -> Ok(200, user)

UserAfter(o) ==
    CASE ~Admitted \/ UserAnswer(o).status = 409 -> user
      [] o.name = "createUser" /\ ~user.taken -> [user EXCEPT !.taken = TRUE]
      [] o.name = "updateUserStatus" /\ o.arg # user.status ->
             [user EXCEPT !.status = o.arg, !.version = @ + 1]
      [] o.name = "resetUserPassword" -> [user EXCEPT !.version = @ + 1]
      [] OTHER -> user

PrefixAfter(o) ==
    IF Admitted /\ o.arg # prefix.text /\ o.base = prefix.version
    THEN [version |-> prefix.version + 1, text |-> o.arg] ELSE prefix

PrefixAnswer(o) ==
    IF o.arg # prefix.text /\ o.base # prefix.version THEN Problem(409, "ROW_VERSION_CONFLICT")
    ELSE Ok(200, PrefixAfter(o))

Answer(o) ==
    CASE o.name = "login" -> LoginAnswer(o)
      [] o.name = "logout" -> Done
      [] o.name = "changePassword" -> PasswordAnswer(o)
      [] ~Admitted /\ o.name \in UserMutations \cup {"updateLanguageSetting"} -> Refusal
      [] Admitted /\ o.name \in UserMutations -> UserAnswer(o)
      [] Admitted /\ o.name = "updateLanguageSetting" -> PrefixAnswer(o)

Effect(o) ==
    /\ CASE o.name = "login" -> LoginEffect(o)
         [] o.name = "logout" -> LogoutEffect
         [] o.name = "changePassword" -> PasswordEffect(o)
         [] OTHER -> Noticed /\ UNCHANGED mustChange
    /\ user' = IF o.name \in UserMutations THEN UserAfter(o) ELSE user
    /\ prefix' = IF o.name = "updateLanguageSetting" THEN PrefixAfter(o) ELSE prefix

\* A logout that cannot reach user-service still ends the session here.
Unavailable(o) ==
    /\ IF o.name = "logout" THEN LogoutEffect ELSE UNCHANGED gatewayVars
    /\ UNCHANGED <<user, prefix>>

\* o after it was served with that reply.
Served(o, reply, done) ==
    IF o.mounted = "gone" THEN {}
    ELSE {[o EXCEPT !.stage = "answered", !.reply = reply, !.served = container,
                    !.applied = @ \/ done]}

\* What the API function of o makes of response r.
Read(o, r) == Reader(Client[o.name].reader, r)

ServeOp ==
    \E o \in ops, how \in {"answered", "lost", "unavailable"} :
        /\ o.stage = "sent" /\ DisturbedIf(how # "answered")
        /\ IF Rejected(o)
           THEN /\ how = "answered" /\ UNCHANGED serverVars
                /\ ops' = (ops \ {o}) \cup Served(o, Read(o, Problem(403, "CSRF_REJECTED")), FALSE)
           ELSE IF how = "unavailable"
           THEN /\ Unavailable(o)
                /\ ops' = (ops \ {o}) \cup Served(o, Read(o, Problem(503, "UNAVAILABLE")), FALSE)
           ELSE /\ Effect(o)
                /\ ops' = (ops \ {o}) \cup
                          Served(o, IF how = "lost" THEN Lost ELSE Read(o, Answer(o)), IsOk(Answer(o)))
        /\ UNCHANGED <<csrfVars, cache, routeVars, pageVars, acts>>

-----------------------------------------------------------------------------
(* Mutations heard. *)

\* What remains of o on its page: a failure is shown until it is tried again.
Remains(o) ==
    (ops \ {o}) \cup (IF o.reply.kind = "ok" \/ o.mounted # "page" THEN {}
                      ELSE {[o EXCEPT !.stage = "done"]})

LoginHeard(o) ==
    IF o.reply.kind = "ok"
    THEN /\ Reload(IF o.reply.value.must THEN "password" ELSE back, "home")
         /\ ops' = Orphans(ops \ {o})
    ELSE ops' = Remains(o) /\ UNCHANGED <<csrfVars, cache, routeVars, pageVars>>

LogoutHeard(o) ==
    IF o.reply.kind = "ok" \/ o.reply.status = 401
    THEN Reload("login", "home") /\ ops' = Orphans(ops \ {o})
    ELSE ops' = Remains(o) /\ UNCHANGED <<csrfVars, cache, routeVars, pageVars>>

PasswordHeard(o) ==
    /\ ops' = Remains(o)
    /\ CASE o.reply.kind = "ok" -> Cleared /\ UNCHANGED loads /\ ToLogin(cache, "home")
         [] o.reply.status = 401 /\ o.mounted = "page" -> ToLogin(cache, "password") /\ UNCHANGED csrfVars
         [] OTHER -> UNCHANGED <<csrfVars, cache, going, back>>
    /\ UNCHANGED <<page, pageVars>>

UsersHeard(o) ==
    /\ ops' = Remains(o)
    /\ temporary' = (temporary \/ (/\ o.reply.kind = "ok" /\ o.mounted = "page"
                                   /\ o.name \in {"createUser", "resetUserPassword"}))
    /\ CASE o.reply.kind = "ok" -> cache' = invalidateQueries("users") /\ UNCHANGED <<going, back>>
         [] o.reply.status = 401 /\ o.mounted = "page" -> ToLogin(cache, "users")
         [] OTHER -> UNCHANGED <<cache, going, back>>
    /\ UNCHANGED <<csrfVars, page, draft>>

PrefixHeard(o) ==
    LET q == setQueryData("languages", o.reply.value)["languages"] IN
    /\ IF o.reply.kind = "ok" /\ languages.data # NoData
       THEN /\ cache' = [cache EXCEPT !["languages"] = q]
            /\ ops' = Remains(o)
            /\ draft' = IF o.mounted = "page" \/ ~SameEditor(languages, q) THEN NoDraft ELSE draft
       ELSE ops' = Remains(o) /\ UNCHANGED <<cache, draft>>
    /\ UNCHANGED <<csrfVars, routeVars, temporary>>

\* A rejected token is forgotten and the request made once more.
Again(o) ==
    /\ loadCsrfToken([o EXCEPT !.again = TRUE, !.since = container, !.reply = NoReply], ops \ {o},
                     clearCsrfToken)
    /\ UNCHANGED <<cache, routeVars, pageVars>>

HearOp ==
    /\ \E o \in ops :
        /\ o.stage = "answered"
        /\ \/ withCsrfRetries(o) /\ Again(o)
           \/ /\ ~withCsrfRetries(o)
              /\ \/ o.name = "login" /\ LoginHeard(o)
                 \/ o.name = "logout" /\ LogoutHeard(o)
                 \/ o.name = "changePassword" /\ PasswordHeard(o)
                 \/ o.name \in UserMutations /\ UsersHeard(o)
                 \/ o.name = "updateLanguageSetting" /\ PrefixHeard(o)
    /\ UNCHANGED <<serverVars, acts, faults>>

-----------------------------------------------------------------------------
(* Other tabs and other administrators. *)

OtherTab ==
    /\ Disturbed
    /\ \/ Invalidate /\ UNCHANGED mustChange
       \/ /\ signedIn = NoOne
          /\ signedIn' \in Accounts /\ UNCHANGED <<container, revoked, mustChange>>
    /\ UNCHANGED <<user, prefix, csrfVars, ops, cache, routeVars, pageVars, acts>>

\* user-service ends the sessions of the account.
Revoke ==
    /\ Disturbed
    /\ signedIn # NoOne /\ ~revoked /\ revoked' = TRUE
    /\ UNCHANGED <<container, signedIn, mustChange, user, prefix, csrfVars, ops, cache, routeVars,
                   pageVars, acts>>

OtherAdmin ==
    /\ Disturbed
    /\ \/ user' = [user EXCEPT !.version = @ + 1] /\ prefix' = prefix
       \/ /\ prefix.text # Theirs /\ prefix' = [version |-> prefix.version + 1, text |-> Theirs]
          /\ user' = user
    /\ UNCHANGED <<gatewayVars, csrfVars, ops, cache, routeVars, pageVars, acts>>

Serve == ServeLoad \/ ServeOp \/ \E q \in Queries : ServeQuery(q)
Hear == HearLoad \/ HearOp \/ \E q \in Queries : HearQuery(q)
User ==
    \/ Navigate \/ Refetch \/ \E p \in {"users", "language", "login", "password"} : Open(p)
    \/ SubmitLogin \/ SubmitPassword \/ ClickLogout
    \/ SubmitCreateUser \/ toggleStatus \/ resetPassword \/ TemporaryPasswordDialog
    \/ EditPrefix \/ Revert \/ SavePrefix \/ Discard
Next == Serve \/ Hear \/ Arrive \/ User \/ OtherTab \/ Revoke \/ OtherAdmin

Spec == Init /\ [][Next]_vars

\* As long as there is something to serve, to hear or to enter, one of it
\* happens: requests are served or lost, answers are heard, the router goes on.
Fairness == WF_vars(Serve \/ Hear \/ Arrive)

FairSpec == Spec /\ Fairness

-----------------------------------------------------------------------------
(* Properties. *)

Over(o) == o.stage = "done" \/ (o.stage = "answered" /\ ~withCsrfRetries(o))

\* When a request still ends with a rejected token, it was tried a second
\* time, with a token loaded after the first rejection, and the session was
\* replaced once more since: withCsrf never repeats a token it knows to be bad,
\* whichever loads of other requests end in between.
RetryIsFresh ==
    \A o \in ops : Over(o) /\ o.reply.code = "CSRF_REJECTED" => o.again /\ o.since # o.served

\* A mutation the client reports as refused did not take effect: the one
\* automatic retry never repeats a request that was carried out.
RefusedIsNotApplied ==
    \A o \in ops : Over(o) /\ o.reply.status \in 400..499 => ~o.applied

\* A prefix that is saved replaces the version its editor was opened with,
\* whatever refetches, saves and other administrators did since.
NeverOverwritesUnseenPrefix ==
    \A o \in ops : o.name = "updateLanguageSetting" /\ o.applied => o.saw = o.base

\* The guards never send the router round in circles: a navigation ends on a
\* page or with an error.
GuardsSettle == going # "none" ~> going = "none"

RefusedAsAnonymous ==
    \/ page = "users" /\ users.error = 401
    \/ page \in {"languages", "language"} /\ languages.error = 401

\* A page of accounts or languages that was refused because nobody is logged
\* in is left or gets an answer (use-redirect-when-signed-out.ts).
SignedOutPageIsLeft == RefusedAsAnonymous ~> ~RefusedAsAnonymous

-----------------------------------------------------------------------------
(* The inductive invariant. *)

\* The fields of a record are those of the model record.
Shaped(r, model) == r = [f \in DOMAIN model |-> r[f]]

\* A token the client knows is of a container that was.
TokensOK ==
    /\ container \in Nat \ {0} /\ csrfToken \in 0..container
    /\ loads \subseteq [id : Nat, served : BOOLEAN, token : Nat] /\ IsFiniteSet(loads)
    /\ \A l \in loads : l.token <= container

\* The second try of o waits for or has a token that is not older than the
\* first rejection; a rejection that stands came after a newer container; what
\* was carried out was not refused; a save is made from the version shown.
OpOK(o) ==
    /\ Shaped(o, Operation0) /\ o.name \in Mutations
    /\ o.token \in 0..container /\ o.since \in 0..container
    /\ o.again /\ o.stage = "token" =>
         \A l \in loads : l.id = o.load /\ l.token # 0 => o.since <= l.token
    /\ o.again /\ o.stage = "sent" => o.since <= o.token
    /\ o.reply.code = "CSRF_REJECTED" =>
         /\ o.stage \in {"answered", "done"} /\ (o.stage = "done" => o.again)
         /\ o.again => o.since # o.served
    /\ o.applied =>
         /\ o.stage \in {"answered", "done"}
         /\ o.reply.status \notin 400..499 /\ o.reply.code # "CSRF_REJECTED"
    /\ o.name = "updateLanguageSetting" => o.saw = o.base

\* What the editor holds was made from the version that is shown.
EditorOK ==
    /\ Shaped(cache, [q \in Queries |-> Idle]) /\ \A q \in Queries : Shaped(cache[q], Idle)
    /\ draft # NoDraft => /\ page = "language" /\ languages.error = 0 /\ languages.data # NoData
                          /\ draft.base = languages.data.version

AdminIInv == TokensOK /\ (\A o \in ops : OpOK(o)) /\ EditorOK
=============================================================================
