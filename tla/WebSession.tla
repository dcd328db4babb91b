------------------------------ MODULE WebSession ------------------------------
(***************************************************************************)
(* The session of the web client: the CSRF token and its automatic retry    *)
(* (lib/api/csrf.ts), the cached session (features/auth/api), the guards of *)
(* the routes (features/auth/lib/route-guards.ts) and the pages that change *)
(* it: login, password and the account menu (routes/, app/).                *)
(*                                                                         *)
(* The gateway keeps a session container per browser; the CSRF token lives  *)
(* in it, so that every invalidation makes the tokens of the client stale.  *)
(* Other tabs share the container.  A request that changes something first  *)
(* needs a token, is sent, served and heard; loads of tokens and queries    *)
(* run beside it.  A page is left by navigation, which the guards may       *)
(* redirect, or by loading the document anew, which forgets everything.     *)
(***************************************************************************)
EXTENDS ApiClient, FiniteSets

CONSTANTS
    Accounts,       \* the accounts of this browser
    Admins,         \* those with the role ADMIN
    NoOne,          \* nobody is logged in
    Texts,          \* the prefixes this user types
    MaxActs,        \* how often the user goes somewhere, looks again or sends something
    MaxFaults       \* how often something unusual happens

ASSUME AdminsAssumption == Admins \subseteq Accounts /\ NoOne \notin Accounts

AdminArea == {"admin", "users", "languages", "language"}
Pages == {"home", "problems", "forbidden", "login", "password"} \cup AdminArea
Queries == {"session", "users", "languages"}
Blank == "blank"                       \* a prefix without text

VARIABLES
    container,      \* counts the session containers; the token is of one
    signedIn,       \* the account in the container
    revoked,        \* user-service ended its session, the gateway does not know
    mustChange,     \* the accounts that must change their password
    user,           \* the managed account: [version, status, taken]
    prefix,         \* the prefix of the language: [version, text]
    csrfToken, csrfRequest,     \* 0: undefined
    loads,          \* the requests for a token that are under way
    ops,            \* the mutations
    cache,          \* the queries
    page,           \* "blank": nothing rendered yet; "broken": a guard failed
    going, back,    \* the navigation under way; returnTo
    draft,          \* what the prefix editor holds that differs from the setting
    temporary,      \* a temporary password is shown
    acts, faults

gatewayVars == <<container, signedIn, revoked, mustChange>>
serverVars == <<gatewayVars, user, prefix>>
csrfVars == <<csrfToken, csrfRequest, loads>>
routeVars == <<page, going, back>>
pageVars == <<draft, temporary>>
vars == <<serverVars, csrfVars, ops, cache, routeVars, pageVars, acts, faults>>

Acted == acts < MaxActs /\ acts' = acts + 1
Disturbed == faults < MaxFaults /\ faults' = faults + 1
DisturbedIf(b) == IF b THEN Disturbed ELSE faults' = faults

NoData == NoValue
NoReply == Outcome("none", 0, "none", NoData)
Lost == Failed("TypeError", "none")
Idle ==
    [data |-> NoData, error |-> 0, stale |-> FALSE, asked |-> "no", reply |-> NoReply, failures |-> 0]
Anonymous == [who |-> NoOne, must |-> FALSE]
NoDraft == [base |-> 0, text |-> "none"]

session == cache["session"].data

-----------------------------------------------------------------------------
(* The queries: a query is asked, served and heard; a fetch keeps the data  *)
(* and, once there is data, the error too.                                  *)

Asking(q) ==
    [q EXCEPT !.asked = "sent", !.reply = NoReply, !.failures = 0,
              !.error = IF q.data = NoData THEN 0 ELSE q.error]

Cancelled(q) == [q EXCEPT !.asked = "no", !.reply = NoReply, !.failures = 0]

\* setQueryData leaves the fetch alone.
setQueryData(name, value) ==
    [cache EXCEPT ![name].data = value, ![name].error = 0, ![name].stale = FALSE]

\* ensureQueryData: what is there, however old, or else a fetch.
ensureQueryData(name) ==
    IF cache[name].data = NoData /\ cache[name].asked = "no"
    THEN [cache EXCEPT ![name] = Asking(@)] ELSE cache

ErrorOf(outcome) == IF outcome.status = 0 THEN 1 ELSE outcome.status

\* The query after an outcome that queryFn returned or threw.
Heard(q, outcome) ==
    CASE outcome.kind = "ok" -> [Cancelled(q) EXCEPT !.data = outcome.value, !.error = 0, !.stale = FALSE]
      [] outcome.kind # "ok" /\ shouldRetryQuery(q.failures, outcome) ->
             [q EXCEPT !.asked = "sent", !.reply = NoReply, !.failures = @ + 1]
      [] OTHER -> [Cancelled(q) EXCEPT !.error = ErrorOf(outcome)]

\* getSession takes a 401 for an answer.
getSession(outcome) ==
    IF outcome.status = 401 THEN Outcome("ok", 200, "none", Anonymous) ELSE outcome

-----------------------------------------------------------------------------
(* The gateway. *)

SessionOf(a) == [who |-> a, must |-> a \in mustChange]

Invalidate == container' = container + 1 /\ signedIn' = NoOne /\ revoked' = FALSE

\* Whom a request acts for; a session that user-service ended is invalidated.
Current == IF revoked THEN NoOne ELSE signedIn
Noticed == IF revoked THEN Invalidate ELSE UNCHANGED <<container, signedIn, revoked>>

Ok(status, value) == Response(status, "none", "json", status = 201, value)
Done == Response(204, "none", "none", FALSE, NoData)
Problem(status, code) == Response(status, code, "problem", FALSE, NoData)

SessionAnswer ==
    IF revoked THEN Problem(401, "UNAUTHENTICATED") ELSE Ok(200, SessionOf(signedIn))

\* What an administrator's request needs.
Admitted == Current \in Admins \ mustChange

Refusal ==
    CASE Current = NoOne -> Problem(401, "UNAUTHENTICATED")
      [] Current \in mustChange -> Problem(403, "PASSWORD_CHANGE_REQUIRED")
      [] OTHER -> Problem(403, "FORBIDDEN")

Rejected(o) == o.token # container

LoginAnswer(o) ==
    IF o.arg \in Accounts THEN Ok(200, SessionOf(o.arg)) ELSE Problem(401, "AUTHENTICATION_FAILED")

LoginEffect(o) ==
    IF o.arg \in Accounts
    THEN signedIn' = o.arg /\ revoked' = FALSE /\ UNCHANGED <<container, mustChange>>
    ELSE UNCHANGED gatewayVars

LogoutEffect == Invalidate /\ UNCHANGED mustChange

\* arg: whether the current password was right.
PasswordAnswer(o) ==
    CASE Current = NoOne -> Problem(401, "UNAUTHENTICATED")
      [] Current # NoOne /\ o.arg = "wrong" -> Problem(401, "AUTHENTICATION_FAILED")
      [] OTHER -> Done

PasswordEffect(o) ==
    IF Current # NoOne /\ o.arg # "wrong"
    THEN Invalidate /\ mustChange' = mustChange \ {Current}
    ELSE Noticed /\ UNCHANGED mustChange

-----------------------------------------------------------------------------
(* The CSRF token. *)

csrf == [token |-> csrfToken, request |-> csrfRequest]

\* Mutant: the token that was rejected stays.
KeepCsrfToken == [token |-> csrfToken, request |-> 0]

clearCsrfToken == [token |-> 0, request |-> 0]

Cleared == csrfToken' = clearCsrfToken.token /\ csrfRequest' = clearCsrfToken.request

NewLoad == CHOOSE i \in 1..(Cardinality(loads) + 1) : \A l \in loads : l.id # i

\* Mutation o, beside the others, gets the token of c, or waits for its load,
\* or starts one.
loadCsrfToken(o, others, c) ==
    LET id == IF c.request = 0 THEN NewLoad ELSE c.request IN
    IF c.token # 0
    THEN /\ ops' = others \cup {[o EXCEPT !.stage = "sent", !.token = c.token]}
         /\ csrfToken' = c.token /\ csrfRequest' = c.request /\ UNCHANGED loads
    ELSE /\ ops' = others \cup {[o EXCEPT !.stage = "token", !.load = id]}
         /\ csrfToken' = 0 /\ csrfRequest' = id
         /\ loads' = IF c.request # 0 THEN loads
                     ELSE loads \cup {[id |-> id, served |-> FALSE, token |-> 0]}

Operation0 ==
    [id |-> 0, name |-> "none", arg |-> "none", base |-> 0, saw |-> 0, stage |-> "none", load |-> 0,
     token |-> 0, again |-> FALSE, since |-> 0, served |-> 0, applied |-> FALSE,
     reply |-> NoReply, mounted |-> "page"]

\* The result of the same mutation that the page still shows.
Ended(name) == {o \in ops : o.name = name /\ o.mounted = "page" /\ o.stage = "done"}

mutate(name, arg, base, saw) ==
    /\ Acted
    /\ loadCsrfToken([Operation0 EXCEPT !.id = acts + 1, !.name = name, !.arg = arg, !.base = base,
                                        !.saw = saw],
                     ops \ Ended(name), csrf)

isPending(name) == \E o \in ops : o.name = name /\ o.mounted = "page" /\ o.stage # "done"

\* Mutant: a request whose answer was lost is sent again too.
RetriesLost(o) == ~o.again /\ (o.reply.code = "CSRF_REJECTED" \/ o.reply.kind = "network")

\* withCsrf tries once more after a rejected token, and only then.
withCsrfRetries(o) == ~o.again /\ o.reply.code = "CSRF_REJECTED"

\* The load is served: with the token of the container.
ServeLoad ==
    \E l \in loads, lost \in BOOLEAN :
        /\ ~l.served /\ DisturbedIf(lost)
        /\ loads' = (loads \ {l}) \cup
                       {[l EXCEPT !.served = TRUE, !.token = IF lost THEN 0 ELSE container]}
        /\ UNCHANGED <<serverVars, csrfToken, csrfRequest, ops, cache, routeVars, pageVars, acts>>

\* The load ends: every mutation that waits for it is sent or fails.
HearLoad ==
    \E l \in loads :
        /\ l.served
        /\ loads' = loads \ {l} /\ csrfRequest' = 0
        /\ csrfToken' = IF l.token = 0 THEN csrfToken ELSE l.token
        /\ LET waiting == {o \in ops : o.stage = "token" /\ o.load = l.id}
               failed == {[o EXCEPT !.stage = "done", !.load = 0, !.reply = Lost] :
                              o \in {w \in waiting : w.mounted = "page"}}
               sent == {[o EXCEPT !.stage = "sent", !.load = 0, !.token = l.token] :
                            o \in waiting} IN
           ops' = (ops \ waiting) \cup (IF l.token = 0 THEN failed ELSE sent)
        /\ UNCHANGED <<serverVars, cache, routeVars, pageVars, acts, faults>>

-----------------------------------------------------------------------------
(* Routes. *)

safeReturnPath(value) == IF value \in Pages THEN value ELSE "home"

\* A guard lets pass ("none") or redirects.  Mutant: the page that changes
\* the password is guarded like the others.
RequireUserEverywhere(p) ==
    CASE session.who = NoOne -> "login"
      [] session.must -> "password"
      [] OTHER -> "none"

requireUser(p) ==
    CASE session.who = NoOne -> "login"
      [] session.must /\ p # "password" -> "password"
      [] OTHER -> "none"

requireAdmin(p) ==
    IF requireUser(p) # "none" THEN requireUser(p)
    ELSE IF session.who \notin Admins THEN "forbidden" ELSE "none"

LoginRoute ==
    CASE session.who = NoOne -> "none"
      [] session.must -> "password"
      [] OTHER -> "home"

Guarded(p) == p \in AdminArea \cup {"login", "password"}

beforeLoad(p) ==
    CASE p \in AdminArea -> requireAdmin(p)
      [] p = "password" -> requireUser(p)
      [] p = "login" -> LoginRoute
      [] OTHER -> "none"

\* navigate({to: p}), with the cache the guard asks for.
Goes(p, returnTo) == going' = p /\ back' = safeReturnPath(returnTo) /\ page' = page

\* window.location.assign: the document goes with all it knows; what was
\* sent will be served.
Reload(p, returnTo) ==
    /\ page' = "blank" /\ going' = p /\ back' = safeReturnPath(returnTo)
    /\ csrfToken' = 0 /\ csrfRequest' = 0 /\ loads' = {}
    /\ cache' = [q \in Queries |-> IF q = "session" THEN Asking(Idle) ELSE Idle]
    /\ draft' = NoDraft /\ temporary' = FALSE

Orphans(set) == {[o EXCEPT !.mounted = "gone"] : o \in {p \in set : p.stage = "sent"}}

-----------------------------------------------------------------------------
(* What the shells and the small pages offer. *)

siteNavigationItems == {"home", "problems"}

adminNavigationEntries == {"admin", "languages", "users"}

\* The entry of the navigation that page p belongs to.
isAdminNavigationLeafActive(entry, p) == p = entry \/ (entry = "languages" /\ p = "language")

AdminNavigation == adminNavigationEntries

\* The trail above an administrator's page: the centre, then the section
\* when the page has a name of its own.
adminBreadcrumbsFor(p) ==
    {entry \in adminNavigationEntries : isAdminNavigationLeafActive(entry, p) /\ p # entry}

AdminBreadcrumbs(p) == {"admin"} \cup adminBreadcrumbsFor(p)

AccountMenuView(inAdmin) ==
    {"password"} \cup (IF isPending("logout") THEN {} ELSE {"logout"})
                 \cup (IF inAdmin THEN {"home"} ELSE {})
                 \cup (IF ~inAdmin /\ session.who \in Admins THEN {"admin"} ELSE {})

AccountMenu(inAdmin) ==
    CASE session = NoData /\ cache["session"].error = 0 -> {}
      [] cache["session"].error # 0 -> {"retry"}
      [] session # NoData /\ session.who = NoOne -> {"login"}
      [] OTHER -> AccountMenuView(inAdmin)

SiteAppShell == {"home"} \cup siteNavigationItems \cup AccountMenu(FALSE)

AdminAppShell(p) == AdminNavigation \cup AdminBreadcrumbs(p) \cup AccountMenu(TRUE)

HomePage ==
    {"problems"} \cup (IF session # NoData /\ session.who \in Admins THEN {"admin"} ELSE {})

ForbiddenPage == {"home"}
=============================================================================
