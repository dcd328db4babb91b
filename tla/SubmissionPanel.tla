--------------------------- MODULE SubmissionPanel ---------------------------
(***************************************************************************)
(* The submission panel of the solving page (features/submissions/          *)
(* submission-panel.tsx with its recovery record and its requests): one     *)
(* explicit submission is one idempotency key, the request is kept in       *)
(* localStorage before it is sent, and the result is looked up by the key   *)
(* until an id is known, then polled by the id.                             *)
(*                                                                         *)
(* The network may lose a request, deliver it after the page gave up, or    *)
(* lose the answer.  Another tab may switch the account the browser's       *)
(* cookie stands for; only the POST names the account it expects.  A        *)
(* submission is known to the server by the key it was made with, so an id  *)
(* is the number of its key; OldId is the id in a link: an older submission *)
(* of the owner to this problem or to another one, or none of theirs.       *)
(***************************************************************************)
EXTENDS Integers

CONSTANTS
    Sources,        \* the texts of the editor
    Invalid,        \* the empty text and those over 256 KiB
    MaxSends,       \* how many keys are made
    MaxFaults       \* how often something unusual happens

ASSUME InvalidAssumption == Invalid \subseteq Sources
ASSUME SendsAssumption == MaxSends \in Nat

Keys == 1..MaxSends
OldId == MaxSends + 1
None == 0
NoRecovery == [key |-> None, source |-> None, id |-> None]
NoPost == [key |-> None, source |-> None]
NoData == [id |-> None, status |-> "none"]
Gone == {"401", "403", "404"}                    \* errors that end the polling
Refusals == {"400", "403", "404", "413", "422"}  \* errors that say: not accepted
Other == {"409", "5xx", "network", "timeout"}

VARIABLES
    cookie,         \* the account behind the browser's session cookie
    mounted,        \* the page shows the owner's panel
    disabled,       \* the session or the problem cannot be confirmed
    source,         \* the text in the editor
    stored,         \* the recovery record in localStorage
    recovery,       \* the recovery record the component knows
    readError,      \* initial.error: the stored record could not be read
    url,            \* search.submissionId
    notice,         \* the panel shows a notice
    locked,         \* the ref that keeps a second click out
    pending,        \* the request of the running mutation
    wire,           \* POST requests on their way to the server
    reply,          \* the answer on its way to the running mutation
    server,         \* what the server knows of each submission ("elsewhere": it is to another problem)
    shown, error,   \* data and error of the result query
    fetching,       \* what the query asks for
    due,            \* the query has to fetch
    keys,           \* how many keys were made
    posts,          \* history: every POST that was made
    settled,        \* history: keys whose last attempt the page takes for accepted or refused
    faults

client == <<source, stored, recovery, readError, url, notice, locked, pending>>
query == <<shown, error, fetching, due>>
history == <<keys, posts, settled>>
vars == <<cookie, mounted, disabled, client, wire, reply, server, query, history, faults>>

Disturbed == faults < MaxFaults /\ faults' = faults + 1

Init ==
    /\ cookie = "owner" /\ mounted = TRUE /\ disabled = FALSE /\ source \in Sources \ Invalid
    /\ stored = NoRecovery /\ recovery = NoRecovery /\ readError = FALSE
    /\ url = None /\ notice = FALSE /\ locked = FALSE /\ pending = NoPost
    /\ wire = {} /\ reply = "none"
    /\ \E old \in {"DONE", "none", "elsewhere"} :
           server = [k \in Keys \cup {OldId} |-> IF k = OldId THEN old ELSE "none"]
    /\ shown = NoData /\ error = "none" /\ fetching = None /\ due = FALSE
    /\ keys = 0 /\ posts = {} /\ settled = {} /\ faults = 0

-----------------------------------------------------------------------------
(* What the component derives from its state. *)

isPending == pending # NoPost

\* The id or the key the result query is keyed by; a negative number is a key.
Target(u, r) ==
    IF u # None THEN u ELSE IF r.id # None THEN r.id ELSE -r.key

target == Target(url, recovery)

enabled == mounted /\ ~disabled /\ ~isPending /\ target # None

unknown == recovery # NoRecovery /\ shown = NoData /\ recovery.id = None

notAccepted == unknown /\ ~isPending /\ error = "404"

busy == isPending \/ (shown # NoData /\ shown.status # "DONE")

submitDisabled ==
    ~mounted \/ disabled \/ busy \/ (unknown /\ ~notAccepted) \/ source \in Invalid \/ readError

\* What the results area tells: why nothing can be sent or asked, what happened
\* to the last request, that an answer is awaited, the result itself.
ResultNotices ==
    {n \in {"paused", "source", "notice", "error", "confirming", "result"} :
        CASE n = "paused" -> disabled
          [] n = "source" -> source \in Invalid
          [] n = "notice" -> notice
          [] n = "error" -> error # "none" /\ ~isPending
          [] n = "confirming" -> shown = NoData /\ target # None /\ fetching # None
          [] n = "result" -> shown # NoData}

\* The line of the result.
SubmissionResult(v) ==
    CASE v.status = "DONE" -> "verdict" [] v.status = "PENDING" -> "waiting" [] OTHER -> "none"

\* What the results area offers.
ResultControls ==
    IF (unknown \/ error # "none") /\ mounted /\ ~disabled /\ ~isPending
    THEN (IF fetching = None THEN {"confirm"} ELSE {})
         \cup (IF unknown /\ error = "404" THEN {"retry"} ELSE {})
    ELSE {}

\* The buttons above it; the submit button says so while it sends.
ActionControls == IF submitDisabled THEN {} ELSE {"submit"}

\* A query under another key starts from nothing; one under the same key goes on.
Requery(u, r) ==
    IF Target(u, r) = target THEN UNCHANGED query
    ELSE /\ shown' = NoData /\ error' = "none" /\ fetching' = None
         /\ due' = (Target(u, r) # None)

-----------------------------------------------------------------------------
(* send *)

\* The mutation starts: the record is saved first, the link of an older result
\* leaves the address.
Post(r) ==
    /\ stored' = r /\ recovery' = r
    /\ url' = None /\ notice' = FALSE /\ locked' = TRUE
    /\ pending' = [key |-> r.key, source |-> r.source]
    /\ wire' = wire \cup {[key |-> r.key, source |-> r.source, as |-> cookie]}
    /\ posts' = posts \cup {[key |-> r.key, source |-> r.source]}
    /\ settled' = settled \ {r.key}
    /\ reply' = "none"
    /\ Requery(None, r)
    /\ UNCHANGED <<cookie, mounted, disabled, source, readError, server>>

New == [key |-> keys + 1, source |-> source, id |-> None]

\* send(): the code was not changed since the server said it does not know the
\* request, so the same key goes out again.
Resubmit ==
    /\ "submit" \in ActionControls /\ ~locked
    /\ notAccepted /\ recovery.source = source
    /\ Post(recovery)
    /\ UNCHANGED <<keys, faults>>

\* send(): a new key.
Submit ==
    /\ "submit" \in ActionControls /\ ~locked /\ keys < MaxSends
    /\ ~(notAccepted /\ recovery.source = source)
    /\ keys' = keys + 1
    /\ Post(New)
    /\ UNCHANGED faults

\* Mutant: the retry reads the editor.
RetryEdited ==
    /\ "retry" \in ResultControls /\ ~locked
    /\ Post([recovery EXCEPT !.source = source])
    /\ UNCHANGED <<keys, faults>>

\* send(recovery): the original request again.
Retry ==
    /\ "retry" \in ResultControls /\ ~locked
    /\ Post(recovery)
    /\ UNCHANGED <<keys, faults>>

\* setItem throws: nothing is sent.  The record of a request the server does not
\* know was removed before, when the code was changed since.
SaveThrows ==
    /\ "submit" \in ActionControls /\ ~locked /\ Disturbed
    /\ stored' = IF notAccepted /\ recovery.source # source THEN NoRecovery ELSE stored
    /\ notice' = TRUE
    /\ UNCHANGED <<cookie, mounted, disabled, source, recovery, readError, url, locked, pending, wire, reply,
                   server, query, history>>

-----------------------------------------------------------------------------
(* The mutation ends. *)

\* onSuccess and onSettled; saving the id may fail, the address has it.
MutationSucceeds ==
    LET r == [recovery EXCEPT !.key = pending.key, !.source = pending.source, !.id = pending.key] IN
    /\ isPending /\ reply = "accepted"
    /\ \/ stored' = r /\ recovery' = r /\ UNCHANGED <<notice, faults>>
       \/ notice' = TRUE /\ Disturbed /\ UNCHANGED <<stored, recovery>>
    /\ url' = pending.key /\ locked' = FALSE /\ pending' = NoPost /\ reply' = "none"
    /\ settled' = settled \cup {pending.key}
    /\ shown' = NoData /\ error' = "none" /\ fetching' = None /\ due' = TRUE
    /\ UNCHANGED <<cookie, mounted, disabled, source, readError, wire, server, keys, posts>>

\* Mutant: every failure drops the recovery record.
MutationFailsForgetting ==
    /\ isPending /\ reply \in Refusals \cup Other
    /\ stored' = NoRecovery /\ recovery' = NoRecovery
    /\ notice' = TRUE /\ locked' = FALSE /\ pending' = NoPost /\ reply' = "none"
    /\ settled' = IF reply \in Refusals THEN settled \cup {pending.key} ELSE settled
    /\ shown' = NoData /\ error' = "none" /\ fetching' = None /\ due' = (url # None)
    /\ UNCHANGED <<cookie, mounted, disabled, source, readError, url, wire, server, keys, posts, faults>>

\* onError and onSettled: only a refusal drops the recovery record.
MutationFails ==
    LET r == IF reply \in Refusals THEN NoRecovery ELSE recovery IN
    /\ isPending /\ reply \in Refusals \cup Other
    /\ recovery' = r
    /\ stored' = IF reply \in Refusals THEN NoRecovery ELSE stored
    /\ notice' = TRUE /\ locked' = FALSE /\ pending' = NoPost /\ reply' = "none"
    /\ settled' = IF reply \in Refusals THEN settled \cup {pending.key} ELSE settled
    /\ shown' = NoData /\ error' = "none" /\ fetching' = None /\ due' = (Target(url, r) # None)
    /\ UNCHANGED <<cookie, mounted, disabled, source, readError, url, wire, server, keys, posts, faults>>

-----------------------------------------------------------------------------
(* The requests, as the network and the server see them. *)

Answer(m, answer) ==
    reply' = IF isPending /\ pending.key = m.key /\ reply = "none" THEN answer ELSE reply

Unsettling == <<cookie, mounted, disabled, client, query, history>>

\* The account of the cookie is not the expected one.
PostRefusedForAccount(m) ==
    /\ m.as = "other"
    /\ wire' = wire \ {m}
    /\ Answer(m, "409")
    /\ UNCHANGED <<Unsettling, server, faults>>

\* A key the server knows is answered as before.
PostAccepted(m) ==
    /\ m.as = "owner"
    /\ wire' = wire \ {m}
    /\ server' = [server EXCEPT ![m.key] = IF @ = "none" THEN "PENDING" ELSE @]
    /\ Answer(m, "accepted")
    /\ UNCHANGED <<Unsettling, faults>>

PostRefused(m) ==
    /\ m.as = "owner" /\ server[m.key] = "none" /\ Disturbed
    /\ wire' = wire \ {m}
    /\ Answer(m, "422")
    /\ UNCHANGED <<Unsettling, server>>

PostLost(m) ==
    /\ Disturbed
    /\ wire' = wire \ {m}
    /\ UNCHANGED <<Unsettling, server, reply>>

\* AbortSignal.timeout: 25 seconds, whatever became of the request.
PostTimesOut ==
    /\ isPending /\ reply = "none"
    /\ IF \E m \in wire : m.key = pending.key THEN Disturbed ELSE UNCHANGED faults
    /\ reply' = "timeout"
    /\ UNCHANGED <<Unsettling, wire, server>>

AnswerLost ==
    /\ isPending /\ reply = "accepted" /\ Disturbed
    /\ reply' = "network"
    /\ UNCHANGED <<Unsettling, wire, server>>

Judged(k) ==
    /\ server[k] = "PENDING"
    /\ server' = [server EXCEPT ![k] = "DONE"]
    /\ UNCHANGED <<Unsettling, wire, reply, faults>>

-----------------------------------------------------------------------------
(* The result query. *)

\* Mutant: an error that is not a refusal ends the polling too.
pollsBriefly == shown.status # "DONE" /\ error = "none"

\* refetchInterval
polls == shown.status # "DONE" /\ error \notin Gone

Fetch ==
    /\ enabled /\ fetching = None /\ (due \/ polls)
    /\ fetching' = target /\ due' = FALSE
    /\ error' = IF shown = NoData THEN "none" ELSE error
    /\ UNCHANGED <<cookie, mounted, disabled, client, wire, reply, server, shown, history, faults>>

Known(t) == cookie = "owner" /\ server[IF t < 0 THEN -t ELSE t] # "none"

\* getSubmission: the submission with this id.
ResultArrives ==
    /\ fetching > 0 /\ Known(fetching) /\ server[fetching] # "elsewhere"
    /\ shown' = [id |-> fetching, status |-> server[fetching]] /\ error' = "none"
    /\ fetching' = None
    /\ UNCHANGED <<cookie, mounted, disabled, client, wire, reply, server, due, history, faults>>

\* The submission is to another problem: queryFn throws a plain error, which does
\* not end the polling.
WrongProblem ==
    /\ fetching > 0 /\ Known(fetching) /\ server[fetching] = "elsewhere"
    /\ error' = "problem" /\ fetching' = None
    /\ UNCHANGED <<cookie, mounted, disabled, client, wire, reply, server, shown, due, history, faults>>

\* findSubmission: the request is known; the address gets its id.
RequestFound ==
    /\ fetching < 0 /\ Known(fetching)
    /\ url' = -fetching
    /\ settled' = settled \cup {-fetching}
    /\ shown' = NoData /\ error' = "none" /\ fetching' = None /\ due' = TRUE
    /\ UNCHANGED <<cookie, mounted, disabled, source, stored, recovery, readError, notice, locked,
                   pending, wire, reply, server, keys, posts, faults>>

\* Neither lookup says whose submission is meant; the request the page waits for
\* is now taken for one that was not accepted.
NotFound ==
    /\ fetching # None /\ ~Known(fetching)
    /\ error' = "404" /\ fetching' = None
    /\ settled' = IF unknown /\ ~isPending THEN settled \cup {recovery.key} ELSE settled
    /\ UNCHANGED <<cookie, mounted, disabled, client, wire, reply, server, shown, due, keys, posts,
                   faults>>

FetchFails ==
    /\ fetching # None /\ Disturbed
    /\ \E e \in {"401", "5xx"} : error' = e
    /\ fetching' = None
    /\ UNCHANGED <<cookie, mounted, disabled, client, wire, reply, server, shown, due, history>>

\* The button, or the window's focus.
Refetch ==
    /\ "confirm" \in ResultControls \/ (enabled /\ shown = NoData)
    /\ due' = TRUE
    /\ UNCHANGED <<cookie, mounted, disabled, client, wire, reply, server, shown, error, fetching,
                   history, faults>>

-----------------------------------------------------------------------------
(* The page around the panel. *)

Edit(s) ==
    /\ mounted /\ ~disabled /\ s # source
    /\ source' = s
    /\ UNCHANGED <<cookie, mounted, disabled, stored, recovery, readError, url, notice, locked,
                   pending, wire, reply, server, query, history, faults>>

\* The component mounts: it reads the recovery record, which may fail.
Mount(link) ==
    /\ mounted' = TRUE /\ disabled' = FALSE
    /\ \/ recovery' = stored /\ readError' = FALSE
       \/ recovery' = NoRecovery /\ readError' = TRUE /\ stored # NoRecovery
    /\ url' = link /\ notice' = readError' /\ locked' = FALSE /\ pending' = NoPost /\ reply' = "none"
    /\ shown' = NoData /\ error' = "none" /\ fetching' = None
    /\ due' = (Target(link, recovery') # None)
    /\ UNCHANGED <<cookie, source, stored, wire, server, history>>

\* A reload, and a link to an older submission.
Reload == mounted /\ Disturbed /\ Mount(url)

OpenLink == mounted /\ Disturbed /\ Mount(OldId)

\* Another tab logs in as somebody else; the session query notices, some time
\* later, and the page drops the owner's panel.
SwitchAccount ==
    /\ cookie = "owner" /\ Disturbed
    /\ cookie' = "other"
    /\ UNCHANGED <<mounted, disabled, client, wire, reply, server, query, history>>

SwitchBack ==
    /\ cookie = "other"
    /\ cookie' = "owner"
    /\ UNCHANGED <<mounted, disabled, client, wire, reply, server, query, history, faults>>

IdentityLost ==
    /\ mounted /\ cookie = "other"
    /\ mounted' = FALSE
    /\ pending' = NoPost /\ reply' = "none" /\ locked' = FALSE
    /\ recovery' = NoRecovery /\ notice' = FALSE /\ readError' = FALSE
    /\ shown' = NoData /\ error' = "none" /\ fetching' = None /\ due' = FALSE
    /\ UNCHANGED <<cookie, disabled, source, stored, url, wire, server, history, faults>>

IdentityBack == ~mounted /\ cookie = "owner" /\ Mount(url) /\ UNCHANGED faults

\* The session query fails, and succeeds again; the panel stays.
SessionFails ==
    /\ mounted /\ ~disabled /\ Disturbed
    /\ disabled' = TRUE
    /\ UNCHANGED <<cookie, mounted, client, wire, reply, server, query, history>>

SessionRecovers ==
    /\ disabled
    /\ disabled' = FALSE
    /\ due' = (due \/ shown = NoData)
    /\ UNCHANGED <<cookie, mounted, client, wire, reply, server, shown, error, fetching, history, faults>>
-----------------------------------------------------------------------------
(* Specification. *)

Sending == Resubmit \/ Submit \/ Retry \/ SaveThrows

MutationEnds == MutationSucceeds \/ MutationFails

Served == \E m \in wire : PostRefusedForAccount(m) \/ PostAccepted(m)

Unserved == \/ \E m \in wire : PostRefused(m) \/ PostLost(m)
            \/ PostTimesOut \/ AnswerLost

Answered == ResultArrives \/ WrongProblem \/ RequestFound \/ NotFound

Around ==
    \/ \E s \in Sources : Edit(s)
    \/ Reload \/ OpenLink \/ SwitchAccount \/ SwitchBack
    \/ IdentityLost \/ IdentityBack \/ SessionFails \/ SessionRecovers

Next ==
    \/ Sending \/ MutationEnds
    \/ Served \/ Unserved \/ \E k \in Keys : Judged(k)
    \/ Fetch \/ Answered \/ FetchFails \/ Refetch
    \/ Around

Spec == Init /\ [][Next]_vars

\* A timer of the page fires, a request is answered or times out, and the judge
\* finishes what it accepted.  The user, and the other tab, do what they like.
FairSpec ==
    /\ Spec
    /\ WF_vars(Fetch) /\ WF_vars(Answered) /\ WF_vars(MutationEnds)
    /\ WF_vars(PostTimesOut) /\ WF_vars(Served)
    /\ \A k \in Keys : WF_vars(Judged(k))

-----------------------------------------------------------------------------
(* Properties. *)

\* One key never carries two bodies: whatever is edited between an attempt, its
\* timeout, a reload and the retry, the server can answer a repeated key with the
\* submission it already has (submission-panel.tsx, save and send).
OneBodyPerKey == \A p, q \in posts : p.key = q.key => p.source = q.source

\* As long as the page does not take the last request for accepted or refused, its
\* key and its body are in the storage, so that a reload can ask for it: through
\* lost answers, failed reads of the storage and another tab's account.
LastRequestIsRecoverable ==
    keys # 0 /\ keys \notin settled =>
        /\ stored.key = keys
        /\ [key |-> keys, source |-> stored.source] \in posts

\* A confirmed page never keeps the button from the user without a way on: it is
\* asking or about to ask, the judge is at work on what it shows, it offers to
\* ask again, or it says what keeps it.
NeverStuck ==
    mounted /\ ~disabled /\ "submit" \notin ActionControls =>
        \/ isPending
        \/ enabled /\ (due \/ polls \/ fetching # None)
        \/ "confirm" \in ResultControls
        \/ {"source", "notice"} \cap ResultNotices # {}

\* The user can always learn what became of the last request: its key and body
\* are kept, and the page offers a way on.
FateCanBeLearned == LastRequestIsRecoverable /\ NeverStuck

\* The answer that unlocks the button for a request of unknown fate is the answer
\* to the lookup by its key ("looked up by its idempotency key and not found: the
\* server never accepted it", the comment on notAccepted).
NotAcceptedIsOfTheKey == notAccepted => target = -recovery.key

\* The page waits for an answer about some request: it has neither the verdict nor
\* an error that tells the user to act, to sign in, to send again or to open the
\* problem the submission belongs to.
Waiting ==
    /\ mounted /\ ~disabled /\ target # None
    /\ SubmissionResult(shown) # "verdict" /\ error \notin Gone \cup {"problem"}

\* The panel never leaves the user waiting: a lost request, a lost answer or a
\* failed poll ends in the verdict, or in an error that tells the user to act.  It
\* does not say that the polling ends: for a link to a submission of another
\* problem the page asks again and again (submission-panel.tsx:132-140 stops only
\* for 401, 403 and 404), and its message is back after every answer.
NeverWaitsForever == []<>~Waiting

-----------------------------------------------------------------------------
(* Types, and the invariant behind OneBodyPerKey and FateCanBeLearned. *)

Recoveries == {NoRecovery} \cup [key : Keys, source : Sources, id : Keys \cup {None}]

Requests == [key : Keys, source : Sources]

Statuses == {"none", "PENDING", "DONE", "elsewhere"}

\* Every variable has its type.
TypeOK ==
    /\ cookie \in {"owner", "other"} /\ mounted \in BOOLEAN /\ disabled \in BOOLEAN
    /\ source \in Sources /\ stored \in Recoveries /\ recovery \in Recoveries
    /\ readError \in BOOLEAN /\ url \in Keys \cup {None, OldId} /\ notice \in BOOLEAN
    /\ locked \in BOOLEAN /\ pending \in Requests \cup {NoPost}
    /\ wire \subseteq [key : Keys, source : Sources, as : {"owner", "other"}]
    /\ reply \in {"none", "accepted"} \cup Refusals \cup Other
    /\ server \in [Keys \cup {OldId} -> Statuses]
    /\ shown \in [id : Keys \cup {None, OldId}, status : Statuses]
    /\ error \in {"none", "401", "404", "5xx", "problem"}
    /\ fetching \in -MaxSends..OldId /\ due \in BOOLEAN
    /\ keys \in 0..MaxSends /\ posts \subseteq Requests /\ settled \subseteq Keys /\ faults \in Nat

\* A record or a running mutation is of a request that was sent, and no key was
\* sent before it was made.
Sent(r) == [key |-> r.key, source |-> r.source] \in posts

RequestsWereSent ==
    /\ \A p \in posts : p.key <= keys
    /\ \A r \in {stored, recovery} : r # NoRecovery => Sent(r)
    /\ isPending => Sent(pending) /\ recovery.key = pending.key

\* While the fate of the last request is open, it is the one the component and
\* the storage know; a lookup that failed settles the request it unlocks.
LastIsKnown ==
    /\ keys # 0 /\ keys \notin settled =>
          stored.key = keys /\ (recovery = NoRecovery \/ recovery.key = keys)
    /\ notAccepted => recovery.key \in settled

\* What is fetched or shown is what the query is keyed by; a page that could not
\* read its record says so and knows none.
QueryFits ==
    /\ fetching # None => fetching = target
    /\ shown # NoData => target # None
    /\ readError => notice /\ recovery = NoRecovery /\ ~isPending

\* The inductive invariant.
PanelInv == TypeOK /\ OneBodyPerKey /\ RequestsWereSent /\ LastIsKnown /\ QueryFits
=============================================================================
