------------------------------ MODULE SolvePage ------------------------------
(***************************************************************************)
(* The solving page of the web client (features/problems/components/        *)
(* problem-detail-page.tsx) with the two panels that act for an account:    *)
(* the runs of the user's code on the samples and on an input of their own  *)
(* (features/custom-runs) and the submission history (features/submissions/ *)
(* submission-history-panel.tsx).                                           *)
(*                                                                         *)
(* A run is a loop of requests, one per case.  A loop that was invalidated  *)
(* goes on until its pending request ends; the sequence number tells it     *)
(* that it lost its page.  Another tab may log in as somebody else at any   *)
(* time; the page learns it from the session query, and the history is      *)
(* rendered for the new user only a moment later.  The draft in the editor  *)
(* and the submissions have modules of their own (CodeDrafts,               *)
(* SubmissionPanel); here the code is a value that changes.                 *)
(***************************************************************************)
EXTENDS Naturals, FiniteSets

CONSTANTS
    Accounts,       \* the accounts of this browser
    Restricted,     \* those that are disabled or must change their password
    Anonymous,      \* nobody is logged in
    NSamples,       \* how many samples the problem has
    Values,         \* what the server answers a run with
    Codes,          \* texts of the editor that can be run
    Bad,            \* a text that cannot: empty or over 256 KiB
    MaxActs,        \* how often the user acts
    MaxFaults       \* how often something unusual happens

ASSUME SampleAssumption == NSamples \in Nat
ASSUME ValuesAssumption == Values \subseteq {"right", "wrong", "long", "error", "uncompiled"}
ASSUME RestrictedAssumption == Restricted \subseteq Accounts /\ Anonymous \notin Accounts
ASSUME StartAssumption == Accounts \ Restricted # {} /\ Codes # {}    \* somebody opens the page

Own == NSamples + 1                    \* CUSTOM, as a case; as an input, the user's text
Large == NSamples + 2                  \* an input over 64 KiB
Inputs == 0..Large                     \* 0: no text; i <= NSamples: sample i
NoReplace == Large + 1
Pages == 2                             \* pages of an account's history
Verdicts == {"ALL", "AC"}
NoAttempt == [code |-> Bad, custom |-> 0]
NoData == [of |-> Anonymous, under |-> Anonymous, page |-> 0, status |-> "none"]
Idle == [data |-> NoData, error |-> "none", asked |-> {}]

VARIABLES
    account,        \* whom the browser's cookie stands for
    session,        \* the user in the cached session
    sessionError, sessionAsked,
    problem,        \* "loading", "error", "missing", "shown"
    unavailable,    \* the loaded problem could not be confirmed
    code,           \* the text in the editor
    tab,            \* the tab of the results
    custom, replace,            \* the user's own input; what is to replace it
    attempt, outcomes, picked, runError, busy,   \* what RunReport shows
    active, sequence,           \* the refs of the running loop
    loops,          \* the loops that have not ended
    serving,        \* the runs the server executes
    view,           \* search.tab, historyPage, historyVerdict, historySubmissionId
    reader,         \* the user the history is rendered for, Anonymous for none
    list, result, text,         \* its queries; asked: whom the cookie stood for since the request was sent
    acts, faults

sessionVars == <<account, session, sessionError, sessionAsked>>
pageVars == <<problem, unavailable, code>>
runVars == <<tab, custom, replace, attempt, outcomes, picked, runError, busy, active, sequence, loops>>
historyVars == <<view, reader, list, result, text>>
vars == <<sessionVars, pageVars, runVars, serving, historyVars, acts, faults>>

Acted == acts < MaxActs /\ acts' = acts + 1
Disturbed == faults < MaxFaults /\ faults' = faults + 1

-----------------------------------------------------------------------------
(* What the page derives from its queries. *)

Editable(u) == u \in Accounts \ Restricted

\* Why the code cannot be edited.
notice ==
    IF session = "pending" THEN "confirming"
    ELSE IF sessionError THEN "unconfirmed"
    ELSE IF session \in Restricted THEN "restricted"
    ELSE IF session = Anonymous THEN "login"
    ELSE "none"

\* What the bar with that notice offers.
noticeBar ==
    IF sessionError THEN {"retry"}
    ELSE IF session \in Restricted THEN {"password"}
    ELSE IF session = Anonymous THEN {"login"}
    ELSE {}

\* The editor and the workbench exist for one user.
owner == IF problem = "shown" /\ Editable(session) THEN session ELSE Anonymous

disabled == sessionError \/ unavailable

\* What is shown before there is a problem.
PageControls ==
    CASE problem = "error" -> {"retry", "list"}
      [] problem = "missing" -> {"list"}
      [] OTHER -> {}

\* The tab with the history has its own view of the session.
SubmissionHistoryPanel ==
    IF view.tab # "submissions" \/ problem # "shown" THEN "closed"
    ELSE IF session = "pending" THEN "confirming"
    ELSE IF sessionError THEN "unconfirmed"
    ELSE IF session = Anonymous THEN "login"
    ELSE IF session \in Restricted THEN "restricted"
    ELSE "history"

Init ==
    /\ account = (CHOOSE a \in Accounts : Editable(a)) /\ session = "pending"
    /\ sessionError = FALSE /\ sessionAsked = TRUE
    /\ problem = "loading" /\ unavailable = FALSE /\ code = (CHOOSE c \in Codes : TRUE)
    /\ tab = "input" /\ custom = 0 /\ replace = NoReplace
    /\ attempt = NoAttempt /\ outcomes = {} /\ picked = 0 /\ runError = FALSE /\ busy = FALSE
    /\ active = 0 /\ sequence = 0 /\ loops = {} /\ serving = {}
    /\ view = [tab |-> "submissions", page |-> 1, verdict |-> "ALL", id |-> FALSE]
    /\ reader = Anonymous /\ list = Idle /\ result = Idle /\ text = Idle
    /\ acts = 0 /\ faults = 0

-----------------------------------------------------------------------------
(* What a new render does with the panels. *)

\* Mutant: the running state survives.
HiddenBusy ==
    /\ attempt' = NoAttempt /\ outcomes' = {} /\ runError' = FALSE /\ replace' = NoReplace
    /\ UNCHANGED <<tab, custom, picked, busy>>

\* disabled became true: the results go, the input stays.
Hidden ==
    /\ busy' = FALSE /\ attempt' = NoAttempt /\ outcomes' = {} /\ runError' = FALSE
    /\ replace' = NoReplace
    /\ UNCHANGED <<tab, custom, picked>>

\* The component of another user, or none.
Remounted ==
    /\ busy' = FALSE /\ attempt' = NoAttempt /\ outcomes' = {} /\ runError' = FALSE
    /\ replace' = NoReplace /\ tab' = "input" /\ custom' = 0 /\ picked' = 0

\* The effect: the loop loses its page and its request is aborted.
Invalidate == sequence' = sequence + 1 /\ active' = 0 /\ UNCHANGED loops

RunPanelFollows ==
    IF owner' # owner THEN Remounted /\ Invalidate
    ELSE IF disabled' /\ ~disabled THEN Hidden /\ Invalidate
    ELSE UNCHANGED runVars

\* A query that has no data starts again from nothing.
Again(q) == IF q.data = NoData THEN Idle ELSE q

Sent(q) == [Again(q) EXCEPT !.asked = {account}]

\* OwnedHistory is keyed by the user; when it goes, its queries go.
HistoryMounted ==
    IF view.id THEN list' = Idle /\ result' = Sent(Idle) /\ text' = Sent(Idle)
    ELSE list' = Sent(Idle) /\ result' = Idle /\ text' = Idle

HistoryGone == list' = Idle /\ result' = Idle /\ text' = Idle

Reader == IF SubmissionHistoryPanel = "history" THEN session ELSE Anonymous

Rendered ==
    /\ reader' = Reader'
    /\ IF reader' = Anonymous THEN HistoryGone ELSE HistoryMounted

\* React renders the history after its session or its problem changed.
RenderHistory ==
    /\ reader # Reader
    /\ UNCHANGED <<sessionVars, pageVars, runVars, serving, view, acts, faults>>
    /\ Rendered

Follows == RunPanelFollows /\ UNCHANGED historyVars

-----------------------------------------------------------------------------
(* The session query, asked for every 15 seconds, and the problem query. *)

\* Mutant: a failed session is not asked for again.
AskSessionOnce ==
    /\ problem = "shown" /\ ~sessionAsked /\ ~sessionError
    /\ sessionAsked' = TRUE
    /\ UNCHANGED <<account, session, sessionError, pageVars, runVars, serving, historyVars, acts, faults>>

AskSession ==
    /\ problem = "shown" /\ ~sessionAsked
    /\ sessionAsked' = TRUE
    /\ UNCHANGED <<account, session, sessionError, pageVars, runVars, serving, historyVars, acts, faults>>

SessionArrives ==
    /\ sessionAsked
    /\ session' = account /\ sessionError' = FALSE /\ sessionAsked' = FALSE
    /\ UNCHANGED <<account, pageVars, serving, acts, faults>>
    /\ Follows

\* A failed refetch keeps the user it knew; a failed first fetch knows nobody.
SessionFails ==
    /\ sessionAsked /\ Disturbed
    /\ sessionError' = TRUE /\ sessionAsked' = FALSE
    /\ session' = IF session = "pending" THEN Anonymous ELSE session
    /\ UNCHANGED <<account, pageVars, serving, acts>>
    /\ Follows

\* A request under way may be served after the account changed.
Meets(q, a) == IF q.asked = {} THEN q ELSE [q EXCEPT !.asked = @ \cup {a}]

\* Another tab logs in, or out.
AccountChanges(a) ==
    /\ a # account /\ Disturbed
    /\ account' = a
    /\ list' = Meets(list, a) /\ result' = Meets(result, a) /\ text' = Meets(text, a)
    /\ UNCHANGED <<session, sessionError, sessionAsked, pageVars, runVars, serving, view, reader, acts>>

ProblemArrives ==
    /\ problem = "loading" \/ unavailable
    /\ problem' = "shown" /\ unavailable' = FALSE
    /\ UNCHANGED <<sessionVars, code, serving, acts, faults>>
    /\ Follows

\* A failed refetch keeps the problem and makes it unavailable.
ProblemFails(kind) ==
    /\ Disturbed
    /\ \/ problem = "loading" /\ problem' = kind /\ UNCHANGED unavailable
       \/ problem = "shown" /\ ~unavailable /\ unavailable' = TRUE /\ UNCHANGED problem
    /\ UNCHANGED <<sessionVars, code, serving, acts>>
    /\ Follows

RetryProblem ==
    /\ "retry" \in PageControls
    /\ problem' = "loading"
    /\ UNCHANGED <<sessionVars, unavailable, code, serving, acts, faults>>
    /\ Follows

-----------------------------------------------------------------------------
(* A run: its cases and their verdicts. *)

\* All samples, and the user's input when there is some or nothing else.
runCases(c) == IF c # 0 \/ NSamples = 0 THEN 1..Own ELSE 1..NSamples

Input(c, own) == IF c = Own THEN own ELSE c

caseVerdict(value, case) ==
    IF value = "uncompiled" THEN "CE"
    ELSE IF value = "error" THEN "RE"
    ELSE IF case = Own THEN "RAN"
    ELSE IF value = "long" THEN "UNCHECKED"
    ELSE IF value = "right" THEN "AC" ELSE "WA"

failed(v) == v \notin {"AC", "RAN", "UNCHECKED"}

sameUser(u) == session = u

runDisabled == disabled \/ busy \/ custom = Large \/ code = Bad

RunControls == IF owner # Anonymous /\ ~runDisabled THEN {"run"} ELSE {}

\* Mutant: the results of the run before stay.
RunKeeps ==
    /\ "run" \in RunControls /\ active = 0 /\ sameUser(owner) /\ Acted
    /\ sequence' = sequence + 1 /\ active' = sequence + 1
    /\ loops' = loops \cup {[seq |-> sequence + 1, user |-> owner, code |-> code, custom |-> custom,
                             case |-> 1, phase |-> "token", failure |-> 0]}
    /\ attempt' = [code |-> code, custom |-> custom]
    /\ picked' = 1 /\ runError' = FALSE /\ busy' = TRUE /\ tab' = "run"
    /\ UNCHANGED <<sessionVars, pageVars, custom, replace, outcomes, serving, historyVars, faults>>

\* run(), up to its first request.
Run ==
    /\ "run" \in RunControls /\ active = 0 /\ sameUser(owner) /\ Acted
    /\ sequence' = sequence + 1 /\ active' = sequence + 1
    /\ loops' = loops \cup {[seq |-> sequence + 1, user |-> owner, code |-> code, custom |-> custom,
                             case |-> 1, phase |-> "token", failure |-> 0]}
    /\ attempt' = [code |-> code, custom |-> custom]
    /\ outcomes' = {} /\ picked' = 1 /\ runError' = FALSE /\ busy' = TRUE /\ tab' = "run"
    /\ UNCHANGED <<sessionVars, pageVars, custom, replace, serving, historyVars, faults>>

Becomes(l, m) == loops' = (loops \ {l}) \cup {m}

\* The CSRF token came, and the server takes the POST: one run of an account at a
\* time, and only for the account the request names.
Posted(l) ==
    /\ l.phase = "token" /\ account = l.user /\ ~\E e \in serving : e.user = l.user
    /\ serving' = serving \cup {[seq |-> l.seq, user |-> l.user]}
    /\ Becomes(l, [l EXCEPT !.phase = "posted"])
    /\ UNCHANGED <<sessionVars, pageVars, tab, custom, replace, attempt, outcomes, picked, runError, busy,
                   active, sequence, historyVars, acts, faults>>

\* finally
Finally(l) ==
    /\ loops' = loops \ {l}
    /\ IF l.seq = sequence THEN active' = 0 /\ busy' = FALSE ELSE UNCHANGED <<active, busy>>

\* The answer comes.  A loop that lost its page or its user ends; another shows
\* the verdict, and asks for the next case unless there is none or the code does
\* not compile.
Answered(l, value) ==
    LET v == caseVerdict(value, l.case)
        failure == IF failed(v) /\ l.failure = 0 THEN l.case ELSE l.failure
        last == v = "CE" \/ l.case + 1 \notin runCases(l.custom) IN
    /\ l.phase = "posted"
    /\ serving' = {e \in serving : e.seq # l.seq}
    /\ IF l.seq # sequence \/ ~sameUser(l.user)
       THEN Finally(l) /\ UNCHANGED <<outcomes, picked>>
       ELSE /\ outcomes' = {o \in outcomes : o.case # l.case}
                           \cup {[case |-> l.case, verdict |-> v, code |-> l.code,
                                  input |-> Input(l.case, l.custom)]}
            /\ IF last THEN Finally(l) /\ picked' = IF failure # 0 THEN failure ELSE picked
               ELSE /\ Becomes(l, [l EXCEPT !.case = @ + 1, !.phase = "token", !.failure = failure])
                    /\ UNCHANGED <<active, busy, picked>>
    /\ UNCHANGED <<sessionVars, pageVars, tab, custom, replace, attempt, runError, sequence,
                   historyVars, acts, faults>>

\* catch: an error of this run is shown; one about the account renews the session.
Catch(l, changed) ==
    /\ IF l.seq = sequence /\ sameUser(l.user)
       THEN runError' = TRUE /\ sessionAsked' = (sessionAsked \/ changed)
       ELSE UNCHANGED <<runError, sessionAsked>>
    /\ Finally(l)
    /\ UNCHANGED <<account, session, sessionError, pageVars, tab, custom, replace, attempt, outcomes, picked,
                   sequence, serving, historyVars, acts>>

\* The server refuses: another account, or a run of this one is not over.
Refused(l) ==
    /\ l.phase = "token"
    /\ account # l.user \/ \E e \in serving : e.user = l.user
    /\ Catch(l, account # l.user)
    /\ UNCHANGED faults

\* The connection breaks, the 60 seconds pass, or the request was aborted.
Throws(l) ==
    /\ IF l.seq = sequence THEN Disturbed ELSE UNCHANGED faults
    /\ Catch(l, FALSE)

\* The server ends a run that no page waits for.
Unheard(e) ==
    /\ ~\E l \in loops : l.seq = e.seq
    /\ serving' = serving \ {e}
    /\ UNCHANGED <<sessionVars, pageVars, runVars, historyVars, acts, faults>>

-----------------------------------------------------------------------------
(* What the report says of a run. *)

Verdict(c) == IF \E o \in outcomes : o.case = c
              THEN (CHOOSE o \in outcomes : o.case = c).verdict ELSE "none"

\* The one line above the cases; interrupted runs have none.
summary ==
    LET cases == runCases(attempt.custom)
        checked == cases \ {Own}
        done == {c \in cases : Verdict(c) # "none"} IN
    IF attempt = NoAttempt THEN "none"
    ELSE IF \E c \in cases : Verdict(c) = "CE" THEN "compile error"
    ELSE IF busy THEN "running"
    ELSE IF done # cases THEN "none"
    ELSE IF checked = {} THEN "ran"
    ELSE IF \A c \in checked : Verdict(c) = "AC" THEN "all passed"
    ELSE "some passed"

\* The code or the input was changed since.
stale == attempt # NoAttempt /\ (code # attempt.code \/ custom # attempt.custom)

\* The cases that can be looked at.
ReportControls ==
    IF attempt = NoAttempt \/ disabled \/ summary = "compile error" THEN {} ELSE runCases(attempt.custom)

-----------------------------------------------------------------------------
(* What the user does in the workbench. *)

EditCode(c) ==
    /\ owner # Anonymous /\ ~disabled /\ c # code /\ Acted
    /\ code' = c
    /\ UNCHANGED <<sessionVars, problem, unavailable, runVars, serving, historyVars, faults>>

\* The tabs, and a submission that starts and shows itself.
OpenTab(t) ==
    /\ owner # Anonymous /\ t # tab /\ Acted
    /\ tab' = t
    /\ UNCHANGED <<sessionVars, pageVars, custom, replace, attempt, outcomes, picked, runError, busy, active,
                   sequence, loops, serving, historyVars, faults>>

PickCase(c) ==
    /\ owner # Anonymous /\ tab = "run" /\ c \in ReportControls \ {picked} /\ Acted
    /\ picked' = c
    /\ UNCHANGED <<sessionVars, pageVars, tab, custom, replace, attempt, outcomes, runError, busy, active,
                   sequence, loops, serving, historyVars, faults>>

\* The text field of the user's input.
TypeInput(i) ==
    /\ owner # Anonymous /\ tab = "input" /\ ~disabled /\ replace = NoReplace /\ i # custom /\ Acted
    /\ custom' = i
    /\ UNCHANGED <<sessionVars, pageVars, tab, replace, attempt, outcomes, picked, runError, busy, active,
                   sequence, loops, serving, historyVars, faults>>

\* A sample copied into the field, and the field cleared: what was written there
\* goes only after a question.
writeCustom(i) ==
    /\ owner # Anonymous /\ tab = "input" /\ ~disabled /\ replace = NoReplace /\ Acted
    /\ i = 0 => custom # 0
    /\ IF custom # 0 /\ custom # i THEN replace' = i /\ UNCHANGED custom
       ELSE custom' = i /\ UNCHANGED replace
    /\ UNCHANGED <<sessionVars, pageVars, tab, attempt, outcomes, picked, runError, busy, active, sequence,
                   loops, serving, historyVars, faults>>

AnswerReplace(yes) ==
    /\ replace # NoReplace /\ ~disabled
    /\ custom' = IF yes THEN replace ELSE custom
    /\ replace' = NoReplace
    /\ UNCHANGED <<sessionVars, pageVars, tab, attempt, outcomes, picked, runError, busy, active, sequence,
                   loops, serving, historyVars, acts, faults>>

-----------------------------------------------------------------------------
(* The history. *)

OpenView(t) ==
    /\ problem = "shown" /\ view.tab # t /\ Acted
    /\ view' = [view EXCEPT !.tab = t]
    /\ UNCHANGED <<sessionVars, pageVars, runVars, serving, faults>>
    /\ Rendered

private(e) == e \in {"404", "changed"}

shownList == IF private(list.error) THEN NoData ELSE list.data

denied == private(text.error) \/ private(result.error)

\* What the list offers: its filter always, what its pages and its emptiness allow.
ListControls ==
    IF reader = Anonymous \/ view.id THEN {}
    ELSE {"filter"} \cup (IF list.asked # {} THEN {} ELSE {"refresh"})
         \cup (IF shownList = NoData THEN {}
               ELSE (IF view.verdict = "ALL" /\ shownList.page <= Pages THEN {"open"} ELSE {"clear"})
                    \cup (IF shownList.page > 1 THEN {"back"} ELSE {})
                    \cup (IF view.verdict = "ALL" /\ shownList.page < Pages THEN {"forward"} ELSE {}))

\* What the detail offers.
DetailControls ==
    IF reader = Anonymous \/ ~view.id THEN {}
    ELSE {"return"}
         \cup (IF result.error # "none" THEN {"retry result"} ELSE {})
         \cup (IF text.error # "none" THEN {"retry code"} ELSE {})
         \cup (IF ~denied /\ text.data # NoData /\ ~unavailable /\ result.data # NoData /\ result.error = "none"
               THEN {"load"} ELSE {})

\* Mutant: nobody looks whether the user is still the same.
NoCheck == TRUE

\* check() of withHistoryIdentity: the cached session names the reader, who may
\* use the page (Reader is nobody else).
check == session = reader

\* queryFn begins: a request of a reader who is gone is not sent.
Ask(q) == IF check THEN Sent(q) ELSE [Again(q) EXCEPT !.error = "changed"]

\* change: another page, another filter; a query under another key.
ChangeList(page, verdict) ==
    /\ \/ "filter" \in ListControls /\ verdict # view.verdict /\ page = 1
       \/ "back" \in ListControls /\ verdict = view.verdict /\ page \in {shownList.page - 1, 1}
       \/ "forward" \in ListControls /\ verdict = view.verdict /\ page = shownList.page + 1
       \/ "clear" \in ListControls /\ verdict = "ALL" /\ page = 1
    /\ Acted
    /\ view' = [view EXCEPT !.page = page, !.verdict = verdict]
    /\ list' = IF view' = view THEN list ELSE Ask(Idle)
    /\ UNCHANGED <<sessionVars, pageVars, runVars, serving, reader, result, text, faults>>

OpenDetail ==
    /\ "open" \in ListControls /\ Acted
    /\ view' = [view EXCEPT !.id = TRUE]
    /\ result' = Ask(Idle) /\ text' = Ask(Idle)
    /\ UNCHANGED <<sessionVars, pageVars, runVars, serving, reader, list, faults>>

\* onBack: the list, from the cache or anew.
CloseDetail ==
    /\ "return" \in DetailControls /\ Acted
    /\ view' = [view EXCEPT !.id = FALSE]
    /\ result' = Idle /\ text' = Idle
    /\ list' \in {Ask(list)} \cup (IF list.data = NoData THEN {} ELSE {list})
    /\ UNCHANGED <<sessionVars, pageVars, runVars, serving, reader, faults>>

Refetch ==
    /\ \/ "refresh" \in ListControls /\ list' = Ask(list) /\ UNCHANGED <<result, text>>
       \/ "retry result" \in DetailControls /\ result.asked = {}
          /\ result' = Ask(result) /\ UNCHANGED <<list, text>>
       \/ "retry code" \in DetailControls /\ text.asked = {}
          /\ text' = Ask(text) /\ UNCHANGED <<list, result>>
    /\ Acted
    /\ UNCHANGED <<sessionVars, pageVars, runVars, serving, view, reader, faults>>

\* refetchInterval of the result.
PollResult ==
    /\ reader # Anonymous /\ view.id /\ result.asked = {}
    /\ result.error = "none" /\ result.data.status # "DONE"
    /\ result' = Ask(result)
    /\ UNCHANGED <<sessionVars, pageVars, runVars, serving, view, reader, list, text, acts, faults>>

\* The server answers a request that names the reader, with the cookie of a.
ExpectedAccount(a) == IF a = reader THEN "none" ELSE "changed"

\* getSubmission does not name the account: another one has no such submission.
OwnSubmission(a) == IF a = reader THEN "none" ELSE IF a = Anonymous THEN "changed" ELSE "404"

\* withHistoryIdentity: what was read under a user who is gone is thrown away.
withHistoryIdentity(q, error, data) ==
    IF error = "none" /\ check THEN [Idle EXCEPT !.data = data]
    ELSE [q EXCEPT !.asked = {}, !.error = IF error = "none" THEN "changed" ELSE error]

\* A refusal about the account renews the session.
Renew(error) == sessionAsked' = (sessionAsked \/ error = "changed")

\* What is read with the cookie of a.
Read(a, page, status) == [of |-> a, under |-> session, page |-> page, status |-> status]

answerVars == <<account, session, sessionError, pageVars, runVars, serving, view, reader, acts, faults>>

ListArrives ==
    /\ \E a \in list.asked :
           list' = withHistoryIdentity(list, ExpectedAccount(a), Read(a, view.page, "none"))
    /\ Renew(list'.error)
    /\ UNCHANGED <<answerVars, result, text>>

SourceArrives ==
    /\ \E a \in text.asked :
           text' = withHistoryIdentity(text, ExpectedAccount(a), Read(a, 0, "none"))
    /\ Renew(text'.error)
    /\ UNCHANGED <<answerVars, list, result>>

ResultArrives ==
    /\ \E a \in result.asked, status \in {"PENDING", "DONE"} :
           /\ result.data.status = "DONE" => status = "DONE"
           /\ result' = withHistoryIdentity(result, OwnSubmission(a), Read(a, 0, status))
    /\ Renew(result'.error)
    /\ UNCHANGED <<answerVars, list, text>>

\* The connection breaks.
Lost(q) == [q EXCEPT !.asked = {}, !.error = "network"]

HistoryFails ==
    /\ Disturbed
    /\ \/ list.asked # {} /\ list' = Lost(list) /\ UNCHANGED <<result, text>>
       \/ result.asked # {} /\ result' = Lost(result) /\ UNCHANGED <<list, text>>
       \/ text.asked # {} /\ text' = Lost(text) /\ UNCHANGED <<list, result>>
    /\ UNCHANGED <<sessionVars, pageVars, runVars, serving, view, reader, acts>>

\* onLoad and requestLoad: the code of a submission goes into the editor of the
\* same user, when it can be edited.
Load(c) ==
    /\ "load" \in DetailControls /\ Acted
    /\ owner = text.data.of /\ ~disabled
    /\ code' = c
    /\ UNCHANGED <<sessionVars, problem, unavailable, runVars, serving, historyVars, faults>>

-----------------------------------------------------------------------------
(* Specification. *)

Loops ==
    \/ \E l \in loops : Posted(l) \/ Refused(l) \/ \E v \in Values : Answered(l, v)
    \/ \E e \in serving : Unheard(e)

Answers == SessionArrives \/ ProblemArrives \/ ListArrives \/ SourceArrives \/ ResultArrives

Breaks ==
    \/ SessionFails \/ HistoryFails
    \/ \E a \in Accounts \cup {Anonymous} : AccountChanges(a)
    \/ \E k \in {"error", "missing"} : ProblemFails(k)
    \/ \E l \in loops : Throws(l)

User ==
    \/ Run \/ RetryProblem \/ OpenDetail \/ CloseDetail \/ Refetch
    \/ \E c \in Codes \cup {Bad} : EditCode(c)
    \/ \E c \in Codes : Load(c)
    \/ \E t \in {"input", "run", "submission"} : OpenTab(t)
    \/ \E c \in 1..Own : PickCase(c)
    \/ \E i \in {0, Own, Large} : TypeInput(i)
    \/ \E i \in 0..NSamples : writeCustom(i)
    \/ \E yes \in BOOLEAN : AnswerReplace(yes)
    \/ \E t \in {"statement", "submissions"} : OpenView(t)
    \/ \E n \in 1..Pages + 1, v \in Verdicts : ChangeList(n, v)

Next == Loops \/ Answers \/ Breaks \/ User \/ AskSession \/ RenderHistory \/ PollResult

Spec == Init /\ [][Next]_vars

\* Requests are answered or end by their timeout, the loop of a run goes on, and
\* the timer of the session query fires.
Fairness ==
    /\ WF_vars(Loops) /\ WF_vars(SessionArrives) /\ WF_vars(AskSession) /\ WF_vars(ProblemArrives)

FairSpec == Spec /\ Fairness

-----------------------------------------------------------------------------
(* Properties. *)

\* What the report shows was computed from the code and the input of the attempt
\* it names, whatever earlier loops still answer and whatever was edited since;
\* so "all passed" is said of code that passed.
OutcomesAreOfThisAttempt ==
    \A o \in outcomes :
        /\ attempt # NoAttempt /\ o.code = attempt.code
        /\ o.case \in runCases(attempt.custom) /\ o.input = Input(o.case, attempt.custom)

\* The page has at most one loop that it did not invalidate, and knows it: the end
\* of an old loop never lets a second one start beside the new one.
OneLiveRun ==
    \A l \in loops : l.seq = sequence => active = l.seq /\ busy

\* The report is of the one run the page knows: no old loop fills it, ends it or
\* lets another start beside it.
ReportIsOfLiveRun == OutcomesAreOfThisAttempt /\ OneLiveRun

\* A run that is shown as running ends, though its answer, its session or its
\* page may be lost.
RunEnds == []<>~busy

\* What the history shows is of the user it is rendered for, and was taken while
\* the page still knew that user as its own: an answer for somebody else, or one
\* that comes after the session changed and before the history is gone, is
\* thrown away (the comment at submission-history-api.ts:40), although another
\* tab may change the account between the sending, serving and hearing of it.
HistoryIsOwn ==
    \A q \in {list, result, text} :
        q.data # NoData => q.data.of = reader /\ q.data.under = reader

\* When other tabs stop changing the account, the page ends up with it and with a
\* confirmed session: a failed check is repeated.
AccountIsNoticed == <>[](problem = "shown" => session = account /\ ~sessionError)

-----------------------------------------------------------------------------
(* Types, and the invariant behind the properties. *)

Users == Accounts \cup {Anonymous}

Texts == Codes \cup {Bad}

Attempts == [code : Texts, custom : Inputs]

RunLoops ==
    [seq : Nat, user : Accounts, code : Texts, custom : Inputs, case : Nat,
     phase : {"token", "posted"}, failure : Nat]

Outcomes ==
    [case : Nat, verdict : {"CE", "RE", "RAN", "UNCHECKED", "AC", "WA"}, code : Texts, input : Inputs]

Queries ==
    [data : [of : Users, under : Users, page : Nat, status : {"none", "PENDING", "DONE"}],
     error : {"none", "404", "changed", "network"}, asked : SUBSET Users]

Views ==
    [tab : {"statement", "submissions"}, page : Nat, verdict : Verdicts, id : BOOLEAN]

SessionTypes ==
    /\ account \in Users /\ session \in Users \cup {"pending"}
    /\ sessionError \in BOOLEAN /\ sessionAsked \in BOOLEAN

PageTypes ==
    /\ problem \in {"loading", "error", "missing", "shown"} /\ unavailable \in BOOLEAN
    /\ acts \in Nat /\ faults \in Nat
    /\ serving \subseteq [seq : Nat, user : Accounts]

RunTypes ==
    /\ code \in Texts /\ tab \in {"input", "run", "submission"}
    /\ custom \in Inputs /\ replace \in Inputs \cup {NoReplace}
    /\ attempt \in Attempts /\ outcomes \subseteq Outcomes /\ picked \in Nat
    /\ runError \in BOOLEAN /\ busy \in BOOLEAN
    /\ active \in Nat /\ sequence \in Nat /\ loops \subseteq RunLoops

HistoryTypes ==
    /\ view \in Views /\ reader \in Users
    /\ list \in Queries /\ result \in Queries /\ text \in Queries

TypeOK == SessionTypes /\ PageTypes /\ RunTypes /\ HistoryTypes

\* No number is given to two loops.
LoopsAreNumbered ==
    /\ \A l \in loops : l.seq <= sequence
    /\ \A l, m \in loops : l.seq = m.seq => l = m

\* The loop that may write into the report is the one of the attempt it names, and
\* asks for a case of that attempt.
LiveLoopFillsReport ==
    \A l \in loops : l.seq = sequence =>
        /\ attempt # NoAttempt /\ attempt = [code |-> l.code, custom |-> l.custom]
        /\ l.case \in runCases(l.custom)

RunInv == RunTypes /\ LoopsAreNumbered /\ LiveLoopFillsReport /\ ReportIsOfLiveRun

\* The inductive invariant of the page.
PageInv == SessionTypes /\ PageTypes /\ RunInv /\ HistoryTypes /\ HistoryIsOwn
=============================================================================
