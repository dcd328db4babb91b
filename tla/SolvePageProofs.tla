--------------------------- MODULE SolvePageProofs ---------------------------
(***************************************************************************)
(* The report of the solving page is of the run the page knows, and its     *)
(* history is of its user, for any number of samples, accounts, texts,      *)
(* acts and faults.  RunInv numbers the loops and ties the live one to the  *)
(* attempt it fills; the history needs only its types beside HistoryIsOwn.  *)
(***************************************************************************)
EXTENDS SolvePage, TLAPS

\* The first case of a run exists: a sample, or the user's own input.
LEMMA FirstCase == \A c \in Inputs : 1 \in runCases(c)
  BY SampleAssumption DEF runCases, Own

\* A case of a run is a number, and its input is one.
LEMMA CaseInput ==
  ASSUME NEW own \in Inputs, NEW c \in runCases(own)
  PROVE  c \in Nat /\ Input(c, own) \in Inputs
  BY SampleAssumption DEF runCases, Input, Own, Inputs, Large

\* The page that starts satisfies the invariant.
LEMMA PageInit == Init => PageInv
<1> SUFFICES ASSUME Init PROVE PageInv
  OBVIOUS
<1>1. account \in Accounts \ Restricted /\ session = "pending"
  <2>1. \E a \in Accounts : Editable(a)
    BY StartAssumption DEF Editable
  <2> QED
    BY <2>1 DEF Init, Editable
<1>2. SessionTypes
  BY <1>1 DEF Init, SessionTypes, Users
<1>3. PageTypes
  BY DEF Init, PageTypes
<1>4. code \in Texts
  <2>1. \E c \in Codes : TRUE
    BY StartAssumption
  <2> QED
    BY <2>1 DEF Init, Texts
<1>5. RunTypes
  <2>1. NoAttempt \in Attempts /\ 0 \in Inputs
    BY SampleAssumption DEF NoAttempt, Attempts, Texts, Inputs, Large
  <2>2. runError \in BOOLEAN /\ busy \in BOOLEAN
    BY DEF Init
  <2> QED
    BY <1>4, <2>1, <2>2 DEF Init, RunTypes
<1>6. LoopsAreNumbered /\ LiveLoopFillsReport /\ ReportIsOfLiveRun
  BY DEF Init, LoopsAreNumbered, LiveLoopFillsReport, ReportIsOfLiveRun,
         OutcomesAreOfThisAttempt, OneLiveRun
<1>7. Idle \in Queries /\ Idle.data = NoData
  BY DEF Idle, NoData, Queries, Users
<1>8. HistoryTypes /\ HistoryIsOwn
  BY <1>7 DEF Init, HistoryTypes, Views, Verdicts, HistoryIsOwn, Users
<1> QED
  BY <1>2, <1>3, <1>5, <1>6, <1>8 DEF PageInv, RunInv

-----------------------------------------------------------------------------
(* The report. *)

\* A step that leaves the run panel alone keeps its invariant.
LEMMA RunUnchanged ==
  ASSUME RunInv, UNCHANGED runVars, code' \in Texts
  PROVE  RunInv'
  BY DEF RunInv, runVars, RunTypes, LoopsAreNumbered, LiveLoopFillsReport, ReportIsOfLiveRun,
         OutcomesAreOfThisAttempt, OneLiveRun

\* A step that leaves the loops and the report alone keeps their invariant.
LEMMA ReportUnchanged ==
  ASSUME RunInv, RunTypes', UNCHANGED <<attempt, outcomes, busy, active, sequence, loops>>
  PROVE  RunInv'
  BY DEF RunInv, LoopsAreNumbered, LiveLoopFillsReport, ReportIsOfLiveRun,
         OutcomesAreOfThisAttempt, OneLiveRun

\* A report that was cleared while its loop was invalidated is of no run.
LEMMA Cleared ==
  ASSUME RunInv, RunTypes', outcomes' = {}, Invalidate
  PROVE  RunInv'
<1>1. \A l \in loops' : l.seq \in Nat /\ l.seq <= sequence /\ l.seq # sequence'
  BY DEF RunInv, RunTypes, RunLoops, LoopsAreNumbered, Invalidate
<1>2. LoopsAreNumbered'
  BY <1>1 DEF RunInv, RunTypes, LoopsAreNumbered, Invalidate
<1> QED
  BY <1>1, <1>2 DEF RunInv, LiveLoopFillsReport, ReportIsOfLiveRun,
         OutcomesAreOfThisAttempt, OneLiveRun

\* What a new render does with the run panel keeps the invariant.
LEMMA RunFollows ==
  ASSUME RunInv, RunPanelFollows, UNCHANGED code
  PROVE  RunInv'
<1>1. NoAttempt \in Attempts /\ 0 \in Inputs
  BY SampleAssumption DEF NoAttempt, Attempts, Texts, Inputs, Large
<1>2. CASE Remounted /\ Invalidate
  <2>1. busy' \in BOOLEAN /\ runError' \in BOOLEAN
    BY <1>2 DEF Remounted
  <2>2. RunTypes'
    BY <1>1, <1>2, <2>1 DEF RunInv, RunTypes, Remounted, Invalidate
  <2> QED
    BY <1>2, <2>2, Cleared DEF Remounted
<1>3. CASE Hidden /\ Invalidate
  <2>1. busy' \in BOOLEAN /\ runError' \in BOOLEAN
    BY <1>3 DEF Hidden
  <2>2. RunTypes'
    BY <1>1, <1>3, <2>1 DEF RunInv, RunTypes, Hidden, Invalidate
  <2> QED
    BY <1>3, <2>2, Cleared DEF Hidden
<1>4. CASE UNCHANGED runVars
  BY <1>4, RunUnchanged DEF RunInv, RunTypes
<1> QED
  BY <1>2, <1>3, <1>4 DEF RunPanelFollows

\* A new run: its number is larger than every other, and the report is empty.
LEMMA RunStarts ==
  ASSUME RunInv, SessionTypes, Run
  PROVE  RunInv'
<1> DEFINE n == [seq |-> sequence + 1, user |-> owner, code |-> code, custom |-> custom,
                 case |-> 1, phase |-> "token", failure |-> 0]
<1>1. owner \in Accounts /\ code # Bad
  BY DEF Run, RunControls, runDisabled, owner, Editable
<1>2. n \in RunLoops /\ n.seq = sequence + 1 /\ n.code = code /\ n.custom = custom /\ n.case = 1
  BY <1>1 DEF RunInv, RunTypes, RunLoops
<1>3. loops' = loops \cup {n} /\ sequence' = sequence + 1 /\ sequence \in Nat
  BY DEF Run, RunInv, RunTypes
<1>4. attempt' = [code |-> code, custom |-> custom] /\ outcomes' = {} /\ busy' = TRUE
        /\ active' = sequence + 1
  BY DEF Run
<1> HIDE DEF n
<1>5. \A l \in loops : l.seq \in Nat /\ l.seq <= sequence
  BY DEF RunInv, RunTypes, RunLoops, LoopsAreNumbered
<1>6. RunTypes'
  <2>1. attempt' \in Attempts
    BY <1>4 DEF RunInv, RunTypes, Attempts
  <2>2. loops' \subseteq RunLoops
    BY <1>2, <1>3 DEF RunInv, RunTypes
  <2>3. busy' \in BOOLEAN /\ runError' \in BOOLEAN
    BY DEF Run
  <2>4. code' = code /\ custom' = custom /\ replace' = replace /\ picked' = 1 /\ tab' = "run"
    BY DEF Run, pageVars
  <2>5. outcomes' \subseteq Outcomes /\ active' \in Nat /\ sequence' \in Nat
    BY <1>3, <1>4
  <2> QED
    BY <2>1, <2>2, <2>3, <2>4, <2>5 DEF RunInv, RunTypes
<1>7. LoopsAreNumbered'
  <2>1. \A l \in loops' : l.seq <= sequence'
    BY <1>2, <1>3, <1>5
  <2>2. \A l, m \in loops' : l.seq = m.seq => l = m
    BY <1>2, <1>3, <1>5 DEF RunInv, LoopsAreNumbered
  <2> QED
    BY <2>1, <2>2 DEF LoopsAreNumbered
<1>8. \A l \in loops' : l.seq = sequence' => l = n
  BY <1>2, <1>3, <1>5
<1>9. attempt' # NoAttempt
  BY <1>1, <1>4 DEF NoAttempt
<1>10. LiveLoopFillsReport'
  <2>1. 1 \in runCases(custom)
    BY FirstCase DEF RunInv, RunTypes
  <2>2. attempt' = [code |-> n.code, custom |-> n.custom] /\ n.case \in runCases(n.custom)
    BY <1>2, <1>4, <2>1
  <2> QED
    BY <1>8, <1>9, <2>2 DEF LiveLoopFillsReport
<1>11. ReportIsOfLiveRun'
  BY <1>2, <1>3, <1>4, <1>8 DEF ReportIsOfLiveRun, OutcomesAreOfThisAttempt, OneLiveRun
<1> QED
  BY <1>6, <1>7, <1>10, <1>11 DEF RunInv

\* A loop that asks for the case it was at, or the next one of its attempt, stays
\* the loop of its number.
LEMMA LoopGoesOn ==
  ASSUME RunInv, RunTypes',
         NEW l \in loops, NEW m \in RunLoops, Becomes(l, m),
         m.seq = l.seq, m.code = l.code, m.custom = l.custom,
         l.seq = sequence => m.case \in runCases(m.custom),
         OutcomesAreOfThisAttempt', UNCHANGED <<attempt, busy, active, sequence>>
  PROVE  RunInv'
<1>1. loops' = (loops \ {l}) \cup {m}
  BY DEF Becomes
<1>2. LoopsAreNumbered'
  BY <1>1 DEF RunInv, LoopsAreNumbered
<1>3. LiveLoopFillsReport'
  BY <1>1 DEF RunInv, LiveLoopFillsReport
<1>4. OneLiveRun'
  BY <1>1 DEF RunInv, ReportIsOfLiveRun, OneLiveRun
<1> QED
  BY <1>2, <1>3, <1>4 DEF RunInv, ReportIsOfLiveRun

\* The end of a loop: of the live one, no other is left; an old one changes nothing.
LEMMA LoopEnds ==
  ASSUME RunInv, RunTypes', NEW l \in loops, Finally(l),
         OutcomesAreOfThisAttempt', UNCHANGED <<attempt, sequence>>
  PROVE  RunInv'
<1>1. loops' = loops \ {l}
  BY DEF Finally
<1>2. LoopsAreNumbered' /\ LiveLoopFillsReport'
  BY <1>1 DEF RunInv, LoopsAreNumbered, LiveLoopFillsReport
<1>3. OneLiveRun'
  <2>1. CASE l.seq = sequence
    BY <1>1, <2>1 DEF RunInv, LoopsAreNumbered, OneLiveRun
  <2>2. CASE l.seq # sequence
    BY <1>1, <2>2 DEF Finally, RunInv, ReportIsOfLiveRun, OneLiveRun
  <2> QED
    BY <2>1, <2>2
<1> QED
  BY <1>2, <1>3 DEF RunInv, ReportIsOfLiveRun

\* The types of what the end of a loop writes.
LEMMA FinallyTypes ==
  ASSUME RunInv, NEW l \in loops, Finally(l)
  PROVE  active' \in Nat /\ busy' \in BOOLEAN /\ loops' \subseteq RunLoops
<1>1. loops' \subseteq RunLoops
  BY DEF RunInv, RunTypes, Finally
<1>2. active' \in Nat
  BY DEF RunInv, RunTypes, Finally
<1>3. busy' \in BOOLEAN
  BY DEF RunInv, RunTypes, Finally
<1> QED
  BY <1>1, <1>2, <1>3

\* The server takes the request of a loop.
LEMMA PostedKeeps ==
  ASSUME RunInv, NEW l \in loops, Posted(l)
  PROVE  RunInv'
<1> DEFINE m == [l EXCEPT !.phase = "posted"]
<1>1. l \in RunLoops
  BY DEF RunInv, RunTypes
<1>2. m \in RunLoops /\ m.seq = l.seq /\ m.code = l.code /\ m.custom = l.custom /\ m.case = l.case
  BY <1>1 DEF RunLoops
<1>3. Becomes(l, m)
  BY DEF Posted
<1> HIDE DEF m
<1>4. RunTypes'
  BY <1>2, <1>3 DEF RunInv, RunTypes, Posted, Becomes, pageVars
<1>5. l.seq = sequence => m.case \in runCases(m.custom)
  BY <1>2 DEF RunInv, LiveLoopFillsReport
<1>6. OutcomesAreOfThisAttempt'
  BY DEF RunInv, ReportIsOfLiveRun, OutcomesAreOfThisAttempt, Posted
<1> QED
  BY <1>2, <1>3, <1>4, <1>5, <1>6, LoopGoesOn DEF Posted

\* A loop that goes to another case is a loop.
LEMMA NextCase ==
  ASSUME NEW l \in RunLoops, NEW f \in Nat
  PROVE  LET m == [l EXCEPT !.case = l.case + 1, !.phase = "token", !.failure = f] IN
         /\ m \in RunLoops
         /\ m.seq = l.seq /\ m.code = l.code /\ m.custom = l.custom /\ m.case = l.case + 1
<1>1. l.case + 1 \in Nat
  BY DEF RunLoops
<1> QED
  BY <1>1 DEF RunLoops

\* The answer of the live loop is of the attempt that is shown.
LEMMA AnsweredKeeps ==
  ASSUME RunInv, NEW l \in loops, NEW value \in Values, Answered(l, value)
  PROVE  RunInv'
<1> DEFINE v == caseVerdict(value, l.case)
           failure == IF failed(v) /\ l.failure = 0 THEN l.case ELSE l.failure
           o == [case |-> l.case, verdict |-> v, code |-> l.code, input |-> Input(l.case, l.custom)]
           m == [l EXCEPT !.case = l.case + 1, !.phase = "token", !.failure = failure]
<1>1. l \in RunLoops
  BY DEF RunInv, RunTypes
<1>2. code' \in Texts /\ tab' = tab /\ custom' = custom /\ replace' = replace /\ attempt' = attempt
        /\ runError' = runError /\ sequence' = sequence /\ code' = code
  BY DEF RunInv, RunTypes, Answered, pageVars
<1>3. CASE l.seq # sequence \/ ~sameUser(l.user)
  <2>1. Finally(l) /\ outcomes' = outcomes /\ picked' = picked
    BY <1>3 DEF Answered
  <2>2. RunTypes'
    BY <1>2, <2>1, FinallyTypes DEF RunInv, RunTypes
  <2>3. OutcomesAreOfThisAttempt'
    BY <1>2, <2>1 DEF RunInv, ReportIsOfLiveRun, OutcomesAreOfThisAttempt
  <2> QED
    BY <1>2, <2>1, <2>2, <2>3, LoopEnds
<1>4. CASE l.seq = sequence /\ sameUser(l.user)
  <2>1. outcomes' = {p \in outcomes : p.case # l.case} \cup {o}
    BY <1>4 DEF Answered
  <2>2. attempt # NoAttempt /\ attempt = [code |-> l.code, custom |-> l.custom]
          /\ l.case \in runCases(l.custom)
    BY <1>4 DEF RunInv, LiveLoopFillsReport
  <2>3. v \in {"CE", "RE", "RAN", "UNCHECKED", "AC", "WA"}
    BY DEF caseVerdict
  <2>4. l.custom \in Inputs /\ l.case \in Nat /\ l.code \in Texts /\ l.failure \in Nat
    BY <1>1 DEF RunLoops
  <2>5. failure \in Nat
    BY <2>4
  <2> HIDE DEF v, failure
  <2>6. o \in Outcomes /\ o.case = l.case /\ o.code = l.code /\ o.input = Input(l.case, l.custom)
    BY <2>2, <2>3, <2>4, CaseInput DEF Outcomes
  <2>7. m \in RunLoops /\ m.seq = l.seq /\ m.code = l.code /\ m.custom = l.custom /\ m.case = l.case + 1
    BY <1>1, <2>4, <2>5, NextCase
  <2> HIDE DEF o
  <2>8. outcomes' \subseteq Outcomes
    BY <2>1, <2>6 DEF RunInv, RunTypes
  <2>9. OutcomesAreOfThisAttempt'
    BY <1>2, <2>1, <2>2, <2>6 DEF RunInv, ReportIsOfLiveRun, OutcomesAreOfThisAttempt
  <2>10. \/ Finally(l) /\ picked' = (IF failure # 0 THEN failure ELSE picked)
         \/ /\ l.case + 1 \in runCases(l.custom)
            /\ Becomes(l, m) /\ UNCHANGED <<active, busy, picked>>
    BY <1>4 DEF Answered, failure, v
  <2>11. CASE Finally(l) /\ picked' = (IF failure # 0 THEN failure ELSE picked)
    <3>1. RunTypes'
      BY <1>2, <2>5, <2>8, <2>11, FinallyTypes DEF RunInv, RunTypes
    <3> QED
      BY <1>2, <2>9, <2>11, <3>1, LoopEnds
  <2>12. CASE /\ l.case + 1 \in runCases(l.custom)
              /\ Becomes(l, m) /\ UNCHANGED <<active, busy, picked>>
    <3> HIDE DEF m
    <3>1. RunTypes'
      BY <1>2, <2>7, <2>8, <2>12 DEF RunInv, RunTypes, Becomes
    <3>2. m.case \in runCases(m.custom)
      BY <2>7, <2>12
    <3> QED
      BY <1>2, <2>7, <2>9, <2>12, <3>1, <3>2, LoopGoesOn
  <2> QED
    BY <2>10, <2>11, <2>12
<1> QED
  BY <1>3, <1>4

\* An error ends the loop, and says so in the report only for the live one.
LEMMA CatchKeeps ==
  ASSUME RunInv, NEW l \in loops, NEW changed \in BOOLEAN, Catch(l, changed)
  PROVE  RunInv'
<1>1. Finally(l) /\ runError' \in BOOLEAN /\ code' = code /\ tab' = tab /\ custom' = custom
        /\ replace' = replace /\ attempt' = attempt /\ outcomes' = outcomes /\ picked' = picked
        /\ sequence' = sequence
  BY DEF Catch, RunInv, RunTypes, pageVars
<1>2. RunTypes'
  BY <1>1, FinallyTypes DEF RunInv, RunTypes
<1>3. OutcomesAreOfThisAttempt'
  BY <1>1 DEF RunInv, ReportIsOfLiveRun, OutcomesAreOfThisAttempt
<1> QED
  BY <1>1, <1>2, <1>3, LoopEnds

-----------------------------------------------------------------------------
(* The history. *)

\* A query of the reader r: what it has is of r and was taken under r.
OwnQuery(q, r) == q \in Queries /\ (q.data # NoData => q.data.of = r /\ q.data.under = r)

\* The history, one query at a time.
LEMMA HistoryParts ==
  /\ HistoryTypes /\ HistoryIsOwn <=>
       /\ view \in Views /\ reader \in Users
       /\ OwnQuery(list, reader) /\ OwnQuery(result, reader) /\ OwnQuery(text, reader)
  /\ (HistoryTypes /\ HistoryIsOwn)' <=>
       /\ view' \in Views /\ reader' \in Users
       /\ OwnQuery(list', reader') /\ OwnQuery(result', reader') /\ OwnQuery(text', reader')
  BY DEF HistoryTypes, HistoryIsOwn, OwnQuery

\* A query without data is anybody's; a request that is sent, refused or lost
\* leaves the data of its query as they are.
LEMMA QueryKeeps ==
  ASSUME SessionTypes, NEW q, NEW r, OwnQuery(q, r)
  PROVE  /\ OwnQuery(Idle, r) /\ OwnQuery(Again(q), r) /\ OwnQuery(Sent(q), r) /\ OwnQuery(Ask(q), r)
         /\ OwnQuery(Lost(q), r) /\ \A a \in Users : OwnQuery(Meets(q, a), r)
         /\ \A e \in {"none", "404", "changed", "network"} : OwnQuery([q EXCEPT !.asked = {}, !.error = e], r)
<1>0. OwnQuery(Idle, r)
  BY DEF OwnQuery, Idle, NoData, Queries, Users
<1>1. OwnQuery(Again(q), r)
  BY <1>0 DEF Again
<1>2. ASSUME NEW x, OwnQuery(x, r), NEW e \in {"none", "404", "changed", "network"}, NEW s \in SUBSET Users
      PROVE  /\ OwnQuery([x EXCEPT !.asked = s], r) /\ OwnQuery([x EXCEPT !.error = e], r)
             /\ OwnQuery([x EXCEPT !.asked = s, !.error = e], r)
  BY <1>2 DEF OwnQuery, Queries
<1>3. {account} \in SUBSET Users /\ {} \in SUBSET Users
  BY DEF SessionTypes
<1>4. OwnQuery(Sent(q), r)
  BY <1>1, <1>2, <1>3 DEF Sent
<1>5. OwnQuery(Ask(q), r)
  BY <1>1, <1>2, <1>3, <1>4 DEF Ask
<1>6. OwnQuery(Lost(q), r)
  BY <1>2, <1>3 DEF Lost
<1>7. ASSUME NEW a \in Users PROVE OwnQuery(Meets(q, a), r)
  <2>1. q.asked \cup {a} \in SUBSET Users
    BY DEF OwnQuery, Queries
  <2> QED
    BY <1>2, <2>1 DEF Meets
<1>8. \A e \in {"none", "404", "changed", "network"} : OwnQuery([q EXCEPT !.asked = {}, !.error = e], r)
  BY <1>2, <1>3
<1> QED
  BY <1>0, <1>1, <1>4, <1>5, <1>6, <1>7, <1>8

\* An answer is taken from the reader's account, for a session that names the
\* reader, or it leaves an error.
LEMMA AnswerIsOwn ==
  ASSUME SessionTypes, reader \in Users, NEW q, OwnQuery(q, reader), NEW a \in Users,
         NEW e \in {"none", "404", "changed"}, e = "none" => a = reader,
         NEW n \in Nat, NEW st \in {"none", "PENDING", "DONE"}, NEW d, d = Read(a, n, st)
  PROVE  OwnQuery(withHistoryIdentity(q, e, d), reader)
<1>1. CASE e = "none" /\ check
  <2>1. a = reader /\ session = reader
    BY <1>1 DEF check
  <2>2. d \in [of : Users, under : Users, page : Nat, status : {"none", "PENDING", "DONE"}]
    BY <2>1 DEF Read
  <2>3. withHistoryIdentity(q, e, d) = [data |-> d, error |-> "none", asked |-> {}]
    BY <1>1 DEF withHistoryIdentity, Idle
  <2> QED
    BY <2>1, <2>2, <2>3 DEF OwnQuery, Queries, Read
<1>2. CASE ~(e = "none" /\ check)
  <2> DEFINE f == IF e = "none" THEN "changed" ELSE e
  <2>1. f \in {"none", "404", "changed", "network"}
    OBVIOUS
  <2>2. withHistoryIdentity(q, e, d) = [q EXCEPT !.asked = {}, !.error = f]
    BY <1>2 DEF withHistoryIdentity
  <2> HIDE DEF f
  <2>3. \A x \in {"none", "404", "changed", "network"} : OwnQuery([q EXCEPT !.asked = {}, !.error = x], reader)
    BY QueryKeeps
  <2> QED
    BY <2>1, <2>2, <2>3
<1> QED
  BY <1>1, <1>2

\* A step that leaves the history alone keeps it its user's.
LEMMA HistoryUnchanged ==
  ASSUME HistoryTypes, HistoryIsOwn, UNCHANGED historyVars
  PROVE  HistoryTypes' /\ HistoryIsOwn'
  BY DEF HistoryTypes, HistoryIsOwn, historyVars

\* A history that was rendered anew has no data of anybody.
LEMMA HistoryCleared ==
  ASSUME SessionTypes, HistoryTypes, HistoryIsOwn, view' \in Views, session' = session, Rendered
  PROVE  HistoryTypes' /\ HistoryIsOwn'
<1>1. reader' \in Users
  <2>1. Reader' \in {session', Anonymous}
    BY DEF Reader
  <2>2. SubmissionHistoryPanel' = "history" => session' # "pending"
    BY DEF SubmissionHistoryPanel
  <2>3. Reader' = session' => session' # "pending" \/ session' = Anonymous
    BY <2>2 DEF Reader
  <2> QED
    BY <2>1, <2>3 DEF Rendered, SessionTypes, Users
<1>2. list' \in {Idle, Sent(Idle)} /\ result' \in {Idle, Sent(Idle)} /\ text' \in {Idle, Sent(Idle)}
  BY DEF Rendered, HistoryGone, HistoryMounted
<1>3. \A r : OwnQuery(Idle, r)
  BY DEF OwnQuery, Idle, NoData, Queries, Users
<1>4. \A r : OwnQuery(Sent(Idle), r)
  BY <1>3, QueryKeeps
<1> QED
  BY <1>1, <1>2, <1>3, <1>4, HistoryParts

\* The steps of the history's own queries and controls keep it its user's.
LEMMA HistoryStep ==
  ASSUME SessionTypes, HistoryTypes, HistoryIsOwn,
         \/ \E t \in {"statement", "submissions"} : OpenView(t)
         \/ \E n \in 1..Pages + 1, v \in Verdicts : ChangeList(n, v)
         \/ RenderHistory \/ OpenDetail \/ CloseDetail \/ Refetch \/ PollResult
         \/ ListArrives \/ SourceArrives \/ ResultArrives \/ HistoryFails
         \/ \E a \in Accounts \cup {Anonymous} : AccountChanges(a)
  PROVE  HistoryTypes' /\ HistoryIsOwn'
<1>0. /\ view \in Views /\ reader \in Users
      /\ OwnQuery(list, reader) /\ OwnQuery(result, reader) /\ OwnQuery(text, reader)
  BY HistoryParts
<1>1. OwnQuery(Idle, reader) /\ OwnQuery(Ask(Idle), reader)
  BY <1>0, QueryKeeps
<1>2. ASSUME NEW t \in {"statement", "submissions"}, OpenView(t) PROVE HistoryTypes' /\ HistoryIsOwn'
  <2>1. view' \in Views
    BY <1>0, <1>2 DEF OpenView, Views
  <2> QED
    BY <1>2, <2>1, HistoryCleared DEF OpenView, sessionVars
<1>3. ASSUME NEW n \in 1..Pages + 1, NEW v \in Verdicts, ChangeList(n, v)
      PROVE  HistoryTypes' /\ HistoryIsOwn'
  <2>0. view' = [view EXCEPT !.page = n, !.verdict = v]
    BY <1>3 DEF ChangeList
  <2>1. view' \in Views
    <3>1. n \in Nat
      BY DEF Pages
    <3> QED
      BY <1>0, <2>0, <3>1 DEF Views
  <2>2. list' \in {list, Ask(Idle)} /\ result' = result /\ text' = text /\ reader' = reader
    BY <1>3 DEF ChangeList
  <2> QED
    BY <1>0, <1>1, <2>1, <2>2, HistoryParts
<1>4. ASSUME OpenDetail PROVE HistoryTypes' /\ HistoryIsOwn'
  <2>1. view' \in Views
    BY <1>0, <1>4 DEF OpenDetail, Views
  <2>2. list' = list /\ result' = Ask(Idle) /\ text' = Ask(Idle) /\ reader' = reader
    BY <1>4 DEF OpenDetail
  <2> QED
    BY <1>0, <1>1, <2>1, <2>2, HistoryParts
<1>5. ASSUME CloseDetail PROVE HistoryTypes' /\ HistoryIsOwn'
  <2>1. view' \in Views
    BY <1>0, <1>5 DEF CloseDetail, Views
  <2>2. list' \in {list, Ask(list)} /\ result' = Idle /\ text' = Idle /\ reader' = reader
    BY <1>5 DEF CloseDetail
  <2>3. OwnQuery(Ask(list), reader)
    BY <1>0, QueryKeeps
  <2> QED
    BY <1>0, <1>1, <2>1, <2>2, <2>3, HistoryParts
<1>6. ASSUME Refetch \/ PollResult PROVE HistoryTypes' /\ HistoryIsOwn'
  <2>1. /\ list' \in {list, Ask(list)} /\ result' \in {result, Ask(result)}
        /\ text' \in {text, Ask(text)} /\ view' = view /\ reader' = reader
    BY <1>6 DEF Refetch, PollResult
  <2>2. OwnQuery(Ask(list), reader) /\ OwnQuery(Ask(result), reader) /\ OwnQuery(Ask(text), reader)
    BY <1>0, QueryKeeps
  <2> QED
    BY <1>0, <2>1, <2>2, HistoryParts
<1>7. ASSUME ListArrives PROVE HistoryTypes' /\ HistoryIsOwn'
  <2>1. PICK a \in list.asked :
           list' = withHistoryIdentity(list, ExpectedAccount(a), Read(a, view.page, "none"))
    BY <1>7 DEF ListArrives
  <2>2. result' = result /\ text' = text /\ view' = view /\ reader' = reader
    BY <1>7 DEF ListArrives, answerVars
  <2>3. /\ a \in Users /\ view.page \in Nat /\ ExpectedAccount(a) \in {"none", "404", "changed"}
        /\ ExpectedAccount(a) = "none" => a = reader
    BY <1>0 DEF OwnQuery, Queries, Views, ExpectedAccount
  <2>4. OwnQuery(list', reader)
    BY <1>0, <2>1, <2>3, AnswerIsOwn
  <2> QED
    BY <1>0, <2>2, <2>4, HistoryParts
<1>8. ASSUME SourceArrives PROVE HistoryTypes' /\ HistoryIsOwn'
  <2>1. PICK a \in text.asked :
           text' = withHistoryIdentity(text, ExpectedAccount(a), Read(a, 0, "none"))
    BY <1>8 DEF SourceArrives
  <2>2. result' = result /\ list' = list /\ view' = view /\ reader' = reader
    BY <1>8 DEF SourceArrives, answerVars
  <2>3. /\ a \in Users /\ 0 \in Nat /\ ExpectedAccount(a) \in {"none", "404", "changed"}
        /\ ExpectedAccount(a) = "none" => a = reader
    BY <1>0 DEF OwnQuery, Queries, ExpectedAccount
  <2>4. OwnQuery(text', reader)
    BY <1>0, <2>1, <2>3, AnswerIsOwn
  <2> QED
    BY <1>0, <2>2, <2>4, HistoryParts
<1>9. ASSUME ResultArrives PROVE HistoryTypes' /\ HistoryIsOwn'
  <2>1. PICK a \in result.asked, st \in {"PENDING", "DONE"} :
           result' = withHistoryIdentity(result, OwnSubmission(a), Read(a, 0, st))
    BY <1>9 DEF ResultArrives
  <2>2. list' = list /\ text' = text /\ view' = view /\ reader' = reader
    BY <1>9 DEF ResultArrives, answerVars
  <2>3. /\ a \in Users /\ 0 \in Nat /\ OwnSubmission(a) \in {"none", "404", "changed"}
        /\ OwnSubmission(a) = "none" => a = reader
    BY <1>0 DEF OwnQuery, Queries, OwnSubmission
  <2>4. OwnQuery(result', reader)
    BY <1>0, <2>1, <2>3, AnswerIsOwn
  <2> QED
    BY <1>0, <2>2, <2>4, HistoryParts
<1>10. ASSUME HistoryFails PROVE HistoryTypes' /\ HistoryIsOwn'
  <2>1. /\ list' \in {list, Lost(list)} /\ text' \in {text, Lost(text)}
        /\ result' \in {result, Lost(result)} /\ view' = view /\ reader' = reader
    BY <1>10 DEF HistoryFails
  <2>2. OwnQuery(Lost(list), reader) /\ OwnQuery(Lost(result), reader) /\ OwnQuery(Lost(text), reader)
    BY <1>0, QueryKeeps
  <2> QED
    BY <1>0, <2>1, <2>2, HistoryParts
<1>11. ASSUME NEW a \in Accounts \cup {Anonymous}, AccountChanges(a) PROVE HistoryTypes' /\ HistoryIsOwn'
  <2>1. /\ list' = Meets(list, a) /\ result' = Meets(result, a) /\ text' = Meets(text, a)
        /\ view' = view /\ reader' = reader /\ a \in Users
    BY <1>11 DEF AccountChanges, Users
  <2>2. OwnQuery(list', reader) /\ OwnQuery(result', reader) /\ OwnQuery(text', reader)
    BY <1>0, <2>1, QueryKeeps
  <2> QED
    BY <1>0, <2>1, <2>2, HistoryParts
<1>12. ASSUME RenderHistory PROVE HistoryTypes' /\ HistoryIsOwn'
  BY <1>0, <1>12, HistoryCleared DEF RenderHistory, sessionVars
<1> QED
  BY <1>2, <1>3, <1>4, <1>5, <1>6, <1>7, <1>8, <1>9, <1>10, <1>11, <1>12

-----------------------------------------------------------------------------
(* All steps. *)

\* The steps after which the panels follow what the queries learned.
LEMMA FollowStep ==
  ASSUME PageInv,
         \/ SessionArrives \/ SessionFails \/ ProblemArrives \/ RetryProblem
         \/ \E k \in {"error", "missing"} : ProblemFails(k)
  PROVE  PageInv'
<1>1. RunPanelFollows /\ UNCHANGED historyVars /\ code' = code
  BY DEF SessionArrives, SessionFails, ProblemArrives, RetryProblem, ProblemFails, Follows, pageVars
<1>2. RunInv'
  BY <1>1, RunFollows DEF PageInv
<1>3. HistoryTypes' /\ HistoryIsOwn'
  BY <1>1, HistoryUnchanged DEF PageInv
<1>4. SessionTypes'
  <2>1. CASE SessionArrives
    <3>1. sessionError' \in BOOLEAN /\ sessionAsked' \in BOOLEAN
      BY <2>1 DEF SessionArrives
    <3> QED
      BY <2>1, <3>1 DEF PageInv, SessionTypes, SessionArrives
  <2>2. CASE SessionFails
    <3>1. sessionError' \in BOOLEAN /\ sessionAsked' \in BOOLEAN
      BY <2>2 DEF SessionFails
    <3> QED
      BY <2>2, <3>1 DEF PageInv, SessionTypes, SessionFails, Users
  <2>3. CASE UNCHANGED sessionVars
    BY <2>3 DEF PageInv, SessionTypes, sessionVars
  <2> QED
    BY <2>1, <2>2, <2>3 DEF ProblemArrives, RetryProblem, ProblemFails
<1>5. PageTypes'
  <2>1. faults' \in Nat /\ acts' = acts /\ serving' = serving
    BY DEF SessionArrives, SessionFails, ProblemArrives, RetryProblem, ProblemFails, PageInv, PageTypes,
           Disturbed
  <2>2. problem' \in {"loading", "error", "missing", "shown"}
    BY DEF SessionArrives, SessionFails, ProblemArrives, RetryProblem, ProblemFails, PageInv, PageTypes,
           pageVars
  <2>3. unavailable' \in BOOLEAN
    BY DEF SessionArrives, SessionFails, ProblemArrives, RetryProblem, ProblemFails, PageInv, PageTypes,
           pageVars
  <2> QED
    BY <2>1, <2>2, <2>3 DEF PageInv, PageTypes
<1> QED
  BY <1>2, <1>3, <1>4, <1>5 DEF PageInv

\* The steps of the loops and of the runs at the server.
LEMMA LoopStep ==
  ASSUME PageInv, Loops \/ \E l \in loops : Throws(l)
  PROVE  PageInv'
<1>1. ASSUME NEW l \in loops, Posted(l) PROVE PageInv'
  <2>1. l \in RunLoops
    BY DEF PageInv, RunInv, RunTypes
  <2>2. PageTypes'
    <3>1. [seq |-> l.seq, user |-> l.user] \in [seq : Nat, user : Accounts]
      BY <2>1 DEF RunLoops
    <3> QED
      BY <1>1, <3>1 DEF Posted, PageInv, PageTypes, pageVars
  <2>3. SessionTypes' /\ HistoryTypes' /\ HistoryIsOwn'
    BY <1>1, HistoryUnchanged DEF Posted, PageInv, SessionTypes, sessionVars
  <2> QED
    BY <1>1, <2>2, <2>3, PostedKeeps DEF PageInv
<1>2. ASSUME NEW l \in loops, NEW v \in Values, Answered(l, v) PROVE PageInv'
  <2>1. PageTypes'
    BY <1>2 DEF Answered, PageInv, PageTypes, pageVars
  <2>2. SessionTypes' /\ HistoryTypes' /\ HistoryIsOwn'
    BY <1>2, HistoryUnchanged DEF Answered, PageInv, SessionTypes, sessionVars
  <2> QED
    BY <1>2, <2>1, <2>2, AnsweredKeeps DEF PageInv
<1>3. ASSUME NEW l \in loops, NEW changed \in BOOLEAN, Catch(l, changed), faults' \in Nat PROVE PageInv'
  <2>1. PageTypes'
    BY <1>3 DEF Catch, PageInv, PageTypes, pageVars
  <2>2. SessionTypes'
    <3>1. sessionAsked' \in BOOLEAN
      BY <1>3 DEF Catch, PageInv, SessionTypes
    <3> QED
      BY <1>3, <3>1 DEF Catch, PageInv, SessionTypes
  <2>3. HistoryTypes' /\ HistoryIsOwn'
    BY <1>3, HistoryUnchanged DEF Catch, PageInv
  <2> QED
    BY <1>3, <2>1, <2>2, <2>3, CatchKeeps DEF PageInv
<1>4. ASSUME NEW l \in loops, Refused(l) PROVE PageInv'
  <2>1. Catch(l, account # l.user) /\ faults' \in Nat
    BY <1>4 DEF Refused, PageInv, PageTypes
  <2> QED
    BY <1>3, <2>1
<1>5. ASSUME NEW l \in loops, Throws(l) PROVE PageInv'
  <2>1. Catch(l, FALSE) /\ faults' \in {faults, faults + 1}
    BY <1>5 DEF Throws, Disturbed
  <2>2. faults' \in Nat
    BY <2>1 DEF PageInv, PageTypes
  <2> QED
    BY <1>3, <2>1, <2>2
<1>6. ASSUME NEW e \in serving, Unheard(e) PROVE PageInv'
  <2>1. PageTypes' /\ SessionTypes'
    BY <1>6 DEF Unheard, PageInv, PageTypes, SessionTypes, pageVars, sessionVars
  <2>2. HistoryTypes' /\ HistoryIsOwn'
    BY <1>6, HistoryUnchanged DEF Unheard, PageInv, sessionVars
  <2>3. RunInv'
    BY <1>6, RunUnchanged DEF Unheard, PageInv, RunInv, RunTypes, pageVars
  <2> QED
    BY <2>1, <2>2, <2>3 DEF PageInv
<1> QED
  BY <1>1, <1>2, <1>4, <1>5, <1>6 DEF Loops

\* What the user does in the workbench.
LEMMA WorkbenchStep ==
  ASSUME PageInv,
         \/ Run
         \/ \E c \in Codes \cup {Bad} : EditCode(c)
         \/ \E c \in Codes : Load(c)
         \/ \E t \in {"input", "run", "submission"} : OpenTab(t)
         \/ \E c \in 1..Own : PickCase(c)
         \/ \E i \in {0, Own, Large} : TypeInput(i)
         \/ \E i \in 0..NSamples : writeCustom(i)
         \/ \E yes \in BOOLEAN : AnswerReplace(yes)
  PROVE  PageInv'
<1>1. /\ UNCHANGED <<sessionVars, problem, unavailable, serving, historyVars, faults>>
      /\ acts' \in Nat
  BY DEF Run, EditCode, Load, OpenTab, PickCase, TypeInput, writeCustom, AnswerReplace, pageVars,
         Acted, PageInv, PageTypes
<1>2. PageTypes' /\ SessionTypes'
  BY <1>1 DEF PageInv, PageTypes, SessionTypes, sessionVars
<1>3. HistoryTypes' /\ HistoryIsOwn'
  BY <1>1, HistoryUnchanged DEF PageInv, sessionVars
<1>4. RunInv'
  <2>0. RunInv /\ RunTypes
    BY DEF PageInv, RunInv
  <2>1. CASE Run
    BY <2>0, <2>1, RunStarts DEF PageInv
  <2>2. CASE UNCHANGED runVars /\ code' \in Texts
    BY <2>0, <2>2, RunUnchanged
  <2>3. ASSUME NEW t \in {"input", "run", "submission"}, OpenTab(t) PROVE RunInv'
    <3>1. RunTypes'
      BY <2>0, <2>3 DEF OpenTab, RunTypes, pageVars
    <3> QED
      BY <2>0, <2>3, <3>1, ReportUnchanged DEF OpenTab
  <2>4. ASSUME NEW c \in 1..Own, PickCase(c) PROVE RunInv'
    <3>1. c \in Nat
      BY SampleAssumption DEF Own
    <3>2. RunTypes'
      BY <2>0, <2>4, <3>1 DEF PickCase, RunTypes, pageVars
    <3> QED
      BY <2>0, <2>4, <3>2, ReportUnchanged DEF PickCase
  <2>5. ASSUME custom' \in Inputs, replace' \in Inputs \cup {NoReplace},
               UNCHANGED <<pageVars, tab, attempt, outcomes, picked, runError, busy, active, sequence, loops>>
        PROVE  RunInv'
    <3>1. RunTypes'
      BY <2>0, <2>5 DEF RunTypes, pageVars
    <3> QED
      BY <2>0, <2>5, <3>1, ReportUnchanged
  <2>6. {0, Own, Large} \subseteq Inputs /\ 0..NSamples \subseteq Inputs
    BY SampleAssumption DEF Own, Large, Inputs
  <2>7. ASSUME NEW i \in {0, Own, Large}, TypeInput(i) PROVE RunInv'
    <3>1. custom' \in Inputs /\ replace' \in Inputs \cup {NoReplace}
      BY <2>0, <2>6, <2>7 DEF TypeInput, RunTypes
    <3> QED
      BY <2>5, <2>7, <3>1 DEF TypeInput
  <2>8. ASSUME NEW i \in 0..NSamples, writeCustom(i) PROVE RunInv'
    <3>1. custom' \in Inputs /\ replace' \in Inputs \cup {NoReplace}
      BY <2>0, <2>6, <2>8 DEF writeCustom, RunTypes
    <3> QED
      BY <2>5, <2>8, <3>1 DEF writeCustom
  <2>9. ASSUME NEW yes \in BOOLEAN, AnswerReplace(yes) PROVE RunInv'
    <3>1. custom' \in Inputs /\ replace' \in Inputs \cup {NoReplace}
      BY <2>0, <2>9 DEF AnswerReplace, RunTypes
    <3> QED
      BY <2>5, <2>9, <3>1 DEF AnswerReplace
  <2>10. ASSUME NEW c \in Codes \cup {Bad}, EditCode(c) \/ Load(c) PROVE RunInv'
    BY <2>2, <2>10 DEF EditCode, Load, Texts
  <2> QED
    BY <2>1, <2>3, <2>4, <2>7, <2>8, <2>9, <2>10
<1> QED
  BY <1>2, <1>3, <1>4 DEF PageInv

\* The history's own steps, and those of the session that no panel sees.
LEMMA QuietStep ==
  ASSUME PageInv,
         \/ \E t \in {"statement", "submissions"} : OpenView(t)
         \/ \E n \in 1..Pages + 1, v \in Verdicts : ChangeList(n, v)
         \/ RenderHistory \/ OpenDetail \/ CloseDetail \/ Refetch \/ PollResult
         \/ ListArrives \/ SourceArrives \/ ResultArrives \/ HistoryFails
         \/ AskSession \/ \E a \in Accounts \cup {Anonymous} : AccountChanges(a)
         \/ UNCHANGED vars
  PROVE  PageInv'
<1>1. /\ UNCHANGED <<pageVars, runVars, serving, session>> /\ acts' \in Nat /\ faults' \in Nat
  <2>1. UNCHANGED <<pageVars, runVars, serving, session>>
    BY DEF OpenView, ChangeList, OpenDetail, CloseDetail, Refetch, PollResult, ListArrives, SourceArrives,
         ResultArrives, HistoryFails, AskSession, AccountChanges, vars, sessionVars, answerVars, RenderHistory
  <2>2. acts' \in {acts, acts + 1}
    BY DEF OpenView, ChangeList, OpenDetail, CloseDetail, Refetch, PollResult, ListArrives, SourceArrives,
         ResultArrives, HistoryFails, AskSession, AccountChanges, vars, Acted, answerVars, RenderHistory
  <2>3. faults' \in {faults, faults + 1}
    BY DEF OpenView, ChangeList, OpenDetail, CloseDetail, Refetch, PollResult, ListArrives, SourceArrives,
         ResultArrives, HistoryFails, AskSession, AccountChanges, vars, Disturbed, answerVars, RenderHistory
  <2> QED
    BY <2>1, <2>2, <2>3 DEF PageInv, PageTypes
<1>2. PageTypes' /\ RunInv'
  BY <1>1, RunUnchanged DEF PageInv, PageTypes, pageVars, RunInv, RunTypes
<1>3. SessionTypes'
  <2>1. account' \in Users
    BY DEF OpenView, ChangeList, OpenDetail, CloseDetail, Refetch, PollResult, ListArrives, SourceArrives,
           ResultArrives, HistoryFails, AskSession, AccountChanges, vars, sessionVars, answerVars, RenderHistory,
           PageInv, SessionTypes, Users
  <2>2. sessionError' = sessionError
    BY DEF OpenView, ChangeList, OpenDetail, CloseDetail, Refetch, PollResult, ListArrives, SourceArrives,
           ResultArrives, HistoryFails, AskSession, AccountChanges, vars, sessionVars, answerVars, RenderHistory
  <2>3. sessionAsked' \in BOOLEAN
    BY DEF OpenView, ChangeList, OpenDetail, CloseDetail, Refetch, PollResult, ListArrives, SourceArrives,
           ResultArrives, HistoryFails, AskSession, AccountChanges, vars, sessionVars, Renew, RenderHistory,
           PageInv, SessionTypes
  <2> QED
    BY <1>1, <2>1, <2>2, <2>3 DEF PageInv, SessionTypes
<1>4. HistoryTypes' /\ HistoryIsOwn'
  <2>1. CASE AskSession \/ UNCHANGED vars
    BY <2>1, HistoryUnchanged DEF AskSession, vars, PageInv
  <2> QED
    BY <2>1, HistoryStep DEF PageInv
<1> QED
  BY <1>2, <1>3, <1>4 DEF PageInv

\* Every step keeps the invariant.
LEMMA PageStep == PageInv /\ [Next]_vars => PageInv'
<1> SUFFICES ASSUME PageInv, [Next]_vars PROVE PageInv'
  OBVIOUS
<1>1. CASE Loops
  BY <1>1, LoopStep
<1>2. CASE Answers
  BY <1>2, FollowStep, QuietStep DEF Answers
<1>3. CASE Breaks
  BY <1>3, FollowStep, LoopStep, QuietStep DEF Breaks
<1>4. CASE User
  BY <1>4, FollowStep, WorkbenchStep, QuietStep DEF User
<1>5. CASE AskSession \/ RenderHistory \/ PollResult \/ UNCHANGED vars
  BY <1>5, QuietStep
<1> QED
  BY <1>1, <1>2, <1>3, <1>4, <1>5 DEF Next

\* The inductive invariant of the solving page: its types, the numbers of its
\* loops, and what ties the live loop to the report (run, invalidate and the
\* checks after every await in custom-run-workbench).
THEOREM PageInvariant == Spec => []PageInv
  BY PageInit, PageStep, PTL DEF Spec

\* The report is of the one run the page knows: an answer that comes after the
\* user, the session or the problem changed, or after another run began, is
\* neither shown nor ends that run (sequence.current in run()).
THEOREM LiveReport == Spec => []ReportIsOfLiveRun
<1>1. PageInv => ReportIsOfLiveRun
  BY DEF PageInv, RunInv
<1> QED
  BY <1>1, PageInvariant, PTL

\* What the history shows is of the user it is rendered for and was taken while
\* the session named that user, though the account behind the cookie and the
\* session change at any time (withHistoryIdentity, and the key of OwnedHistory).
THEOREM OwnHistory == Spec => []HistoryIsOwn
<1>1. PageInv => HistoryIsOwn
  BY DEF PageInv
<1> QED
  BY <1>1, PageInvariant, PTL
=============================================================================
