---------------------- MODULE SubmissionPipelineProofs ----------------------
(***************************************************************************)
(* Theorems about FormalJudging and about the pipeline it is composed into, *)
(* for every number of submissions, keys, instances, slots, attempts,       *)
(* crashes and lapsed leases.                                               *)
(***************************************************************************)
EXTENDS SubmissionPipeline, SequenceTheorems, FiniteSetTheorems, TLAPS

-----------------------------------------------------------------------------
(* FormalJudging *)

\* The events that FormalTaskStore.emit builds are lifecycle events.
LEMMA CompletedType ==
  ASSUME NEW s \in Submissions, NEW n \in Nat \ {0},
         NEW r \in Results \cup {NoResult}
  PROVE  JudgeCompleted(s, n, r) \in LifecycleEvents
  BY TaskOfAssumption DEF JudgeCompleted, LifecycleEvents

\* The same for the two events that carry no result.
LEMMA PlainEventTypes ==
  ASSUME NEW s \in Submissions, NEW n \in Nat \ {0}
  PROVE  /\ JudgeStarted(s, n) \in LifecycleEvents
         /\ JudgeFailed(s, n) \in LifecycleEvents
  BY TaskOfAssumption DEF JudgeStarted, JudgeFailed, LifecycleEvents

\* FormalWorker.safe turns every answer but SE into a result.
LEMMA SafeType ==
  ASSUME NEW raw \in RawResults, raw.verdict # "SE"
  PROVE  Safe(raw) \in Results
  BY RawAssumption DEF Safe, Results, Verdicts, RawMessages, Messages

\* The tables of the judging database that the safety properties read, and
\* the three kinds of transaction that write them.
StoreStep ==
  \/ UNCHANGED <<task, attempts, outbox>>
  \/ \E i \in Instances, s \in Submissions : Receive(i, s)
  \/ \E i \in Instances, s \in Submissions : ClaimTransaction(i, s)
  \/ \E x \in execs, c \in BOOLEAN, r \in BOOLEAN : FinishTransaction(x, c, r)

\* A step that is not a delivery of a request is a claim, a finish, or leaves
\* the three tables alone.
LEMMA InternalIsStoreStep ==
  ASSUME JudgingInternal
  PROVE  \/ UNCHANGED <<task, attempts, outbox>>
         \/ \E i \in Instances, s \in Submissions : ClaimTransaction(i, s)
         \/ \E x \in execs, c \in BOOLEAN, r \in BOOLEAN :
              FinishTransaction(x, c, r)
<1> USE DEF storeVars
<1>1. CASE \E i \in Instances, s \in Submissions : PollStep(i, s)
  BY <1>1 DEF PollStep, Claim, ClaimOrphaned, Renew
<1>2. CASE \E x \in execs : ExecuteStep(x)
  <2> PICK x \in execs : ExecuteStep(x)
    BY <1>2
  <2>1. CASE FinishJudged(x)
    BY <2>1 DEF FinishJudged
  <2>2. CASE FinishJudgedThrows(x)
    BY <2>2 DEF FinishJudgedThrows
  <2>3. CASE FinishFailed(x)
    <3>1. Retries(x) \in BOOLEAN
      BY DEF Retries
    <3> QED BY <2>3, <3>1 DEF FinishFailed
  <2>4. CASE \/ Dispatch(x) \/ Refuse(x) \/ JudgeFails(x)
             \/ \E raw \in RawResults : JudgeAnswers(x, raw)
    BY <2>4 DEF Dispatch, Refuse, JudgeFails, JudgeAnswers, WorkerStep
  <2>5. CASE FinishFailedThrows(x) \/ Exit(x)
    BY <2>5 DEF FinishFailedThrows, Exit
  <2> QED BY <2>1, <2>2, <2>3, <2>4, <2>5 DEF ExecuteStep
<1>3. CASE \E e \in outbox : RelayStep(e)
  BY <1>3 DEF RelayStep, SendEvent, PublishEvent
<1>4. CASE \E i \in Instances, s \in Submissions : ClockStep(i, s)
  BY <1>4 DEF ClockStep, LeaseRunsOut, BecomesDue, DeadlinePasses
<1>5. CASE \E i \in Instances : Crash(i)
  BY <1>5 DEF Crash
<1> QED
  BY <1>1, <1>2, <1>3, <1>4, <1>5 DEF JudgingInternal

\* Every step of judging-service is one of those transactions or leaves the
\* three tables alone.
LEMMA NextIsStoreStep ==
  ASSUME [JudgingNext]_judgingVars
  PROVE  StoreStep
  BY InternalIsStoreStep DEF JudgingNext, StoreStep, judgingVars, storeVars

-----------------------------------------------------------------------------
(* Type correctness *)

\* claim leaves well typed rows: the closed attempt and the new one are in
\* the attempt statuses, and the JudgeStarted event carries a positive number.
LEMMA ClaimTypes ==
  ASSUME JudgingInv, NEW i \in Instances, NEW s \in Submissions,
         ClaimTransaction(i, s)
  PROVE  /\ task' \in [Submissions -> TaskRows]
         /\ attempts' \in [Submissions -> Seq(AttemptStatuses)]
         /\ outbox' \subseteq LifecycleEvents
         /\ expired' \in [Submissions -> SUBSET Instances]
         /\ Abandon(s) \in Seq(AttemptStatuses)
         /\ Len(Abandon(s)) = task[s].attempt
         /\ \A k \in 1..task[s].attempt :
              Abandon(s)[k] = IF k = task[s].attempt /\ task[s].token # 0
                              THEN "ABANDONED" ELSE attempts[s][k]
<1> DEFINE n == task[s].attempt
<1> USE DEF JudgingInv, JudgingTypeOK, StoreInv
<1>1. /\ attempts[s] \in Seq(AttemptStatuses)
      /\ Len(attempts[s]) = n
      /\ n \in Nat
  BY DEF AttemptHistory, TaskRows
<1>2. /\ Abandon(s) \in Seq(AttemptStatuses)
      /\ Len(Abandon(s)) = n
      /\ \A k \in 1..n : Abandon(s)[k] =
           IF k = n /\ task[s].token # 0 THEN "ABANDONED" ELSE attempts[s][k]
  <2>1. CASE task[s].token = 0
    BY <1>1, <2>1 DEF Abandon
  <2>2. CASE task[s].token # 0
    <3>1. n \in 1..Len(attempts[s]) /\ task[s].status = "RUNNING"
      BY <1>1, <2>2 DEF LeaseShape
    <3>2. attempts[s][n] = "RUNNING"
      BY <1>1, <3>1 DEF AttemptHistory
    <3>3. Abandon(s) = [attempts[s] EXCEPT ![n] = "ABANDONED"]
      BY <2>2, <3>2 DEF Abandon
    <3> QED BY <1>1, <2>2, <3>1, <3>3, ExceptSeq DEF AttemptStatuses
  <2> QED BY <2>1, <2>2
<1>3. Append(Abandon(s), "RUNNING") \in Seq(AttemptStatuses)
  BY <1>2 DEF AttemptStatuses
<1>4. JudgeStarted(s, n + 1) \in LifecycleEvents
  BY <1>1, PlainEventTypes
<1>5. [status |-> "RUNNING", attempt |-> n + 1, token |-> n + 1] \in TaskRows
  BY <1>1 DEF TaskRows, Statuses
<1> QED
  BY <1>1, <1>2, <1>3, <1>4, <1>5 DEF ClaimTransaction

\* finish leaves well typed rows: it writes the attempt the execution holds,
\* which the fencing condition says is the last one.
LEMMA FinishTypes ==
  ASSUME JudgingInv, NEW x \in execs, NEW c \in BOOLEAN, NEW r \in BOOLEAN,
         FinishTransaction(x, c, r)
  PROVE  /\ task' \in [Submissions -> TaskRows]
         /\ attempts' \in [Submissions -> Seq(AttemptStatuses)]
         /\ outbox' \subseteq LifecycleEvents
         /\ requestInbox' \subseteq Submissions
         /\ expired' \in [Submissions -> SUBSET Instances]
         /\ due' \in [Submissions -> SUBSET Instances]
<1> DEFINE s == x.sub
           n == x.attempt
<1> USE DEF JudgingInv, JudgingTypeOK, StoreInv
<1>1. /\ s \in Submissions
      /\ n \in Nat \ {0}
      /\ x.result \in Results \cup {NoResult}
  BY DEF Execs
<1>2. CASE ~HoldsLease(x.inst, s, n)
  BY <1>2 DEF FinishTransaction, storeVars
<1>3. CASE HoldsLease(x.inst, s, n)
  <2>1. n \in 1..Len(attempts[s])
    BY <1>1, <1>3 DEF HoldsLease, LeaseShape, AttemptHistory, TaskRows
  <2>2. \A v \in AttemptStatuses :
           [attempts[s] EXCEPT ![n] = v] \in Seq(AttemptStatuses)
    BY <1>1, <2>1, ExceptSeq
  <2>3. /\ JudgeCompleted(s, n, x.result) \in LifecycleEvents
        /\ JudgeFailed(s, n) \in LifecycleEvents
    BY <1>1, CompletedType, PlainEventTypes
  <2>4. attempts' \in [Submissions -> Seq(AttemptStatuses)]
    BY <1>1, <1>3, <2>2 DEF FinishTransaction, AttemptStatuses
  <2>5. outbox' \subseteq LifecycleEvents
    BY <1>3, <2>3 DEF FinishTransaction
  <2>6. task' \in [Submissions -> TaskRows]
    <3> DEFINE done == [status  |-> IF r THEN "RETRY_WAITING" ELSE "DONE",
                        attempt |-> task[s].attempt, token |-> 0]
    <3>1. done \in TaskRows
      BY <1>1 DEF TaskRows, Statuses
    <3>2. task' = [task EXCEPT ![s] = done]
      BY <1>3 DEF FinishTransaction
    <3> QED BY <1>1, <3>1, <3>2
  <2>7. /\ requestInbox' \subseteq Submissions
        /\ expired' \in [Submissions -> SUBSET Instances]
        /\ due' \in [Submissions -> SUBSET Instances]
    BY <1>1, <1>3 DEF FinishTransaction
  <2> QED BY <2>4, <2>5, <2>6, <2>7
<1> QED BY <1>2, <1>3

\* Every step of judging-service keeps the type of every variable.
LEMMA TypeOKStep ==
  ASSUME JudgingInv, [JudgingNext]_judgingVars
  PROVE  JudgingTypeOK'
<1> USE JudgingAssumption
    DEF JudgingInv, JudgingTypeOK, storeVars, relayVars, workerVars,
        clockVars, faultVars
<1>1. ASSUME NEW i \in Instances, NEW s \in Submissions, Receive(i, s)
      PROVE  JudgingTypeOK'
  <2>1. /\ task' \in [Submissions -> TaskRows]
        /\ due' \in [Submissions -> SUBSET Instances]
    <3>1. [status |-> "READY", attempt |-> 0, token |-> 0] \in TaskRows
      BY DEF TaskRows, Statuses
    <3>2. CASE s \notin requestInbox /\ task[s].status = "NONE"
      <4>1. /\ task' = [task EXCEPT ![s] =
                   [status |-> "READY", attempt |-> 0, token |-> 0]]
            /\ due' = [due EXCEPT ![s] = {i}]
        BY <1>1, <3>2 DEF Receive
      <4> QED BY <3>1, <4>1
    <3>3. CASE ~(s \notin requestInbox /\ task[s].status = "NONE")
      BY <1>1, <3>3 DEF Receive
    <3> QED BY <3>2, <3>3
  <2> QED BY <1>1, <2>1 DEF Receive
<1>2. ASSUME NEW i \in Instances, NEW s \in Submissions, PollStep(i, s)
      PROVE  JudgingTypeOK'
  <2>1. CASE Claim(i, s)
    <3>1. NewExec(i, s, task[s].attempt + 1) \in Execs
      BY DEF NewExec, Execs, Phases, TaskRows
    <3>2. ClaimTransaction(i, s)
      BY <2>1 DEF Claim
    <3> QED BY <2>1, <3>1, <3>2, ClaimTypes DEF Claim
  <2>2. CASE ClaimOrphaned(i, s)
    <3>1. ClaimTransaction(i, s)
      BY <2>2 DEF ClaimOrphaned
    <3>2. pauses' \in Nat
      BY <2>2 DEF ClaimOrphaned
    <3> QED BY <2>2, <3>1, <3>2, ClaimTypes DEF ClaimOrphaned
  <2>3. CASE Renew(i, s)
    BY <2>3 DEF Renew
  <2> QED BY <1>2, <2>1, <2>2, <2>3 DEF PollStep
<1>3. ASSUME NEW x \in execs, ExecuteStep(x)
      PROVE  JudgingTypeOK'
  <2> DEFINE To(p, r) == [x EXCEPT !.phase = p, !.result = r]
  <2>1. \A p \in Phases, r \in Results \cup {NoResult} : To(p, r) \in Execs
    BY DEF Execs
  <2>2. x \in Execs /\ x.result \in Results \cup {NoResult}
    BY DEF Execs
  <2>3. ASSUME NEW p \in Phases, NEW r \in Results \cup {NoResult},
               Moves(x, p, r)
        PROVE  execs' \subseteq Execs
    BY <2>1, <2>3 DEF Moves
  <2>4. ASSUME NEW p \in Phases, NEW r \in Results \cup {NoResult},
               WorkerStep(x, p, r)
        PROVE  JudgingTypeOK'
    BY <2>3, <2>4 DEF WorkerStep
  <2>5. CASE Dispatch(x) \/ Refuse(x) \/ JudgeFails(x)
    BY <2>4, <2>5 DEF Dispatch, Refuse, JudgeFails, Phases
  <2>6. CASE \E raw \in RawResults : JudgeAnswers(x, raw)
    BY <2>4, <2>6, SafeType DEF JudgeAnswers, Phases
  <2>7. CASE FinishJudged(x)
    <3>1. FinishTransaction(x, TRUE, FALSE) /\ execs' \subseteq Execs
      BY <2>2, <2>3, <2>7 DEF FinishJudged, Phases
    <3> QED BY <2>7, <3>1, FinishTypes DEF FinishJudged
  <2>8. CASE FinishJudgedThrows(x)
    <3>1. execs' \subseteq Execs
      BY <2>3, <2>8 DEF FinishJudgedThrows, Phases
    <3>2. CASE FinishTransaction(x, TRUE, FALSE)
      BY <2>8, <3>1, <3>2, FinishTypes DEF FinishJudgedThrows
    <3>3. CASE UNCHANGED <<storeVars, expired, due>>
      BY <2>8, <3>1, <3>3 DEF FinishJudgedThrows
    <3> QED BY <2>8, <3>2, <3>3 DEF FinishJudgedThrows
  <2>9. CASE FinishFailed(x)
    <3>1. Retries(x) \in BOOLEAN
      BY DEF Retries
    <3>2. FinishTransaction(x, FALSE, Retries(x)) /\ execs' \subseteq Execs
      BY <2>3, <2>9 DEF FinishFailed, Phases
    <3> QED BY <2>9, <3>1, <3>2, FinishTypes DEF FinishFailed
  <2>10. CASE FinishFailedThrows(x)
    BY <2>3, <2>10 DEF FinishFailedThrows, Phases
  <2>11. CASE Exit(x)
    BY <2>2, <2>11 DEF Exit, Execs
  <2> QED
    BY <1>3, <2>5, <2>6, <2>7, <2>8, <2>9, <2>10, <2>11 DEF ExecuteStep
<1>4. ASSUME NEW e \in outbox, RelayStep(e)
      PROVE  JudgingTypeOK'
  BY <1>4 DEF RelayStep, SendEvent, PublishEvent
<1>5. ASSUME NEW i \in Instances, NEW s \in Submissions, ClockStep(i, s)
      PROVE  JudgingTypeOK'
  <2>1. CASE LeaseRunsOut(i, s)
    <3>1. /\ pauses' \in Nat
          /\ expired' \in [Submissions -> SUBSET Instances]
      BY <2>1 DEF LeaseRunsOut
    <3> QED BY <2>1, <3>1 DEF LeaseRunsOut
  <2>2. CASE BecomesDue(i, s)
    BY <2>2 DEF BecomesDue
  <2>3. CASE DeadlinePasses(i, s)
    BY <2>3 DEF DeadlinePasses
  <2> QED BY <1>5, <2>1, <2>2, <2>3 DEF ClockStep
<1>6. ASSUME NEW i \in Instances, Crash(i)
      PROVE  JudgingTypeOK'
  BY <1>6 DEF Crash
<1>7. CASE UNCHANGED judgingVars
  BY <1>7 DEF judgingVars
<1> QED
  BY <1>1, <1>2, <1>3, <1>4, <1>5, <1>6, <1>7 DEF JudgingNext, JudgingInternal

-----------------------------------------------------------------------------
(* The store invariant *)

\* The store invariant reads the three tables and nothing else.
LEMMA StoreInvUnchanged ==
  ASSUME StoreInv, UNCHANGED <<task, attempts, outbox>>
  PROVE  StoreInv'
  BY DEF StoreInv, NothingBeforeReceipt, LeaseShape, EventsAreOfAttempts,
         OneTerminalEvent, AttemptHistory, IsTerminal

\* receive inserts a READY row only where there is none, so nothing is known
\* of the submission yet: no attempt, no event.
LEMMA ReceiveKeepsStore ==
  ASSUME JudgingInv, NEW i \in Instances, NEW s \in Submissions, Receive(i, s)
  PROVE  StoreInv'
<1> USE DEF JudgingInv, JudgingTypeOK, StoreInv, TaskRows
<1>0. UNCHANGED <<attempts, outbox>>
  BY DEF Receive
<1>1. CASE UNCHANGED task
  BY <1>0, <1>1, StoreInvUnchanged
<1>2. CASE ~UNCHANGED task
  <2>1. /\ task[s].status = "NONE"
        /\ task' = [task EXCEPT ![s] =
                      [status |-> "READY", attempt |-> 0, token |-> 0]]
    BY <1>2 DEF Receive
  <2>2. task[s].attempt = 0
    BY <2>1 DEF NothingBeforeReceipt
  <2>3. NothingBeforeReceipt' /\ LeaseShape'
    BY <2>1 DEF NothingBeforeReceipt, LeaseShape
  <2>4. EventsAreOfAttempts'
    BY <1>0, <2>1, <2>2 DEF EventsAreOfAttempts, LifecycleEvents
  <2>5. OneTerminalEvent'
    BY <1>0, <2>1, <2>2 DEF OneTerminalEvent, EventsAreOfAttempts
  <2>6. AttemptHistory'
    BY <1>0, <2>1, <2>2 DEF AttemptHistory
  <2> QED BY <2>3, <2>4, <2>5, <2>6
<1> QED BY <1>1, <1>2

\* claim: the task runs, so it has no terminal event; the new attempt is the
\* last one and the only open one.
LEMMA ClaimKeepsStore ==
  ASSUME JudgingInv, NEW i \in Instances, NEW s \in Submissions,
         ClaimTransaction(i, s)
  PROVE  StoreInv'
<1> DEFINE n == task[s].attempt
<1> USE DEF JudgingInv, JudgingTypeOK, StoreInv, TaskRows
<1>1. /\ task' = [task EXCEPT ![s] =
                    [status |-> "RUNNING", attempt |-> n + 1, token |-> n + 1]]
      /\ attempts' = [attempts EXCEPT ![s] = Append(Abandon(s), "RUNNING")]
      /\ outbox' = outbox \cup {JudgeStarted(s, n + 1)}
      /\ task[s].status \in {"READY", "RETRY_WAITING", "RUNNING"}
      /\ n \in Nat
  BY DEF ClaimTransaction, Claimable
<1>2. /\ ~IsTerminal(JudgeStarted(s, n + 1))
      /\ JudgeStarted(s, n + 1).sub = s
      /\ JudgeStarted(s, n + 1).attempt = n + 1
  BY DEF JudgeStarted, IsTerminal
<1>3. \A e \in outbox : e.sub = s => ~IsTerminal(e)
  BY <1>1 DEF EventsAreOfAttempts
<1>4. \A e \in outbox : e.sub \in Submissions /\ e.attempt \in Nat
  BY DEF LifecycleEvents
<1>5. NothingBeforeReceipt' /\ LeaseShape'
  BY <1>1 DEF NothingBeforeReceipt, LeaseShape
<1>6. EventsAreOfAttempts'
  BY <1>1, <1>2, <1>3, <1>4 DEF EventsAreOfAttempts
<1>7. OneTerminalEvent'
  <2>1. \A e \in outbox' : IsTerminal(e) => e \in outbox /\ e.sub # s
    BY <1>1, <1>2, <1>3
  <2> QED BY <1>1, <1>4, <2>1 DEF OneTerminalEvent
<1>8. AttemptHistory'
  <2>1. /\ Abandon(s) \in Seq(AttemptStatuses)
        /\ Len(Abandon(s)) = n
        /\ \A k \in 1..n : Abandon(s)[k] =
             IF k = n /\ task[s].token # 0 THEN "ABANDONED" ELSE attempts[s][k]
    BY ClaimTypes
  <2>2. \A k \in 1..n : Abandon(s)[k] # "RUNNING"
    BY <1>1, <2>1 DEF AttemptHistory, LeaseShape
  <2>3. /\ Len(Append(Abandon(s), "RUNNING")) = n + 1
        /\ \A k \in 1..n : Append(Abandon(s), "RUNNING")[k] = Abandon(s)[k]
        /\ Append(Abandon(s), "RUNNING")[n + 1] = "RUNNING"
    BY <1>1, <2>1
  <2>4. ASSUME NEW u \in Submissions
        PROVE  /\ Len(attempts'[u]) = task'[u].attempt
               /\ \A k \in 1..task'[u].attempt :
                    attempts'[u][k] = "RUNNING" <=>
                      k = task'[u].attempt /\ task'[u].status = "RUNNING"
               /\ \A e \in outbox' : e.sub = u /\ IsTerminal(e) =>
                    (attempts'[u][task'[u].attempt] = "COMPLETED"
                       <=> e.type = "JudgeCompleted")
    <3>1. CASE u = s
      BY <1>1, <1>2, <1>3, <2>2, <2>3, <3>1
    <3>2. CASE u # s
      BY <1>1, <1>2, <3>2 DEF AttemptHistory
    <3> QED BY <3>1, <3>2
  <2> QED BY <2>4 DEF AttemptHistory
<1> QED BY <1>5, <1>6, <1>7, <1>8

\* finish changes the tables only for the holder of the lease, whose task
\* therefore runs and has no terminal event yet.
LEMMA FinishKeepsStore ==
  ASSUME JudgingInv, NEW x \in execs, NEW c \in BOOLEAN, NEW r \in BOOLEAN,
         FinishTransaction(x, c, r)
  PROVE  StoreInv'
<1> DEFINE s == x.sub
           n == x.attempt
<1> USE DEF JudgingInv, JudgingTypeOK, StoreInv, TaskRows
<1>0. s \in Submissions /\ n \in Nat \ {0}
  BY DEF Execs
<1>1. CASE ~HoldsLease(x.inst, s, n)
  <2>1. UNCHANGED <<task, attempts, outbox>>
    BY <1>1 DEF FinishTransaction, storeVars
  <2> QED BY <2>1, StoreInvUnchanged
<1>2. CASE HoldsLease(x.inst, s, n)
  <2> DEFINE next == IF r THEN "RETRY_WAITING" ELSE "DONE"
             closed == IF c THEN "COMPLETED" ELSE "FAILED"
             final == IF c THEN JudgeCompleted(s, n, x.result)
                           ELSE JudgeFailed(s, n)
  <2>1. task[s].status = "RUNNING" /\ task[s].attempt = n
    BY <1>0, <1>2 DEF HoldsLease, LeaseShape
  <2>2. /\ task' = [task EXCEPT ![s] =
                      [status |-> next, attempt |-> n, token |-> 0]]
        /\ attempts' = [attempts EXCEPT ![s] = [@ EXCEPT ![n] = closed]]
        /\ outbox' = IF r THEN outbox ELSE outbox \cup {final}
    BY <1>2, <2>1 DEF FinishTransaction
  <2>3. /\ IsTerminal(final) /\ final.sub = s /\ final.attempt = n
        /\ final.type = "JudgeCompleted" <=> c
    BY DEF JudgeCompleted, JudgeFailed, IsTerminal
  <2>4. \A e \in outbox : e.sub = s => ~IsTerminal(e)
    BY <2>1 DEF EventsAreOfAttempts
  <2>5. \A e \in outbox : e.sub \in Submissions /\ e.attempt \in Nat
    BY DEF LifecycleEvents
  <2>6. NothingBeforeReceipt' /\ LeaseShape'
    BY <1>0, <2>2 DEF NothingBeforeReceipt, LeaseShape
  <2>7. EventsAreOfAttempts'
    BY <1>0, <2>1, <2>2, <2>3, <2>4, <2>5 DEF EventsAreOfAttempts
  <2>8. OneTerminalEvent'
    BY <1>0, <2>1, <2>2, <2>3, <2>4, <2>5 DEF OneTerminalEvent
  <2>9. AttemptHistory'
    <3>1. /\ attempts[s] \in Seq(AttemptStatuses)
          /\ n \in 1..Len(attempts[s])
          /\ closed \in AttemptStatuses
      BY <1>0, <2>1 DEF AttemptHistory, AttemptStatuses
    <3>2. /\ Len(attempts'[s]) = Len(attempts[s])
          /\ \A k \in 1..Len(attempts[s]) :
               attempts'[s][k] = IF k = n THEN closed ELSE attempts[s][k]
      BY <1>0, <2>2, <3>1, ExceptSeq
    <3>3. ASSUME NEW u \in Submissions
          PROVE  /\ Len(attempts'[u]) = task'[u].attempt
                 /\ \A k \in 1..task'[u].attempt :
                      attempts'[u][k] = "RUNNING" <=>
                        k = task'[u].attempt /\ task'[u].status = "RUNNING"
                 /\ \A e \in outbox' : e.sub = u /\ IsTerminal(e) =>
                      (attempts'[u][task'[u].attempt] = "COMPLETED"
                         <=> e.type = "JudgeCompleted")
      <4>1. CASE u = s
        <5>1. /\ task'[s].attempt = n
              /\ task'[s].status # "RUNNING"
              /\ Len(attempts[s]) = n
          BY <1>0, <2>1, <2>2 DEF AttemptHistory
        <5>2. /\ Len(attempts'[s]) = n
              /\ attempts'[s][n] = closed
              /\ \A k \in 1..n : attempts'[s][k] # "RUNNING"
          <6>1. \A k \in 1..n : k # n => attempts[s][k] # "RUNNING"
            BY <1>0, <2>1 DEF AttemptHistory
          <6> QED BY <1>0, <3>1, <3>2, <5>1, <6>1
        <5>3. \A e \in outbox' : e.sub = s /\ IsTerminal(e) => e = final
          BY <2>2, <2>4
        <5> QED BY <2>3, <4>1, <5>1, <5>2, <5>3
      <4>2. CASE u # s
        BY <1>0, <2>2, <2>3, <4>2 DEF AttemptHistory
      <4> QED BY <4>1, <4>2
    <3> QED BY <3>3 DEF AttemptHistory
  <2> QED BY <2>6, <2>7, <2>8, <2>9
<1> QED BY <1>1, <1>2

-----------------------------------------------------------------------------
(* The processes *)

\* The executions of one process.
Of(E, i) == {x \in E : x.inst = i}

\* Starting an execution takes one slot of its own process.
LEMMA CountAdd ==
  ASSUME NEW E, IsFiniteSet(E), NEW x, x \notin E, NEW i
  PROVE  /\ IsFiniteSet(E \cup {x})
         /\ Cardinality(Of(E, i)) \in Nat
         /\ Cardinality(Of(E \cup {x}, i)) =
              IF x.inst = i THEN Cardinality(Of(E, i)) + 1 ELSE Cardinality(Of(E, i))
<1>1. IsFiniteSet(E \cup {x})
  BY FS_AddElement
<1>2. IsFiniteSet(Of(E, i))
  BY FS_Subset DEF Of
<1>3. Cardinality(Of(E, i)) \in Nat
  BY <1>2, FS_CardinalityType
<1>4. CASE x.inst = i
  <2>1. Of(E \cup {x}, i) = Of(E, i) \cup {x} /\ x \notin Of(E, i)
    BY <1>4 DEF Of
  <2> QED BY <1>1, <1>2, <1>3, <1>4, <2>1, FS_AddElement
<1>5. CASE x.inst # i
  <2>1. Of(E \cup {x}, i) = Of(E, i)
    BY <1>5 DEF Of
  <2> QED BY <1>1, <1>3, <1>5, <2>1
<1> QED BY <1>4, <1>5

\* Ending one gives it back.
LEMMA CountRemove ==
  ASSUME NEW E, IsFiniteSet(E), NEW x \in E, NEW i
  PROVE  /\ IsFiniteSet(E \ {x})
         /\ Cardinality(Of(E, i)) \in Nat
         /\ Cardinality(Of(E \ {x}, i)) =
              IF x.inst = i THEN Cardinality(Of(E, i)) - 1 ELSE Cardinality(Of(E, i))
<1>1. IsFiniteSet(E \ {x})
  BY FS_RemoveElement
<1>2. IsFiniteSet(Of(E, i))
  BY FS_Subset DEF Of
<1>3. Cardinality(Of(E, i)) \in Nat
  BY <1>2, FS_CardinalityType
<1>4. CASE x.inst = i
  <2>1. Of(E \ {x}, i) = Of(E, i) \ {x} /\ x \in Of(E, i)
    BY <1>4 DEF Of
  <2> QED BY <1>1, <1>2, <1>3, <1>4, <2>1, FS_RemoveElement
<1>5. CASE x.inst # i
  <2>1. Of(E \ {x}, i) = Of(E, i)
    BY <1>5 DEF Of
  <2> QED BY <1>1, <1>3, <1>5, <2>1
<1> QED BY <1>4, <1>5

\* An execution that moves to another phase stays the execution it is: nothing
\* else is added or dropped, and no process counts one more or one less.
LEMMA MovesKeeps ==
  ASSUME ExecutionInv, NEW x \in execs, NEW p, NEW r, Moves(x, p, r)
  PROVE  /\ IsFiniteSet(execs')
         /\ \A i : Cardinality(Of(execs', i)) = Cardinality(Of(execs, i))
         /\ \A y \in execs' : \E z \in execs :
              /\ y.sub = z.sub /\ y.attempt = z.attempt /\ y.inst = z.inst
              /\ IF z = x THEN y.phase = p ELSE y = z
         /\ \A y, z \in execs' : y.sub = z.sub /\ y.attempt = z.attempt => y = z
<1> DEFINE m == [x EXCEPT !.phase = p, !.result = r]
           E == execs \ {x}
<1>1. x \in Execs /\ execs' = E \cup {m}
  BY DEF Moves, ExecutionInv, JudgingInv, JudgingTypeOK
<1>2. m.sub = x.sub /\ m.attempt = x.attempt /\ m.inst = x.inst /\ m.phase = p
  BY <1>1 DEF Execs
<1>3. \A y, z \in execs : y.sub = z.sub /\ y.attempt = z.attempt => y = z
  BY DEF ExecutionInv, OneExecutionPerClaim
<1>4. m \notin E
  BY <1>2, <1>3
<1>5. IsFiniteSet(execs)
  BY DEF ExecutionInv, OneExecutionPerClaim
<1>6. IsFiniteSet(E)
  BY <1>5, FS_RemoveElement
<1>7. IsFiniteSet(execs')
  BY <1>1, <1>6, FS_AddElement
<1>8. ASSUME NEW i
      PROVE  Cardinality(Of(execs', i)) = Cardinality(Of(execs, i))
  <2>1. /\ Cardinality(Of(execs, i)) \in Nat
        /\ Cardinality(Of(E, i)) =
             IF x.inst = i THEN Cardinality(Of(execs, i)) - 1 ELSE Cardinality(Of(execs, i))
    BY <1>5, CountRemove
  <2>2. Cardinality(Of(execs', i)) =
          IF x.inst = i THEN Cardinality(Of(E, i)) + 1 ELSE Cardinality(Of(E, i))
    <3> HIDE DEF E, m
    <3>1. Cardinality(Of(E \cup {m}, i)) =
            IF m.inst = i THEN Cardinality(Of(E, i)) + 1 ELSE Cardinality(Of(E, i))
      BY <1>4, <1>6, CountAdd
    <3> QED BY <1>1, <1>2, <3>1
  <2> HIDE DEF E, m
  <2> QED BY <2>1, <2>2
<1>9. \A y \in execs' : \E z \in execs :
        /\ y.sub = z.sub /\ y.attempt = z.attempt /\ y.inst = z.inst
        /\ IF z = x THEN y.phase = p ELSE y = z
  <2> SUFFICES ASSUME NEW y \in execs'
               PROVE  \E z \in execs :
                        /\ y.sub = z.sub /\ y.attempt = z.attempt /\ y.inst = z.inst
                        /\ IF z = x THEN y.phase = p ELSE y = z
    OBVIOUS
  <2>1. CASE y = m
    BY <1>2, <2>1
  <2>2. CASE y \in execs /\ y # x
    BY <2>2
  <2> QED BY <1>1, <2>1, <2>2
<1>10. \A y, z \in execs' : y.sub = z.sub /\ y.attempt = z.attempt => y = z
  <2> HIDE DEF m
  <2> QED BY <1>1, <1>2, <1>3
<1> QED BY <1>7, <1>8, <1>9, <1>10

\* A row of judge_task after a step of an execution: the same, or finished with
\* its lease given back.
RowAfter(s) ==
  \/ task'[s] = task[s]
  \/ /\ task'[s].token = 0
     /\ task'[s].attempt = task[s].attempt
     /\ task'[s].status = "RETRY_WAITING" => task[s].attempt < MaxAttempts

\* A step of an execution that is not its end keeps the invariant, if it goes
\* to a judge node only within the budget and finishes rows as finish does.
LEMMA MoveKeepsWorkers ==
  ASSUME ExecutionInv, NEW x \in execs, NEW p, NEW r, Moves(x, p, r),
         p \in {"judging", "judged"} => x.attempt <= MaxAttempts,
         UNCHANGED <<active, slots>>,
         \A s \in Submissions : RowAfter(s)
  PROVE  WorkerInv' /\ OneExecutionPerClaim'
<1>1. /\ IsFiniteSet(execs')
      /\ \A i : Cardinality(Of(execs', i)) = Cardinality(Of(execs, i))
      /\ \A y \in execs' : \E z \in execs :
           /\ y.sub = z.sub /\ y.attempt = z.attempt /\ y.inst = z.inst
           /\ IF z = x THEN y.phase = p ELSE y = z
      /\ \A y, z \in execs' : y.sub = z.sub /\ y.attempt = z.attempt => y = z
  BY MovesKeeps
<1>2. \A z \in execs : z.sub \in Submissions /\ z.attempt \in Nat \ {0}
  BY DEF ExecutionInv, JudgingInv, JudgingTypeOK, Execs
<1>3. \A s \in Submissions : task[s].attempt \in Nat
  BY DEF ExecutionInv, JudgingInv, JudgingTypeOK, TaskRows
<1>4. HolderIsRenewed'
  <2> SUFFICES ASSUME NEW y \in execs', task'[y.sub].token = y.attempt,
                      task'[y.sub].status = "RUNNING"
               PROVE  active'[y.inst][y.sub] = y.attempt
    BY DEF HolderIsRenewed
  <2>1. PICK z \in execs : y.sub = z.sub /\ y.attempt = z.attempt /\ y.inst = z.inst
    BY <1>1
  <2>2. task'[z.sub] = task[z.sub]
    BY <1>2, <2>1 DEF RowAfter
  <2> QED BY <2>1, <2>2 DEF ExecutionInv, WorkerInv, HolderIsRenewed
<1>5. SlotsConserved'
  BY <1>1 DEF ExecutionInv, WorkerInv, SlotsConserved, Of
<1>6. RetryBudget'
  <2>1. \A s \in Submissions :
          task'[s].status = "RETRY_WAITING" => task'[s].attempt < MaxAttempts
    BY DEF RowAfter, ExecutionInv, WorkerInv, RetryBudget
  <2>2. \A y \in execs' : y.phase \in {"judging", "judged"} => y.attempt <= MaxAttempts
    BY <1>1 DEF ExecutionInv, WorkerInv, RetryBudget
  <2> QED BY <2>1, <2>2 DEF RetryBudget
<1>7. OneExecutionPerClaim'
  <2>1. ASSUME NEW y \in execs'
        PROVE  y.attempt <= task'[y.sub].attempt
    <3>1. PICK z \in execs : y.sub = z.sub /\ y.attempt = z.attempt
      BY <1>1
    <3>2. z.attempt <= task[z.sub].attempt
      BY DEF ExecutionInv, OneExecutionPerClaim
    <3> QED BY <1>2, <1>3, <3>1, <3>2 DEF RowAfter
  <2> QED BY <1>1, <2>1 DEF OneExecutionPerClaim
<1> QED BY <1>4, <1>5, <1>6, <1>7 DEF WorkerInv

\* finish leaves the rows of other tasks alone, and its own row as RowAfter says.
LEMMA FinishRows ==
  ASSUME ExecutionInv, NEW x \in execs, NEW c \in BOOLEAN, NEW r \in BOOLEAN,
         FinishTransaction(x, c, r), r => x.attempt < MaxAttempts
  PROVE  \A s \in Submissions : RowAfter(s)
<1> USE DEF ExecutionInv, JudgingInv, JudgingTypeOK
<1>0. x.sub \in Submissions /\ x.attempt \in Nat \ {0}
  BY DEF Execs
<1>1. CASE ~HoldsLease(x.inst, x.sub, x.attempt)
  BY <1>1 DEF FinishTransaction, storeVars, RowAfter
<1>2. CASE HoldsLease(x.inst, x.sub, x.attempt)
  <2>1. task[x.sub].attempt = x.attempt
    BY <1>0, <1>2 DEF HoldsLease, LeaseShape, StoreInv
  <2>2. task' = [task EXCEPT ![x.sub] =
                   [status |-> IF r THEN "RETRY_WAITING" ELSE "DONE",
                    attempt |-> x.attempt, token |-> 0]]
    BY <1>2, <2>1 DEF FinishTransaction
  <2> QED BY <1>0, <2>1, <2>2 DEF RowAfter
<1> QED BY <1>1, <1>2

\* The steps of one execution.
LEMMA ExecuteKeepsWorkers ==
  ASSUME ExecutionInv, NEW x \in execs, ExecuteStep(x)
  PROVE  WorkerInv' /\ OneExecutionPerClaim'
<1> USE DEF storeVars
<1>0. /\ x.sub \in Submissions /\ x.inst \in Instances /\ x.attempt \in Nat \ {0}
      /\ MaxAttempts \in Nat
  BY JudgingAssumption DEF ExecutionInv, JudgingInv, JudgingTypeOK, Execs
<1>1. ASSUME NEW p, NEW r, WorkerStep(x, p, r),
             p \in {"judging", "judged"} => x.attempt <= MaxAttempts
      PROVE  WorkerInv' /\ OneExecutionPerClaim'
  <2>1. Moves(x, p, r) /\ UNCHANGED <<active, slots>> /\ task' = task
    BY <1>1 DEF WorkerStep
  <2>2. \A s \in Submissions : RowAfter(s)
    BY <2>1 DEF RowAfter
  <2> QED BY <1>1, <2>1, <2>2, MoveKeepsWorkers
<1>2. CASE Dispatch(x)
  <2>1. x.attempt <= MaxAttempts
    BY <1>0, <1>2 DEF Dispatch, OutOfBudget
  <2> QED BY <1>1, <1>2, <2>1 DEF Dispatch
<1>3. CASE Refuse(x) \/ JudgeFails(x)
  BY <1>1, <1>3 DEF Refuse, JudgeFails
<1>4. CASE \E raw \in RawResults : JudgeAnswers(x, raw)
  <2>1. x.attempt <= MaxAttempts
    BY <1>4 DEF JudgeAnswers, ExecutionInv, WorkerInv, RetryBudget
  <2> QED BY <1>1, <1>4, <2>1 DEF JudgeAnswers
<1>5. CASE FinishJudged(x)
  <2>1. \A s \in Submissions : RowAfter(s)
    BY <1>5, FinishRows DEF FinishJudged
  <2> QED BY <1>5, <2>1, MoveKeepsWorkers DEF FinishJudged
<1>6. CASE FinishJudgedThrows(x)
  <2>1. \A s \in Submissions : RowAfter(s)
    <3>1. CASE FinishTransaction(x, TRUE, FALSE)
      BY <3>1, FinishRows
    <3>2. CASE UNCHANGED <<storeVars, expired, due>>
      BY <3>2 DEF RowAfter
    <3> QED BY <1>6, <3>1, <3>2 DEF FinishJudgedThrows
  <2> QED BY <1>6, <2>1, MoveKeepsWorkers DEF FinishJudgedThrows
<1>7. CASE FinishFailed(x)
  <2>1. Retries(x) \in BOOLEAN /\ (Retries(x) => x.attempt < MaxAttempts)
    BY DEF Retries
  <2>2. FinishTransaction(x, FALSE, Retries(x))
    BY <1>7 DEF FinishFailed
  <2>3. \A s \in Submissions : RowAfter(s)
    BY <2>1, <2>2, FinishRows
  <2> QED BY <1>7, <2>3, MoveKeepsWorkers DEF FinishFailed
<1>8. CASE FinishFailedThrows(x)
  <2>1. \A s \in Submissions : RowAfter(s)
    BY <1>8 DEF FinishFailedThrows, RowAfter
  <2> QED BY <1>8, <2>1, MoveKeepsWorkers DEF FinishFailedThrows
<1>9. CASE Exit(x)
  <2>1. /\ execs' = execs \ {x} /\ task' = task
        /\ active' = [active EXCEPT ![x.inst][x.sub] =
                        IF @ = x.attempt THEN 0 ELSE @]
        /\ slots' = [slots EXCEPT ![x.inst] = slots[x.inst] + 1]
    BY <1>9 DEF Exit
  <2>2. /\ active \in [Instances -> [Submissions -> Nat]]
        /\ slots \in [Instances -> Nat]
        /\ \A y \in execs : y.sub \in Submissions /\ y.inst \in Instances
    BY DEF ExecutionInv, JudgingInv, JudgingTypeOK, Execs
  <2>3. IsFiniteSet(execs)
    BY DEF ExecutionInv, OneExecutionPerClaim
  <2>4. HolderIsRenewed'
    <3> SUFFICES ASSUME NEW y \in execs', task'[y.sub].token = y.attempt,
                        task'[y.sub].status = "RUNNING"
                 PROVE  active'[y.inst][y.sub] = y.attempt
      BY DEF HolderIsRenewed
    <3>1. y \in execs /\ y # x /\ active[y.inst][y.sub] = y.attempt
      BY <2>1 DEF ExecutionInv, WorkerInv, HolderIsRenewed
    <3>2. ~(y.sub = x.sub /\ y.attempt = x.attempt)
      BY <3>1 DEF ExecutionInv, OneExecutionPerClaim
    <3>3. y.inst \in Instances /\ y.sub \in Submissions
      BY <2>2, <3>1
    <3>4. CASE y.inst = x.inst /\ y.sub = x.sub
      BY <1>0, <2>1, <2>2, <3>1, <3>2, <3>4
    <3>5. CASE ~(y.inst = x.inst /\ y.sub = x.sub)
      BY <1>0, <2>1, <2>2, <3>1, <3>3, <3>5
    <3> QED BY <3>4, <3>5
  <2>5. SlotsConserved'
    <3> SUFFICES ASSUME NEW i \in Instances
                 PROVE  slots'[i] + Cardinality(Of(execs', i)) = Parallelism
      BY DEF SlotsConserved, Of
    <3>1. slots[i] + Cardinality(Of(execs, i)) = Parallelism
      BY DEF ExecutionInv, WorkerInv, SlotsConserved, Of
    <3>2. /\ Cardinality(Of(execs, i)) \in Nat
          /\ Cardinality(Of(execs', i)) =
               IF x.inst = i THEN Cardinality(Of(execs, i)) - 1 ELSE Cardinality(Of(execs, i))
      BY <2>1, <2>3, CountRemove
    <3>3. slots'[i] = IF x.inst = i THEN slots[i] + 1 ELSE slots[i]
      BY <1>0, <2>1, <2>2
    <3>4. slots[i] \in Nat
      BY <2>2
    <3> QED BY <3>1, <3>2, <3>3, <3>4
  <2>6. RetryBudget'
    BY <2>1 DEF ExecutionInv, WorkerInv, RetryBudget
  <2>7. IsFiniteSet(execs')
    BY <2>1, <2>3, FS_RemoveElement
  <2>8. OneExecutionPerClaim'
    BY <2>1, <2>7 DEF ExecutionInv, OneExecutionPerClaim
  <2> QED BY <2>4, <2>5, <2>6, <2>8 DEF WorkerInv
<1> QED
  BY <1>2, <1>3, <1>4, <1>5, <1>6, <1>7, <1>8, <1>9 DEF ExecuteStep

\* A claim leaves its submission without a holder among the executions there
\* are: they are all of earlier attempts.
LEMMA ClaimedIsNew ==
  ASSUME ExecutionInv, NEW i \in Instances, NEW s \in Submissions,
         ClaimTransaction(i, s), NEW x \in execs
  PROVE  /\ x.sub = s => x.attempt < task'[s].attempt
         /\ x.attempt <= task'[x.sub].attempt
         /\ task'[x.sub].token = x.attempt /\ task'[x.sub].status = "RUNNING" =>
              active[x.inst][x.sub] = x.attempt
<1>1. /\ x.sub \in Submissions /\ x.attempt \in Nat \ {0}
      /\ task \in [Submissions -> TaskRows]
      /\ \A u \in Submissions : task[u].attempt \in Nat
  BY DEF ExecutionInv, JudgingInv, JudgingTypeOK, Execs, TaskRows
<1>2. x.attempt <= task[x.sub].attempt
  BY DEF ExecutionInv, OneExecutionPerClaim
<1>3. task' = [task EXCEPT ![s] = [status |-> "RUNNING", attempt |-> task[s].attempt + 1,
                                   token |-> task[s].attempt + 1]]
  BY DEF ClaimTransaction
<1>4. CASE x.sub = s
  BY <1>1, <1>2, <1>3, <1>4
<1>5. CASE x.sub # s
  <2>1. task'[x.sub] = task[x.sub]
    BY <1>1, <1>3, <1>5
  <2> QED BY <1>2, <1>5, <2>1 DEF ExecutionInv, WorkerInv, HolderIsRenewed
<1> QED BY <1>4, <1>5

\* The budget of the rows after a claim: the claimed row runs.
LEMMA ClaimKeepsBudget ==
  ASSUME ExecutionInv, NEW i \in Instances, NEW s \in Submissions,
         ClaimTransaction(i, s)
  PROVE  \A u \in Submissions :
           task'[u].status = "RETRY_WAITING" => task'[u].attempt < MaxAttempts
<1>1. task \in [Submissions -> TaskRows]
  BY DEF ExecutionInv, JudgingInv, JudgingTypeOK
<1>2. task' = [task EXCEPT ![s] = [status |-> "RUNNING", attempt |-> task[s].attempt + 1,
                                   token |-> task[s].attempt + 1]]
  BY DEF ClaimTransaction
<1> QED BY <1>1, <1>2 DEF ExecutionInv, WorkerInv, RetryBudget

\* poll claims a task and starts its execution: the entry of the active map is
\* of the new attempt, and the slot it took is the execution's.
LEMMA ClaimKeepsWorkers ==
  ASSUME ExecutionInv, NEW i \in Instances, NEW s \in Submissions, Claim(i, s)
  PROVE  WorkerInv' /\ OneExecutionPerClaim'
<1> DEFINE n == task[s].attempt + 1
           new == NewExec(i, s, n)
<1>1. /\ ClaimTransaction(i, s) /\ slots[i] > 0
      /\ slots' = [slots EXCEPT ![i] = slots[i] - 1]
      /\ active' = [active EXCEPT ![i][s] = n]
      /\ execs' = execs \cup {new}
  BY DEF Claim
<1>2. new.inst = i /\ new.sub = s /\ new.attempt = n /\ new.phase = "start"
  BY DEF NewExec
<1>3. task'[s].attempt = n /\ n \in Nat
  BY <1>1 DEF ClaimTransaction, ExecutionInv, JudgingInv, JudgingTypeOK, TaskRows
<1>4. \A x \in execs : /\ x.sub = s => x.attempt < n
                       /\ x.attempt <= task'[x.sub].attempt
                       /\ task'[x.sub].token = x.attempt /\ task'[x.sub].status = "RUNNING" =>
                            active[x.inst][x.sub] = x.attempt
  BY <1>1, <1>3, ClaimedIsNew
<1>5. /\ active \in [Instances -> [Submissions -> Nat]]
      /\ slots \in [Instances -> Nat]
      /\ \A x \in execs : x.sub \in Submissions /\ x.inst \in Instances /\ x.attempt \in Nat
  BY DEF ExecutionInv, JudgingInv, JudgingTypeOK, Execs
<1>6. new \notin execs /\ IsFiniteSet(execs)
  BY <1>2, <1>3, <1>4 DEF ExecutionInv, OneExecutionPerClaim
<1> HIDE DEF new, n
<1>7. HolderIsRenewed'
  <2> SUFFICES ASSUME NEW x \in execs', task'[x.sub].token = x.attempt,
                      task'[x.sub].status = "RUNNING"
               PROVE  active'[x.inst][x.sub] = x.attempt
    BY DEF HolderIsRenewed
  <2>1. CASE x = new
    BY <1>1, <1>2, <1>5, <2>1
  <2>2. CASE x \in execs
    <3>1. /\ active[x.inst][x.sub] = x.attempt
          /\ x.sub \in Submissions /\ x.inst \in Instances
      BY <1>4, <1>5, <2>2
    <3>2. x.sub # s
      BY <1>1, <1>3, <1>4, <1>5, <2>2
      DEF ClaimTransaction, n, ExecutionInv, JudgingInv, JudgingTypeOK, TaskRows
    <3> QED BY <1>1, <1>5, <3>1, <3>2
  <2> QED BY <1>1, <2>1, <2>2
<1>8. SlotsConserved'
  <2> SUFFICES ASSUME NEW j \in Instances
               PROVE  slots'[j] + Cardinality(Of(execs', j)) = Parallelism
    BY DEF SlotsConserved, Of
  <2>1. slots[j] + Cardinality(Of(execs, j)) = Parallelism
    BY DEF ExecutionInv, WorkerInv, SlotsConserved, Of
  <2>2. /\ Cardinality(Of(execs, j)) \in Nat
        /\ Cardinality(Of(execs', j)) =
             IF i = j THEN Cardinality(Of(execs, j)) + 1 ELSE Cardinality(Of(execs, j))
    BY <1>1, <1>2, <1>6, CountAdd
  <2>3. slots'[j] = IF i = j THEN slots[j] - 1 ELSE slots[j]
    BY <1>1, <1>5
  <2>4. slots[j] \in Nat
    BY <1>5
  <2> QED BY <2>1, <2>2, <2>3, <2>4
<1>9. RetryBudget'
  <2>1. \A x \in execs' : x.phase \in {"judging", "judged"} => x.attempt <= MaxAttempts
    BY <1>1, <1>2 DEF ExecutionInv, WorkerInv, RetryBudget
  <2> QED BY <1>1, <2>1, ClaimKeepsBudget DEF RetryBudget
<1>10. OneExecutionPerClaim'
  <2>1. IsFiniteSet(execs')
    BY <1>1, <1>6, FS_AddElement
  <2>2. \A x, y \in execs' : x.sub = y.sub /\ x.attempt = y.attempt => x = y
    <3>1. \A x, y \in execs : x.sub = y.sub /\ x.attempt = y.attempt => x = y
      BY DEF ExecutionInv, OneExecutionPerClaim
    <3>2. \A x \in execs : ~(x.sub = s /\ x.attempt = n)
      BY <1>3, <1>4, <1>5
    <3> QED BY <1>1, <1>2, <3>1, <3>2
  <2>3. \A x \in execs' : x.attempt <= task'[x.sub].attempt
    BY <1>1, <1>2, <1>3, <1>4
  <2> QED BY <2>1, <2>2, <2>3 DEF OneExecutionPerClaim
<1> QED BY <1>7, <1>8, <1>9, <1>10 DEF WorkerInv

\* Steps that touch neither the executions, nor the active maps, nor the slots.
LEMMA OthersKeepWorkers ==
  ASSUME ExecutionInv, UNCHANGED workerVars,
         \A x \in execs :
           /\ x.attempt <= task'[x.sub].attempt
           /\ task'[x.sub].token = x.attempt /\ task'[x.sub].status = "RUNNING" =>
                active[x.inst][x.sub] = x.attempt,
         \A s \in Submissions :
           task'[s].status = "RETRY_WAITING" => task'[s].attempt < MaxAttempts
  PROVE  WorkerInv' /\ OneExecutionPerClaim'
<1>1. UNCHANGED <<execs, active, slots>>
  BY DEF workerVars
<1>2. HolderIsRenewed' /\ RetryBudget'
  BY <1>1 DEF ExecutionInv, WorkerInv, HolderIsRenewed, RetryBudget
<1>3. SlotsConserved'
  BY <1>1 DEF ExecutionInv, WorkerInv, SlotsConserved
<1>4. OneExecutionPerClaim'
  BY <1>1 DEF ExecutionInv, OneExecutionPerClaim
<1> QED BY <1>2, <1>3, <1>4 DEF WorkerInv

\* A restarted process has all its slots, no execution and an empty active map.
LEMMA CrashKeepsWorkers ==
  ASSUME ExecutionInv, NEW i \in Instances, Crash(i)
  PROVE  WorkerInv' /\ OneExecutionPerClaim'
<1>1. /\ execs' = {x \in execs : x.inst # i} /\ task' = task
      /\ active' = [active EXCEPT ![i] = [s \in Submissions |-> 0]]
      /\ slots' = [slots EXCEPT ![i] = Parallelism]
  BY DEF Crash, storeVars
<1>2. /\ active \in [Instances -> [Submissions -> Nat]]
      /\ slots \in [Instances -> Nat] /\ Parallelism \in Nat
      /\ \A x \in execs : x.inst \in Instances
      /\ IsFiniteSet(execs)
  BY JudgingAssumption
  DEF ExecutionInv, JudgingInv, JudgingTypeOK, Execs, OneExecutionPerClaim
<1>3. HolderIsRenewed' /\ RetryBudget'
  BY <1>1, <1>2 DEF ExecutionInv, WorkerInv, HolderIsRenewed, RetryBudget
<1>4. SlotsConserved'
  <2> SUFFICES ASSUME NEW j \in Instances
               PROVE  slots'[j] + Cardinality(Of(execs', j)) = Parallelism
    BY DEF SlotsConserved, Of
  <2>1. CASE j = i
    <3>1. Of(execs', j) = {}
      BY <1>1, <2>1 DEF Of
    <3>2. Cardinality(Of(execs', j)) = 0
      BY <3>1, FS_EmptySet
    <3> QED BY <1>1, <1>2, <2>1, <3>2
  <2>2. CASE j # i
    <3>1. Of(execs', j) = Of(execs, j) /\ slots'[j] = slots[j]
      BY <1>1, <1>2, <2>2 DEF Of
    <3> QED BY <3>1 DEF ExecutionInv, WorkerInv, SlotsConserved, Of
  <2> QED BY <2>1, <2>2
<1>5. IsFiniteSet(execs')
  BY <1>1, <1>2, FS_Subset
<1>6. OneExecutionPerClaim'
  BY <1>1, <1>5 DEF ExecutionInv, OneExecutionPerClaim
<1> QED BY <1>3, <1>4, <1>6 DEF WorkerInv

-----------------------------------------------------------------------------
(* The theorems *)

\* The invariant is inductive.
LEMMA InvStep == JudgingInv /\ [JudgingNext]_judgingVars => JudgingInv'
<1> SUFFICES ASSUME JudgingInv, [JudgingNext]_judgingVars
             PROVE  JudgingInv'
  OBVIOUS
<1>1. JudgingTypeOK'
  BY TypeOKStep
<1>2. StoreInv'
  <2>1. StoreStep
    BY NextIsStoreStep
  <2> QED
    BY <2>1, ReceiveKeepsStore, ClaimKeepsStore, FinishKeepsStore,
       StoreInvUnchanged
    DEF StoreStep, JudgingInv
<1> QED BY <1>1, <1>2 DEF JudgingInv

\* The invariant holds in empty tables.
LEMMA InvInit == JudgingInit => JudgingInv
<1> SUFFICES ASSUME JudgingInit PROVE JudgingInv
  OBVIOUS
<1>1. JudgingTypeOK
  BY JudgingAssumption, EmptySeq
  DEF JudgingInit, JudgingTypeOK, TaskRows, Statuses
<1>2. NothingBeforeReceipt /\ LeaseShape /\ EventsAreOfAttempts
  BY DEF JudgingInit, NothingBeforeReceipt, LeaseShape, EventsAreOfAttempts
<1>3. OneTerminalEvent
  BY DEF JudgingInit, OneTerminalEvent
<1>4. AttemptHistory
  <2>1. Len(<<>>) = 0
    OBVIOUS
  <2>2. /\ outbox = {}
        /\ \A s \in Submissions : attempts[s] = <<>> /\ task[s].attempt = 0
    BY DEF JudgingInit
  <2>3. ASSUME NEW s \in Submissions
        PROVE  /\ Len(attempts[s]) = task[s].attempt
               /\ 1..task[s].attempt = {}
    BY <2>1, <2>2
  <2> QED BY <2>2, <2>3 DEF AttemptHistory
<1> QED BY <1>1, <1>2, <1>3, <1>4 DEF JudgingInv, StoreInv

\* The inductive invariant holds in every reachable state of judging-service.
THEOREM JudgingInvariant == JudgingSpec => []JudgingInv
  BY InvInit, InvStep, PTL DEF JudgingSpec

\* Every variable of judging-service keeps its type.
THEOREM JudgingTypeCorrect == JudgingSpec => []JudgingTypeOK
<1>1. JudgingInv => JudgingTypeOK
  BY DEF JudgingInv
<1> QED BY <1>1, JudgingInvariant, PTL

\* Lease fencing: however many instances claim, crash, pause and finish late,
\* a task gets at most one terminal event, exactly when it is DONE.
THEOREM Fencing == JudgingSpec => []OneTerminalEvent
<1>1. JudgingInv => OneTerminalEvent
  BY DEF JudgingInv, StoreInv
<1> QED BY <1>1, JudgingInvariant, PTL

\* The rows of judge_attempt tell the history of the task.
THEOREM History == JudgingSpec => []AttemptHistory
<1>1. JudgingInv => AttemptHistory
  BY DEF JudgingInv, StoreInv
<1> QED BY <1>1, JudgingInvariant, PTL

\* One step leaves a DONE task and its attempts alone, and no step takes
\* attempt_no back.
LEMMA DoneStep ==
  ASSUME JudgingInv, [JudgingNext]_judgingVars, NEW s \in Submissions
  PROVE  /\ task[s].status = "DONE" =>
              task'[s] = task[s] /\ attempts'[s] = attempts[s]
         /\ task'[s].attempt >= task[s].attempt
<1> USE DEF JudgingInv, JudgingTypeOK, StoreInv, TaskRows
<1>1. task[s].attempt \in Nat
  OBVIOUS
<1>2. CASE UNCHANGED <<task, attempts, outbox>>
  BY <1>1, <1>2
<1>3. CASE \E i \in Instances, u \in Submissions : Receive(i, u)
  <2> PICK i \in Instances, u \in Submissions : Receive(i, u)
    BY <1>3
  <2>1. CASE UNCHANGED task
    BY <1>1, <2>1 DEF Receive
  <2>2. CASE ~UNCHANGED task
    <3>1. /\ task[u].status = "NONE"
          /\ task' = [task EXCEPT ![u] =
                        [status |-> "READY", attempt |-> 0, token |-> 0]]
          /\ UNCHANGED attempts
      BY <2>2 DEF Receive
    <3>2. task[u].attempt = 0
      BY <3>1 DEF NothingBeforeReceipt
    <3> QED BY <1>1, <3>1, <3>2
  <2> QED BY <2>1, <2>2
<1>4. CASE \E i \in Instances, u \in Submissions : ClaimTransaction(i, u)
  BY <1>1, <1>4 DEF ClaimTransaction, Claimable
<1>5. CASE \E x \in execs, c \in BOOLEAN, r \in BOOLEAN :
             FinishTransaction(x, c, r)
  <2> PICK x \in execs, c \in BOOLEAN, r \in BOOLEAN :
             FinishTransaction(x, c, r)
    BY <1>5
  <2>1. CASE ~HoldsLease(x.inst, x.sub, x.attempt)
    BY <1>1, <2>1 DEF FinishTransaction, storeVars
  <2>2. CASE HoldsLease(x.inst, x.sub, x.attempt)
    <3>1. task[x.sub].status = "RUNNING"
      BY <2>2 DEF HoldsLease
    <3>2. \E new \in [status : {"RETRY_WAITING", "DONE"},
                       attempt : {task[x.sub].attempt}, token : {0}] : \E q :
            /\ task' = [task EXCEPT ![x.sub] = new]
            /\ attempts' = [attempts EXCEPT ![x.sub] = q]
      BY <2>2 DEF FinishTransaction
    <3>3. x.sub \in Submissions
      BY DEF Execs
    <3> QED BY <1>1, <3>1, <3>2, <3>3
  <2> QED BY <2>1, <2>2
<1> QED BY <1>2, <1>3, <1>4, <1>5, NextIsStoreStep DEF StoreStep

\* A DONE task is never claimed or finished again, and attempt_no never goes
\* back.
THEOREM DoneFinal == JudgingSpec => DoneTaskIsFinal
<1> DEFINE Stays == \A s \in Submissions :
                      /\ task[s].status = "DONE" =>
                           task'[s] = task[s] /\ attempts'[s] = attempts[s]
                      /\ task'[s].attempt >= task[s].attempt
<1>1. JudgingInv /\ [JudgingNext]_judgingVars => [Stays]_judgingVars
  BY DoneStep
<1> QED
  BY <1>1, JudgingInvariant, PTL DEF DoneTaskIsFinal, JudgingSpec
\* What the processes owe is kept by every step.
LEMMA ExecutionStep == ExecutionInv /\ [JudgingNext]_judgingVars => ExecutionInv'
<1> SUFFICES ASSUME ExecutionInv, [JudgingNext]_judgingVars
             PROVE  ExecutionInv'
  OBVIOUS
<1>0. /\ \A x \in execs :
           /\ x.attempt <= task[x.sub].attempt
           /\ task[x.sub].token = x.attempt /\ task[x.sub].status = "RUNNING" =>
                active[x.inst][x.sub] = x.attempt
      /\ \A s \in Submissions :
           task[s].status = "RETRY_WAITING" => task[s].attempt < MaxAttempts
  BY DEF ExecutionInv, OneExecutionPerClaim, WorkerInv, HolderIsRenewed, RetryBudget
<1>1. JudgingInv'
  BY InvStep DEF ExecutionInv
<1>2. WorkerInv' /\ OneExecutionPerClaim'
  <2>1. CASE UNCHANGED <<workerVars, task>>
    BY <1>0, <2>1, OthersKeepWorkers
  <2>2. CASE \E i \in Instances, s \in Submissions : Receive(i, s)
    <3> PICK i \in Instances, s \in Submissions : Receive(i, s)
      BY <2>2
    <3>1. CASE task' = task
      BY <2>1, <3>1 DEF Receive
    <3>2. CASE task' # task
      <4>1. /\ task[s].status = "NONE" /\ UNCHANGED workerVars
            /\ task' = [task EXCEPT ![s] =
                          [status |-> "READY", attempt |-> 0, token |-> 0]]
        BY <3>2 DEF Receive
      <4>2. /\ task \in [Submissions -> TaskRows]
            /\ \A x \in execs : x.sub \in Submissions /\ x.attempt \in Nat \ {0}
        BY DEF ExecutionInv, JudgingInv, JudgingTypeOK, Execs
      <4>3. task[s].attempt = 0
        BY <4>1 DEF ExecutionInv, JudgingInv, StoreInv, NothingBeforeReceipt
      <4>4. \A x \in execs : x.sub # s
        BY <1>0, <4>2, <4>3
      <4>5. \A x \in execs : task'[x.sub] = task[x.sub]
        BY <4>1, <4>2, <4>4
      <4>6. \A u \in Submissions :
              task'[u].status = "RETRY_WAITING" => task'[u].attempt < MaxAttempts
        BY <1>0, <4>1, <4>2
      <4> QED BY <1>0, <4>1, <4>5, <4>6, OthersKeepWorkers
    <3> QED BY <3>1, <3>2
  <2>3. CASE \E i \in Instances, s \in Submissions : PollStep(i, s)
    <3> PICK i \in Instances, s \in Submissions : PollStep(i, s)
      BY <2>3
    <3>1. CASE Claim(i, s)
      BY <3>1, ClaimKeepsWorkers
    <3>2. CASE ClaimOrphaned(i, s)
      BY <3>2, ClaimedIsNew, ClaimKeepsBudget, OthersKeepWorkers DEF ClaimOrphaned
    <3>3. CASE Renew(i, s)
      BY <2>1, <3>3 DEF Renew, storeVars
    <3> QED BY <3>1, <3>2, <3>3 DEF PollStep
  <2>4. CASE \E x \in execs : ExecuteStep(x)
    BY <2>4, ExecuteKeepsWorkers
  <2>5. CASE \E e \in outbox : RelayStep(e)
    BY <2>1, <2>5 DEF RelayStep, SendEvent, PublishEvent, storeVars
  <2>6. CASE \E i \in Instances, s \in Submissions : ClockStep(i, s)
    BY <2>1, <2>6 DEF ClockStep, LeaseRunsOut, BecomesDue, DeadlinePasses, storeVars
  <2>7. CASE \E i \in Instances : Crash(i)
    BY <2>7, CrashKeepsWorkers
  <2>8. CASE UNCHANGED judgingVars
    BY <2>1, <2>8 DEF judgingVars, storeVars
  <2> QED
    BY <2>2, <2>3, <2>4, <2>5, <2>6, <2>7, <2>8 DEF JudgingNext, JudgingInternal
<1> QED BY <1>1, <1>2 DEF ExecutionInv

\* Every process of judging-service keeps what it owes: whatever executions of
\* one task overlap in it, a holder is renewed, no slot is lost or released
\* twice, and attempts stay within their budget.
THEOREM Workers == JudgingSpec => []WorkerInv
<1>1. JudgingInit => ExecutionInv
  <2> SUFFICES ASSUME JudgingInit PROVE ExecutionInv
    OBVIOUS
  <2>1. JudgingInv
    BY InvInit
  <2>2. HolderIsRenewed /\ RetryBudget
    BY DEF JudgingInit, HolderIsRenewed, RetryBudget
  <2>3. SlotsConserved
    <3>1. \A i \in Instances : {x \in execs : x.inst = i} = {} /\ slots[i] = Parallelism
      BY DEF JudgingInit
    <3> QED BY <3>1, FS_EmptySet, JudgingAssumption DEF SlotsConserved
  <2>4. OneExecutionPerClaim
    BY FS_EmptySet DEF JudgingInit, OneExecutionPerClaim
  <2> QED BY <2>1, <2>2, <2>3, <2>4 DEF ExecutionInv, WorkerInv
<1>2. ExecutionInv => WorkerInv
  BY DEF ExecutionInv
<1> QED BY <1>1, <1>2, ExecutionStep, PTL DEF JudgingSpec

-----------------------------------------------------------------------------
(* SubmissionPipeline *)

\* Seen from judging-service, every step of the pipeline is one of its own
\* steps or leaves it alone.
LEMMA PipelineStepIsJudgingStep ==
  ASSUME [PipelineNext]_pipelineVars
  PROVE  [JudgingNext]_judgingVars
<1>1. CASE UNCHANGED pipelineVars
  BY <1>1 DEF pipelineVars
<1>2. CASE PipelineNext
  BY <1>2 DEF PipelineNext, SubmissionStep, JudgingStep, DeliverRequest,
              DeliverEvent, JudgingNext
<1> QED BY <1>1, <1>2

\* What a step of judging-service keeps of the tables the listener's
\* properties refer to.
LEMMA JudgingMonotone ==
  ASSUME JudgingInv, [JudgingNext]_judgingVars
  PROVE  /\ outbox \subseteq outbox'
         /\ \A e \in outbox' \ outbox : e.task = TaskOf[e.sub]
         /\ \A s \in Submissions :
              /\ task[s].attempt <= task'[s].attempt
              /\ task[s].status = "DONE" => task'[s].status = "DONE"
<1>1. \A s \in Submissions :
         /\ task[s].attempt <= task'[s].attempt
         /\ task[s].status = "DONE" => task'[s].status = "DONE"
  BY DoneStep DEF JudgingInv, JudgingTypeOK, TaskRows
<1>2. StoreStep
  BY NextIsStoreStep
<1>3. CASE UNCHANGED <<task, attempts, outbox>>
  BY <1>1, <1>3
<1>4. CASE \E i \in Instances, s \in Submissions : Receive(i, s)
  BY <1>1, <1>4 DEF Receive
<1>5. CASE \E i \in Instances, s \in Submissions : ClaimTransaction(i, s)
  BY <1>1, <1>5 DEF ClaimTransaction, JudgeStarted
<1>6. CASE \E x \in execs, c \in BOOLEAN, r \in BOOLEAN :
             FinishTransaction(x, c, r)
  BY <1>1, <1>6 DEF FinishTransaction, storeVars, JudgeCompleted, JudgeFailed
<1> QED BY <1>2, <1>3, <1>4, <1>5, <1>6 DEF StoreStep

\* Only the relay writes to the lifecycle topic.
LEMMA NextSends ==
  ASSUME [JudgingNext]_judgingVars
  PROVE  UNCHANGED sent \/ \E e \in outbox : RelayStep(e)
<1> USE DEF relayVars
<1>1. CASE \E i \in Instances, s \in Submissions :
             Receive(i, s) \/ PollStep(i, s) \/ ClockStep(i, s)
  BY <1>1 DEF Receive, PollStep, Claim, ClaimOrphaned, Renew, ClockStep,
              LeaseRunsOut, BecomesDue, DeadlinePasses
<1>2. CASE \E x \in execs : ExecuteStep(x)
  BY <1>2 DEF ExecuteStep, Dispatch, Refuse, JudgeFails, JudgeAnswers,
              WorkerStep, FinishJudged, FinishJudgedThrows, FinishFailed,
              FinishFailedThrows, Exit
<1>3. CASE \E i \in Instances : Crash(i)
  BY <1>3 DEF Crash
<1>4. CASE UNCHANGED judgingVars
  BY <1>4 DEF judgingVars
<1> QED BY <1>1, <1>2, <1>3, <1>4 DEF JudgingNext, JudgingInternal

-----------------------------------------------------------------------------
(* Type correctness of submission-service *)

\* Every lifecycle event has a verdict.
LEMMA VerdictType ==
  ASSUME NEW e \in LifecycleEvents
  PROVE  VerdictOf(e) \in Verdicts
  BY DEF VerdictOf, LifecycleEvents, Results, NoResult, Verdicts

\* The row that apply writes is a submission row.
LEMMA AppliedType ==
  ASSUME NEW e \in LifecycleEvents
  PROVE  Applied(e) \in Rows
  BY VerdictType DEF Applied, Rows, LifecycleEvents

\* Every step of the pipeline keeps the type of the variables of
\* submission-service.
LEMMA SubmissionTypeStep ==
  ASSUME SubmissionTypeOK, sent \subseteq LifecycleEvents,
         [PipelineNext]_pipelineVars
  PROVE  SubmissionTypeOK'
<1> USE CallAssumption DEF SubmissionTypeOK
<1>1. CASE UNCHANGED submissionVars
  BY <1>1 DEF submissionVars
<1>2. CASE \E s \in Submissions : CreateStep(s)
  <2> PICK s \in Submissions : CreateStep(s)
    BY <1>2
  <2>1. \A first \in Submissions \cup {NoSubmission} :
          /\ [pc |-> "returned", answer |-> first] \in Calls
          /\ [pc |-> "conflict", answer |-> NoSubmission] \in Calls
    BY DEF Calls
  <2>2. Replay(s) => call' \in [Submissions -> Calls]
    BY <2>1 DEF Replay
  <2>3. CASE CreateReplays(s) \/ CreateDuplicate(s)
    BY <2>2, <2>3 DEF CreateReplays, CreateDuplicate
  <2>4. CASE CreatePrepares(s) \/ CreateRejected(s)
    BY <2>4 DEF CreatePrepares, CreateRejected, Calls
  <2>5. CASE CreateCommits(s)
    <3>1. [NoRow EXCEPT !.status = "PENDING"] \in Rows
      BY DEF NoRow, Rows
    <3> QED BY <2>1, <2>5, <3>1 DEF CreateCommits
  <2> QED BY <2>3, <2>4, <2>5 DEF CreateStep
<1>3. CASE \E s \in Submissions : Publish(s)
  BY <1>3 DEF Publish, SendRequest, PublishRequest
<1>4. CASE \E e \in sent : DeliverLifecycle(e)
  <2> PICK e \in sent : DeliverLifecycle(e)
    BY <1>4
  <2>1. e \in LifecycleEvents /\ Applied(e) \in Rows
    BY AppliedType
  <2> QED BY <2>1 DEF DeliverLifecycle, ApplyEvent, DeadLetter
<1> QED
  BY <1>1, <1>2, <1>3, <1>4 DEF PipelineNext, pipelineVars, SubmissionStep,
     JudgingStep, DeliverRequest, DeliverEvent

-----------------------------------------------------------------------------
(* The messages in flight *)

\* Relays send what the outbox holds, and the listener takes what was sent.
LEMMA EventsStep ==
  ASSUME JudgingInv, EventsComeFromOutbox, [PipelineNext]_pipelineVars
  PROVE  EventsComeFromOutbox'
<1> USE DEF EventsComeFromOutbox
<1>1. /\ outbox \subseteq outbox'
      /\ \A e \in outbox' : e.task = TaskOf[e.sub]
  BY PipelineStepIsJudgingStep, JudgingMonotone
<1>2. sent \subseteq sent' /\ sent' \subseteq sent \cup outbox
  <2>1. UNCHANGED sent \/ \E e \in outbox : RelayStep(e)
    BY PipelineStepIsJudgingStep, NextSends
  <2> QED BY <2>1 DEF RelayStep, SendEvent, PublishEvent
<1>3. lifecycleInbox' \subseteq lifecycleInbox \cup sent
  BY DEF PipelineNext, pipelineVars, submissionVars, SubmissionStep,
     JudgingStep, DeliverRequest, DeliverEvent, CreateStep, CreateReplays,
     CreatePrepares, CreateRejected, CreateCommits, CreateDuplicate, Publish,
     SendRequest, PublishRequest, DeliverLifecycle, ApplyEvent, DeadLetter
<1> QED BY <1>1, <1>2, <1>3

-----------------------------------------------------------------------------
(* The submission table *)

\* The submission table and what goes with it are written by two
\* transactions: the commit of create and the apply of the listener.
LEMMA NextIsRowStep ==
  ASSUME [PipelineNext]_pipelineVars
  PROVE  \/ UNCHANGED <<row, request, requestOutbox, lifecycleInbox>>
         \/ \E s \in Submissions : CreateCommits(s) /\ UNCHANGED judgingVars
         \/ \E e \in sent : ApplyEvent(e) /\ UNCHANGED judgingVars
  BY DEF PipelineNext, pipelineVars, submissionVars, SubmissionStep,
     JudgingStep, DeliverRequest, DeliverEvent, CreateStep, CreateReplays,
     CreatePrepares, CreateRejected, CreateDuplicate, Publish,
     SendRequest, PublishRequest, DeliverLifecycle, DeadLetter

\* Only outbox rows are sent.
LEMMA RequestsStep ==
  ASSUME RequestsComeFromOutbox, [PipelineNext]_pipelineVars
  PROVE  RequestsComeFromOutbox'
  BY DEF RequestsComeFromOutbox, PipelineNext, pipelineVars, submissionVars,
     SubmissionStep, JudgingStep, DeliverRequest, DeliverEvent, CreateStep,
     CreateReplays, CreatePrepares, CreateRejected, CreateCommits,
     CreateDuplicate, Publish, SendRequest, PublishRequest, DeliverLifecycle,
     ApplyEvent, DeadLetter

\* The unique key of submission_request: the call that commits had no row.
LEMMA CommitKeepsRows ==
  ASSUME PipelineInv, NEW s \in Submissions, CreateCommits(s),
         UNCHANGED judgingVars
  PROVE  RowInv'
<1> USE CallAssumption, NullAssumption DEF PipelineInv, RowInv
<1>1. row[s].status = "NONE" /\ KeyOf[s] \in Keys
  BY DEF CreateCommits, OneSubmissionPerKey
<1>2. /\ row' = [row EXCEPT ![s] = [NoRow EXCEPT !.status = "PENDING"]]
      /\ request' = [request EXCEPT ![KeyOf[s]] = s]
      /\ request[KeyOf[s]] = NoSubmission
      /\ requestOutbox' = requestOutbox \cup {s}
      /\ UNCHANGED <<lifecycleInbox, outbox, task>>
  BY DEF CreateCommits, judgingVars, storeVars
<1>3. /\ row'[s].status = "PENDING"
      /\ row'[s].task = NoTask
      /\ row'[s].attempt = 0
      /\ row'[s].verdict = "none"
      /\ \A u \in Submissions \ {s} : row'[u] = row[u]
  BY <1>2 DEF NoRow, SubmissionTypeOK
<1>4. OneSubmissionPerKey'
  BY <1>1, <1>2, <1>3 DEF OneSubmissionPerKey, SubmissionTypeOK
<1>5. SubmissionHasRequest'
  BY <1>2, <1>3 DEF SubmissionHasRequest
<1>6. NeverAheadOfJudging'
  BY <1>2, <1>3 DEF NeverAheadOfJudging, JudgingInv, JudgingTypeOK, TaskRows
<1>7. RowShape' /\ ShownVerdictWasDecided'
  BY <1>2, <1>3 DEF RowShape, ShownVerdictWasDecided
<1>8. TerminalEventTakesEffect'
  <2> SUFFICES ASSUME NEW e \in lifecycleInbox, IsTerminal(e)
               PROVE  /\ row'[e.sub].status = "DONE"
                      /\ row'[e.sub].verdict = VerdictOf(e)
    BY <1>2 DEF TerminalEventTakesEffect, IsTerminal, VerdictOf
  <2>1. e.sub \in Submissions /\ row[e.sub].status = "DONE"
    BY DEF TerminalEventTakesEffect, SubmissionTypeOK, LifecycleEvents
  <2> QED BY <1>1, <1>3, <2>1 DEF TerminalEventTakesEffect
<1> QED BY <1>4, <1>5, <1>6, <1>7, <1>8

\* Why the listener may drop an event it has not seen: for a terminal event
\* that is so only if the row is DONE, and then by the very same event.
LEMMA ApplyKeepsRows ==
  ASSUME PipelineInv, NEW e \in sent, ApplyEvent(e), UNCHANGED judgingVars
  PROVE  RowInv'
<1> USE DEF PipelineInv, RowInv
<1>1. /\ e \in outbox
      /\ e \in LifecycleEvents
      /\ e.sub \in Submissions
      /\ e.attempt \in Nat \ {0}
      /\ e.task = TaskOf[e.sub]
      /\ row[e.sub].status # "NONE"
  BY DEF EventsComeFromOutbox, JudgingInv, JudgingTypeOK, LifecycleEvents,
         ApplyEvent, Invalid
<1>2. /\ e.attempt <= task[e.sub].attempt
      /\ IsTerminal(e) => /\ task[e.sub].status = "DONE"
                          /\ e.attempt = task[e.sub].attempt
  BY <1>1 DEF JudgingInv, StoreInv, EventsAreOfAttempts
<1>3. /\ UNCHANGED <<request, requestOutbox, outbox, task>>
      /\ lifecycleInbox' = lifecycleInbox \cup {e}
      /\ row' = IF Accepts(e) THEN [row EXCEPT ![e.sub] = Applied(e)] ELSE row
  BY DEF ApplyEvent, judgingVars, storeVars
<1>4. \A f \in lifecycleInbox : f.sub \in Submissions
  BY DEF SubmissionTypeOK, LifecycleEvents
<1>5. CASE Accepts(e)
  <2>1. /\ row'[e.sub] = Applied(e)
        /\ \A u \in Submissions \ {e.sub} : row'[u] = row[u]
        /\ row[e.sub].status # "DONE"
    BY <1>1, <1>3, <1>5 DEF SubmissionTypeOK, Accepts
  <2>2. /\ row'[e.sub].status = IF IsTerminal(e) THEN "DONE" ELSE "JUDGING"
        /\ row'[e.sub].task = e.task
        /\ row'[e.sub].attempt = e.attempt
        /\ row'[e.sub].verdict =
             IF IsTerminal(e) THEN VerdictOf(e) ELSE "none"
    BY <2>1 DEF Applied
  <2>3. OneSubmissionPerKey' /\ SubmissionHasRequest'
    BY <1>1, <1>3, <2>1, <2>2 DEF OneSubmissionPerKey, SubmissionHasRequest
  <2>4. NeverAheadOfJudging'
    BY <1>1, <1>2, <1>3, <2>1, <2>2 DEF NeverAheadOfJudging
  <2>5. RowShape'
    BY <1>1, <2>1, <2>2 DEF RowShape
  <2>6. ShownVerdictWasDecided'
    BY <1>1, <1>2, <1>3, <2>1, <2>2
       DEF ShownVerdictWasDecided, IsTerminal, VerdictOf
  <2>7. TerminalEventTakesEffect'
    BY <1>3, <1>4, <2>1, <2>2
       DEF TerminalEventTakesEffect, IsTerminal, VerdictOf
  <2> QED BY <2>3, <2>4, <2>5, <2>6, <2>7
<1>6. CASE ~Accepts(e)
  <2>1. row' = row
    BY <1>3, <1>6
  <2>2. /\ OneSubmissionPerKey' /\ SubmissionHasRequest' /\ RowShape'
        /\ NeverAheadOfJudging' /\ ShownVerdictWasDecided'
    BY <1>3, <2>1 DEF OneSubmissionPerKey, SubmissionHasRequest, RowShape,
       NeverAheadOfJudging, ShownVerdictWasDecided, IsTerminal, VerdictOf
  <2>3. IsTerminal(e) => /\ row[e.sub].status = "DONE"
                         /\ row[e.sub].verdict = VerdictOf(e)
    <3> SUFFICES ASSUME IsTerminal(e), e \notin lifecycleInbox
                 PROVE  /\ row[e.sub].status = "DONE"
                        /\ row[e.sub].verdict = VerdictOf(e)
      BY DEF TerminalEventTakesEffect
    <3>1. row[e.sub].attempt <= e.attempt
      BY <1>1, <1>2 DEF NeverAheadOfJudging
    <3>2. row[e.sub].status = "DONE"
      BY <1>1, <1>6, <3>1 DEF Accepts, RowShape
    <3>3. PICK f \in outbox : /\ f.sub = e.sub
                              /\ IsTerminal(f)
                              /\ VerdictOf(f) = row[e.sub].verdict
      BY <1>1, <3>2 DEF ShownVerdictWasDecided
    <3>4. e = f
      BY <1>1, <3>3 DEF JudgingInv, StoreInv, OneTerminalEvent
    <3> QED BY <3>2, <3>3, <3>4
  <2>4. TerminalEventTakesEffect'
    BY <1>3, <2>1, <2>3 DEF TerminalEventTakesEffect, IsTerminal, VerdictOf
  <2> QED BY <2>2, <2>4
<1> QED BY <1>5, <1>6

\* A judge_task row appears only for a JudgeRequested event that was sent.
LEMMA TaskAppears ==
  ASSUME PipelineInv, [PipelineNext]_pipelineVars, NEW s \in Submissions,
         task[s].status = "NONE", task'[s].status # "NONE"
  PROVE  s \in requestSent
<1> USE DEF PipelineInv, JudgingInv, JudgingTypeOK
<1>1. CASE \E i \in Instances, u \in Submissions : DeliverRequest(i, u)
  BY <1>1 DEF DeliverRequest, Receive
<1>2. CASE JudgingStep
  <2>1. CASE \E i \in Instances, u \in Submissions : ClaimTransaction(i, u)
    BY <2>1 DEF ClaimTransaction, Claimable
  <2>2. CASE \E x \in execs, c \in BOOLEAN, r \in BOOLEAN :
               FinishTransaction(x, c, r)
    <3> PICK x \in execs, c \in BOOLEAN, r \in BOOLEAN :
               FinishTransaction(x, c, r)
      BY <2>2
    <3>1. ~(task[x.sub].status = "RUNNING") => UNCHANGED task
      BY DEF FinishTransaction, HoldsLease, storeVars
    <3>2. \A u \in Submissions \ {x.sub} : task'[u] = task[u]
      BY DEF FinishTransaction, storeVars, Execs
    <3> QED BY <3>1, <3>2
  <2> QED BY <1>2, <2>1, <2>2, InternalIsStoreStep DEF JudgingStep
<1> QED BY <1>1, <1>2 DEF PipelineNext, pipelineVars, judgingVars, storeVars,
     SubmissionStep, DeliverEvent

\* A step that does not write the submission table keeps its invariant: the
\* outbox of judging-service only grows and a DONE task stays DONE.
LEMMA OthersKeepRows ==
  ASSUME PipelineInv, [PipelineNext]_pipelineVars,
         UNCHANGED <<row, request, requestOutbox, lifecycleInbox>>
  PROVE  RowInv'
<1> USE DEF PipelineInv, RowInv
<1>1. /\ outbox \subseteq outbox'
      /\ \A s \in Submissions :
           /\ task[s].attempt <= task'[s].attempt
           /\ task[s].status = "DONE" => task'[s].status = "DONE"
  BY PipelineStepIsJudgingStep, JudgingMonotone
<1>2. OneSubmissionPerKey' /\ SubmissionHasRequest' /\ RowShape'
  BY DEF OneSubmissionPerKey, SubmissionHasRequest, RowShape
<1>3. TerminalEventTakesEffect'
  BY DEF TerminalEventTakesEffect, IsTerminal, VerdictOf
<1>4. ShownVerdictWasDecided'
  BY <1>1 DEF ShownVerdictWasDecided, IsTerminal, VerdictOf
<1>5. NeverAheadOfJudging'
  <2> SUFFICES ASSUME NEW s \in Submissions
               PROVE  /\ row[s].attempt <= task'[s].attempt
                      /\ task'[s].status # "NONE" => row[s].status # "NONE"
    BY DEF NeverAheadOfJudging
  <2>1. row[s].attempt <= task'[s].attempt
    <3>1. JudgingInv'
      BY PipelineStepIsJudgingStep, InvStep
    <3>2. /\ row[s].attempt \in Nat
          /\ task[s].attempt \in Nat
          /\ task'[s].attempt \in Nat
      BY <3>1 DEF SubmissionTypeOK, Rows, JudgingInv, JudgingTypeOK, TaskRows
    <3> QED BY <1>1, <3>2 DEF NeverAheadOfJudging
  <2>2. task'[s].status # "NONE" => row[s].status # "NONE"
    <3>1. s \in requestSent => row[s].status # "NONE"
      BY DEF RequestsComeFromOutbox, SubmissionHasRequest
    <3> QED BY <3>1, TaskAppears DEF NeverAheadOfJudging
  <2> QED BY <2>1, <2>2
<1> QED BY <1>2, <1>3, <1>4, <1>5

-----------------------------------------------------------------------------
(* The theorems *)

\* The invariant of the composition is inductive.
LEMMA PipelineInvStep ==
  ASSUME PipelineInv, [PipelineNext]_pipelineVars
  PROVE  PipelineInv'
<1>1. SubmissionTypeOK'
  BY SubmissionTypeStep DEF PipelineInv, JudgingInv, JudgingTypeOK
<1>2. JudgingInv'
  BY PipelineStepIsJudgingStep, InvStep DEF PipelineInv
<1>3. RequestsComeFromOutbox' /\ EventsComeFromOutbox'
  BY RequestsStep, EventsStep DEF PipelineInv
<1>4. RowInv'
  BY NextIsRowStep, CommitKeepsRows, ApplyKeepsRows, OthersKeepRows
<1> QED BY <1>1, <1>2, <1>3, <1>4 DEF PipelineInv

\* It holds when every table and topic is empty.
LEMMA PipelineInvInit ==
  ASSUME PipelineInit
  PROVE  PipelineInv
<1> USE DEF PipelineInit
<1>1. JudgingInv
  BY InvInit
<1>2. SubmissionTypeOK
  BY DEF SubmissionInit, SubmissionTypeOK, NoRow, Rows, Calls
<1>3. RequestsComeFromOutbox /\ EventsComeFromOutbox
  BY DEF SubmissionInit, JudgingInit, RequestsComeFromOutbox,
         EventsComeFromOutbox
<1>4. OneSubmissionPerKey /\ SubmissionHasRequest /\ RowShape
  BY DEF SubmissionInit, NoRow, OneSubmissionPerKey, SubmissionHasRequest,
         RowShape
<1>5. NeverAheadOfJudging
  <2>1. \A s \in Submissions :
          /\ row[s].attempt = 0 /\ row[s].status = "NONE"
          /\ task[s].attempt = 0 /\ task[s].status = "NONE"
    BY DEF SubmissionInit, JudgingInit, NoRow
  <2> HIDE DEF PipelineInit
  <2>2. 0 <= 0
    OBVIOUS
  <2>3. \A s \in Submissions : row[s].attempt <= task[s].attempt
    BY <2>1, <2>2, Zenon
  <2> QED BY <2>1, <2>3, Zenon DEF NeverAheadOfJudging
<1>6. ShownVerdictWasDecided /\ TerminalEventTakesEffect
  BY DEF SubmissionInit, NoRow, ShownVerdictWasDecided,
         TerminalEventTakesEffect
<1> QED BY <1>1, <1>2, <1>3, <1>4, <1>5, <1>6 DEF PipelineInv, RowInv

\* The inductive invariant holds in every reachable state of the pipeline.
THEOREM PipelineInvariant == PipelineSpec => []PipelineInv
<1>1. PipelineInit => PipelineInv
  BY PipelineInvInit
<1>2. PipelineInv /\ [PipelineNext]_pipelineVars => PipelineInv'
  BY PipelineInvStep
<1> QED BY <1>1, <1>2, PTL DEF PipelineSpec

\* A verdict that a submission shows was committed by judging-service, for
\* any number of duplicated, reordered and late deliveries.
THEOREM ShownIsDecided == PipelineSpec => []ShownVerdictWasDecided
<1>1. PipelineInv => ShownVerdictWasDecided
  BY DEF PipelineInv, RowInv
<1> QED BY <1>1, PipelineInvariant, PTL

\* A terminal event that the lifecycle listener has taken is never without
\* effect.
THEOREM TerminalEventsTakeEffect == PipelineSpec => []TerminalEventTakesEffect
<1>1. PipelineInv => TerminalEventTakesEffect
  BY DEF PipelineInv, RowInv
<1> QED BY <1>1, PipelineInvariant, PTL

\* What a user sees of a submission never runs ahead of its judge task.
THEOREM ShownIsBehindJudging == PipelineSpec => []NeverAheadOfJudging
<1>1. PipelineInv => NeverAheadOfJudging
  BY DEF PipelineInv, RowInv
<1> QED BY <1>1, PipelineInvariant, PTL

\* However create calls with one Idempotency-Key interleave, at most one of
\* them has inserted a submission.
THEOREM IdempotentCreation == PipelineSpec => []OneSubmissionPerKey
<1>1. PipelineInv => OneSubmissionPerKey
  BY DEF PipelineInv, RowInv
<1> QED BY <1>1, PipelineInvariant, PTL

-----------------------------------------------------------------------------
(* The contract of a submission *)

TerminalEvents(events, s) == {e \in events : e.sub = s /\ IsTerminal(e)}

\* With one terminal event there is no choice in DecidedBy.
LEMMA OneChoice ==
  ASSUME NEW events, NEW s, NEW e \in TerminalEvents(events, s),
         \A f \in TerminalEvents(events, s) : f = e
  PROVE  DecidedBy(events, s) = VerdictOf(e)
<1>1. \E f \in events : f.sub = s /\ IsTerminal(f)
  BY DEF TerminalEvents
<1>2. (CHOOSE f \in events : f.sub = s /\ IsTerminal(f)) = e
  BY <1>1 DEF TerminalEvents
<1> QED BY <1>1, <1>2 DEF DecidedBy

\* DecidedBy depends on the terminal events of the submission only.
LEMMA SameChoice ==
  ASSUME NEW events, NEW others, NEW s,
         TerminalEvents(events, s) = TerminalEvents(others, s)
  PROVE  DecidedBy(events, s) = DecidedBy(others, s)
<1>1. \A f : f \in events /\ f.sub = s /\ IsTerminal(f) <=>
            f \in others /\ f.sub = s /\ IsTerminal(f)
  BY DEF TerminalEvents
<1>2. (CHOOSE f : f \in events /\ f.sub = s /\ IsTerminal(f)) =
      (CHOOSE f : f \in others /\ f.sub = s /\ IsTerminal(f))
  BY <1>1, Zenon
<1> QED BY <1>1, <1>2 DEF DecidedBy

\* One step of judging-service decides nothing, or decides one running task.
LEMMA DecidingStep ==
  ASSUME JudgingInv, [JudgingNext]_judgingVars
  PROVE  \/ \A s \in Submissions :
              DecidedBy(outbox', s) = DecidedBy(outbox, s)
         \/ \E s \in Submissions, v \in Verdicts :
              /\ task[s].status = "RUNNING"
              /\ DecidedBy(outbox, s) = "none"
              /\ DecidedBy(outbox', s) = v
              /\ \A u \in Submissions \ {s} :
                   DecidedBy(outbox', u) = DecidedBy(outbox, u)
<1> USE DEF JudgingInv, JudgingTypeOK
<1>1. \A e \in outbox : e.sub \in Submissions
  BY DEF LifecycleEvents
<1>2. CASE UNCHANGED outbox
  BY <1>2
<1>3. ASSUME NEW e, ~IsTerminal(e), outbox' = outbox \cup {e},
             NEW s \in Submissions
      PROVE  DecidedBy(outbox', s) = DecidedBy(outbox, s)
  <2>1. TerminalEvents(outbox', s) = TerminalEvents(outbox, s)
    BY <1>3 DEF TerminalEvents
  <2> QED BY <2>1, SameChoice
<1>4. ASSUME NEW e, IsTerminal(e), outbox' = outbox \cup {e},
             e.sub \in Submissions, VerdictOf(e) \in Verdicts,
             task[e.sub].status = "RUNNING"
      PROVE  /\ DecidedBy(outbox, e.sub) = "none"
             /\ DecidedBy(outbox', e.sub) = VerdictOf(e)
             /\ \A u \in Submissions \ {e.sub} :
                  DecidedBy(outbox', u) = DecidedBy(outbox, u)
  <2>1. \A f \in outbox : f.sub = e.sub => ~IsTerminal(f)
    BY <1>4 DEF StoreInv, EventsAreOfAttempts
  <2>2. DecidedBy(outbox, e.sub) = "none"
    BY <2>1 DEF DecidedBy
  <2>3. DecidedBy(outbox', e.sub) = VerdictOf(e)
    <3>1. TerminalEvents(outbox', e.sub) = {e}
      BY <1>4, <2>1 DEF TerminalEvents
    <3> QED BY <3>1, OneChoice
  <2>4. ASSUME NEW u \in Submissions \ {e.sub}
        PROVE  DecidedBy(outbox', u) = DecidedBy(outbox, u)
    <3>1. TerminalEvents(outbox', u) = TerminalEvents(outbox, u)
      BY <1>4, <2>4 DEF TerminalEvents
    <3> QED BY <3>1, SameChoice
  <2> QED BY <2>2, <2>3, <2>4
<1>5. CASE \E i \in Instances, s \in Submissions : Receive(i, s)
  BY <1>2, <1>5 DEF Receive
<1>6. CASE \E i \in Instances, s \in Submissions : ClaimTransaction(i, s)
  <2> PICK i \in Instances, s \in Submissions : ClaimTransaction(i, s)
    BY <1>6
  <2>1. /\ ~IsTerminal(JudgeStarted(s, task[s].attempt + 1))
        /\ outbox' = outbox \cup {JudgeStarted(s, task[s].attempt + 1)}
    BY DEF ClaimTransaction, IsTerminal, JudgeStarted
  <2> QED BY <1>3, <2>1
<1>7. CASE \E x \in execs, c \in BOOLEAN, r \in BOOLEAN :
             FinishTransaction(x, c, r)
  <2> PICK x \in execs, c \in BOOLEAN, r \in BOOLEAN :
             FinishTransaction(x, c, r)
    BY <1>7
  <2>1. x.sub \in Submissions /\ x.result \in Results \cup {NoResult}
    BY DEF Execs
  <2>2. CASE ~HoldsLease(x.inst, x.sub, x.attempt) \/ r
    BY <1>2, <2>2 DEF FinishTransaction, storeVars
  <2>3. CASE HoldsLease(x.inst, x.sub, x.attempt) /\ ~r /\ c
    <3> DEFINE e == JudgeCompleted(x.sub, x.attempt, x.result)
    <3>1. /\ outbox' = outbox \cup {e}
          /\ task[x.sub].status = "RUNNING"
      BY <2>3 DEF FinishTransaction, HoldsLease
    <3>2. IsTerminal(e) /\ e.sub = x.sub /\ VerdictOf(e) \in Verdicts
      BY <2>1 DEF IsTerminal, VerdictOf, JudgeCompleted, Results, NoResult,
                  Verdicts
    <3> QED BY <1>4, <2>1, <3>1, <3>2
  <2>4. CASE HoldsLease(x.inst, x.sub, x.attempt) /\ ~r /\ ~c
    <3> DEFINE e == JudgeFailed(x.sub, x.attempt)
    <3>1. /\ outbox' = outbox \cup {e}
          /\ task[x.sub].status = "RUNNING"
      BY <2>4 DEF FinishTransaction, HoldsLease
    <3>2. IsTerminal(e) /\ e.sub = x.sub /\ VerdictOf(e) \in Verdicts
      BY DEF IsTerminal, VerdictOf, JudgeFailed, Verdicts
    <3> QED BY <1>4, <2>1, <3>1, <3>2
  <2> QED BY <2>2, <2>3, <2>4
<1> QED BY <1>2, <1>5, <1>6, <1>7, NextIsStoreStep DEF StoreStep

\* A step that leaves the submission table alone decides or stutters.
LEMMA OthersDecide ==
  ASSUME PipelineInv, [PipelineNext]_pipelineVars, UNCHANGED row
  PROVE  [Contract!Next]_(Contract!contractVars)
<1> USE DEF Contract!contractVars
<1>1. CASE \A s \in Submissions :
             DecidedBy(outbox', s) = DecidedBy(outbox, s)
  <2>1. [s \in Submissions |-> DecidedBy(outbox', s)] =
        [s \in Submissions |-> DecidedBy(outbox, s)]
    BY <1>1
  <2> QED BY <2>1
<1>2. ASSUME NEW s \in Submissions, NEW v \in Verdicts,
             task[s].status = "RUNNING",
             DecidedBy(outbox, s) = "none",
             DecidedBy(outbox', s) = v,
             \A u \in Submissions \ {s} :
               DecidedBy(outbox', u) = DecidedBy(outbox, u)
      PROVE  Contract!Next
  <2>1. row[s].status \in {"PENDING", "JUDGING"}
    <3>1. row[s].status \in {"NONE", "PENDING", "JUDGING", "DONE"}
      BY DEF PipelineInv, SubmissionTypeOK, Rows
    <3>2. row[s].status # "NONE"
      BY <1>2 DEF PipelineInv, RowInv, NeverAheadOfJudging
    <3>3. row[s].status # "DONE"
      BY <1>2 DEF PipelineInv, RowInv, ShownVerdictWasDecided
    <3> QED BY <3>1, <3>2, <3>3
  <2>2. [u \in Submissions |-> DecidedBy(outbox', u)] =
        [[u \in Submissions |-> DecidedBy(outbox, u)] EXCEPT ![s] = v]
    BY <1>2
  <2>3. Contract!Decide(s, v)
    BY <1>2, <2>1, <2>2 DEF Contract!Decide
  <2> QED BY <2>3 DEF Contract!Next
<1> QED
  BY <1>1, <1>2, DecidingStep, PipelineStepIsJudgingStep DEF PipelineInv

\* The commit of create is the creation of the submission.
LEMMA CommitCreates ==
  ASSUME PipelineInv, NEW s \in Submissions, CreateCommits(s), UNCHANGED outbox
  PROVE  Contract!Next
<1> USE DEF PipelineInv, RowInv, SubmissionTypeOK
<1>1. row[s].status = "NONE" /\ row[s].verdict = "none"
  BY NullAssumption DEF CreateCommits, OneSubmissionPerKey, RowShape
<1>2. row' = [row EXCEPT ![s] = [NoRow EXCEPT !.status = "PENDING"]]
  BY DEF CreateCommits
<1>3. /\ row'[s].status = "PENDING"
      /\ row'[s].verdict = "none"
      /\ \A u \in Submissions \ {s} : row'[u] = row[u]
  BY <1>2 DEF NoRow
<1>4. [u \in Submissions |-> row'[u].status] =
      [[u \in Submissions |-> row[u].status] EXCEPT ![s] = "PENDING"]
  BY <1>3
<1>5. [u \in Submissions |-> row'[u].verdict] =
      [u \in Submissions |-> row[u].verdict]
  BY <1>1, <1>3
<1>6. Contract!Create(s)
  BY <1>1, <1>4, <1>5 DEF Contract!Create
<1> QED BY <1>6 DEF Contract!Next

\* The apply of an event is the start of judging, the announcement of the
\* verdict that was decided, or changes nothing that a user sees.
LEMMA ApplyAnnounces ==
  ASSUME PipelineInv, NEW e \in sent, ApplyEvent(e), UNCHANGED outbox
  PROVE  [Contract!Next]_(Contract!contractVars)
<1> USE DEF PipelineInv, RowInv
<1> DEFINE s == e.sub
<1>1. /\ e \in outbox
      /\ s \in Submissions
      /\ row[s].status \in {"PENDING", "JUDGING", "DONE"}
  BY DEF EventsComeFromOutbox, JudgingInv, JudgingTypeOK, LifecycleEvents,
         ApplyEvent, Invalid, SubmissionTypeOK, Rows
<1>2. CASE ~Accepts(e)
  BY <1>2 DEF ApplyEvent, Contract!contractVars
<1>3. CASE Accepts(e)
  <2>1. /\ row' = [row EXCEPT ![s] = Applied(e)]
        /\ row[s].status \in {"PENDING", "JUDGING"}
        /\ row[s].verdict = "none"
    BY <1>1, <1>3 DEF ApplyEvent, Accepts, RowShape
  <2>2. /\ row'[s] = Applied(e)
        /\ \A u \in Submissions \ {s} : row'[u] = row[u]
    BY <1>1, <2>1 DEF SubmissionTypeOK
  <2>3. CASE IsTerminal(e)
    <3>1. row'[s].status = "DONE" /\ row'[s].verdict = VerdictOf(e)
      BY <2>2, <2>3 DEF Applied
    <3>2. DecidedBy(outbox, s) = VerdictOf(e)
      <4>1. /\ e \in TerminalEvents(outbox, s)
            /\ \A f \in TerminalEvents(outbox, s) : f = e
        BY <1>1, <2>3 DEF TerminalEvents, JudgingInv, StoreInv,
                          OneTerminalEvent
      <4> QED BY <4>1, OneChoice
    <3>3. VerdictOf(e) # "none"
      <4>1. e \in LifecycleEvents
        BY <1>1 DEF JudgingInv, JudgingTypeOK
      <4> QED BY <4>1, VerdictType DEF Verdicts
    <3>4. [u \in Submissions |-> row'[u].status] =
          [[u \in Submissions |-> row[u].status] EXCEPT ![s] = "DONE"]
      BY <1>1, <2>2, <3>1
    <3>5. [u \in Submissions |-> row'[u].verdict] =
          [[u \in Submissions |-> row[u].verdict] EXCEPT ![s] =
             [u \in Submissions |-> DecidedBy(outbox, u)][s]]
      BY <1>1, <2>2, <3>1, <3>2
    <3>6. Contract!Announce(s)
      BY <1>1, <2>1, <3>2, <3>3, <3>4, <3>5 DEF Contract!Announce
    <3> QED BY <1>1, <3>6 DEF Contract!Next
  <2>4. CASE ~IsTerminal(e)
    <3>1. row'[s].status = "JUDGING" /\ row'[s].verdict = "none"
      BY <2>2, <2>4 DEF Applied
    <3>2. [u \in Submissions |-> row'[u].verdict] =
          [u \in Submissions |-> row[u].verdict]
      BY <1>1, <2>1, <2>2, <3>1
    <3>3. [u \in Submissions |-> row'[u].status] =
          [[u \in Submissions |-> row[u].status] EXCEPT ![s] = "JUDGING"]
      BY <1>1, <2>2, <3>1
    <3>4. CASE row[s].status = "PENDING"
      <4>1. Contract!Begin(s)
        BY <1>1, <3>2, <3>3, <3>4 DEF Contract!Begin
      <4> QED BY <1>1, <4>1 DEF Contract!Next
    <3>5. CASE row[s].status = "JUDGING"
      BY <3>2, <3>3, <3>5 DEF Contract!contractVars
    <3> QED BY <2>1, <3>4, <3>5
  <2> QED BY <2>3, <2>4
<1> QED BY <1>2, <1>3

\* Refinement: for every value of the constants the pipeline implements the
\* contract of a submission, which knows neither leases nor messages.
THEOREM Refinement == PipelineSpec => ImplementsContract
<1>1. PipelineInit => Contract!Init
  BY DEF PipelineInit, SubmissionInit, JudgingInit, NoRow, Contract!Init,
         DecidedBy
<1>2. PipelineInv /\ [PipelineNext]_pipelineVars
        => [Contract!Next]_(Contract!contractVars)
  <2> SUFFICES ASSUME PipelineInv, [PipelineNext]_pipelineVars
               PROVE  [Contract!Next]_(Contract!contractVars)
    OBVIOUS
  <2>1. CASE UNCHANGED <<row, request, requestOutbox, lifecycleInbox>>
    BY <2>1, OthersDecide
  <2>2. CASE \E s \in Submissions : CreateCommits(s) /\ UNCHANGED judgingVars
    BY <2>2, CommitCreates DEF judgingVars, storeVars
  <2>3. CASE \E e \in sent : ApplyEvent(e) /\ UNCHANGED judgingVars
    BY <2>3, ApplyAnnounces DEF judgingVars, storeVars
  <2> QED BY <2>1, <2>2, <2>3, NextIsRowStep
<1> QED
  BY <1>1, <1>2, PipelineInvariant, PTL
     DEF PipelineSpec, ImplementsContract, Contract!Spec
=============================================================================
