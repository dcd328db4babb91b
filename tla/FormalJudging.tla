--------------------------- MODULE FormalJudging ---------------------------
(***************************************************************************)
(* The formal judging half of judging-service: FormalTaskStore (judge_task,*)
(* judge_attempt, inbox and outbox), the FormalWorker of every instance    *)
(* that shares the database, and the outbox relay of FormalMessaging.      *)
(*                                                                         *)
(* Time is kept only as its comparisons.  now() is each instance's own     *)
(* clock, so "lease_until <= now", "next_attempt_at <= now" and "the       *)
(* deadline has passed" are sets of instances by whose clock they hold;    *)
(* clocks may disagree by any amount and only move forward.                *)
(*                                                                         *)
(* A lease token is a fresh UUID per claim.  Every claim also increments   *)
(* attempt_no, so the token is modelled by that number; 0 is SQL NULL.     *)
(***************************************************************************)
EXTENDS JudgeEvents, Sequences, FiniteSets

CONSTANTS
  Instances,    \* judging-service processes
  Parallelism,  \* FormalProperties.parallelism
  MaxAttempts,  \* FormalProperties.maxAttempts
  RawResults,   \* what judge nodes answer: [verdict, message]
  MaxCrashes,   \* bound: process crashes
  MaxPauses     \* bound: leases that lapse under a live execution

ASSUME JudgingAssumption == /\ Parallelism \in Nat \ {0}
                            /\ MaxAttempts \in Nat \ {0}
                            /\ MaxCrashes \in Nat
                            /\ MaxPauses \in Nat

\* A raw diagnostic: absent, whole lines, or one line without its newline.
RawMessages == {"none", "lines", "cut"}

ASSUME RawAssumption ==
  RawResults \subseteq [verdict : Verdicts, message : RawMessages]

VARIABLES
  task,          \* judge_task, by submission (submission_id is UNIQUE)
  attempts,      \* judge_attempt: the status of attempts 1, 2, ...
  requestInbox,  \* inbox_event: JudgeRequested events received
  outbox,        \* outbox_event rows, each a lifecycle event
  sent,          \* the topic judge.lifecycle.v1
  marked,        \* outbox rows with published = TRUE
  execs,         \* FormalWorker.execute calls in progress, in all instances
  active,        \* FormalWorker.active of each instance: attempt or 0
  slots,         \* FormalWorker.slots of each instance
  expired,       \* the instances by whose clock the lease has run out
  due,           \* the instances by whose clock next_attempt_at has come
  late,          \* the instances by whose clock the deadline has passed
  crashes,       \* crashes so far
  pauses         \* lapses under a live execution so far

storeVars == <<task, attempts, requestInbox, outbox>>
relayVars == <<sent, marked>>
workerVars == <<execs, active, slots>>
clockVars == <<expired, due, late>>
faultVars == <<crashes, pauses>>
judgingVars == <<storeVars, relayVars, workerVars, clockVars, faultVars>>

Statuses == {"NONE", "READY", "RUNNING", "RETRY_WAITING", "DONE"}
TaskRows == [status : Statuses, attempt : Nat, token : Nat]
AttemptStatuses == {"RUNNING", "ABANDONED", "COMPLETED", "FAILED"}

\* FormalWorker.execute: where one call stands.  "judged" holds a result,
\* "fatal" and "transient" a failure on its way to the second finish.
Phases == {"start", "judging", "judged", "fatal", "transient", "exit"}

Execs == [inst : Instances, sub : Submissions, attempt : Nat \ {0},
          phase : Phases, result : Results \cup {NoResult}]

JudgingTypeOK ==
  /\ task \in [Submissions -> TaskRows]
  /\ attempts \in [Submissions -> Seq(AttemptStatuses)]
  /\ requestInbox \subseteq Submissions
  /\ outbox \subseteq LifecycleEvents
  /\ sent \subseteq LifecycleEvents
  /\ marked \subseteq LifecycleEvents
  /\ execs \subseteq Execs
  /\ active \in [Instances -> [Submissions -> Nat]]
  /\ slots \in [Instances -> Nat]
  /\ expired \in [Submissions -> SUBSET Instances]
  /\ due \in [Submissions -> SUBSET Instances]
  /\ late \in [Submissions -> SUBSET Instances]
  /\ crashes \in Nat
  /\ pauses \in Nat

JudgingInit ==
  /\ task = [s \in Submissions |->
               [status |-> "NONE", attempt |-> 0, token |-> 0]]
  /\ attempts = [s \in Submissions |-> <<>>]
  /\ requestInbox = {}
  /\ outbox = {}
  /\ sent = {}
  /\ marked = {}
  /\ execs = {}
  /\ active = [i \in Instances |-> [s \in Submissions |-> 0]]
  /\ slots = [i \in Instances |-> Parallelism]
  /\ expired = [s \in Submissions |-> {}]
  /\ due = [s \in Submissions |-> {}]
  /\ late = [s \in Submissions |-> {}]
  /\ crashes = 0
  /\ pauses = 0

-----------------------------------------------------------------------------
(* FormalMessaging.receive and FormalTaskStore.receive *)

\* One delivery of the JudgeRequested event of s to instance i.  Both inserts
\* are INSERT IGNORE: a repeated event, or a second event for a submission
\* that has a task, changes nothing.  next_attempt_at is i's now().
Receive(i, s) ==
  /\ requestInbox' = requestInbox \cup {s}
  /\ IF s \notin requestInbox /\ task[s].status = "NONE"
     THEN /\ task' = [task EXCEPT ![s] =
                        [status |-> "READY", attempt |-> 0, token |-> 0]]
          /\ due' = [due EXCEPT ![s] = {i}]
     ELSE UNCHANGED <<task, due>>
  /\ UNCHANGED <<attempts, outbox, relayVars, workerVars, expired, late,
                 faultVars>>

-----------------------------------------------------------------------------
(* FormalTaskStore.claim, called by FormalWorker.poll *)

\* The row claim selects: unfinished, due, and its lease absent or lapsed.
\* Which one of several is claimed first is left open: SKIP LOCKED passes
\* over rows that another claim holds.
Claimable(i, s) ==
  /\ task[s].status \in {"READY", "RETRY_WAITING", "RUNNING"}
  /\ i \in due[s]
  /\ task[s].token = 0 \/ i \in expired[s]

\* Mutant: the lapsed attempt is left open.
AbandonNothing(s) == attempts[s]

\* claim closes the attempt whose lease lapsed before it opens the next one.
Abandon(s) ==
  IF task[s].token # 0 /\ attempts[s][task[s].attempt] = "RUNNING"
  THEN [attempts[s] EXCEPT ![task[s].attempt] = "ABANDONED"]
  ELSE attempts[s]

NewExec(i, s, n) == [inst |-> i, sub |-> s, attempt |-> n,
                     phase |-> "start", result |-> NoResult]

\* The part of claim that is one transaction.
ClaimTransaction(i, s) ==
  LET n == task[s].attempt + 1
  IN  /\ Claimable(i, s)
      /\ task' = [task EXCEPT ![s] =
                    [status |-> "RUNNING", attempt |-> n, token |-> n]]
      /\ attempts' = [attempts EXCEPT ![s] = Append(Abandon(s), "RUNNING")]
      /\ outbox' = outbox \cup {JudgeStarted(s, n)}
      /\ expired' = [expired EXCEPT ![s] = {}]

\* poll takes a slot, claims, registers the task for renewal and submits it
\* to the executor.
Claim(i, s) ==
  /\ slots[i] > 0
  /\ ClaimTransaction(i, s)
  /\ slots' = [slots EXCEPT ![i] = @ - 1]
  /\ active' = [active EXCEPT ![i][s] = task[s].attempt + 1]
  /\ execs' = execs \cup {NewExec(i, s, task[s].attempt + 1)}
  /\ UNCHANGED <<requestInbox, relayVars, due, late, faultVars>>

\* The claim commits but nobody executes it: the executor is shutting down
\* (RejectedExecutionException) or the commit's answer is lost.  The slot and
\* the registration are given back; only the lease is left.
ClaimOrphaned(i, s) ==
  /\ slots[i] > 0
  /\ pauses < MaxPauses
  /\ pauses' = pauses + 1
  /\ ClaimTransaction(i, s)
  /\ UNCHANGED <<requestInbox, relayVars, workerVars, due, late, crashes>>

-----------------------------------------------------------------------------
(* FormalTaskStore.renew, called by FormalWorker.poll for every active task *)

\* Mutant: the token is not compared.
HoldsLeaseAnyToken(i, s, n) ==
  /\ task[s].status = "RUNNING"
  /\ i \notin expired[s]

\* The condition of renew and of finish: the token is still the row's, the
\* task runs, and by i's clock the lease has not run out.
HoldsLease(i, s, n) ==
  /\ task[s].token = n
  /\ task[s].status = "RUNNING"
  /\ i \notin expired[s]

Renew(i, s) ==
  /\ active[i][s] # 0
  /\ HoldsLease(i, s, active[i][s])
  /\ expired' = [expired EXCEPT ![s] = {}]
  /\ UNCHANGED <<storeVars, relayVars, workerVars, due, late, faultVars>>

-----------------------------------------------------------------------------
(* FormalWorker.execute *)

Moves(x, phase, result) ==
  execs' = (execs \ {x}) \cup {[x EXCEPT !.phase = phase, !.result = result]}

WorkerStep(x, phase, result) ==
  /\ Moves(x, phase, result)
  /\ UNCHANGED <<storeVars, relayVars, active, slots, clockVars, faultVars>>

\* JUDGE_DEADLINE_EXCEEDED and JUDGE_ATTEMPTS_EXHAUSTED, tested first.
OutOfBudget(x) == x.inst \in late[x.sub] \/ x.attempt > MaxAttempts

\* All checks pass and the request goes to an online judge node.
Dispatch(x) ==
  /\ x.phase = "start"
  /\ ~OutOfBudget(x)
  /\ WorkerStep(x, "judging", NoResult)

\* The attempt ends before it is dispatched: out of budget; no input, no test
\* data or no online node (transient); INVALID_JUDGE_INPUT or
\* JUDGE_BUDGET_UNAVAILABLE (fatal).
Refuse(x) ==
  /\ x.phase = "start"
  /\ \/ WorkerStep(x, "transient", NoResult)
     \/ ~OutOfBudget(x) /\ WorkerStep(x, "fatal", NoResult)

\* FormalWorker.safe and JudgeDiagnostics.forUser, for a CORE submission: the
\* last line of a diagnostic that does not end in a newline is dropped, which
\* leaves nothing of a diagnostic that is one cut line.
Safe(raw) ==
  [verdict |-> raw.verdict,
   message |-> CASE raw.verdict # "CE"     -> "none"
                 [] raw.message = "none"   -> "none"
                 [] raw.message = "lines"  -> "text"
                 [] raw.message = "cut"    -> "blank"]

\* The judge node answers.  SE is a failure of the platform, not a result.
JudgeAnswers(x, raw) ==
  /\ x.phase = "judging"
  /\ IF raw.verdict = "SE" THEN WorkerStep(x, "transient", NoResult)
                           ELSE WorkerStep(x, "judged", Safe(raw))

\* The call fails, exceeds its budget, or its answer is not valid.
JudgeFails(x) ==
  /\ x.phase = "judging"
  /\ WorkerStep(x, "transient", NoResult)

\* Mutant: a failure that is retried is announced like a final one.
FinishTransactionAnnounces(x, completed, retry) ==
  IF ~HoldsLease(x.inst, x.sub, x.attempt) THEN UNCHANGED <<storeVars, expired, due>>
  ELSE /\ task' = [task EXCEPT ![x.sub] =
            [status  |-> IF retry THEN "RETRY_WAITING" ELSE "DONE",
             attempt |-> task[x.sub].attempt, token |-> 0]]
       /\ attempts' = [attempts EXCEPT
            ![x.sub][x.attempt] = IF completed THEN "COMPLETED" ELSE "FAILED"]
       /\ outbox' = outbox \cup
            {IF completed THEN JudgeCompleted(x.sub, x.attempt, x.result)
             ELSE JudgeFailed(x.sub, x.attempt)}
       /\ expired' = [expired EXCEPT ![x.sub] = {}]
       /\ due' = [due EXCEPT ![x.sub] = IF retry THEN {} ELSE @]
       /\ UNCHANGED requestInbox

\* FormalTaskStore.finish: the result, the task's next state and the terminal
\* event in one transaction, if the caller still holds the lease.
FinishTransaction(x, completed, retry) ==
  LET s == x.sub
      n == x.attempt
  IN  IF ~HoldsLease(x.inst, s, n) THEN UNCHANGED <<storeVars, expired, due>>
      ELSE /\ task' = [task EXCEPT ![s] =
                [status  |-> IF retry THEN "RETRY_WAITING" ELSE "DONE",
                 attempt |-> task[s].attempt,
                 token   |-> 0]]
           /\ attempts' = [attempts EXCEPT
                ![s][n] = IF completed THEN "COMPLETED" ELSE "FAILED"]
           /\ outbox' = outbox \cup
                (CASE retry     -> {}
                   [] completed /\ ~retry  -> {JudgeCompleted(s, n, x.result)}
                   [] ~completed /\ ~retry -> {JudgeFailed(s, n)})
           /\ expired' = [expired EXCEPT ![s] = {}]
           /\ due' = [due EXCEPT ![s] = IF retry THEN {} ELSE @]
           /\ UNCHANGED requestInbox

\* finish of a judged attempt; the caller does not look at its answer.
FinishJudged(x) ==
  /\ x.phase = "judged"
  /\ FinishTransaction(x, TRUE, FALSE)
  /\ Moves(x, "exit", x.result)
  /\ UNCHANGED <<relayVars, active, slots, late, faultVars>>

\* finish throws: rolled back, or committed with its answer lost.  The catch
\* block then reports a failure for an attempt that may be finished already.
FinishJudgedThrows(x) ==
  /\ x.phase = "judged"
  /\ \/ FinishTransaction(x, TRUE, FALSE)
     \/ UNCHANGED <<storeVars, expired, due>>
  /\ Moves(x, "transient", NoResult)
  /\ UNCHANGED <<relayVars, active, slots, late, faultVars>>

\* The catch block: retry if attempts and time are left and the failure is
\* not fatal.
Retries(x) ==
  /\ x.phase = "transient"
  /\ x.attempt < MaxAttempts
  /\ x.inst \notin late[x.sub]

FinishFailed(x) ==
  /\ x.phase \in {"fatal", "transient"}
  /\ FinishTransaction(x, FALSE, Retries(x))
  /\ Moves(x, "exit", NoResult)
  /\ UNCHANGED <<relayVars, active, slots, late, faultVars>>

\* That finish throws too and rolls back: the lease is left to run out.
FinishFailedThrows(x) ==
  /\ x.phase \in {"fatal", "transient"}
  /\ pauses < MaxPauses
  /\ pauses' = pauses + 1
  /\ Moves(x, "exit", NoResult)
  /\ UNCHANGED <<storeVars, relayVars, active, slots, clockVars, crashes>>

\* Mutant: active.remove(id) drops whatever entry is there.
ExitRemovesAny(x) ==
  /\ x.phase = "exit"
  /\ execs' = execs \ {x}
  /\ active' = [active EXCEPT ![x.inst][x.sub] = 0]
  /\ slots' = [slots EXCEPT ![x.inst] = @ + 1]
  /\ UNCHANGED <<storeVars, relayVars, clockVars, faultVars>>

\* The finally block: active.remove(id, task) removes only its own entry.
Exit(x) ==
  /\ x.phase = "exit"
  /\ execs' = execs \ {x}
  /\ active' = [active EXCEPT ![x.inst][x.sub] =
                  IF @ = x.attempt THEN 0 ELSE @]
  /\ slots' = [slots EXCEPT ![x.inst] = @ + 1]
  /\ UNCHANGED <<storeVars, relayVars, clockVars, faultVars>>

-----------------------------------------------------------------------------
(* FormalMessaging.publish *)

\* The broker stores the record; the answer is an error or never comes.
SendEvent(e) ==
  /\ e \in outbox \ marked
  /\ sent' = sent \cup {e}
  /\ UNCHANGED <<storeVars, marked, workerVars, clockVars, faultVars>>

\* The send is acknowledged and the row is marked published.
PublishEvent(e) ==
  /\ e \in outbox \ marked
  /\ sent' = sent \cup {e}
  /\ marked' = marked \cup {e}
  /\ UNCHANGED <<storeVars, workerVars, clockVars, faultVars>>

-----------------------------------------------------------------------------
(* Time and failures *)

LiveHolder(s) ==
  \E x \in execs : /\ x.sub = s
                   /\ x.attempt = task[s].token
                   /\ x.phase # "exit"

\* lease_until passes on i's clock.  Under a live execution that takes a
\* paused or cut off process, or a clock that runs ahead: at most MaxPauses.
LeaseRunsOut(i, s) ==
  /\ task[s].status = "RUNNING"
  /\ i \notin expired[s]
  /\ LiveHolder(s) => pauses < MaxPauses
  /\ pauses' = IF LiveHolder(s) THEN pauses + 1 ELSE pauses
  /\ expired' = [expired EXCEPT ![s] = @ \cup {i}]
  /\ UNCHANGED <<storeVars, relayVars, workerVars, due, late, crashes>>

\* next_attempt_at passes on i's clock.
BecomesDue(i, s) ==
  /\ task[s].status \in {"READY", "RETRY_WAITING", "RUNNING"}
  /\ i \notin due[s]
  /\ due' = [due EXCEPT ![s] = @ \cup {i}]
  /\ UNCHANGED <<storeVars, relayVars, workerVars, expired, late, faultVars>>

\* createdAt + deadline passes on i's clock.
DeadlinePasses(i, s) ==
  /\ task[s].status \in {"READY", "RETRY_WAITING", "RUNNING"}
  /\ i \notin late[s]
  /\ late' = [late EXCEPT ![s] = @ \cup {i}]
  /\ UNCHANGED <<storeVars, relayVars, workerVars, expired, due, faultVars>>

\* Process i dies and is restarted: executions and memory are lost, leases
\* and every table stay as they are.
Crash(i) ==
  /\ crashes < MaxCrashes
  /\ crashes' = crashes + 1
  /\ execs' = {x \in execs : x.inst # i}
  /\ active' = [active EXCEPT ![i] = [s \in Submissions |-> 0]]
  /\ slots' = [slots EXCEPT ![i] = Parallelism]
  /\ UNCHANGED <<storeVars, relayVars, clockVars, pauses>>

-----------------------------------------------------------------------------
ExecuteStep(x) ==
  \/ Dispatch(x) \/ Refuse(x) \/ JudgeFails(x)
  \/ \E raw \in RawResults : JudgeAnswers(x, raw)
  \/ FinishJudged(x) \/ FinishJudgedThrows(x)
  \/ FinishFailed(x) \/ FinishFailedThrows(x) \/ Exit(x)

PollStep(i, s) == Claim(i, s) \/ ClaimOrphaned(i, s) \/ Renew(i, s)

RelayStep(e) == SendEvent(e) \/ PublishEvent(e)

ClockStep(i, s) == \/ LeaseRunsOut(i, s) \/ BecomesDue(i, s)
                   \/ DeadlinePasses(i, s)

\* Everything but the delivery of requests.
JudgingInternal ==
  \/ \E i \in Instances, s \in Submissions : PollStep(i, s)
  \/ \E x \in execs : ExecuteStep(x)
  \/ \E e \in outbox : RelayStep(e)
  \/ \E i \in Instances, s \in Submissions : ClockStep(i, s)
  \/ \E i \in Instances : Crash(i)

JudgingNext ==
  \/ \E i \in Instances, s \in Submissions : Receive(i, s)
  \/ JudgingInternal

JudgingSpec == JudgingInit /\ [][JudgingNext]_judgingVars

(***************************************************************************)
(* Fairness.  poll and publish are @Scheduled with a fixed delay and the   *)
(* executor runs every thread it is given; an execution ends because each  *)
(* of its calls has a timeout.  A lease that nobody renews runs out on     *)
(* every clock, as next_attempt_at passes.  Nothing is assumed of Refuse,  *)
(* Crash, lost answers or a lease that lapses under a live execution.      *)
(***************************************************************************)
AbandonedLease(i, s) == ~LiveHolder(s) /\ LeaseRunsOut(i, s)

EndsAttempt(x) == \/ Dispatch(x) \/ JudgeFails(x) \/ FinishJudged(x)
                  \/ OutOfBudget(x) /\ Refuse(x)
                  \/ FinishFailed(x) \/ Exit(x)

-----------------------------------------------------------------------------
(***************************************************************************)
(* Properties                                                              *)
(***************************************************************************)

\* docs/architecture.md 5.3, "only the current token lands a result": the
\* outbox holds at most one terminal event per task, it is there exactly when
\* the task is DONE, and it is of the task's last attempt (claim, finish).
OneTerminalEvent ==
  \A s \in Submissions :
    /\ \A e, f \in outbox :
         e.sub = s /\ f.sub = s /\ IsTerminal(e) /\ IsTerminal(f) => e = f
    /\ task[s].status = "DONE" <=> \E e \in outbox :
         e.sub = s /\ IsTerminal(e) /\ e.attempt = task[s].attempt

\* The lease columns go together: a token exactly while the task runs, and it
\* is the token of the current attempt.
LeaseShape ==
  \A s \in Submissions :
    task[s].token = IF task[s].status = "RUNNING" THEN task[s].attempt ELSE 0

\* A submission without a judge_task row has no attempt.
NothingBeforeReceipt ==
  \A s \in Submissions : task[s].status = "NONE" => task[s].attempt = 0

\* Every event is of an attempt that was claimed, and a terminal one is of the
\* last attempt of a task that is DONE.
EventsAreOfAttempts ==
  \A e \in outbox :
    /\ e.attempt <= task[e.sub].attempt
    /\ IsTerminal(e) => /\ task[e.sub].status = "DONE"
                        /\ e.attempt = task[e.sub].attempt

\* judge_attempt is the history of the task: one row per claim, every earlier
\* row closed, the last one open exactly while the task runs, and the last row
\* of a DONE task says what its terminal event says.
AttemptHistory ==
  \A s \in Submissions :
    LET n == task[s].attempt
    IN  /\ Len(attempts[s]) = n
        /\ \A k \in 1..n :
             attempts[s][k] = "RUNNING" <=> k = n /\ task[s].status = "RUNNING"
        /\ \A e \in outbox : e.sub = s /\ IsTerminal(e) =>
             (attempts[s][n] = "COMPLETED" <=> e.type = "JudgeCompleted")

\* An execution that still holds its lease is in its instance's active map,
\* so poll renews it: the exit of an older execution of the same task in the
\* same instance never drops it (active.remove(id, task)).
HolderIsRenewed ==
  \A x \in execs :
    /\ task[x.sub].token = x.attempt
    /\ task[x.sub].status = "RUNNING"
    => active[x.inst][x.sub] = x.attempt

\* Every slot of the semaphore is free or belongs to an execution: no path
\* through poll and execute leaks one or releases one twice.
SlotsConserved ==
  \A i \in Instances :
    slots[i] + Cardinality({x \in execs : x.inst = i}) = Parallelism

\* A task waits for a retry only with attempts left, and an attempt beyond
\* maxAttempts (after lapsed leases) never reaches a judge node.
RetryBudget ==
  /\ \A s \in Submissions :
       task[s].status = "RETRY_WAITING" => task[s].attempt < MaxAttempts
  /\ \A x \in execs : x.phase \in {"judging", "judged"} =>
       x.attempt <= MaxAttempts

\* What every process owes to the task it executes and to its semaphore,
\* however executions of one task overlap in it: a holder is renewed, slots
\* come back exactly once, and attempts stay within their budget.
WorkerInv == HolderIsRenewed /\ SlotsConserved /\ RetryBudget

\* A DONE task is never claimed, renewed or finished again, and attempt_no
\* never goes back.
DoneTaskIsFinal ==
  [][\A s \in Submissions :
       /\ task[s].status = "DONE" =>
            task'[s] = task[s] /\ attempts'[s] = attempts[s]
       /\ task'[s].attempt >= task[s].attempt]_judgingVars

-----------------------------------------------------------------------------
\* The inductive invariant behind the safety theorems: a lease is what makes
\* finish exclusive, so the shape of the lease columns and the place of every
\* event in the history of its task are carried along with the properties.
StoreInv == /\ NothingBeforeReceipt /\ LeaseShape /\ EventsAreOfAttempts
            /\ OneTerminalEvent /\ AttemptHistory

JudgingInv == JudgingTypeOK /\ StoreInv

\* Every claim starts at most one execution, and none is of a later attempt
\* than its task: what tells two executions of one task apart in a process.
OneExecutionPerClaim ==
  /\ IsFiniteSet(execs)
  /\ \A x, y \in execs : x.sub = y.sub /\ x.attempt = y.attempt => x = y
  /\ \A x \in execs : x.attempt <= task[x.sub].attempt

\* The inductive invariant behind WorkerInv.
ExecutionInv == JudgingInv /\ WorkerInv /\ OneExecutionPerClaim
=============================================================================
