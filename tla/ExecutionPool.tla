--------------------------- MODULE ExecutionPool ---------------------------
(***************************************************************************)
(* The execution pool of the judge engine (execution/pool/pool.go): how    *)
(* many runs are admitted, how many execute, and how the pool stops, either *)
(* because Close was called or because a run could not confirm its clean-up *)
(* and poisoned the pool.                                                  *)
(*                                                                         *)
(* What happens under p.mu is one step.  Every other pair of statements of *)
(* Run is two steps.  The executor is external: it returns with its clean- *)
(* up confirmed or not, and it need not return before it is cancelled.     *)
(***************************************************************************)
EXTENDS Integers, FiniteSets

CONSTANTS
    Requests,       \* calls of Run
    Closers,        \* calls of Close
    PoolParallelism, \* executions at a time
    QueueSize       \* requests that may wait

ASSUME ParallelismAssumption == PoolParallelism \in Nat \ {0}
ASSUME QueueSizeAssumption == QueueSize \in Nat \ {0}

VARIABLES
    closed,         \* p.closed
    stopped,        \* p.ctx is cancelled
    closeErr,       \* the requests whose clean-up errors p.closeErr joins
    admitted,       \* who holds a place in p.admitted
    sem,            \* who holds a place in p.sem
    wg,             \* who p.wg counts
    cancelled,      \* whose runCtx is cancelled
    stage,          \* where each call of Run is
    closer,         \* where each call of Close is
    reported,       \* what each call of Close returned
    tooLate         \* history: who took a slot when the pool had stopped

poolVars == <<closed, stopped, closeErr, admitted, sem, wg, cancelled, stage, closer, reported, tooLate>>

Executing == {"running", "poisoning"}
HasSlot == {"checking", "checked", "cleared", "returning"} \cup Executing
HasPlace == {"queued", "leaving"} \cup HasSlot
InFlight == {"unregistered"} \cup HasPlace

PoolInit ==
    /\ closed = FALSE /\ stopped = FALSE /\ closeErr = {}
    /\ admitted = {} /\ sem = {} /\ wg = {} /\ cancelled = {} /\ tooLate = {}
    /\ stage = [r \in Requests |-> "idle"]
    /\ closer = [k \in Closers |-> "idle"]
    /\ reported = [k \in Closers |-> {}]

MoveTo(r, label) == stage' = [stage EXCEPT ![r] = label]

-----------------------------------------------------------------------------
(* Run *)

\* Mutant: the closed flag is not looked at.
AdmitClosed(r) ==
    /\ stage[r] = "idle"
    /\ IF Cardinality(admitted) = PoolParallelism + QueueSize
       THEN MoveTo(r, "busy") /\ UNCHANGED <<admitted, wg>>
       ELSE MoveTo(r, "queued") /\ admitted' = admitted \cup {r} /\ wg' = wg \cup {r}
    /\ UNCHANGED <<closed, stopped, closeErr, sem, cancelled, closer, reported, tooLate>>

\* admit: refused when closed or full, else counted before the lock is released.
Admit(r) ==
    /\ stage[r] = "idle"
    /\ \/ /\ closed
          /\ MoveTo(r, "refused")
          /\ UNCHANGED <<admitted, wg>>
       \/ /\ ~closed /\ Cardinality(admitted) = PoolParallelism + QueueSize
          /\ MoveTo(r, "busy")
          /\ UNCHANGED <<admitted, wg>>
       \/ /\ ~closed /\ Cardinality(admitted) < PoolParallelism + QueueSize
          /\ MoveTo(r, "queued")
          /\ admitted' = admitted \cup {r}
          /\ wg' = wg \cup {r}
    /\ UNCHANGED <<closed, stopped, closeErr, sem, cancelled, closer, reported, tooLate>>

\* The caller's context ends.
HangUp(r) ==
    /\ stage[r] \in InFlight
    /\ cancelled' = cancelled \cup {r}
    /\ UNCHANGED <<closed, stopped, closeErr, admitted, sem, wg, stage, closer, reported, tooLate>>

\* context.AfterFunc cancels the run some time after the pool stopped.
CancelArrives(r) ==
    /\ stopped /\ stage[r] \in InFlight /\ r \notin cancelled
    /\ cancelled' = cancelled \cup {r}
    /\ UNCHANGED <<closed, stopped, closeErr, admitted, sem, wg, stage, closer, reported, tooLate>>

\* The select of Run: the slot, or the end of the context.
TakeSlot(r) ==
    /\ stage[r] = "queued" /\ Cardinality(sem) < PoolParallelism
    /\ sem' = sem \cup {r}
    /\ tooLate' = IF stopped THEN tooLate \cup {r} ELSE tooLate
    /\ MoveTo(r, "checking")
    /\ UNCHANGED <<closed, stopped, closeErr, admitted, wg, cancelled, closer, reported>>

GiveUp(r) ==
    /\ stage[r] = "queued" /\ r \in cancelled
    /\ MoveTo(r, "leaving")
    /\ UNCHANGED <<closed, stopped, closeErr, admitted, sem, wg, cancelled, closer, reported, tooLate>>

\* With the slot: the derived context, which may not know yet.
CheckContext(r) ==
    /\ stage[r] = "checking"
    /\ MoveTo(r, IF r \in cancelled THEN "returning" ELSE "checked")
    /\ UNCHANGED <<closed, stopped, closeErr, admitted, sem, wg, cancelled, closer, reported, tooLate>>

\* Mutant: the derived context is trusted to know that the pool stopped.
CheckPoolSkipped(r) ==
    /\ stage[r] = "checked"
    /\ MoveTo(r, "cleared")
    /\ UNCHANGED <<closed, stopped, closeErr, admitted, sem, wg, cancelled, closer, reported, tooLate>>

\* With the slot: the pool's own context.
CheckPool(r) ==
    /\ stage[r] = "checked"
    /\ MoveTo(r, IF stopped THEN "returning" ELSE "cleared")
    /\ UNCHANGED <<closed, stopped, closeErr, admitted, sem, wg, cancelled, closer, reported, tooLate>>

StartExecutor(r) ==
    /\ stage[r] = "cleared"
    /\ MoveTo(r, "running")
    /\ UNCHANGED <<closed, stopped, closeErr, admitted, sem, wg, cancelled, closer, reported, tooLate>>

\* The executor returns; its error says that the clean-up is not confirmed.
ExecutorReturns(r) ==
    /\ stage[r] = "running"
    /\ \/ MoveTo(r, "returning")
       \/ MoveTo(r, "poisoning")
    /\ UNCHANGED <<closed, stopped, closeErr, admitted, sem, wg, cancelled, closer, reported, tooLate>>

\* Mutant: poison closes the pool and leaves its context alone.
PoisonQuietly(r) ==
    /\ stage[r] = "poisoning"
    /\ closed' = TRUE
    /\ closeErr' = closeErr \cup {r}
    /\ MoveTo(r, "returning")
    /\ UNCHANGED <<stopped, admitted, sem, wg, cancelled, closer, reported, tooLate>>

\* poison, before the slot is given back.
Poison(r) ==
    /\ stage[r] = "poisoning"
    /\ closed' = TRUE /\ stopped' = TRUE
    /\ closeErr' = closeErr \cup {r}
    /\ MoveTo(r, "returning")
    /\ UNCHANGED <<admitted, sem, wg, cancelled, closer, reported, tooLate>>

\* The deferred calls of Run, last registered first.
ReleaseSlot(r) ==
    /\ stage[r] = "returning"
    /\ sem' = sem \ {r}
    /\ MoveTo(r, "leaving")
    /\ UNCHANGED <<closed, stopped, closeErr, admitted, wg, cancelled, closer, reported, tooLate>>

ReleaseAdmission(r) ==
    /\ stage[r] = "leaving"
    /\ admitted' = admitted \ {r}
    /\ MoveTo(r, "unregistered")
    /\ UNCHANGED <<closed, stopped, closeErr, sem, wg, cancelled, closer, reported, tooLate>>

Done(r) ==
    /\ stage[r] = "unregistered"
    /\ wg' = wg \ {r}
    /\ MoveTo(r, "returned")
    /\ UNCHANGED <<closed, stopped, closeErr, admitted, sem, cancelled, closer, reported, tooLate>>

-----------------------------------------------------------------------------
(* Close *)

\* Close cancels the pool unless somebody closed it before.
CloseStarts(k) ==
    /\ closer[k] = "idle"
    /\ closed' = TRUE
    /\ stopped' = IF closed THEN stopped ELSE TRUE
    /\ closer' = [closer EXCEPT ![k] = "waiting"]
    /\ UNCHANGED <<closeErr, admitted, sem, wg, cancelled, stage, reported, tooLate>>

\* wg.Wait, then the errors joined so far.
CloseEnds(k) ==
    /\ closer[k] = "waiting" /\ wg = {}
    /\ reported' = [reported EXCEPT ![k] = closeErr]
    /\ closer' = [closer EXCEPT ![k] = "returned"]
    /\ UNCHANGED <<closed, stopped, closeErr, admitted, sem, wg, cancelled, stage, tooLate>>

-----------------------------------------------------------------------------
\* The statements of Run that do not depend on anybody else.
RunStep(r) ==
    \/ CheckContext(r)
    \/ CheckPool(r)
    \/ StartExecutor(r)
    \/ Poison(r)
    \/ ReleaseSlot(r)
    \/ ReleaseAdmission(r)
    \/ Done(r)

PoolNext ==
    \/ \E r \in Requests :
         \/ Admit(r)
         \/ HangUp(r)
         \/ CancelArrives(r)
         \/ TakeSlot(r)
         \/ GiveUp(r)
         \/ ExecutorReturns(r)
         \/ RunStep(r)
    \/ \E k \in Closers : CloseStarts(k) \/ CloseEnds(k)

PoolSpec == PoolInit /\ [][PoolNext]_poolVars

\* Goroutines run; a cancellation reaches its run; a run that was cancelled
\* leaves the queue or its executor.  An executor that nobody cancels may run
\* for as long as it likes.
PoolFairness ==
    /\ \A r \in Requests :
         /\ WF_poolVars(RunStep(r))
         /\ WF_poolVars(CancelArrives(r))
         /\ WF_poolVars(GiveUp(r))
         /\ WF_poolVars(r \in cancelled /\ ExecutorReturns(r))
    /\ \A k \in Closers : WF_poolVars(CloseEnds(k))

FairPoolSpec == PoolSpec /\ PoolFairness

-----------------------------------------------------------------------------
(* Properties *)

\* Types of the variables.
PoolTypeOK ==
    /\ closed \in BOOLEAN /\ stopped \in BOOLEAN
    /\ closeErr \subseteq Requests /\ cancelled \subseteq Requests /\ tooLate \subseteq Requests
    /\ admitted \subseteq Requests /\ sem \subseteq Requests /\ wg \subseteq Requests
    /\ stage \in [Requests -> InFlight \cup {"idle", "refused", "busy", "returned"}]
    /\ closer \in [Closers -> {"idle", "waiting", "returned"}]
    /\ reported \in [Closers -> SUBSET Requests]

\* The channels and the wait group hold exactly the calls of Run that are
\* between the statements that enter and leave them.
Holdings ==
    /\ sem = {r \in Requests : stage[r] \in HasSlot}
    /\ admitted = {r \in Requests : stage[r] \in HasPlace}
    /\ wg = {r \in Requests : stage[r] \in InFlight}

\* A pool that is closed has stopped, and who came late was turned back.
StopInv ==
    /\ closed = stopped
    /\ closeErr # {} => closed
    /\ \A r \in tooLate : stopped /\ stage[r] \notin Executing \cup {"cleared", "queued"}

\* A Close that returned found the pool empty and left it so.
CloseInv ==
    \A k \in Closers :
        /\ closer[k] # "idle" => closed
        /\ closer[k] = "returned" => wg = {} /\ reported[k] = closeErr

\* The inductive invariant of the pool: no place in a channel or in the wait
\* group is lost or kept on any way out of Run, and what Close promises.
PoolInv == PoolTypeOK /\ Holdings /\ StopInv /\ CloseInv

\* A request that got its slot after the pool had stopped never reaches the
\* executor, though its own context may not have been cancelled yet (Run's
\* second check): no run overlaps what an unconfirmed clean-up left behind
\* in the slot it was given.
StoppedPoolStartsNothing == \A r \in tooLate : stage[r] \notin Executing

\* When Close has returned no run is in flight and none ever starts again
\* (admit and Close share p.mu and p.wg), so the backend and the store may
\* be closed after it.
CloseWaitsForAll ==
    (\E k \in Closers : closer[k] = "returned") =>
        /\ sem = {}
        /\ \A r \in Requests : stage[r] \notin InFlight

\* Every Close that returned reports every clean-up that was ever left
\* unconfirmed: no failure is lost between poison and Close.
CloseReportsEveryFailure ==
    \A k \in Closers : closer[k] = "returned" => reported[k] = closeErr

\* A Close returns, also when the pool was poisoned before or meanwhile and
\* whatever is queued or executing: no call, made once by each closer, is left
\* waiting.
CloseReturns == []<>(\A k \in Closers : closer[k] # "waiting")
=============================================================================
