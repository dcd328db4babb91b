----------------------------- MODULE MCJudging -----------------------------
(***************************************************************************)
(* What executes submissions, for TLC: the workers of judging-service, and  *)
(* the execution pool and the blob store of one judge engine.  They share   *)
(* no state, so what one does is checked while the others rest.  Only a     *)
(* worker must always have something left to do.                            *)
(***************************************************************************)
EXTENDS FormalJudging, ExecutionPool, BlobStore

CONSTANTS s1, t1

VARIABLE part       \* the part that moves

MCTaskOf == [s \in Submissions |-> t1]

MCRawResults == {[verdict |-> "CE", message |-> "lines"], [verdict |-> "SE", message |-> "none"]}

MCVars == <<part, judgingVars, poolVars, blobVars>>

MCInit == part \in {"worker", "pool", "store"} /\ JudgingInit /\ PoolInit /\ BlobInit

MCNext ==
    /\ \/ part = "worker" /\ JudgingNext /\ UNCHANGED <<poolVars, blobVars>>
       \/ part = "pool" /\ PoolNext /\ UNCHANGED <<judgingVars, blobVars>>
       \/ part = "store" /\ BlobNext /\ UNCHANGED <<judgingVars, poolVars>>
       \/ part # "worker" /\ UNCHANGED <<judgingVars, poolVars, blobVars>>
    /\ UNCHANGED part

MCSpec == MCInit /\ [][MCNext]_MCVars /\ PoolFairness
=============================================================================
