-------------------------- MODULE MCTestDataStore --------------------------
(***************************************************************************)
(* Small instances of TestDataStore for TLC.                               *)
(***************************************************************************)
EXTENDS TestDataStore, TLC

\* Contents, data files and upload threads are only compared with each other.
StoreSymmetry == Permutations(Contents) \cup Permutations(DataFiles) \cup Permutations(Uploads)

\* What a thread no longer reads does not tell two states apart.
StoreView ==
    LET wanted == [u \in Uploads |->
            IF pc[u] \in {"idle", "prune", "listing", "deleting"} THEN NoLink ELSE content[u]]
        read == [u \in Uploads |-> IF pc[u] = "listing" THEN current[u] ELSE NoLink]
    IN  <<database, disk, deletion, pc, wanted, read, saved, overlapped, load, counters>>
=============================================================================
