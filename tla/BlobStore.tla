----------------------------- MODULE BlobStore -----------------------------
(***************************************************************************)
(* The judge engine's blob store (execution/store/disk.go): uploads that    *)
(* reserve capacity before they write, readers that keep a deleted blob's   *)
(* bytes on disk, expiry, and restarts that rebuild the accounts from the   *)
(* directory.                                                              *)
(*                                                                         *)
(* A reference is fresh for every upload (newID).  What happens under s.mu *)
(* is one step; a Put holds it twice, and writes in between.  Time is kept *)
(* as the set of references whose retention has passed.                    *)
(***************************************************************************)
EXTENDS Integers, FiniteSets, FiniteSetsExt

CONSTANTS
    Refs,           \* references, one for each upload
    MaxBlobBytes,
    MaxTotalBytes,
    MaxEntries,
    MaxReaders,     \* bound: handles open on one blob
    MaxRestarts     \* bound: restarts of the process

ASSUME BudgetAssumption ==
    /\ MaxBlobBytes \in Nat \ {0}
    /\ MaxTotalBytes \in Nat
    /\ MaxTotalBytes >= MaxBlobBytes
    /\ MaxEntries \in Nat \ {0}
ASSUME BoundsAssumption ==
    IsFiniteSet(Refs) /\ MaxReaders \in Nat /\ MaxRestarts \in Nat

VARIABLES
    entries,    \* the references in s.entries
    entry,      \* their entries
    used,       \* s.used
    storeClosed,\* s.closed, or no process at all
    file,       \* the file of a reference: none, pending, published, unlinked
    bytes,      \* the bytes it occupies
    outdated,   \* the references whose retention has passed
    put,        \* where each upload is
    handles,    \* the handles open on each reference
    restarts

blobVars == <<entries, entry, used, storeClosed, file, bytes, outdated, put, handles, restarts>>

NoEntry == [size |-> 0, readers |-> 0, deleted |-> FALSE]

BlobEntries == [size : 0..MaxBlobBytes, readers : Nat, deleted : BOOLEAN]

SumOver(f, S) == MapThenSumSet(LAMBDA r : f[r], S)

\* The size each entry is accounted with.
Sizes == [r \in Refs |-> entry[r].size]

BlobInit ==
    /\ entries = {} /\ entry = [r \in Refs |-> NoEntry]
    /\ used = 0 /\ storeClosed = FALSE /\ outdated = {} /\ restarts = 0
    /\ file = [r \in Refs |-> "none"]
    /\ bytes = [r \in Refs |-> 0]
    /\ put = [r \in Refs |-> "idle"]
    /\ handles = [r \in Refs |-> 0]

-----------------------------------------------------------------------------
(* remove and sweep: unlink first; the entry goes with its last reader.      *)

\* Mutant: an entry goes at once, whoever reads it.
FreedAtOnce(R) == R

\* The references of R whose entries go when R is removed.
Freed(R) == {r \in R : entry[r].readers = 0}

\* The store once the references of R are removed.
Without(R) ==
    [entries |-> entries \ Freed(R),
     entry |-> [r \in Refs |->
        IF r \in Freed(R) THEN NoEntry
        ELSE IF r \in R THEN [entry[r] EXCEPT !.deleted = TRUE] ELSE entry[r]],
     used |-> used - SumOver(Sizes, Freed(R)),
     file |-> [r \in Refs |->
        IF r \in R THEN (IF handles[r] = 0 THEN "none" ELSE "unlinked") ELSE file[r]],
     bytes |-> [r \in Refs |-> IF r \in R /\ handles[r] = 0 THEN 0 ELSE bytes[r]]]

RemoveEntries(R) ==
    LET after == Without(R)
    IN  /\ entries' = after.entries
        /\ entry' = after.entry
        /\ used' = after.used
        /\ file' = after.file
        /\ bytes' = after.bytes

\* The entries that are published.
Live == {r \in entries : ~entry[r].deleted}

\* What sweep removes.
Stale == Live \cap outdated

\* Sweep, and the sweep of a Put that is then refused.  A file that cannot be
\* deleted ends it early.
Sweep ==
    /\ ~storeClosed
    /\ \E R \in SUBSET Stale : R # {} /\ RemoveEntries(R)
    /\ UNCHANGED <<storeClosed, outdated, put, handles, restarts>>

\* The retention of a published blob passes.
Expire(r) ==
    /\ file[r] = "published" /\ r \notin outdated
    /\ outdated' = outdated \cup {r}
    /\ UNCHANGED <<entries, entry, used, storeClosed, file, bytes, put, handles, restarts>>

Delete(r) ==
    /\ ~storeClosed /\ r \in Live
    /\ RemoveEntries({r})
    /\ UNCHANGED <<storeClosed, outdated, put, handles, restarts>>

-----------------------------------------------------------------------------
(* Put *)

\* An upload reserves all it may write.
Reservation == MaxBlobBytes

\* The entry of an upload: invisible, and in the way of Close.
UploadEntry == [size |-> Reservation, readers |-> 1, deleted |-> TRUE]

\* The entry of a blob of n bytes that nobody reads.
PublishedEntry(n) == [size |-> n, readers |-> 0, deleted |-> FALSE]

\* The first part of Put: sweep, then reserve what is left of the budget.
PutReserves(r) ==
    LET swept == Without(Stale)
    IN  /\ put[r] = "idle" /\ ~storeClosed
        /\ Cardinality(swept.entries) < MaxEntries
        /\ MaxBlobBytes <= MaxTotalBytes - swept.used
        /\ entries' = swept.entries \cup {r}
        /\ entry' = [swept.entry EXCEPT ![r] = UploadEntry]
        /\ used' = swept.used + Reservation
        /\ file' = [swept.file EXCEPT ![r] = "pending"]
        /\ bytes' = swept.bytes
        /\ put' = [put EXCEPT ![r] = "copying"]
        /\ UNCHANGED <<storeClosed, outdated, handles, restarts>>

\* io.Copy writes n bytes, one more than the limit at most.
PutCopies(r, n) ==
    /\ put[r] = "copying"
    /\ bytes' = [bytes EXCEPT ![r] = n]
    /\ put' = [put EXCEPT ![r] = "copied"]
    /\ UNCHANGED <<entries, entry, used, storeClosed, file, outdated, handles, restarts>>

\* The second part of Put: the rename publishes the blob, and the rest of the
\* reservation is given back.
PutPublishes(r) ==
    /\ put[r] = "copied" /\ ~storeClosed /\ bytes[r] <= MaxBlobBytes
    /\ used' = used - (Reservation - bytes[r])
    /\ entry' = [entry EXCEPT ![r] = PublishedEntry(bytes[r])]
    /\ file' = [file EXCEPT ![r] = "published"]
    /\ put' = [put EXCEPT ![r] = "returned"]
    /\ UNCHANGED <<entries, storeClosed, bytes, outdated, handles, restarts>>

\* The upload failed, was too long, or found the store closed: the pending
\* file is deleted and the reservation given back.
PutFails(r) ==
    /\ put[r] = "copied"
    /\ entries' = entries \ {r}
    /\ entry' = [entry EXCEPT ![r] = NoEntry]
    /\ used' = used - entry[r].size
    /\ file' = [file EXCEPT ![r] = "none"]
    /\ bytes' = [bytes EXCEPT ![r] = 0]
    /\ put' = [put EXCEPT ![r] = "returned"]
    /\ UNCHANGED <<storeClosed, outdated, handles, restarts>>

\* The same, but the pending file cannot be deleted: it keeps its reservation.
PutFailsLeaking(r) ==
    /\ put[r] = "copied"
    /\ put' = [put EXCEPT ![r] = "returned"]
    /\ UNCHANGED <<entries, entry, used, storeClosed, file, bytes, outdated, handles, restarts>>

-----------------------------------------------------------------------------
(* Get and the handles it returns *)

\* A stale blob is removed instead of opened.
GetStale(r) ==
    /\ ~storeClosed /\ r \in Stale
    /\ RemoveEntries({r})
    /\ UNCHANGED <<storeClosed, outdated, put, handles, restarts>>

Get(r) ==
    /\ ~storeClosed /\ r \in Live \ outdated /\ handles[r] < MaxReaders
    /\ entry' = [entry EXCEPT ![r].readers = entry[r].readers + 1]
    /\ handles' = [handles EXCEPT ![r] = handles[r] + 1]
    /\ UNCHANGED <<entries, used, storeClosed, file, bytes, outdated, put, restarts>>

\* A handle is closed; the last one of a deleted blob frees its entry.
Release(r) ==
    LET last == entry[r].deleted /\ entry[r].readers = 1
    IN  /\ handles[r] > 0
        /\ handles' = [handles EXCEPT ![r] = handles[r] - 1]
        /\ entries' = IF last THEN entries \ {r} ELSE entries
        /\ used' = IF last THEN used - entry[r].size ELSE used
        /\ entry' = [entry EXCEPT ![r] =
              IF last THEN NoEntry ELSE [entry[r] EXCEPT !.readers = entry[r].readers - 1]]
        /\ file' = [file EXCEPT ![r] = IF file[r] = "unlinked" /\ handles[r] = 1 THEN "none" ELSE file[r]]
        /\ bytes' = [bytes EXCEPT ![r] = IF file[r] = "unlinked" /\ handles[r] = 1 THEN 0 ELSE bytes[r]]
        /\ UNCHANGED <<storeClosed, outdated, put, restarts>>

-----------------------------------------------------------------------------
(* Close, the end of the process, and New *)

\* Close refuses while an entry has a reader.
Close ==
    /\ ~storeClosed
    /\ \A r \in entries : entry[r].readers = 0
    /\ storeClosed' = TRUE
    /\ UNCHANGED <<entries, entry, used, file, bytes, outdated, put, handles, restarts>>

\* What the directory still holds when the process is gone.
OnDisk == {r \in Refs : file[r] \in {"pending", "published"}}

\* The process ends, closed or not: handles and unlinked files are gone.
ProcessEnds ==
    /\ restarts < MaxRestarts
    /\ restarts' = restarts + 1
    /\ storeClosed' = TRUE
    /\ entries' = {} /\ entry' = [r \in Refs |-> NoEntry] /\ used' = 0
    /\ handles' = [r \in Refs |-> 0]
    /\ put' = [r \in Refs |-> IF put[r] = "idle" THEN "idle" ELSE "returned"]
    /\ file' = [r \in Refs |-> IF r \in OnDisk THEN file[r] ELSE "none"]
    /\ bytes' = [r \in Refs |-> IF r \in OnDisk THEN bytes[r] ELSE 0]
    /\ UNCHANGED outdated

\* What load keeps: it deletes pending files and stale blobs.
Kept == {r \in OnDisk : file[r] = "published"} \ outdated

\* load succeeds only if what it keeps is within the budget.
LoadFits ==
    /\ Cardinality(Kept) <= MaxEntries
    /\ \A r \in Kept : bytes[r] <= MaxBlobBytes
    /\ SumOver(bytes, Kept) <= MaxTotalBytes

\* Nobody serves the directory.
Down == storeClosed /\ entries = {} /\ restarts > 0

Load ==
    /\ Down /\ LoadFits
    /\ storeClosed' = FALSE
    /\ entries' = Kept
    /\ entry' = [r \in Refs |-> IF r \in Kept THEN PublishedEntry(bytes[r]) ELSE NoEntry]
    /\ used' = SumOver(bytes, Kept)
    /\ file' = [r \in Refs |-> IF r \in Kept THEN file[r] ELSE "none"]
    /\ bytes' = [r \in Refs |-> IF r \in Kept THEN bytes[r] ELSE 0]
    /\ UNCHANGED <<outdated, put, handles, restarts>>

-----------------------------------------------------------------------------
BlobNext ==
    \/ Sweep
    \/ \E r \in Refs :
         \/ Expire(r)
         \/ Delete(r)
         \/ PutReserves(r)
         \/ \E n \in 0..(MaxBlobBytes + 1) : PutCopies(r, n)
         \/ PutPublishes(r)
         \/ PutFails(r)
         \/ PutFailsLeaking(r)
         \/ GetStale(r)
         \/ Get(r)
         \/ Release(r)
    \/ Close
    \/ ProcessEnds
    \/ Load

BlobSpec == BlobInit /\ [][BlobNext]_blobVars

-----------------------------------------------------------------------------
(* Properties *)

\* Types of the variables.
BlobTypeOK ==
    /\ entries \subseteq Refs /\ outdated \subseteq Refs
    /\ entry \in [Refs -> BlobEntries]
    /\ used \in 0..MaxTotalBytes
    /\ storeClosed \in BOOLEAN
    /\ file \in [Refs -> {"none", "pending", "published", "unlinked"}]
    /\ bytes \in [Refs -> 0..(MaxBlobBytes + 1)]
    /\ put \in [Refs -> {"idle", "copying", "copied", "returned"}]
    /\ handles \in [Refs -> 0..MaxReaders]
    /\ restarts \in 0..MaxRestarts

\* The account is the sum of the entries, whatever order uploads, deletions,
\* expiry, readers and restarts come in: nothing is given back twice or never.
UsedIsSumOfEntries == used = SumOver(Sizes, entries)

\* Every byte on disk is accounted for, those of a deleted blob that is still
\* being read included, but for the one byte by which an upload that is too
\* long shows it (Put reads MaxBlobBytes + 1).
Probing == {r \in Refs : file[r] = "pending"}
BytesAreAccounted ==
    ~storeClosed => SumOver(bytes, Refs) <= used + Cardinality(Probing)

\* Whenever the process ends, what it leaves can be loaded again: a restart
\* never fails with ErrCapacity on the store's own files.
RestartFits == LoadFits

\* A store that closed has no upload under way and no open handle, so nobody
\* uses the directory handle it released.
ClosedIsQuiet ==
    storeClosed => \A r \in Refs : put[r] \notin {"copying", "copied"} /\ handles[r] = 0

\* The store as a whole: its account, the disk it accounts for, what a restart
\* finds and what Close leaves.
BlobInv ==
    BlobTypeOK /\ UsedIsSumOfEntries /\ BytesAreAccounted /\ RestartFits /\ ClosedIsQuiet

-----------------------------------------------------------------------------
(* The inductive invariant *)

\* What s.entries, the file and the handles of one reference say of each other.
RefOK(r) ==
    /\ r \notin entries => entry[r] = NoEntry
    /\ ~storeClosed => (r \in entries <=> file[r] # "none")
    /\ file[r] = "none" => bytes[r] = 0 /\ r \notin entries
    /\ file[r] = "pending" /\ r \in entries =>
         entry[r] = UploadEntry /\ handles[r] = 0 /\ ~storeClosed
    /\ file[r] \in {"published", "unlinked"} =>
         /\ bytes[r] <= MaxBlobBytes /\ put[r] = "returned"
         /\ r \in entries =>
              /\ entry[r].size = bytes[r] /\ entry[r].readers = handles[r]
              /\ entry[r].deleted <=> file[r] = "unlinked"
    /\ file[r] = "unlinked" => handles[r] > 0
    /\ handles[r] > 0 =>
         file[r] \in {"published", "unlinked"} /\ r \in entries /\ ~storeClosed
    /\ put[r] = "idle" => file[r] = "none"
    /\ put[r] \in {"copying", "copied"} => file[r] = "pending" /\ r \in entries
    /\ put[r] = "copying" => bytes[r] = 0

\* The references one by one, and the account of them all.
BlobAccount ==
    /\ BlobTypeOK
    /\ \A r \in Refs : RefOK(r)
    /\ UsedIsSumOfEntries
    /\ Cardinality(entries) <= MaxEntries

\* The store as its steps keep it: while nobody serves the directory there is
\* no account, so what it holds has to be kept within the budget by itself.
BlobIInv == BlobAccount /\ RestartFits
=============================================================================
