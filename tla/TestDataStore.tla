--------------------------- MODULE TestDataStore ---------------------------
(***************************************************************************)
(* The test data of one problem: the uploads that replace it               *)
(* (TestDataService.upload over FileTestDataStore), the deletion of the    *)
(* problem, and the judge nodes that read it (judge/testcase Load).        *)
(*                                                                         *)
(* On disk a content is one directory under .store, named after its        *)
(* digest, and the problem's address is a symbolic link to one of them.    *)
(* A content is a value of Contents; its directory holds DataFiles and     *)
(* testdata.json (MetadataFile).  Two different contents differ in every   *)
(* data file.  Temporary files, which no address ever reaches, are left    *)
(* out; a directory that is built in a temporary place and renamed appears *)
(* in one step.                                                            *)
(***************************************************************************)
EXTENDS Integers, Sequences, FiniteSets, SequencesExt

CONSTANTS
    Contents,       \* the digests of the archives that are uploaded
    DataFiles,      \* the .in and .out files of a content
    MetadataFile,   \* testdata.json
    Uploads,        \* threads of problem-service that serve an upload
    Remover,        \* the thread that deletes the problem
    Loads,          \* judge nodes that read the data
    NoLink,         \* no address: the link does not exist
    NoOne,          \* nobody holds the row lock
    MaxUploads,     \* bound: uploads in a behaviour
    MaxOverlapping, \* bound: uploads in a behaviour in which they overlap
    MaxLoads,       \* bound: loads in a behaviour
    MaxCrashes,     \* bound: crashes of problem-service
    MayFail,        \* whether an upload may meet a bad archive or a failing disk or database
    MayDelete       \* whether the problem may be archived or deleted

ASSUME FilesAssumption == MetadataFile \notin DataFiles
ASSUME NoLinkAssumption == NoLink \notin Contents
ASSUME ThreadsAssumption == Remover \notin Uploads /\ NoOne \notin Uploads
ASSUME StoreBoundsAssumption ==
    /\ MaxUploads \in Nat
    /\ MaxOverlapping \in Nat
    /\ MaxLoads \in Nat
    /\ MaxCrashes \in Nat
    /\ MayFail \in BOOLEAN
    /\ MayDelete \in BOOLEAN

Files == DataFiles \cup {MetadataFile}
Workers == Uploads \cup {Remover}
Addresses == Contents \cup {NoLink}

VARIABLES
    row,        \* problem.status, or DELETED once the row is gone
    location,   \* whether problem.test_data_location is set
    lock,       \* who holds the row FOR UPDATE
    link,       \* what the problem's address points to
    dirs,       \* the directories that exist under .store
    held,       \* the files each of them holds
    mtimes,     \* the directories, least recently modified first
    pc,         \* where each worker is
    content,    \* the content each upload was given
    current,    \* the link as prune read it
    doomed,     \* the directories a worker still has to delete, in order
    walking,    \* whether it is inside the first of them
    listing,    \* the files it found there and has not visited
    saved,      \* whether the upload that began last has committed
    overlapped, \* history: whether an upload ever began beside another one
    load,       \* the loads of the judge nodes
    switches,   \* how often the address was switched
    uploads, loads, crashes     \* counted against the bounds

database == <<row, location, lock>>
disk == <<link, dirs, held, mtimes, switches>>
deletion == <<doomed, walking, listing>>
threads == <<pc, content, current, saved, overlapped>>
counters == <<uploads, loads, crashes>>
storeVars == <<database, disk, deletion, threads, load, counters>>

\* A load that nobody is doing.
NoLoad == [pc |-> "idle", attempt |-> 0, digest |-> NoLink, copied |-> {}, since |-> 0]

LoadRows == [pc : {"idle", "reading", "copying", "loaded", "failed"},
             attempt : 0..2,
             digest : Addresses,
             copied : SUBSET (DataFiles \X Contents),
             since : Nat]

StoreInit ==
    /\ row = "ACTIVE" /\ location = FALSE /\ lock = NoOne
    /\ link = NoLink /\ switches = 0
    /\ dirs = {} /\ held = [c \in Contents |-> {}] /\ mtimes = <<>>
    /\ pc = [w \in Workers |-> "idle"]
    /\ content = [u \in Uploads |-> NoLink]
    /\ current = [u \in Uploads |-> NoLink]
    /\ saved = FALSE /\ overlapped = FALSE
    /\ doomed = [w \in Workers |-> <<>>]
    /\ walking = [w \in Workers |-> FALSE]
    /\ listing = [w \in Workers |-> {}]
    /\ load = [l \in Loads |-> NoLoad]
    /\ uploads = 0 /\ loads = 0 /\ crashes = 0

-----------------------------------------------------------------------------
(* Uploads *)

At(w, label) == pc[w] = label
GoTo(w, label) == pc' = [pc EXCEPT ![w] = label]

\* The directories by modification time, once c was modified.
Touch(c) == Append(RemoveFirst(mtimes, c), c)

\* An upload is under way.
Busy == \E u \in Uploads : ~At(u, "idle")

\* upload: the first check of the row, outside the transaction that replaces.
Upload(u, c) ==
    /\ At(u, "idle") /\ row = "ACTIVE"
    /\ uploads < IF Busy \/ overlapped THEN MaxOverlapping ELSE MaxUploads
    /\ content' = [content EXCEPT ![u] = c]
    /\ saved' = FALSE
    /\ overlapped' = (overlapped \/ Busy)
    /\ uploads' = uploads + 1
    /\ GoTo(u, "prepare")
    /\ UNCHANGED <<database, disk, deletion, current, load, loads, crashes>>

\* prepare fails before it leaves anything: a bad archive or a full disk.
PrepareFails(u) ==
    /\ MayFail /\ pc[u] \in {"prepare", "built"}
    /\ GoTo(u, "idle")
    /\ UNCHANGED <<database, disk, deletion, content, current, saved, overlapped, load, counters>>

\* materialize finds testdata.json in place and reuses the directory, or
\* builds one of its own.
Materialize(u) ==
    /\ At(u, "prepare")
    /\ GoTo(u, IF MetadataFile \in held[content[u]] THEN "prepared" ELSE "built")
    /\ UNCHANGED <<database, disk, deletion, content, current, saved, overlapped, load, counters>>

\* The atomic rename: it replaces nothing or an empty directory.  Where it
\* cannot, a directory with testdata.json is taken to be the same content.
MoveIntoPlace(u) ==
    LET c == content[u]
        free == c \notin dirs \/ held[c] = {}
    IN  /\ At(u, "built")
        /\ \/ /\ free
              /\ dirs' = dirs \cup {c}
              /\ held' = [held EXCEPT ![c] = Files]
              /\ mtimes' = Touch(c)
           \/ /\ ~free
              /\ UNCHANGED <<dirs, held, mtimes>>
        /\ GoTo(u, IF free \/ MetadataFile \in held[c] THEN "prepared" ELSE "idle")
        /\ UNCHANGED <<database, link, switches, deletion, content, current, saved, overlapped, load, counters>>

\* Mutant: the check of the row before prepare is trusted.
LockRowUnchecked(u) ==
    /\ At(u, "prepared") /\ lock = NoOne
    /\ lock' = u
    /\ GoTo(u, "locked")
    /\ UNCHANGED <<row, location, disk, deletion, content, current, saved, overlapped, load, counters>>

\* The transaction starts: the row is locked and must still be ACTIVE.
LockRow(u) ==
    /\ At(u, "prepared") /\ lock = NoOne
    /\ \/ /\ row = "ACTIVE"
          /\ lock' = u
          /\ GoTo(u, "locked")
       \/ /\ row # "ACTIVE"
          /\ GoTo(u, "discard")
          /\ UNCHANGED lock
    /\ UNCHANGED <<row, location, disk, deletion, content, current, saved, overlapped, load, counters>>

\* activate finds the directory gone.
TargetMissing(u) == At(u, "locked") /\ content[u] \notin dirs

\* Any exception in the transaction: it is rolled back, the files are not.
Rollback(u) ==
    /\ \/ TargetMissing(u)
       \/ MayFail /\ pc[u] \in {"locked", "verified", "switched"}
    /\ lock' = NoOne
    /\ GoTo(u, "discard")
    /\ UNCHANGED <<row, location, disk, deletion, content, current, saved, overlapped, load, counters>>

\* activate requires that the directory still exists.
VerifyTarget(u) ==
    /\ At(u, "locked") /\ ~TargetMissing(u)
    /\ GoTo(u, "verified")
    /\ UNCHANGED <<database, disk, deletion, content, current, saved, overlapped, load, counters>>

\* activate renames the new link over the old one.
SwitchLink(u) ==
    /\ At(u, "verified")
    /\ link' = content[u]
    /\ switches' = switches + 1
    /\ GoTo(u, "switched")
    /\ UNCHANGED <<database, dirs, held, mtimes, deletion, content, current, saved, overlapped, load, counters>>

\* updateTestData, the audit row and the commit.
Commit(u) ==
    /\ At(u, "switched")
    /\ location' = TRUE
    /\ lock' = NoOne
    /\ saved' = TRUE
    /\ GoTo(u, "prune")
    /\ UNCHANGED <<row, disk, deletion, content, current, overlapped, load, counters>>

\* discard deletes the directory unless the address points to it.
Discard(u) ==
    /\ At(u, "discard")
    /\ \/ /\ link = content[u]
          /\ GoTo(u, "idle")
          /\ UNCHANGED doomed
       \/ /\ link # content[u]
          /\ doomed' = [doomed EXCEPT ![u] = <<content[u]>>]
          /\ GoTo(u, "deleting")
    /\ UNCHANGED <<database, disk, walking, listing, content, current, saved, overlapped, load, counters>>

\* prune reads the address once, before it lists the store.
PruneReads(u) ==
    /\ At(u, "prune")
    /\ current' = [current EXCEPT ![u] = link]
    /\ GoTo(u, "listing")
    /\ UNCHANGED <<database, disk, deletion, content, saved, overlapped, load, counters>>

\* What prune deletes when it read the address as cur: every other
\* directory, newest first, the newest excepted.
Superseded(cur) ==
    LET others == RemoveFirst(Reverse(mtimes), cur)
    IN  IF others = <<>> THEN <<>> ELSE Tail(others)

PruneLists(u) ==
    /\ At(u, "listing")
    /\ doomed' = [doomed EXCEPT ![u] = Superseded(current[u])]
    /\ GoTo(u, "deleting")
    /\ UNCHANGED <<database, disk, walking, listing, content, current, saved, overlapped, load, counters>>

-----------------------------------------------------------------------------
(* deleteTree, one file at a time.  A file that vanished under the walk is   *)
(* passed over if the directory was not read that far, or if its attributes  *)
(* were (deleteIfExists); otherwise reading them fails, which ends the walk  *)
(* of that directory: the exception is swallowed.                            *)

\* The worker is done with its first directory.
NextTree(w) ==
    /\ doomed' = [doomed EXCEPT ![w] = Tail(doomed[w])]
    /\ walking' = [walking EXCEPT ![w] = FALSE]
    /\ listing' = [listing EXCEPT ![w] = {}]

EnterTree(w) ==
    /\ At(w, "deleting") /\ doomed[w] # <<>> /\ ~walking[w]
    /\ \/ /\ Head(doomed[w]) \in dirs
          /\ walking' = [walking EXCEPT ![w] = TRUE]
          /\ listing' = [listing EXCEPT ![w] = held[Head(doomed[w])]]
          /\ UNCHANGED doomed
       \/ /\ Head(doomed[w]) \notin dirs
          /\ NextTree(w)
    /\ UNCHANGED <<database, disk, threads, load, counters>>

DeleteFile(w) ==
    /\ At(w, "deleting") /\ walking[w]
    /\ \E f \in listing[w] :
         LET c == Head(doomed[w])
         IN  \/ /\ f \in held[c]
                /\ held' = [held EXCEPT ![c] = held[c] \ {f}]
                /\ mtimes' = Touch(c)
                /\ listing' = [listing EXCEPT ![w] = listing[w] \ {f}]
                /\ UNCHANGED <<doomed, walking>>
             \/ /\ f \notin held[c]
                /\ listing' = [listing EXCEPT ![w] = listing[w] \ {f}]
                /\ UNCHANGED <<held, mtimes, doomed, walking>>
             \/ /\ f \notin held[c]
                /\ NextTree(w)
                /\ UNCHANGED <<held, mtimes>>
    /\ UNCHANGED <<database, link, dirs, switches, threads, load, counters>>

\* The directory itself goes only if it is empty.
DeleteDirectory(w) ==
    LET c == Head(doomed[w])
    IN  /\ At(w, "deleting") /\ walking[w] /\ listing[w] = {}
        /\ \/ /\ held[c] = {}
              /\ dirs' = dirs \ {c}
              /\ mtimes' = RemoveFirst(mtimes, c)
           \/ /\ held[c] # {}
              /\ UNCHANGED <<dirs, mtimes>>
        /\ NextTree(w)
        /\ UNCHANGED <<database, link, held, switches, threads, load, counters>>

DeletingEnds(w) ==
    /\ At(w, "deleting") /\ doomed[w] = <<>>
    /\ GoTo(w, "idle")
    /\ UNCHANGED <<database, disk, deletion, content, current, saved, overlapped, load, counters>>

-----------------------------------------------------------------------------
(* The problem *)

ArchiveProblem ==
    /\ MayDelete /\ row = "ACTIVE" /\ lock = NoOne
    /\ row' = "ARCHIVED"
    /\ UNCHANGED <<location, lock, disk, deletion, threads, load, counters>>

\* delete: the row goes in one transaction, the files after its commit.
DeleteProblem ==
    /\ MayDelete /\ row # "DELETED" /\ lock = NoOne
    /\ row' = "DELETED" /\ location' = FALSE
    /\ GoTo(Remover, "unlink")
    /\ UNCHANGED <<lock, disk, deletion, content, current, saved, overlapped, load, counters>>

RemoveLink ==
    /\ At(Remover, "unlink")
    /\ link' = NoLink
    /\ GoTo(Remover, "listing")
    /\ UNCHANGED <<database, dirs, held, mtimes, switches, deletion, content, current, saved, overlapped, load, counters>>

\* remove takes the directories in the order Files.list returns them, which
\* is any.
RemoveLists ==
    /\ At(Remover, "listing")
    /\ \E s \in SetToSeqs(dirs) : doomed' = [doomed EXCEPT ![Remover] = s]
    /\ GoTo(Remover, "deleting")
    /\ UNCHANGED <<database, disk, walking, listing, content, current, saved, overlapped, load, counters>>

\* problem-service dies: its threads are gone and the database rolls back
\* their transactions.  What is on disk stays.
Crash ==
    /\ crashes < MaxCrashes
    /\ crashes' = crashes + 1
    /\ lock' = NoOne
    /\ pc' = [w \in Workers |-> "idle"]
    /\ doomed' = [w \in Workers |-> <<>>]
    /\ walking' = [w \in Workers |-> FALSE]
    /\ listing' = [w \in Workers |-> {}]
    /\ UNCHANGED <<row, location, disk, content, current, saved, overlapped, load, uploads, loads>>

-----------------------------------------------------------------------------
(* Judge nodes *)

\* What a path below the address leads to: the files of the link's target.
Reachable(f) == link # NoLink /\ f \in held[link]

\* judging-service was given the address (forJudging read testdata.json) and
\* a node starts on it.
StartLoad(l) ==
    /\ load[l].pc \in {"idle", "loaded", "failed"} /\ loads < MaxLoads
    /\ location /\ Reachable(MetadataFile)
    /\ load' = [load EXCEPT ![l] = [NoLoad EXCEPT !.pc = "reading", !.attempt = 1, !.since = switches]]
    /\ loads' = loads + 1
    /\ UNCHANGED <<database, disk, deletion, threads, uploads, crashes>>

\* readMetadata: without it the load fails and is not tried again.
ReadMetadata(l) ==
    /\ load[l].pc = "reading"
    /\ load' = [load EXCEPT ![l] =
          IF Reachable(MetadataFile)
          THEN [@ EXCEPT !.pc = "copying", !.digest = link, !.copied = {}]
          ELSE [@ EXCEPT !.pc = "failed"]]
    /\ UNCHANGED <<database, disk, deletion, threads, counters>>

\* Mutant: the hash is not compared.
MatchesUnverified(l, f) == Reachable(f)

\* copyFile accepts what matches the size and hash in the metadata.
Matches(l, f) == Reachable(f) /\ link = load[l].digest

\* A file that is missing or changed: once more from the metadata, then fail.
RetryLoad(r) ==
    IF r.attempt = 2 THEN [r EXCEPT !.pc = "failed"]
    ELSE [r EXCEPT !.pc = "reading", !.attempt = 2, !.copied = {}]

\* copyData opens the files one by one, each through the address.
CopyFile(l) ==
    /\ load[l].pc = "copying"
    /\ \E f \in DataFiles :
         /\ \A c \in Contents : <<f, c>> \notin load[l].copied
         /\ load' = [load EXCEPT ![l] =
               IF Matches(l, f)
               THEN [load[l] EXCEPT !.copied = load[l].copied \cup {<<f, link>>}]
               ELSE RetryLoad(load[l])]
    /\ UNCHANGED <<database, disk, deletion, threads, counters>>

FinishLoad(l) ==
    /\ load[l].pc = "copying"
    /\ \A f \in DataFiles : \E c \in Contents : <<f, c>> \in load[l].copied
    /\ load' = [load EXCEPT ![l] = [@ EXCEPT !.pc = "loaded"]]
    /\ UNCHANGED <<database, disk, deletion, threads, counters>>

\* The request's context ends.
CancelLoad(l) ==
    /\ load[l].pc \in {"reading", "copying"}
    /\ load' = [load EXCEPT ![l] = NoLoad]
    /\ UNCHANGED <<database, disk, deletion, threads, counters>>

-----------------------------------------------------------------------------
UploadStep(u) ==
    \/ \E c \in Contents : Upload(u, c)
    \/ PrepareFails(u)
    \/ Materialize(u)
    \/ MoveIntoPlace(u)
    \/ LockRow(u)
    \/ Rollback(u)
    \/ VerifyTarget(u)
    \/ SwitchLink(u)
    \/ Commit(u)
    \/ Discard(u)
    \/ PruneReads(u)
    \/ PruneLists(u)

DeleteStep(w) ==
    \/ EnterTree(w)
    \/ DeleteFile(w)
    \/ DeleteDirectory(w)
    \/ DeletingEnds(w)

LoadStep(l) ==
    \/ StartLoad(l)
    \/ ReadMetadata(l)
    \/ CopyFile(l)
    \/ FinishLoad(l)
    \/ CancelLoad(l)

StoreNext ==
    \/ \E u \in Uploads : UploadStep(u)
    \/ \E w \in Workers : DeleteStep(w)
    \/ ArchiveProblem
    \/ DeleteProblem
    \/ RemoveLink
    \/ RemoveLists
    \/ \E l \in Loads : LoadStep(l)
    \/ Crash

StoreSpec == StoreInit /\ [][StoreNext]_storeVars

-----------------------------------------------------------------------------
(* Properties *)

\* Types of the variables.
StoreTypeOK ==
    /\ row \in {"ACTIVE", "ARCHIVED", "DELETED"}
    /\ location \in BOOLEAN
    /\ lock \in Uploads \cup {NoOne}
    /\ link \in Addresses
    /\ dirs \subseteq Contents
    /\ held \in [Contents -> SUBSET Files]
    /\ mtimes \in Seq(Contents)
    /\ pc \in [Workers -> {"idle", "prepare", "built", "prepared", "locked", "verified",
                           "switched", "prune", "listing", "discard", "deleting", "unlink"}]
    /\ content \in [Uploads -> Addresses]
    /\ current \in [Uploads -> Addresses]
    /\ saved \in BOOLEAN /\ overlapped \in BOOLEAN
    /\ doomed \in [Workers -> Seq(Contents)]
    /\ walking \in [Workers -> BOOLEAN]
    /\ listing \in [Workers -> SUBSET Files]
    /\ load \in [Loads -> LoadRows]
    /\ switches \in Nat /\ uploads \in Nat /\ loads \in Nat /\ crashes \in Nat

\* Whatever is replaced, pruned or deleted meanwhile, data that a node
\* accepted (Load, copyFile) are all the files of the one content whose digest
\* the load reports: a judgement never mixes two uploads.
LoadedIsWhole ==
    \A l \in Loads :
        load[l].pc = "loaded" => load[l].copied = DataFiles \X {load[l].digest}

\* The address, where there is one, leads to a directory with every file
\* (activate, discard and prune): "readers can resolve to one complete set of
\* data at any moment" (the comment at FileTestDataStore.java:147).
AddressIsWhole == link # NoLink => link \in dirs /\ held[link] = Files

\* A load whose problem still exists fails only if the address was switched
\* at least twice since it began: the one retry of Load bridges one
\* replacement.
ToleratesOneReplacement ==
    \A l \in Loads :
        load[l].pc = "failed" =>
            row = "DELETED" \/ switches >= load[l].since + 2

\* When the last upload was successful and nothing runs any more, the store
\* of a problem that exists holds the served generation and at most one more
\* (prune): uploads that failed half-way before it have left nothing that
\* lasts.
KeepsTwoGenerations ==
    row # "DELETED" /\ (\A w \in Workers : pc[w] = "idle") /\ saved => Cardinality(dirs) <= 2

\* What readers of the store get.  Whatever overlaps, a load that ends well
\* has one whole content.  As long as the service has not crashed and no
\* upload has begun beside another one, the address is always complete, one
\* replacement never fails a load, and two generations are kept.  The code
\* does not keep uploads apart: prune reads the address (:176) and discard
\* looks whether it is in use (:166) outside the row lock, and both delete
\* afterwards, so that overlapping uploads may delete what the address points
\* to (the run testdata_overlap).
StoreInv ==
    /\ StoreTypeOK /\ LoadedIsWhole
    /\ crashes = 0 /\ ~overlapped =>
         AddressIsWhole /\ ToleratesOneReplacement /\ KeepsTwoGenerations

\* Once a deletion has committed, no upload that was under way switches the
\* address again, which remove is about to unlink: the data of a deleted
\* problem never come back (upload checks the row again under its lock).
UnreachableOnceDeleted ==
    [][row = "DELETED" => link' \in {link, NoLink}]_storeVars

-----------------------------------------------------------------------------
(* The inductive invariant *)

\* The store's listing: every directory once, and files only in directories.
DiskOK ==
    /\ IsInjective(mtimes) /\ ToSet(mtimes) = dirs
    /\ \A c \in Contents \ dirs : held[c] = {}

\* Where the threads are: inside its transaction an upload holds the row, and
\* the row it holds is ACTIVE; remove runs once the row is gone.
ThreadsOK ==
    /\ pc[Remover] \in {"idle", "unlink", "listing", "deleting"}
    /\ row # "DELETED" => pc[Remover] = "idle"
    /\ lock # NoOne => row = "ACTIVE"
    /\ \A u \in Uploads :
         /\ pc[u] \in {"locked", "verified", "switched"} => lock = u
         /\ pc[u] # "idle" => content[u] \in Contents
    /\ \A w \in Workers :
         /\ pc[w] # "deleting" => doomed[w] = <<>>
         /\ walking[w] => doomed[w] # <<>>

\* What a load has copied so far is of the digest it reports.
LoadsOK ==
    \A l \in Loads :
        /\ load[l].pc \in {"copying", "loaded"} =>
             load[l].digest \in Contents /\ load[l].copied \subseteq DataFiles \X {load[l].digest}
        /\ load[l].pc = "loaded" =>
             \A f \in DataFiles : <<f, load[l].digest>> \in load[l].copied

\* The deleting threads stay away from the address.
AddressOK ==
    /\ AddressIsWhole
    /\ row = "DELETED" => pc[Remover] = "unlink" \/ link = NoLink
    /\ \A u \in Uploads :
         /\ pc[u] = "deleting" => link \notin ToSet(doomed[u])
         /\ pc[u] = "listing" => link \in {current[u], NoLink}

\* While the problem exists only the upload deletes: a directory is whole
\* unless the upload is inside it, and a prepared one stays.
UploadOK ==
    row # "DELETED" =>
        /\ \A c \in dirs :
             held[c] = Files \/ \E u \in Uploads : walking[u] /\ c = Head(doomed[u])
        /\ \A u \in Uploads :
             /\ walking[u] => Head(doomed[u]) \in dirs /\ listing[u] = held[Head(doomed[u])]
             /\ pc[u] \in {"prepared", "locked", "verified"} => content[u] \in dirs
             /\ pc[u] = "listing" => link = current[u]

\* A load that has not found what it read has lived through as many switches
\* as it has tried.
TriesOK ==
    \A l \in Loads :
        LET r == load[l]
        IN  /\ r.pc \in {"reading", "copying"} =>
                 /\ r.attempt \in {1, 2}
                 /\ switches >= r.since + r.attempt - 1 \/ row = "DELETED"
                 /\ link # NoLink \/ row = "DELETED"
            /\ r.pc = "copying" /\ r.digest # link =>
                 switches >= r.since + r.attempt \/ row = "DELETED"
            /\ r.pc = "failed" => switches >= r.since + 2 \/ row = "DELETED"

\* After a successful upload there is the address, one more directory, and
\* what prune has still to delete.
GenerationsOK ==
    row # "DELETED" /\ saved =>
        /\ \A u \in Uploads : pc[u] \in {"idle", "prune", "listing", "deleting"}
        /\ (\A u \in Uploads : pc[u] \in {"idle", "deleting"}) =>
             \E x \in Addresses : \A c \in dirs :
                c \in {link, x} \/ \E u \in Uploads : c \in ToSet(doomed[u])

\* Until uploads overlap, the others wait while one is under way.
OneUpload ==
    \A u, v \in Uploads : pc[u] # "idle" /\ pc[v] # "idle" => u = v

\* What every step keeps; the last part until uploads overlap or the service
\* crashes.
StoreIInv ==
    /\ StoreTypeOK /\ DiskOK /\ ThreadsOK /\ LoadsOK
    /\ crashes = 0 /\ ~overlapped =>
         OneUpload /\ AddressOK /\ UploadOK /\ TriesOK /\ GenerationsOK
=============================================================================
