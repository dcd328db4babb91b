---------------------------- MODULE ServiceProofs ----------------------------
(***************************************************************************)
(* Theorems about the test data store, the problem lists, the blob store   *)
(* and the execution pool.  They share no state: the module has one part   *)
(* for each, for every number of uploads, problems, blobs and requests.    *)
(***************************************************************************)
EXTENDS TestDataStore, ProblemLists, BlobStore, ExecutionPool,
        FiniteSetTheorems, SequenceTheorems, TLAPS

-----------------------------------------------------------------------------
(* TestDataStore: lists of directories *)

\* No element occurs twice.
Distinct(s) == \A i, j \in 1..Len(s) : s[i] = s[j] => i = j

\* x occurs in s.
Occurs(x, s) == \E i \in 1..Len(s) : s[i] = x

\* The first occurrence is the only one; the others stay.
LEMMA RemoveFirstFacts ==
  ASSUME NEW S, NEW s \in Seq(S), Distinct(s), NEW c
  PROVE  /\ RemoveFirst(s, c) \in Seq(S) /\ Distinct(RemoveFirst(s, c))
         /\ \A x : Occurs(x, RemoveFirst(s, c)) <=> Occurs(x, s) /\ x # c
<1>1. CASE ~\E i \in 1..Len(s) : s[i] = c
  BY <1>1 DEF RemoveFirst, Occurs
<1>2. CASE \E i \in 1..Len(s) : s[i] = c
  <2>1. PICK i \in 1..Len(s) : s[i] = c
    BY <1>2
  <2>2. {k \in 1..Len(s) : s[k] = c} = {i}
    BY <2>1 DEF Distinct
  <2>3. SelectInSeq(s, LAMBDA v : v = c) = i
    <3>1. Min({i}) = i
      BY DEF Min
    <3> QED BY <2>2, <3>1 DEF SelectInSeq
  <2>4. RemoveFirst(s, c) = SubSeq(s, 1, i - 1) \o SubSeq(s, i + 1, Len(s))
    BY <1>2, <2>3 DEF RemoveFirst, RemoveAt
  <2>5. PICK r : r = SubSeq(s, 1, i - 1) \o SubSeq(s, i + 1, Len(s))
    OBVIOUS
  <2>6. /\ r \in Seq(S) /\ Len(r) = Len(s) - 1
        /\ \A k \in 1..(Len(s) - 1) : r[k] = IF k < i THEN s[k] ELSE s[k + 1]
    <3>1. PICK a : a = SubSeq(s, 1, i - 1)
      OBVIOUS
    <3>2. PICK b : b = SubSeq(s, i + 1, Len(s))
      OBVIOUS
    <3>3. a \in Seq(S) /\ Len(a) = i - 1 /\ \A k \in 1..(i - 1) : a[k] = s[k]
      BY <2>1, <3>1
    <3>4. b \in Seq(S) /\ Len(b) = Len(s) - i /\ \A k \in 1..(Len(s) - i) : b[k] = s[i + k]
      BY <2>1, <3>2
    <3>5. r = a \o b /\ r \in Seq(S) /\ Len(r) = Len(s) - 1
      <4>1. r = a \o b
        BY <2>5, <3>1, <3>2
      <4>2. r \in Seq(S) /\ Len(r) = Len(a) + Len(b)
        BY <3>3, <3>4, <4>1, ConcatProperties
      <4>3. Len(s) \in Nat
        OBVIOUS
      <4> QED BY <2>1, <3>3, <3>4, <4>1, <4>2, <4>3
    <3>6. ASSUME NEW k \in 1..(Len(s) - 1) PROVE r[k] = IF k < i THEN s[k] ELSE s[k + 1]
      <4>1. CASE k < i
        BY <4>1, <2>1, <3>3, <3>4, <3>5
      <4>2. CASE ~(k < i)
        <5>1. k - (i - 1) \in 1..(Len(s) - i) /\ i + (k - (i - 1)) = k + 1
          BY <4>2, <2>1
        <5>2. r[k] = b[k - (i - 1)]
          BY <4>2, <2>1, <3>3, <3>4, <3>5
        <5> QED BY <4>2, <5>1, <5>2, <3>4
      <4> QED BY <4>1, <4>2
    <3> QED BY <3>5, <3>6
  <2>7. Distinct(r)
    BY <2>1, <2>6 DEF Distinct
  <2>8. \A x : Occurs(x, r) <=> Occurs(x, s) /\ x # c
    <3> SUFFICES ASSUME NEW x PROVE Occurs(x, r) <=> Occurs(x, s) /\ x # c
      OBVIOUS
    <3>1. ASSUME Occurs(x, r) PROVE Occurs(x, s) /\ x # c
      <4>1. PICK k \in 1..(Len(s) - 1) : r[k] = x
        BY <3>1, <2>6 DEF Occurs
      <4>2. PICK j \in 1..Len(s) : j = (IF k < i THEN k ELSE k + 1)
        BY <2>1
      <4> QED BY <2>1, <2>6, <4>1, <4>2 DEF Distinct, Occurs
    <3>2. ASSUME Occurs(x, s), x # c PROVE Occurs(x, r)
      <4>1. PICK j \in 1..Len(s) : s[j] = x
        BY <3>2 DEF Occurs
      <4>2. j # i
        BY <2>1, <3>2, <4>1
      <4>3. PICK k \in 1..(Len(s) - 1) : k = (IF j < i THEN j ELSE j - 1)
        BY <2>1, <4>2
      <4>4. r[k] = x
        BY <2>1, <2>6, <4>1, <4>2, <4>3
      <4> QED BY <2>6, <4>4 DEF Occurs
    <3> QED BY <3>1, <3>2
  <2> QED BY <2>4, <2>5, <2>6, <2>7, <2>8
<1> QED BY <1>1, <1>2

\* The same of the sets the model uses.
LEMMA SequenceSets ==
  ASSUME NEW S, NEW s \in Seq(S)
  PROVE  /\ IsInjective(s) <=> Distinct(s)
         /\ \A x : x \in ToSet(s) <=> Occurs(x, s)
         /\ ToSet(s) \subseteq S
BY DEF IsInjective, Distinct, ToSet, Occurs

\* RemoveFirst takes the element out of a list that holds it once.
LEMMA RemoveFirstSet ==
  ASSUME NEW S, NEW s \in Seq(S), IsInjective(s), NEW c
  PROVE  /\ RemoveFirst(s, c) \in Seq(S) /\ IsInjective(RemoveFirst(s, c))
         /\ ToSet(RemoveFirst(s, c)) = ToSet(s) \ {c}
<1>1. Distinct(s)
  BY SequenceSets
<1>2. PICK r : r = RemoveFirst(s, c)
  OBVIOUS
<1>3. r \in Seq(S) /\ Distinct(r) /\ \A x : Occurs(x, r) <=> Occurs(x, s) /\ x # c
  BY <1>1, <1>2, RemoveFirstFacts
<1>4. IsInjective(r) /\ \A x : x \in ToSet(r) <=> Occurs(x, r)
  BY <1>3, SequenceSets
<1>5. \A x : x \in ToSet(s) <=> Occurs(x, s)
  BY SequenceSets
<1> QED BY <1>2, <1>3, <1>4, <1>5

\* Appending a new element.
LEMMA AppendSet ==
  ASSUME NEW S, NEW s \in Seq(S), IsInjective(s), NEW c \in S, c \notin ToSet(s)
  PROVE  /\ Append(s, c) \in Seq(S) /\ IsInjective(Append(s, c))
         /\ ToSet(Append(s, c)) = ToSet(s) \cup {c}
<1>1. PICK r : r = Append(s, c)
  OBVIOUS
<1>2. r \in Seq(S) /\ Len(r) = Len(s) + 1 /\ r[Len(s) + 1] = c /\ \A i \in 1..Len(s) : r[i] = s[i]
  BY <1>1
<1>3. \A i \in 1..Len(s) : s[i] # c
  BY DEF ToSet
<1>4. Distinct(r)
  BY <1>2, <1>3 DEF Distinct, IsInjective
<1>5. \A x : Occurs(x, r) <=> x \in ToSet(s) \/ x = c
  BY <1>2 DEF Occurs, ToSet
<1> QED BY <1>1, <1>2, <1>4, <1>5, SequenceSets

\* Reversing changes neither the elements nor how often they occur.
LEMMA ReverseSet ==
  ASSUME NEW S, NEW s \in Seq(S), IsInjective(s)
  PROVE  /\ Reverse(s) \in Seq(S) /\ IsInjective(Reverse(s))
         /\ ToSet(Reverse(s)) = ToSet(s)
<1>1. PICK r : r = Reverse(s)
  OBVIOUS
<1>n. PICK n \in Nat : n = Len(s) /\ DOMAIN s = 1..n
  OBVIOUS
<1>2. r \in Seq(S) /\ Len(r) = n /\ \A i \in 1..n : r[i] = s[(n - i) + 1]
  BY <1>1, <1>n DEF Reverse
<1>m. \A i \in 1..n : (n - i) + 1 \in 1..n
  OBVIOUS
<1>3. Distinct(r)
  <2> SUFFICES ASSUME NEW i \in 1..n, NEW j \in 1..n, r[i] = r[j] PROVE i = j
    BY <1>2 DEF Distinct
  <2>1. s[(n - i) + 1] = s[(n - j) + 1]
    BY <1>2
  <2>2. (n - i) + 1 = (n - j) + 1
    BY <1>n, <1>m, <2>1 DEF IsInjective
  <2> QED BY <2>2
<1>4. ASSUME NEW x PROVE Occurs(x, r) <=> x \in ToSet(s)
  <2>1. ASSUME Occurs(x, r) PROVE x \in ToSet(s)
    <3>1. PICK i \in 1..n : r[i] = x
      BY <1>2, <2>1 DEF Occurs
    <3> QED BY <1>n, <1>m, <1>2, <3>1 DEF ToSet
  <2>2. ASSUME x \in ToSet(s) PROVE Occurs(x, r)
    <3>1. PICK i \in 1..n : s[i] = x
      BY <1>n, <2>2 DEF ToSet
    <3>2. PICK j \in 1..n : j = (n - i) + 1
      BY <1>m
    <3>3. (n - j) + 1 = i
      BY <3>2
    <3> QED BY <1>2, <3>1, <3>2, <3>3 DEF Occurs
  <2> QED BY <2>1, <2>2
<1> QED BY <1>1, <1>2, <1>3, <1>4, SequenceSets

\* Tail takes the first element out.
LEMMA TailSet ==
  ASSUME NEW S, NEW s \in Seq(S), s # <<>>
  PROVE  /\ Tail(s) \in Seq(S) /\ Head(s) \in ToSet(s)
         /\ ToSet(s) = ToSet(Tail(s)) \cup {Head(s)}
<1>1. PICK r : r = Tail(s)
  OBVIOUS
<1>2. /\ r \in Seq(S) /\ Len(s) >= 1 /\ Len(r) = Len(s) - 1
      /\ \A i \in 1..(Len(s) - 1) : r[i] = s[i + 1]
      /\ Head(s) = s[1]
  BY <1>1
<1>3. ASSUME NEW x PROVE x \in ToSet(s) <=> Occurs(x, r) \/ x = s[1]
  <2>1. ASSUME x \in ToSet(s), x # s[1] PROVE Occurs(x, r)
    <3>1. PICK i \in 1..Len(s) : s[i] = x
      BY <2>1 DEF ToSet
    <3>2. i - 1 \in 1..(Len(s) - 1) /\ (i - 1) + 1 = i
      BY <2>1, <3>1
    <3> QED BY <1>2, <3>1, <3>2 DEF Occurs
  <2>2. ASSUME Occurs(x, r) PROVE x \in ToSet(s)
    <3>1. PICK i \in 1..(Len(s) - 1) : r[i] = x
      BY <2>2, <1>2 DEF Occurs
    <3>2. i + 1 \in 1..Len(s)
      BY <1>2
    <3> QED BY <1>2, <3>1, <3>2 DEF ToSet
  <2>3. s[1] \in ToSet(s)
    BY <1>2 DEF ToSet
  <2> QED BY <2>1, <2>2, <2>3
<1>4. \A x : x \in ToSet(r) <=> Occurs(x, r)
  BY <1>2, SequenceSets
<1> QED BY <1>1, <1>2, <1>3, <1>4

\* What prune deletes: the directories but for the address it read and the
\* newest of the others.
LEMMA SupersededCovers ==
  ASSUME NEW cur, mtimes \in Seq(Contents), IsInjective(mtimes)
  PROVE  /\ Superseded(cur) \in Seq(Contents)
         /\ cur \notin ToSet(Superseded(cur))
         /\ \E x \in Addresses : ToSet(mtimes) \subseteq {cur, x} \cup ToSet(Superseded(cur))
<1>1. PICK s : s = Reverse(mtimes)
  OBVIOUS
<1>2. s \in Seq(Contents) /\ IsInjective(s) /\ ToSet(s) = ToSet(mtimes)
  BY <1>1, ReverseSet
<1>3. PICK r : r = RemoveFirst(s, cur)
  OBVIOUS
<1>4. r \in Seq(Contents) /\ ToSet(r) = ToSet(s) \ {cur}
  BY <1>2, <1>3, RemoveFirstSet
<1>5. Superseded(cur) = IF r = <<>> THEN <<>> ELSE Tail(r)
  BY <1>1, <1>3 DEF Superseded
<1>6. CASE r = <<>>
  <2>1. ToSet(r) = {}
    BY <1>6 DEF ToSet
  <2> QED BY <1>2, <1>4, <1>5, <1>6, <2>1 DEF Addresses
<1>7. CASE r # <<>>
  <2>1. Tail(r) \in Seq(Contents) /\ Head(r) \in ToSet(r) /\ ToSet(r) = ToSet(Tail(r)) \cup {Head(r)}
    BY <1>4, <1>7, TailSet
  <2>2. Head(r) \in Addresses
    BY <1>4, <2>1, SequenceSets DEF Addresses
  <2> QED BY <1>2, <1>4, <1>5, <1>7, <2>1, <2>2
<1> QED BY <1>6, <1>7

-----------------------------------------------------------------------------
(* What every step keeps, whatever runs at the same time. *)

StoreBase == StoreTypeOK /\ DiskOK /\ ThreadsOK /\ LoadsOK

\* The steps of an upload that leave the store's directories alone.
LEMMA UploadKeepsBase ==
  ASSUME StoreBase, NEW u \in Uploads,
         \/ \E c \in Contents : Upload(u, c)
         \/ PrepareFails(u)
         \/ Materialize(u)
         \/ LockRow(u)
         \/ Rollback(u)
         \/ VerifyTarget(u)
         \/ SwitchLink(u)
         \/ Commit(u)
         \/ PruneReads(u)
  PROVE  StoreBase'
<1> USE DEF database, disk, deletion, threads, counters, At, GoTo
<1>0. u \in Workers /\ u # Remover /\ NoOne \notin Uploads /\ Uploads \subseteq Workers /\ Remover \in Workers
  BY ThreadsAssumption DEF Workers
<1>1. CASE \E c \in Contents : Upload(u, c)
  <2>0. overlapped' \in BOOLEAN
    <3>1. (overlapped \/ Busy) \in BOOLEAN
      OBVIOUS
    <3>2. overlapped' = (overlapped \/ Busy)
      BY <1>1 DEF Upload
    <3> QED BY <3>1, <3>2
  <2>a. PICK c \in Contents : /\ content' = [content EXCEPT ![u] = c] /\ saved' = FALSE /\ uploads' = uploads + 1
                              /\ pc' = [pc EXCEPT ![u] = "prepare"]
                              /\ UNCHANGED <<database, disk, deletion, current, load, loads, crashes>>
    BY <1>1 DEF Upload
  <2>b. content' \in [Uploads -> Addresses]
    BY <2>a DEF StoreBase, StoreTypeOK, Addresses
  <2>c. uploads' \in Nat
    BY <2>a DEF StoreBase, StoreTypeOK
  <2>d. saved' \in BOOLEAN
    BY <2>a
  <2>e. pc' \in [Workers -> {"idle", "prepare", "built", "prepared", "locked", "verified",
                               "switched", "prune", "listing", "discard", "deleting", "unlink"}]
    BY <1>0, <2>a DEF StoreBase, StoreTypeOK
  <2>1. StoreTypeOK'
    BY <2>0, <2>a, <2>b, <2>c, <2>d, <2>e DEF StoreBase, StoreTypeOK
  <2>2. DiskOK'
    BY <1>1 DEF StoreBase, DiskOK, Upload
  <2>3. ThreadsOK'
    BY <1>1, <1>0, <2>1 DEF StoreBase, StoreTypeOK, ThreadsOK, Upload
  <2>4. LoadsOK'
    BY <1>1 DEF StoreBase, LoadsOK, Upload
  <2> QED BY <2>1, <2>2, <2>3, <2>4 DEF StoreBase
<1>2. CASE PrepareFails(u)
  <2>1. StoreTypeOK'
    BY <1>2, <1>0 DEF StoreBase, StoreTypeOK, ThreadsOK, PrepareFails, Addresses
  <2>2. DiskOK'
    BY <1>2 DEF StoreBase, DiskOK, PrepareFails
  <2>3. ThreadsOK'
    BY <1>2, <1>0, <2>1 DEF StoreBase, StoreTypeOK, ThreadsOK, PrepareFails
  <2>4. LoadsOK'
    BY <1>2 DEF StoreBase, LoadsOK, PrepareFails
  <2> QED BY <2>1, <2>2, <2>3, <2>4 DEF StoreBase
<1>3. CASE Materialize(u)
  <2>1. StoreTypeOK'
    BY <1>3, <1>0 DEF StoreBase, StoreTypeOK, ThreadsOK, Materialize, Addresses
  <2>2. DiskOK'
    BY <1>3 DEF StoreBase, DiskOK, Materialize
  <2>3. ThreadsOK'
    BY <1>3, <1>0, <2>1 DEF StoreBase, StoreTypeOK, ThreadsOK, Materialize
  <2>4. LoadsOK'
    BY <1>3 DEF StoreBase, LoadsOK, Materialize
  <2> QED BY <2>1, <2>2, <2>3, <2>4 DEF StoreBase
<1>4. CASE LockRow(u)
  <2>1. StoreTypeOK'
    BY <1>4, <1>0 DEF StoreBase, StoreTypeOK, ThreadsOK, LockRow, Addresses
  <2>2. DiskOK'
    BY <1>4 DEF StoreBase, DiskOK, LockRow
  <2>3. ThreadsOK'
    BY <1>4, <1>0, <2>1 DEF StoreBase, StoreTypeOK, ThreadsOK, LockRow
  <2>4. LoadsOK'
    BY <1>4 DEF StoreBase, LoadsOK, LockRow
  <2> QED BY <2>1, <2>2, <2>3, <2>4 DEF StoreBase
<1>5. CASE Rollback(u)
  <2>1. StoreTypeOK'
    BY <1>5, <1>0 DEF StoreBase, StoreTypeOK, ThreadsOK, Rollback, TargetMissing, Addresses
  <2>2. DiskOK'
    BY <1>5 DEF StoreBase, DiskOK, Rollback
  <2>3. ThreadsOK'
    BY <1>5, <1>0, <2>1 DEF StoreBase, StoreTypeOK, ThreadsOK, Rollback, TargetMissing
  <2>4. LoadsOK'
    BY <1>5 DEF StoreBase, LoadsOK, Rollback
  <2> QED BY <2>1, <2>2, <2>3, <2>4 DEF StoreBase
<1>6. CASE VerifyTarget(u)
  <2>1. StoreTypeOK'
    BY <1>6, <1>0 DEF StoreBase, StoreTypeOK, ThreadsOK, VerifyTarget, TargetMissing, Addresses
  <2>2. DiskOK'
    BY <1>6 DEF StoreBase, DiskOK, VerifyTarget
  <2>3. ThreadsOK'
    BY <1>6, <1>0, <2>1 DEF StoreBase, StoreTypeOK, ThreadsOK, VerifyTarget, TargetMissing
  <2>4. LoadsOK'
    BY <1>6 DEF StoreBase, LoadsOK, VerifyTarget
  <2> QED BY <2>1, <2>2, <2>3, <2>4 DEF StoreBase
<1>7. CASE SwitchLink(u)
  <2>1. StoreTypeOK'
    BY <1>7, <1>0 DEF StoreBase, StoreTypeOK, ThreadsOK, SwitchLink, Addresses
  <2>2. DiskOK'
    BY <1>7 DEF StoreBase, DiskOK, SwitchLink
  <2>3. ThreadsOK'
    BY <1>7, <1>0, <2>1 DEF StoreBase, StoreTypeOK, ThreadsOK, SwitchLink
  <2>4. LoadsOK'
    BY <1>7 DEF StoreBase, LoadsOK, SwitchLink
  <2> QED BY <2>1, <2>2, <2>3, <2>4 DEF StoreBase
<1>8. CASE Commit(u)
  <2>1. StoreTypeOK'
    BY <1>8, <1>0 DEF StoreBase, StoreTypeOK, ThreadsOK, Commit, Addresses
  <2>2. DiskOK'
    BY <1>8 DEF StoreBase, DiskOK, Commit
  <2>3. ThreadsOK'
    BY <1>8, <1>0, <2>1 DEF StoreBase, StoreTypeOK, ThreadsOK, Commit
  <2>4. LoadsOK'
    BY <1>8 DEF StoreBase, LoadsOK, Commit
  <2> QED BY <2>1, <2>2, <2>3, <2>4 DEF StoreBase
<1>9. CASE PruneReads(u)
  <2>1. StoreTypeOK'
    BY <1>9, <1>0 DEF StoreBase, StoreTypeOK, ThreadsOK, PruneReads, Addresses
  <2>2. DiskOK'
    BY <1>9 DEF StoreBase, DiskOK, PruneReads
  <2>3. ThreadsOK'
    BY <1>9, <1>0, <2>1 DEF StoreBase, StoreTypeOK, ThreadsOK, PruneReads
  <2>4. LoadsOK'
    BY <1>9 DEF StoreBase, LoadsOK, PruneReads
  <2> QED BY <2>1, <2>2, <2>3, <2>4 DEF StoreBase
<1> QED BY <1>1, <1>2, <1>3, <1>4, <1>5, <1>6, <1>7, <1>8, <1>9

\* Modifying a directory of the store, or a new one, lists it once.
LEMMA TouchFacts ==
  ASSUME StoreTypeOK, DiskOK, NEW c \in Contents
  PROVE  Touch(c) \in Seq(Contents) /\ IsInjective(Touch(c)) /\ ToSet(Touch(c)) = dirs \cup {c}
<1>1. PICK r : r = RemoveFirst(mtimes, c)
  OBVIOUS
<1>2. r \in Seq(Contents) /\ IsInjective(r) /\ ToSet(r) = ToSet(mtimes) \ {c}
  BY <1>1, RemoveFirstSet DEF StoreTypeOK, DiskOK
<1>3. Append(r, c) \in Seq(Contents) /\ IsInjective(Append(r, c)) /\ ToSet(Append(r, c)) = ToSet(r) \cup {c}
  BY <1>2, AppendSet
<1> QED BY <1>1, <1>2, <1>3 DEF Touch, DiskOK

\* A directory is moved into place.
LEMMA MoveKeepsBase ==
  ASSUME StoreBase, NEW u \in Uploads, MoveIntoPlace(u)
  PROVE  StoreBase'
<1> USE DEF database, disk, deletion, threads, counters, At, GoTo
<1>0. u \in Workers /\ u # Remover /\ Uploads \subseteq Workers /\ Remover \in Workers
  BY ThreadsAssumption DEF Workers
<1>1. PICK c \in Contents : c = content[u]
  BY DEF MoveIntoPlace, StoreBase, ThreadsOK
<1>2. PICK t : t = Touch(c)
  OBVIOUS
<1>3. t \in Seq(Contents) /\ IsInjective(t) /\ ToSet(t) = dirs \cup {c}
  BY <1>2, TouchFacts DEF StoreBase
<1>4. \/ dirs' = dirs \cup {c} /\ held' = [held EXCEPT ![c] = Files] /\ mtimes' = t
      \/ dirs' = dirs /\ held' = held /\ mtimes' = mtimes
  BY <1>1, <1>2 DEF MoveIntoPlace
<1>5. pc' = [pc EXCEPT ![u] = "prepared"] \/ pc' = [pc EXCEPT ![u] = "idle"]
  BY DEF MoveIntoPlace
<1>6. UNCHANGED <<database, link, switches, deletion, content, current, saved, overlapped, load, counters>> /\ pc[u] = "built"
  BY DEF MoveIntoPlace
<1>7. StoreTypeOK'
  BY <1>0, <1>1, <1>3, <1>4, <1>5, <1>6 DEF StoreBase, StoreTypeOK
<1>8. DiskOK'
  BY <1>3, <1>4 DEF StoreBase, StoreTypeOK, DiskOK
<1>9. ThreadsOK'
  BY <1>0, <1>5, <1>6 DEF StoreBase, StoreTypeOK, ThreadsOK
<1>10. LoadsOK'
  BY <1>6 DEF StoreBase, LoadsOK
<1> QED BY <1>7, <1>8, <1>9, <1>10 DEF StoreBase

\* A worker is given the directories it deletes.
LEMMA ListKeepsBase ==
  ASSUME StoreBase, NEW w \in Workers, NEW s \in Seq(Contents),
         pc[w] \in {"listing", "discard"}, w \in Uploads => content[w] \in Contents,
         doomed' = [doomed EXCEPT ![w] = s], GoTo(w, "deleting"),
         UNCHANGED <<database, disk, walking, listing, content, current, saved, overlapped, load, counters>>
  PROVE  StoreBase'
<1> USE DEF database, disk, counters, GoTo
<1>0. Uploads \subseteq Workers /\ Remover \in Workers /\ Remover \notin Uploads
  BY ThreadsAssumption DEF Workers
<1>1. ~walking[w]
  BY DEF StoreBase, StoreTypeOK, ThreadsOK
<1>2. StoreTypeOK'
  BY <1>0 DEF StoreBase, StoreTypeOK
<1>3. DiskOK'
  BY DEF StoreBase, DiskOK
<1>4. ThreadsOK'
  <2>1. pc'[Remover] \in {"idle", "unlink", "listing", "deleting"} /\ (row' # "DELETED" => pc'[Remover] = "idle")
    BY <1>0 DEF StoreBase, StoreTypeOK, ThreadsOK
  <2>2. lock' # NoOne => row' = "ACTIVE"
    BY DEF StoreBase, ThreadsOK
  <2>3. \A u \in Uploads : /\ pc'[u] \in {"locked", "verified", "switched"} => lock' = u
                           /\ pc'[u] # "idle" => content'[u] \in Contents
    BY <1>0 DEF StoreBase, StoreTypeOK, ThreadsOK
  <2>4. ASSUME NEW v \in Workers
        PROVE  /\ pc'[v] # "deleting" => doomed'[v] = <<>>
               /\ walking'[v] => doomed'[v] # <<>>
    <3>1. CASE v = w
      BY <3>1, <1>1 DEF StoreBase, StoreTypeOK, ThreadsOK
    <3>2. CASE v # w
      BY <3>2 DEF StoreBase, StoreTypeOK, ThreadsOK
    <3> QED BY <3>1, <3>2
  <2> QED BY <2>1, <2>2, <2>3, <2>4 DEF ThreadsOK
<1>5. LoadsOK'
  BY DEF StoreBase, LoadsOK
<1> QED BY <1>2, <1>3, <1>4, <1>5 DEF StoreBase

\* The store's directories are finitely many, and Files.list returns them as
\* a list.
LEMMA ListedInAnyOrder ==
  ASSUME StoreTypeOK, DiskOK, NEW s \in SetToSeqs(dirs)
  PROVE  s \in Seq(Contents)
<1>1. mtimes \in [1..Len(mtimes) -> Contents] /\ Len(mtimes) \in Nat /\ dirs \subseteq Contents
  BY DEF StoreTypeOK
<1>2. \A x : x \in dirs <=> \E i \in 1..Len(mtimes) : mtimes[i] = x
  BY SequenceSets DEF StoreTypeOK, DiskOK, Occurs
<1>3. mtimes \in Surjection(1..Len(mtimes), dirs)
  BY <1>1, <1>2 DEF Surjection
<1>4. IsFiniteSet(1..Len(mtimes))
  BY <1>1, FS_Interval
<1>5. IsFiniteSet(dirs) /\ Cardinality(dirs) \in Nat
  BY <1>3, <1>4, FS_Surjection, FS_CardinalityType
<1>6. s \in [1..Cardinality(dirs) -> dirs]
  BY DEF SetToSeqs
<1> QED BY <1>1, <1>5, <1>6

\* discard, and the listings of prune and remove.
LEMMA ListingKeepsBase ==
  ASSUME StoreBase,
         \/ \E u \in Uploads : Discard(u) \/ PruneLists(u)
         \/ RemoveLists
  PROVE  StoreBase'
<1>0. Uploads \subseteq Workers /\ Remover \in Workers /\ Remover \notin Uploads
  BY ThreadsAssumption DEF Workers
<1>1. ASSUME NEW u \in Uploads, Discard(u) PROVE StoreBase'
  <2>1. content[u] \in Contents /\ pc[u] = "discard"
    BY <1>1 DEF Discard, At, StoreBase, ThreadsOK
  <2>2. CASE link = content[u]
    <3> USE DEF database, disk, deletion, threads, counters, At, GoTo
    <3>1. StoreTypeOK'
      BY <1>0, <1>1, <2>2 DEF StoreBase, StoreTypeOK, Discard
    <3>2. DiskOK' /\ LoadsOK'
      BY <1>1 DEF StoreBase, DiskOK, LoadsOK, Discard
    <3>3. ThreadsOK'
      BY <1>0, <1>1, <2>1, <2>2 DEF StoreBase, StoreTypeOK, ThreadsOK, Discard
    <3> QED BY <3>1, <3>2, <3>3 DEF StoreBase
  <2>3. CASE link # content[u]
    <3>1. PICK s : s = <<content[u]>>
      OBVIOUS
    <3>2. s \in Seq(Contents)
      BY <2>1, <3>1
    <3>3. doomed' = [doomed EXCEPT ![u] = s] /\ GoTo(u, "deleting")
      BY <1>1, <2>3, <3>1 DEF Discard
    <3>4. UNCHANGED <<database, disk, walking, listing, content, current, saved, overlapped, load, counters>>
      BY <1>1 DEF Discard
    <3> QED BY <1>0, <2>1, <3>2, <3>3, <3>4, ListKeepsBase
  <2> QED BY <2>2, <2>3
<1>2. ASSUME NEW u \in Uploads, PruneLists(u) PROVE StoreBase'
  <2>1. content[u] \in Contents /\ pc[u] = "listing"
    BY <1>2 DEF PruneLists, At, StoreBase, ThreadsOK
  <2>2. PICK s : s = Superseded(current[u])
    OBVIOUS
  <2>3. s \in Seq(Contents)
    BY <2>2, SupersededCovers DEF StoreBase, StoreTypeOK, DiskOK
  <2>4. doomed' = [doomed EXCEPT ![u] = s] /\ GoTo(u, "deleting")
    BY <1>2, <2>2 DEF PruneLists
  <2>5. UNCHANGED <<database, disk, walking, listing, content, current, saved, overlapped, load, counters>>
    BY <1>2 DEF PruneLists
  <2> QED BY <1>0, <2>1, <2>3, <2>4, <2>5, ListKeepsBase
<1>3. ASSUME RemoveLists PROVE StoreBase'
  <2>0. PICK s \in SetToSeqs(dirs) : doomed' = [doomed EXCEPT ![Remover] = s] /\ GoTo(Remover, "deleting")
    BY <1>3 DEF RemoveLists
  <2>1. s \in Seq(Contents) /\ pc[Remover] = "listing"
    BY <1>3, <2>0, ListedInAnyOrder DEF RemoveLists, At, StoreBase
  <2>2. doomed' = [doomed EXCEPT ![Remover] = s] /\ GoTo(Remover, "deleting")
    BY <2>0
  <2>3. UNCHANGED <<database, disk, walking, listing, content, current, saved, overlapped, load, counters>>
    BY <1>3 DEF RemoveLists
  <2> QED BY <1>0, <2>1, <2>2, <2>3, ListKeepsBase
<1> QED BY <1>1, <1>2, <1>3

\* A worker leaves the first of its directories.
LEMMA NextTreeKeeps ==
  ASSUME StoreBase, NEW w \in Workers, pc[w] = "deleting", doomed[w] # <<>>, NextTree(w),
         UNCHANGED <<database, threads>>
  PROVE  /\ doomed' \in [Workers -> Seq(Contents)] /\ walking' \in [Workers -> BOOLEAN]
         /\ listing' \in [Workers -> SUBSET Files]
         /\ ThreadsOK'
<1>1. PICK t : t = Tail(doomed[w])
  OBVIOUS
<1>2. t \in Seq(Contents)
  BY <1>1, TailSet DEF StoreBase, StoreTypeOK
<1>3. doomed' = [doomed EXCEPT ![w] = t]
  BY <1>1 DEF NextTree
<1>4. /\ doomed' \in [Workers -> Seq(Contents)] /\ walking' \in [Workers -> BOOLEAN]
      /\ listing' \in [Workers -> SUBSET Files]
  BY <1>2, <1>3 DEF NextTree, StoreBase, StoreTypeOK
<1>5. ThreadsOK'
  <2>1. ASSUME NEW v \in Workers
        PROVE  /\ pc'[v] # "deleting" => doomed'[v] = <<>>
               /\ walking'[v] => doomed'[v] # <<>>
    <3>1. CASE v = w
      BY <3>1, <1>3 DEF NextTree, StoreBase, StoreTypeOK, threads
    <3>2. CASE v # w
      BY <3>2, <1>3 DEF NextTree, StoreBase, StoreTypeOK, ThreadsOK, threads
    <3> QED BY <3>1, <3>2
  <2> QED BY <2>1 DEF StoreBase, ThreadsOK, threads, database
<1> QED BY <1>4, <1>5

\* The steps of deleteTree.
LEMMA DeleteKeepsBase ==
  ASSUME StoreBase, NEW w \in Workers, DeleteStep(w)
  PROVE  StoreBase'
<1> USE DEF database, disk, deletion, threads, counters, At, GoTo
<1>0. Uploads \subseteq Workers /\ Remover \in Workers /\ Remover \notin Uploads
  BY ThreadsAssumption DEF Workers
<1>1. CASE EnterTree(w)
  <2>1. DiskOK' /\ LoadsOK'
    BY <1>1 DEF EnterTree, StoreBase, DiskOK, LoadsOK
  <2>2. Head(doomed[w]) \in Contents
    BY <1>1, TailSet, SequenceSets DEF EnterTree, StoreBase, StoreTypeOK
  <2>3. CASE Head(doomed[w]) \in dirs
    <3>1. StoreTypeOK'
      BY <1>1, <2>2, <2>3 DEF EnterTree, StoreBase, StoreTypeOK
    <3>2. ThreadsOK'
      BY <1>1, <2>3 DEF EnterTree, StoreBase, StoreTypeOK, ThreadsOK
    <3> QED BY <2>1, <3>1, <3>2 DEF StoreBase
  <2>4. CASE Head(doomed[w]) \notin dirs
    <3>1. NextTree(w) /\ pc[w] = "deleting" /\ doomed[w] # <<>> /\ UNCHANGED <<database, disk, threads, load, counters>>
      BY <1>1, <2>4 DEF EnterTree
    <3>2. /\ doomed' \in [Workers -> Seq(Contents)] /\ walking' \in [Workers -> BOOLEAN]
          /\ listing' \in [Workers -> SUBSET Files]
          /\ ThreadsOK'
      BY <3>1, NextTreeKeeps
    <3>3. StoreTypeOK'
      BY <3>1, <3>2 DEF StoreBase, StoreTypeOK
    <3> QED BY <2>1, <3>2, <3>3 DEF StoreBase
  <2> QED BY <2>3, <2>4
<1>2. CASE DeleteFile(w)
  <2>0. doomed[w] # <<>> /\ pc[w] = "deleting"
    BY <1>2 DEF DeleteFile, StoreBase, ThreadsOK
  <2>1. PICK c \in Contents : c = Head(doomed[w])
    BY <2>0, TailSet, SequenceSets DEF StoreBase, StoreTypeOK
  <2>2. PICK f \in listing[w] :
          \/ /\ f \in held[c]
             /\ held' = [held EXCEPT ![c] = held[c] \ {f}]
             /\ mtimes' = Touch(c)
             /\ listing' = [listing EXCEPT ![w] = listing[w] \ {f}]
             /\ UNCHANGED <<doomed, walking>>
          \/ /\ f \notin held[c]
             /\ listing' = [listing EXCEPT ![w] = listing[w] \ {f}]
             /\ UNCHANGED <<held, mtimes, doomed, walking>>
          \/ /\ f \notin held[c]
             /\ NextTree(w)
             /\ UNCHANGED <<held, mtimes>>
    BY <1>2, <2>1 DEF DeleteFile
  <2>3. UNCHANGED <<database, link, dirs, switches, threads, load, counters>>
    BY <1>2 DEF DeleteFile
  <2>4. LoadsOK'
    BY <2>3 DEF StoreBase, LoadsOK
  <2>5. CASE f \in held[c]
    <3>1. PICK t : t = Touch(c)
      OBVIOUS
    <3>2. t \in Seq(Contents) /\ IsInjective(t) /\ ToSet(t) = dirs \cup {c}
      BY <3>1, TouchFacts DEF StoreBase
    <3>3. c \in dirs
      BY <2>5 DEF StoreBase, DiskOK
    <3>4. mtimes' = t /\ held' = [held EXCEPT ![c] = held[c] \ {f}]
          /\ listing' = [listing EXCEPT ![w] = listing[w] \ {f}] /\ UNCHANGED <<doomed, walking>>
      BY <2>2, <2>5, <3>1
    <3>5. DiskOK'
      BY <2>3, <3>2, <3>3, <3>4 DEF StoreBase, StoreTypeOK, DiskOK
    <3>6. StoreTypeOK'
      BY <2>3, <3>2, <3>4 DEF StoreBase, StoreTypeOK
    <3>7. ThreadsOK'
      BY <2>3, <3>4 DEF StoreBase, ThreadsOK
    <3> QED BY <2>4, <3>5, <3>6, <3>7 DEF StoreBase
  <2>7. CASE /\ listing' = [listing EXCEPT ![w] = listing[w] \ {f}]
             /\ UNCHANGED <<held, mtimes, doomed, walking>>
    <3>1. StoreTypeOK'
      BY <2>3, <2>7 DEF StoreBase, StoreTypeOK
    <3>2. DiskOK' /\ ThreadsOK'
      BY <2>3, <2>7 DEF StoreBase, DiskOK, ThreadsOK
    <3> QED BY <2>4, <3>1, <3>2 DEF StoreBase
  <2>6. CASE NextTree(w) /\ UNCHANGED <<held, mtimes>>
    <3>1. NextTree(w) /\ UNCHANGED <<held, mtimes>>
      BY <2>6
    <3>2. /\ doomed' \in [Workers -> Seq(Contents)] /\ walking' \in [Workers -> BOOLEAN]
          /\ listing' \in [Workers -> SUBSET Files]
          /\ ThreadsOK'
      BY <2>0, <2>3, <3>1, NextTreeKeeps
    <3>3. StoreTypeOK'
      BY <2>3, <3>1, <3>2 DEF StoreBase, StoreTypeOK
    <3>4. DiskOK'
      BY <2>3, <3>1 DEF StoreBase, DiskOK
    <3> QED BY <2>4, <3>2, <3>3, <3>4 DEF StoreBase
  <2> QED BY <2>2, <2>5, <2>6, <2>7
<1>3. CASE DeleteDirectory(w)
  <2>0. doomed[w] # <<>> /\ pc[w] = "deleting"
    BY <1>3 DEF DeleteDirectory, StoreBase, ThreadsOK
  <2>1. PICK c \in Contents : c = Head(doomed[w])
    BY <2>0, TailSet, SequenceSets DEF StoreBase, StoreTypeOK
  <2>2. PICK r : r = RemoveFirst(mtimes, c)
    OBVIOUS
  <2>3. r \in Seq(Contents) /\ IsInjective(r) /\ ToSet(r) = dirs \ {c}
    BY <2>2, RemoveFirstSet DEF StoreBase, StoreTypeOK, DiskOK
  <2>4. /\ \/ held[c] = {} /\ dirs' = dirs \ {c} /\ mtimes' = r
           \/ UNCHANGED <<dirs, mtimes>>
        /\ NextTree(w)
        /\ UNCHANGED <<database, link, held, switches, threads, load, counters>>
    BY <1>3, <2>1, <2>2 DEF DeleteDirectory
  <2>5. /\ doomed' \in [Workers -> Seq(Contents)] /\ walking' \in [Workers -> BOOLEAN]
        /\ listing' \in [Workers -> SUBSET Files]
        /\ ThreadsOK'
    BY <2>0, <2>4, NextTreeKeeps
  <2>6. StoreTypeOK'
    BY <2>3, <2>4, <2>5 DEF StoreBase, StoreTypeOK
  <2>7. DiskOK'
    BY <2>3, <2>4 DEF StoreBase, DiskOK
  <2>8. LoadsOK'
    BY <2>4 DEF StoreBase, LoadsOK
  <2> QED BY <2>5, <2>6, <2>7, <2>8 DEF StoreBase
<1>4. CASE DeletingEnds(w)
  <2>1. StoreTypeOK'
    BY <1>4 DEF DeletingEnds, StoreBase, StoreTypeOK
  <2>2. DiskOK' /\ LoadsOK'
    BY <1>4 DEF DeletingEnds, StoreBase, DiskOK, LoadsOK
  <2>3. ThreadsOK'
    BY <1>0, <1>4 DEF DeletingEnds, StoreBase, StoreTypeOK, ThreadsOK
  <2> QED BY <2>1, <2>2, <2>3 DEF StoreBase
<1> QED BY <1>1, <1>2, <1>3, <1>4 DEF DeleteStep

\* The problem's own steps, and a crash.
LEMMA ProblemKeepsBase ==
  ASSUME StoreBase, ArchiveProblem \/ DeleteProblem \/ RemoveLink \/ Crash
  PROVE  StoreBase'
<1> USE DEF database, disk, deletion, threads, counters, At, GoTo
<1>0. Uploads \subseteq Workers /\ Remover \in Workers /\ Remover \notin Uploads /\ NoOne \notin Uploads
  BY ThreadsAssumption DEF Workers
<1>1. CASE ArchiveProblem
  BY <1>0, <1>1 DEF ArchiveProblem, StoreBase, StoreTypeOK, DiskOK, ThreadsOK, LoadsOK
<1>2. CASE DeleteProblem
  <2>1. StoreTypeOK'
    BY <1>2, <1>0 DEF DeleteProblem, StoreBase, StoreTypeOK
  <2>2. DiskOK' /\ LoadsOK'
    BY <1>2 DEF DeleteProblem, StoreBase, DiskOK, LoadsOK
  <2>3. ThreadsOK'
    BY <1>0, <1>2 DEF DeleteProblem, StoreBase, StoreTypeOK, ThreadsOK
  <2> QED BY <2>1, <2>2, <2>3 DEF StoreBase
<1>3. CASE RemoveLink
  <2>1. StoreTypeOK'
    BY <1>3, <1>0 DEF RemoveLink, StoreBase, StoreTypeOK, Addresses
  <2>2. DiskOK' /\ LoadsOK'
    BY <1>3 DEF RemoveLink, StoreBase, DiskOK, LoadsOK
  <2>3. ThreadsOK'
    BY <1>0, <1>3 DEF RemoveLink, StoreBase, StoreTypeOK, ThreadsOK
  <2> QED BY <2>1, <2>2, <2>3 DEF StoreBase
<1>4. CASE Crash
  <2>1. StoreTypeOK'
    BY <1>4, <1>0 DEF Crash, StoreBase, StoreTypeOK
  <2>2. DiskOK' /\ LoadsOK'
    BY <1>4 DEF Crash, StoreBase, DiskOK, LoadsOK
  <2>3. ThreadsOK'
    BY <1>0, <1>4 DEF Crash, StoreBase, StoreTypeOK, ThreadsOK
  <2> QED BY <2>1, <2>2, <2>3 DEF StoreBase
<1> QED BY <1>1, <1>2, <1>3, <1>4

\* The ways a load's row q becomes r.
LoadTurn(q, r) ==
    \/ r.pc = "idle"
    \/ r.pc = "reading" /\ r.attempt = 1 /\ r.since = switches /\ Reachable(MetadataFile)
    \/ /\ q.pc = "reading" /\ r.attempt = q.attempt /\ r.since = q.since
       /\ \/ r.pc = "copying" /\ r.digest = link /\ r.copied = {} /\ Reachable(MetadataFile)
          \/ r.pc = "failed" /\ ~Reachable(MetadataFile)
    \/ /\ q.pc = "copying" /\ r.since = q.since
       /\ \/ /\ r.pc = "copying" /\ r.digest = q.digest /\ r.attempt = q.attempt
             /\ \E f \in DataFiles : r.copied = q.copied \cup {<<f, q.digest>>}
          \/ /\ \E f \in DataFiles : ~(Reachable(f) /\ link = q.digest)
             /\ \/ q.attempt = 2 /\ r.pc = "failed"
                \/ q.attempt # 2 /\ r.pc = "reading" /\ r.attempt = 2
          \/ /\ r.pc = "loaded" /\ r.digest = q.digest /\ r.copied = q.copied
             /\ \A f \in DataFiles : \E c \in Contents : <<f, c>> \in q.copied

\* Every step of a load is one of them.
LEMMA LoadTurns ==
  ASSUME StoreTypeOK, NEW l \in Loads, LoadStep(l)
  PROVE  /\ \E r \in LoadRows : load' = [load EXCEPT ![l] = r] /\ LoadTurn(load[l], r)
         /\ loads' \in Nat /\ UNCHANGED <<database, disk, deletion, threads, uploads, crashes>>
<1>1. PICK q \in LoadRows : q = load[l]
  BY DEF StoreTypeOK
<1>2. /\ q.pc \in {"idle", "reading", "copying", "loaded", "failed"} /\ q.attempt \in 0..2
      /\ q.digest \in Addresses /\ q.copied \subseteq DataFiles \X Contents /\ q.since \in Nat
  BY DEF LoadRows
<1>3. NoLoad \in LoadRows
  BY DEF NoLoad, LoadRows, Addresses
<1>4. CASE StartLoad(l)
  <2>0. PICK n \in LoadRows : n = NoLoad
    BY <1>3
  <2>5. switches \in Nat /\ 1 \in 0..2
    BY DEF StoreTypeOK
  <2>1. PICK r : r = [n EXCEPT !.pc = "reading", !.attempt = 1, !.since = switches]
    OBVIOUS
  <2>2. r \in LoadRows /\ r.pc = "reading" /\ r.attempt = 1 /\ r.since = switches
    BY <2>0, <2>1, <2>5 DEF LoadRows
  <2>3. load' = [load EXCEPT ![l] = r] /\ Reachable(MetadataFile)
    BY <1>4, <2>0, <2>1 DEF StartLoad
  <2>4. loads' \in Nat /\ UNCHANGED <<database, disk, deletion, threads, uploads, crashes>>
    BY <1>4 DEF StartLoad, StoreTypeOK
  <2> QED BY <2>2, <2>3, <2>4 DEF LoadTurn
<1>5. CASE ReadMetadata(l)
  <2>1. loads' \in Nat /\ UNCHANGED <<database, disk, deletion, threads, uploads, crashes>>
    BY <1>5 DEF ReadMetadata, StoreTypeOK, counters
  <2>2. CASE Reachable(MetadataFile)
    <3>1. PICK r : r = [q EXCEPT !.pc = "copying", !.digest = link, !.copied = {}]
      OBVIOUS
    <3>2. /\ r \in LoadRows /\ r.pc = "copying" /\ r.attempt = q.attempt /\ r.since = q.since
          /\ r.digest = link /\ r.copied = {}
      BY <3>1 DEF LoadRows, StoreTypeOK
    <3>3. load' = [load EXCEPT ![l] = r]
      BY <1>1, <1>5, <2>2, <3>1 DEF ReadMetadata, StoreTypeOK
    <3>4. q.pc = "reading"
      BY <1>1, <1>5 DEF ReadMetadata
    <3> QED BY <1>1, <2>1, <2>2, <3>2, <3>3, <3>4 DEF LoadTurn
  <2>3. CASE ~Reachable(MetadataFile)
    <3>1. PICK r : r = [q EXCEPT !.pc = "failed"]
      OBVIOUS
    <3>2. r \in LoadRows /\ r.pc = "failed" /\ r.attempt = q.attempt /\ r.since = q.since
      BY <3>1 DEF LoadRows
    <3>3. load' = [load EXCEPT ![l] = r]
      BY <1>1, <1>5, <2>3, <3>1 DEF ReadMetadata, StoreTypeOK
    <3>4. q.pc = "reading"
      BY <1>1, <1>5 DEF ReadMetadata
    <3> QED BY <1>1, <2>1, <2>3, <3>2, <3>3, <3>4 DEF LoadTurn
  <2> QED BY <2>2, <2>3
<1>6. CASE CopyFile(l)
  <2>1. loads' \in Nat /\ UNCHANGED <<database, disk, deletion, threads, uploads, crashes>>
    BY <1>6 DEF CopyFile, StoreTypeOK, counters
  <2>2. PICK f \in DataFiles :
          load' = [load EXCEPT ![l] = IF Reachable(f) /\ link = q.digest
                                      THEN [q EXCEPT !.copied = q.copied \cup {<<f, link>>}]
                                      ELSE RetryLoad(q)]
    <3>1. PICK f \in DataFiles :
            load' = [load EXCEPT ![l] = IF Matches(l, f)
                                        THEN [load[l] EXCEPT !.copied = load[l].copied \cup {<<f, link>>}]
                                        ELSE RetryLoad(load[l])]
      BY <1>6 DEF CopyFile
    <3>2. Matches(l, f) = (Reachable(f) /\ link = q.digest)
      BY <1>1 DEF Matches
    <3> QED BY <1>1, <3>1, <3>2
  <2>3. q.pc = "copying"
    BY <1>1, <1>6 DEF CopyFile
  <2>4. CASE Reachable(f) /\ link = q.digest
    <3>1. PICK k : k = q.copied \cup {<<f, link>>}
      OBVIOUS
    <3>2. k \subseteq DataFiles \X Contents /\ k = q.copied \cup {<<f, q.digest>>}
      BY <1>2, <2>4, <3>1 DEF Reachable, StoreTypeOK, Addresses
    <3>3. PICK r : r = [q EXCEPT !.copied = k]
      OBVIOUS
    <3>4. /\ r \in LoadRows /\ r.pc = q.pc /\ r.attempt = q.attempt /\ r.since = q.since
          /\ r.digest = q.digest /\ r.copied = k
      BY <3>2, <3>3 DEF LoadRows
    <3>5. load' = [load EXCEPT ![l] = r]
      BY <2>2, <2>4, <3>1, <3>3
    <3> QED BY <1>1, <2>1, <2>3, <3>2, <3>4, <3>5 DEF LoadTurn
  <2>5. CASE ~(Reachable(f) /\ link = q.digest)
    <3>1. PICK r : r = RetryLoad(q)
      OBVIOUS
    <3>2. /\ r \in LoadRows /\ r.since = q.since
          /\ \/ q.attempt = 2 /\ r.pc = "failed"
             \/ q.attempt # 2 /\ r.pc = "reading" /\ r.attempt = 2
      <4>1. CASE q.attempt = 2
        BY <3>1, <4>1 DEF RetryLoad, LoadRows
      <4>2. CASE q.attempt # 2
        <5>1. r = [q EXCEPT !.pc = "reading", !.attempt = 2, !.copied = {}]
          BY <3>1, <4>2 DEF RetryLoad
        <5>2. {} \subseteq DataFiles \X Contents /\ 2 \in 0..2
          OBVIOUS
        <5>3. r \in LoadRows
          BY <5>1, <5>2 DEF LoadRows
        <5>4. r.since = q.since /\ r.pc = "reading" /\ r.attempt = 2
          BY <5>1 DEF LoadRows
        <5> QED BY <4>2, <5>3, <5>4
      <4> QED BY <4>1, <4>2
    <3>3. load' = [load EXCEPT ![l] = r]
      BY <2>2, <2>5, <3>1
    <3> QED BY <1>1, <2>1, <2>3, <2>5, <3>2, <3>3 DEF LoadTurn
  <2> QED BY <2>4, <2>5
<1>7. CASE FinishLoad(l)
  <2>1. loads' \in Nat /\ UNCHANGED <<database, disk, deletion, threads, uploads, crashes>>
    BY <1>7 DEF FinishLoad, StoreTypeOK, counters
  <2>2. PICK r : r = [q EXCEPT !.pc = "loaded"]
    OBVIOUS
  <2>3. /\ r \in LoadRows /\ r.pc = "loaded" /\ r.attempt = q.attempt /\ r.since = q.since
        /\ r.digest = q.digest /\ r.copied = q.copied
    BY <2>2 DEF LoadRows
  <2>4. load' = [load EXCEPT ![l] = r] /\ q.pc = "copying"
    BY <1>1, <1>7, <2>2 DEF FinishLoad, StoreTypeOK
  <2>5. \A f \in DataFiles : \E c \in Contents : <<f, c>> \in q.copied
    BY <1>1, <1>7 DEF FinishLoad
  <2> QED BY <1>1, <2>1, <2>3, <2>4, <2>5 DEF LoadTurn
<1>8. CASE CancelLoad(l)
  <2>1. loads' \in Nat /\ UNCHANGED <<database, disk, deletion, threads, uploads, crashes>>
    BY <1>8 DEF CancelLoad, StoreTypeOK, counters
  <2>2. load' = [load EXCEPT ![l] = NoLoad] /\ NoLoad.pc = "idle"
    BY <1>8 DEF CancelLoad, NoLoad
  <2> QED BY <1>3, <2>1, <2>2 DEF LoadTurn
<1> QED BY <1>4, <1>5, <1>6, <1>7, <1>8 DEF LoadStep

\* The steps of a load.
LEMMA LoadKeepsBase ==
  ASSUME StoreBase, NEW l \in Loads, LoadStep(l)
  PROVE  StoreBase'
<1> USE DEF database, disk, deletion, threads, counters
<1>1. PICK r \in LoadRows : load' = [load EXCEPT ![l] = r] /\ LoadTurn(load[l], r)
  BY LoadTurns DEF StoreBase
<1>2. loads' \in Nat /\ UNCHANGED <<database, disk, deletion, threads, uploads, crashes>>
  BY LoadTurns DEF StoreBase
<1>3. StoreTypeOK'
  BY <1>1, <1>2 DEF StoreBase, StoreTypeOK
<1>4. DiskOK' /\ ThreadsOK'
  BY <1>2 DEF StoreBase, DiskOK, ThreadsOK
<1>5. PICK q \in LoadRows : q = load[l]
  BY DEF StoreBase, StoreTypeOK
<1>6. /\ q.pc \in {"copying", "loaded"} =>
           q.digest \in Contents /\ q.copied \subseteq DataFiles \X {q.digest}
      /\ q.pc = "loaded" => \A f \in DataFiles : <<f, q.digest>> \in q.copied
  BY <1>5 DEF StoreBase, LoadsOK
<1>7. r.pc \in {"copying", "loaded"} =>
        r.digest \in Contents /\ r.copied \subseteq DataFiles \X {r.digest}
  <2>1. Reachable(MetadataFile) => link \in Contents
    BY DEF Reachable, StoreBase, StoreTypeOK, Addresses
  <2> QED BY <1>1, <1>5, <1>6, <2>1 DEF LoadTurn
<1>8. r.pc = "loaded" => \A f \in DataFiles : <<f, r.digest>> \in r.copied
  <2> SUFFICES ASSUME r.pc = "loaded", NEW f \in DataFiles PROVE <<f, r.digest>> \in r.copied
    OBVIOUS
  <2>1. /\ q.pc = "copying" /\ r.digest = q.digest /\ r.copied = q.copied
        /\ \A g \in DataFiles : \E c \in Contents : <<g, c>> \in q.copied
    BY <1>1, <1>5 DEF LoadTurn
  <2>2. PICK c \in Contents : <<f, c>> \in q.copied
    BY <2>1
  <2>3. c = q.digest
    BY <1>6, <2>1, <2>2
  <2> QED BY <2>1, <2>2, <2>3
<1>9. LoadsOK'
  BY <1>1, <1>7, <1>8 DEF StoreBase, StoreTypeOK, LoadsOK
<1> QED BY <1>3, <1>4, <1>9 DEF StoreBase

\* Every step keeps the base.
LEMMA BaseStep ==
  ASSUME StoreBase, [StoreNext]_storeVars
  PROVE  StoreBase'
<1>1. CASE \E u \in Uploads : UploadStep(u)
  BY <1>1, UploadKeepsBase, MoveKeepsBase, ListingKeepsBase DEF UploadStep
<1>2. CASE \E w \in Workers : DeleteStep(w)
  BY <1>2, DeleteKeepsBase
<1>3. CASE ArchiveProblem \/ DeleteProblem \/ RemoveLink \/ Crash
  BY <1>3, ProblemKeepsBase
<1>4. CASE RemoveLists
  BY <1>4, ListingKeepsBase
<1>5. CASE \E l \in Loads : LoadStep(l)
  BY <1>5, LoadKeepsBase
<1>6. CASE UNCHANGED storeVars
  BY <1>6 DEF storeVars, database, disk, deletion, threads, counters,
              StoreBase, StoreTypeOK, DiskOK, ThreadsOK, LoadsOK
<1> QED BY <1>1, <1>2, <1>3, <1>4, <1>5, <1>6 DEF StoreNext

\* The initial state.
LEMMA BaseInit ==
  ASSUME StoreInit
  PROVE  StoreBase
<1>1. NoLoad \in LoadRows /\ NoLoad.pc = "idle"
  BY DEF NoLoad, LoadRows, Addresses
<1>2. StoreTypeOK
  <2>1. <<>> \in Seq(Contents) /\ {} \subseteq Files /\ {} \subseteq Contents /\ NoLink \in Addresses
    BY DEF Addresses
  <2>2. /\ held \in [Contents -> SUBSET Files]
        /\ pc \in [Workers -> {"idle", "prepare", "built", "prepared", "locked", "verified",
                               "switched", "prune", "listing", "discard", "deleting", "unlink"}]
        /\ listing \in [Workers -> SUBSET Files]
    BY <2>1 DEF StoreInit
  <2>3. /\ content \in [Uploads -> Addresses] /\ current \in [Uploads -> Addresses]
        /\ saved \in BOOLEAN /\ overlapped \in BOOLEAN /\ doomed \in [Workers -> Seq(Contents)]
        /\ walking \in [Workers -> BOOLEAN] /\ load \in [Loads -> LoadRows]
    BY <1>1, <2>1 DEF StoreInit
  <2>4. /\ row \in {"ACTIVE", "ARCHIVED", "DELETED"} /\ location \in BOOLEAN
        /\ lock \in Uploads \cup {NoOne} /\ link \in Addresses /\ dirs \subseteq Contents
        /\ mtimes \in Seq(Contents)
        /\ switches \in Nat /\ uploads \in Nat /\ loads \in Nat /\ crashes \in Nat
    BY <2>1 DEF StoreInit
  <2> QED BY <2>2, <2>3, <2>4 DEF StoreTypeOK
<1>3. DiskOK
  BY DEF StoreInit, DiskOK, IsInjective, ToSet
<1>4. ThreadsOK
  BY ThreadsAssumption DEF StoreInit, ThreadsOK, Workers
<1>5. LoadsOK
  BY <1>1 DEF StoreInit, LoadsOK
<1> QED BY <1>2, <1>3, <1>4, <1>5 DEF StoreBase

\* The data of a load that ended well are all the files of one content,
\* however many uploads, deletions and crashes run beside it (LoadedIsWhole).
THEOREM LoadsAreWhole == StoreSpec => [](StoreTypeOK /\ LoadedIsWhole)
<1>1. ASSUME StoreBase PROVE StoreTypeOK /\ LoadedIsWhole
  <2> SUFFICES ASSUME NEW l \in Loads, load[l].pc = "loaded"
               PROVE  load[l].copied = DataFiles \X {load[l].digest}
    BY <1>1 DEF StoreBase, LoadedIsWhole
  <2> QED BY <1>1 DEF StoreBase, LoadsOK
<1> QED BY BaseInit, BaseStep, <1>1, PTL DEF StoreSpec

\* A deleted problem's address only goes: no upload that was under way when
\* the row was deleted switches it again (UnreachableOnceDeleted).
THEOREM DeletedStaysUnreachable == StoreSpec => UnreachableOnceDeleted
<1>1. ASSUME StoreBase, [StoreNext]_storeVars
      PROVE  [row = "DELETED" => link' \in {link, NoLink}]_storeVars
  <2> USE DEF database, disk, deletion, threads, counters
  <2>1. ASSUME NEW u \in Uploads, UploadStep(u) PROVE row = "DELETED" => link' = link
    <3>1. CASE SwitchLink(u)
      BY <1>1, <3>1, ThreadsAssumption DEF SwitchLink, At, StoreBase, ThreadsOK
    <3>2. CASE ~SwitchLink(u)
      BY <2>1, <3>2 DEF UploadStep, Upload, PrepareFails, Materialize, MoveIntoPlace, LockRow, Rollback,
                        VerifyTarget, Commit, Discard, PruneReads, PruneLists
    <3> QED BY <3>1, <3>2
  <2>2. ASSUME NEW w \in Workers, DeleteStep(w) PROVE link' = link
    BY <2>2 DEF DeleteStep, EnterTree, DeleteFile, DeleteDirectory, DeletingEnds
  <2>3. ASSUME NEW l \in Loads, LoadStep(l) PROVE link' = link
    BY <2>3 DEF LoadStep, StartLoad, ReadMetadata, CopyFile, FinishLoad, CancelLoad
  <2>4. CASE ArchiveProblem \/ DeleteProblem \/ RemoveLink \/ RemoveLists \/ Crash
    BY <2>4 DEF ArchiveProblem, DeleteProblem, RemoveLink, RemoveLists, Crash
  <2> QED BY <1>1, <2>1, <2>2, <2>3, <2>4 DEF StoreNext
<1> QED BY BaseInit, BaseStep, <1>1, PTL DEF StoreSpec, UnreachableOnceDeleted

-----------------------------------------------------------------------------
(* What every step keeps until uploads overlap or the service crashes.       *)

StoreQuiet == OneUpload /\ AddressOK /\ UploadOK /\ TriesOK /\ GenerationsOK

\* While one upload is under way the others neither run nor delete.
LEMMA OthersWait ==
  ASSUME StoreBase, OneUpload, NEW u \in Uploads, pc[u] # "idle"
  PROVE  \A v \in Uploads : v # u => pc[v] = "idle" /\ doomed[v] = <<>> /\ ~walking[v]
BY DEF StoreBase, StoreTypeOK, ThreadsOK, OneUpload, Workers

\* Nothing is left to delete of a list that is empty.
LEMMA EmptyList == ToSet(<<>>) = {}
BY DEF ToSet

\* A step that leaves the loads, the row, the address and its switches alone.
LEMMA TriesFrame ==
  ASSUME TriesOK, UNCHANGED <<load, row, link, switches>>
  PROVE  TriesOK'
BY DEF TriesOK

\* The upload's steps outside the directories.
LEMMA UploadKeepsQuiet ==
  ASSUME StoreBase, StoreQuiet, ~overlapped', NEW u \in Uploads,
         \/ \E c \in Contents : Upload(u, c)
         \/ PrepareFails(u)
         \/ Materialize(u)
         \/ LockRow(u)
         \/ Rollback(u)
         \/ VerifyTarget(u)
         \/ SwitchLink(u)
         \/ Commit(u)
         \/ PruneReads(u)
  PROVE  StoreQuiet'
<1> USE DEF database, disk, deletion, threads, counters, At, GoTo
<1>0. /\ u \in Workers /\ u # Remover /\ NoOne \notin Uploads /\ Uploads \subseteq Workers /\ Remover \in Workers
  BY ThreadsAssumption DEF Workers
<1>o. \A v \in Uploads : v # u => pc[v] = "idle" /\ doomed[v] = <<>> /\ ~walking[v]
  <2>1. CASE pc[u] # "idle"
    BY <2>1, OthersWait DEF StoreQuiet
  <2>2. CASE pc[u] = "idle"
    <3>1. ~Busy
      BY <2>2 DEF Upload, PrepareFails, Materialize, LockRow, Rollback, TargetMissing, VerifyTarget,
                  SwitchLink, Commit, PruneReads
    <3> QED BY <1>0, <3>1 DEF Busy, StoreBase, StoreTypeOK, ThreadsOK
  <2> QED BY <2>1, <2>2
<1>t. pc[u] # "deleting" => doomed[u] = <<>> /\ ~walking[u]
  BY <1>0 DEF StoreBase, StoreTypeOK, ThreadsOK
<1>1. CASE \E c \in Contents : Upload(u, c)
  <2>1. AddressOK'
    BY <1>1, <1>0, <1>t, <1>o, EmptyList DEF Upload, StoreBase, StoreTypeOK, StoreQuiet, AddressOK, AddressIsWhole
  <2>2. UploadOK'
    BY <1>1, <1>0, <1>t, <1>o, EmptyList DEF Upload, StoreBase, StoreTypeOK, DiskOK, ThreadsOK, StoreQuiet, UploadOK
  <2>3. TriesOK'
    BY <1>1, TriesFrame DEF Upload, StoreQuiet
  <2>4. GenerationsOK'
    BY <1>1, <1>0, <1>t, <1>o, EmptyList DEF Upload, StoreBase, StoreTypeOK, StoreQuiet, GenerationsOK
  <2>5. OneUpload'
    BY <1>1, <1>0, <1>o DEF Upload, StoreBase, StoreTypeOK, OneUpload
  <2> QED BY <2>1, <2>2, <2>3, <2>4, <2>5 DEF StoreQuiet
<1>2. CASE PrepareFails(u)
  <2>1. AddressOK'
    BY <1>2, <1>0, <1>t, <1>o, EmptyList DEF PrepareFails, StoreBase, StoreTypeOK, StoreQuiet, AddressOK, AddressIsWhole
  <2>2. UploadOK'
    BY <1>2, <1>0, <1>t, <1>o, EmptyList DEF PrepareFails, StoreBase, StoreTypeOK, DiskOK, ThreadsOK, StoreQuiet, UploadOK
  <2>3. TriesOK'
    BY <1>2, TriesFrame DEF PrepareFails, StoreQuiet
  <2>4. GenerationsOK'
    BY <1>2, <1>0, <1>t, <1>o, EmptyList DEF PrepareFails, StoreBase, StoreTypeOK, StoreQuiet, GenerationsOK
  <2>5. OneUpload'
    BY <1>2, <1>0, <1>o DEF PrepareFails, StoreBase, StoreTypeOK, OneUpload
  <2> QED BY <2>1, <2>2, <2>3, <2>4, <2>5 DEF StoreQuiet
<1>3. CASE Materialize(u)
  <2>1. AddressOK'
    BY <1>3, <1>0, <1>t, <1>o, EmptyList DEF Materialize, StoreBase, StoreTypeOK, StoreQuiet, AddressOK, AddressIsWhole
  <2>2. UploadOK'
    BY <1>3, <1>0, <1>t, <1>o, EmptyList DEF Materialize, StoreBase, StoreTypeOK, DiskOK, ThreadsOK, StoreQuiet, UploadOK
  <2>3. TriesOK'
    BY <1>3, TriesFrame DEF Materialize, StoreQuiet
  <2>4. GenerationsOK'
    BY <1>3, <1>0, <1>t, <1>o, EmptyList DEF Materialize, StoreBase, StoreTypeOK, StoreQuiet, GenerationsOK
  <2>5. OneUpload'
    BY <1>3, <1>0, <1>o DEF Materialize, StoreBase, StoreTypeOK, OneUpload
  <2> QED BY <2>1, <2>2, <2>3, <2>4, <2>5 DEF StoreQuiet
<1>4. CASE LockRow(u)
  <2>1. AddressOK'
    BY <1>4, <1>0, <1>t, <1>o, EmptyList DEF LockRow, StoreBase, StoreTypeOK, StoreQuiet, AddressOK, AddressIsWhole
  <2>2. UploadOK'
    BY <1>4, <1>0, <1>t, <1>o, EmptyList DEF LockRow, StoreBase, StoreTypeOK, DiskOK, ThreadsOK, StoreQuiet, UploadOK
  <2>3. TriesOK'
    BY <1>4, TriesFrame DEF LockRow, StoreQuiet
  <2>4. GenerationsOK'
    BY <1>4, <1>0, <1>t, <1>o, EmptyList DEF LockRow, StoreBase, StoreTypeOK, StoreQuiet, GenerationsOK
  <2>5. OneUpload'
    BY <1>4, <1>0, <1>o DEF LockRow, StoreBase, StoreTypeOK, OneUpload
  <2> QED BY <2>1, <2>2, <2>3, <2>4, <2>5 DEF StoreQuiet
<1>5. CASE Rollback(u)
  <2>1. AddressOK'
    BY <1>5, <1>0, <1>t, <1>o, EmptyList DEF Rollback, TargetMissing, StoreBase, StoreTypeOK, StoreQuiet, AddressOK, AddressIsWhole
  <2>2. UploadOK'
    BY <1>5, <1>0, <1>t, <1>o, EmptyList DEF Rollback, TargetMissing, StoreBase, StoreTypeOK, DiskOK, ThreadsOK, StoreQuiet, UploadOK
  <2>3. TriesOK'
    BY <1>5, TriesFrame DEF Rollback, StoreQuiet
  <2>4. GenerationsOK'
    BY <1>5, <1>0, <1>t, <1>o, EmptyList DEF Rollback, TargetMissing, StoreBase, StoreTypeOK, StoreQuiet, GenerationsOK
  <2>5. OneUpload'
    BY <1>5, <1>0, <1>o DEF Rollback, TargetMissing, StoreBase, StoreTypeOK, OneUpload
  <2> QED BY <2>1, <2>2, <2>3, <2>4, <2>5 DEF StoreQuiet
<1>6. CASE VerifyTarget(u)
  <2>1. AddressOK'
    BY <1>6, <1>0, <1>t, <1>o, EmptyList DEF VerifyTarget, TargetMissing, StoreBase, StoreTypeOK, StoreQuiet, AddressOK, AddressIsWhole
  <2>2. UploadOK'
    BY <1>6, <1>0, <1>t, <1>o, EmptyList DEF VerifyTarget, TargetMissing, StoreBase, StoreTypeOK, DiskOK, ThreadsOK, StoreQuiet, UploadOK
  <2>3. TriesOK'
    BY <1>6, TriesFrame DEF VerifyTarget, StoreQuiet
  <2>4. GenerationsOK'
    BY <1>6, <1>0, <1>t, <1>o, EmptyList DEF VerifyTarget, TargetMissing, StoreBase, StoreTypeOK, StoreQuiet, GenerationsOK
  <2>5. OneUpload'
    BY <1>6, <1>0, <1>o DEF VerifyTarget, TargetMissing, StoreBase, StoreTypeOK, OneUpload
  <2> QED BY <2>1, <2>2, <2>3, <2>4, <2>5 DEF StoreQuiet
<1>7. CASE SwitchLink(u)
  <2>0. /\ row = "ACTIVE" /\ content[u] \in dirs /\ content[u] \in Contents /\ held[content[u]] = Files
        /\ pc[u] = "verified" /\ ~walking[u]
    BY <1>7, <1>0, <1>t, <1>o, EmptyList DEF SwitchLink, StoreBase, ThreadsOK, StoreQuiet, UploadOK
  <2>1. AddressOK'
    BY <1>7, <1>0, <1>o, EmptyList, <2>0 DEF SwitchLink, StoreBase, StoreTypeOK, ThreadsOK, StoreQuiet, AddressOK, AddressIsWhole
  <2>2. UploadOK'
    BY <1>7, <1>0, <1>o, EmptyList, <2>0 DEF SwitchLink, StoreBase, StoreTypeOK, ThreadsOK, StoreQuiet, UploadOK
  <2>3. TriesOK'
    <3> SUFFICES ASSUME NEW l \in Loads
                 PROVE  LET r == load[l]
                        IN  /\ r.pc \in {"reading", "copying"} =>
                                 /\ r.attempt \in {1, 2}
                                 /\ switches' >= r.since + r.attempt - 1 \/ row' = "DELETED"
                                 /\ link' # NoLink \/ row' = "DELETED"
                            /\ r.pc = "copying" /\ r.digest # link' =>
                                 switches' >= r.since + r.attempt \/ row' = "DELETED"
                            /\ r.pc = "failed" => switches' >= r.since + 2 \/ row' = "DELETED"
      BY <1>7 DEF SwitchLink, TriesOK
    <3>1. PICK r \in LoadRows : r = load[l]
      BY DEF StoreBase, StoreTypeOK
    <3>2. r.since \in Nat /\ switches \in Nat /\ switches' = switches + 1 /\ row' = "ACTIVE" /\ row = "ACTIVE" /\ link' # NoLink
      BY <1>7, <2>0, NoLinkAssumption DEF SwitchLink, StoreBase, StoreTypeOK, LoadRows
    <3>3. /\ r.pc \in {"reading", "copying"} => r.attempt \in {1, 2} /\ switches >= r.since + r.attempt - 1
          /\ r.pc = "failed" => switches >= r.since + 2
      BY <3>1, <3>2 DEF StoreQuiet, TriesOK
    <3> QED BY <3>1, <3>2, <3>3
  <2>4. GenerationsOK'
    BY <1>7, <1>0, <1>o, EmptyList, <2>0 DEF SwitchLink, StoreBase, StoreTypeOK, StoreQuiet, GenerationsOK
  <2>5. OneUpload'
    BY <1>7, <1>0, <1>o DEF SwitchLink, StoreBase, StoreTypeOK, OneUpload
  <2> QED BY <2>1, <2>2, <2>3, <2>4, <2>5 DEF StoreQuiet
<1>8. CASE Commit(u)
  <2>1. AddressOK'
    BY <1>8, <1>0, <1>t, <1>o, EmptyList DEF Commit, StoreBase, StoreTypeOK, StoreQuiet, AddressOK, AddressIsWhole
  <2>2. UploadOK'
    BY <1>8, <1>0, <1>t, <1>o, EmptyList DEF Commit, StoreBase, StoreTypeOK, DiskOK, ThreadsOK, StoreQuiet, UploadOK
  <2>3. TriesOK'
    BY <1>8, TriesFrame DEF Commit, StoreQuiet
  <2>4. GenerationsOK'
    BY <1>8, <1>0, <1>t, <1>o, EmptyList DEF Commit, StoreBase, StoreTypeOK, StoreQuiet, GenerationsOK
  <2>5. OneUpload'
    BY <1>8, <1>0, <1>o DEF Commit, StoreBase, StoreTypeOK, OneUpload
  <2> QED BY <2>1, <2>2, <2>3, <2>4, <2>5 DEF StoreQuiet
<1>9. CASE PruneReads(u)
  <2>1. AddressOK'
    BY <1>9, <1>0, <1>t, <1>o, EmptyList DEF PruneReads, StoreBase, StoreTypeOK, StoreQuiet, AddressOK, AddressIsWhole
  <2>2. UploadOK'
    BY <1>9, <1>0, <1>t, <1>o, EmptyList DEF PruneReads, StoreBase, StoreTypeOK, DiskOK, ThreadsOK, StoreQuiet, UploadOK
  <2>3. TriesOK'
    BY <1>9, TriesFrame DEF PruneReads, StoreQuiet
  <2>4. GenerationsOK'
    BY <1>9, <1>0, <1>t, <1>o, EmptyList DEF PruneReads, StoreBase, StoreTypeOK, StoreQuiet, GenerationsOK
  <2>5. OneUpload'
    BY <1>9, <1>0, <1>o DEF PruneReads, StoreBase, StoreTypeOK, OneUpload
  <2> QED BY <2>1, <2>2, <2>3, <2>4, <2>5 DEF StoreQuiet
<1> QED BY <1>1, <1>2, <1>3, <1>4, <1>5, <1>6, <1>7, <1>8, <1>9

\* A directory moved into place is whole, and the only one that changes.
LEMMA MoveKeepsQuiet ==
  ASSUME StoreBase, StoreQuiet, NEW u \in Uploads, MoveIntoPlace(u)
  PROVE  StoreQuiet'
<1> USE DEF database, disk, deletion, threads, counters, At, GoTo
<1>0. u \in Workers /\ u # Remover /\ Remover \in Workers /\ Uploads \subseteq Workers
  BY ThreadsAssumption DEF Workers
<1>o. \A v \in Uploads : v # u => pc[v] = "idle" /\ doomed[v] = <<>> /\ ~walking[v]
  BY OthersWait DEF MoveIntoPlace, StoreQuiet
<1>t. doomed[u] = <<>> /\ ~walking[u] /\ pc[u] = "built"
  BY <1>0 DEF MoveIntoPlace, StoreBase, StoreTypeOK, ThreadsOK
<1>1. PICK c \in Contents : c = content[u]
  BY DEF MoveIntoPlace, StoreBase, ThreadsOK
<1>2. \/ dirs' = dirs \cup {c} /\ held' = [held EXCEPT ![c] = Files]
      \/ dirs' = dirs /\ held' = held
  BY <1>1 DEF MoveIntoPlace
<1>3. \/ pc' = [pc EXCEPT ![u] = "prepared"] /\ c \in dirs'
      \/ pc' = [pc EXCEPT ![u] = "idle"]
  BY <1>1 DEF MoveIntoPlace
<1>4. UNCHANGED <<database, link, switches, deletion, content, current, saved, overlapped, load, counters>>
  BY DEF MoveIntoPlace
<1>5. AddressOK'
  BY <1>0, <1>t, <1>o, EmptyList, <1>2, <1>3, <1>4 DEF StoreBase, StoreTypeOK, StoreQuiet, AddressOK, AddressIsWhole
<1>6. UploadOK'
  BY <1>0, <1>t, <1>o, EmptyList, <1>1, <1>2, <1>3, <1>4 DEF StoreBase, StoreTypeOK, StoreQuiet, UploadOK
<1>7. TriesOK'
  BY <1>4, TriesFrame DEF StoreQuiet
<1>8. GenerationsOK'
  BY <1>0, <1>t, <1>o, EmptyList, <1>4 DEF StoreQuiet, GenerationsOK
<1>9. OneUpload'
  BY <1>0, <1>o, <1>3 DEF StoreBase, StoreTypeOK, OneUpload
<1> QED BY <1>5, <1>6, <1>7, <1>8, <1>9 DEF StoreQuiet

\* discard, and what prune and remove list.
LEMMA ListingKeepsQuiet ==
  ASSUME StoreBase, StoreQuiet,
         \/ \E u \in Uploads : Discard(u) \/ PruneLists(u)
         \/ RemoveLists
  PROVE  StoreQuiet'
<1> USE DEF database, disk, deletion, threads, counters, At, GoTo
<1>0. Uploads \subseteq Workers /\ Remover \in Workers /\ Remover \notin Uploads
  BY ThreadsAssumption DEF Workers
<1>1. ASSUME NEW u \in Uploads, Discard(u) PROVE StoreQuiet'
  <2>0. \A v \in Uploads : v # u => pc[v] = "idle" /\ doomed[v] = <<>> /\ ~walking[v]
    BY <1>1, OthersWait DEF Discard, StoreQuiet
  <2>t. doomed[u] = <<>> /\ ~walking[u] /\ pc[u] = "discard" /\ content[u] \in Contents
    BY <1>0, <1>1 DEF Discard, StoreBase, StoreTypeOK, ThreadsOK
  <2>1. UNCHANGED <<database, disk, walking, listing, content, current, saved, overlapped, load, counters>>
    BY <1>1 DEF Discard
  <2>2. PICK s \in Seq(Contents) : s = <<content[u]>> /\ ToSet(s) = {content[u]}
    <3>1. PICK s : s = <<content[u]>>
      OBVIOUS
    <3>2. s \in Seq(Contents) /\ Len(s) = 1 /\ s[1] = content[u]
      BY <2>t, <3>1
    <3>3. DOMAIN s = {1}
      BY <3>2
    <3>4. ToSet(s) = {content[u]}
      BY <3>2, <3>3 DEF ToSet
    <3> QED BY <3>1, <3>2, <3>4
  <2>3. \/ pc' = [pc EXCEPT ![u] = "idle"] /\ doomed' = doomed
        \/ /\ link # content[u] /\ doomed' = [doomed EXCEPT ![u] = s]
           /\ pc' = [pc EXCEPT ![u] = "deleting"]
    BY <1>1, <2>2 DEF Discard
  <2>4. AddressOK'
    BY <1>0, <2>0, <2>t, EmptyList, <2>1, <2>2, <2>3 DEF StoreBase, StoreTypeOK, StoreQuiet, AddressOK, AddressIsWhole
  <2>5. UploadOK'
    BY <1>0, <2>0, <2>t, EmptyList, <2>1, <2>3 DEF StoreBase, StoreTypeOK, StoreQuiet, UploadOK
  <2>6. TriesOK'
    BY <2>1, TriesFrame DEF StoreQuiet
  <2>7. GenerationsOK'
    BY <2>0, <2>t, <2>1 DEF StoreQuiet, GenerationsOK
  <2>8. OneUpload'
    BY <1>0, <2>0, <2>3 DEF StoreBase, StoreTypeOK, OneUpload
  <2> QED BY <2>4, <2>5, <2>6, <2>7, <2>8 DEF StoreQuiet
<1>2. ASSUME NEW u \in Uploads, PruneLists(u) PROVE StoreQuiet'
  <2>0. \A v \in Uploads : v # u => pc[v] = "idle" /\ doomed[v] = <<>> /\ ~walking[v]
    BY <1>2, OthersWait DEF PruneLists, StoreQuiet
  <2>t. ~walking[u] /\ pc[u] = "listing"
    BY <1>0, <1>2 DEF PruneLists, StoreBase, StoreTypeOK, ThreadsOK
  <2>1. UNCHANGED <<database, disk, walking, listing, content, current, saved, overlapped, load, counters>>
    BY <1>2 DEF PruneLists
  <2>2. PICK s : s = Superseded(current[u])
    OBVIOUS
  <2>3. /\ s \in Seq(Contents) /\ current[u] \notin ToSet(s)
        /\ \E x \in Addresses : dirs \subseteq {current[u], x} \cup ToSet(s)
    BY <2>2, SupersededCovers DEF StoreBase, StoreTypeOK, DiskOK
  <2>4. NoLink \notin ToSet(s)
    BY <2>3, SequenceSets, NoLinkAssumption
  <2>5. doomed' = [doomed EXCEPT ![u] = s] /\ pc' = [pc EXCEPT ![u] = "deleting"]
    BY <1>2, <2>2 DEF PruneLists
  <2>6. AddressOK'
    BY <1>0, <2>0, <2>t, EmptyList, <2>1, <2>3, <2>4, <2>5 DEF StoreBase, StoreTypeOK, StoreQuiet, AddressOK, AddressIsWhole
  <2>7. UploadOK'
    BY <1>0, <2>0, <2>t, EmptyList, <2>1, <2>5 DEF StoreBase, StoreTypeOK, StoreQuiet, UploadOK
  <2>8. TriesOK'
    BY <2>1, TriesFrame DEF StoreQuiet
  <2>9. GenerationsOK'
    <3> SUFFICES ASSUME row # "DELETED"
                 PROVE  /\ \A v \in Uploads : pc'[v] \in {"idle", "prune", "listing", "deleting"}
                        /\ \E x \in Addresses : \A c \in dirs' :
                              c \in {link', x} \/ \E v \in Uploads : c \in ToSet(doomed'[v])
      BY <2>1 DEF GenerationsOK
    <3>1. link = current[u]
      BY <2>t DEF StoreQuiet, UploadOK
    <3>2. pc'[u] = "deleting" /\ doomed'[u] = s /\ \A v \in Uploads : v # u => pc'[v] = "idle"
      BY <1>0, <2>0, <2>5 DEF StoreBase, StoreTypeOK
    <3> QED BY <2>1, <2>3, <3>1, <3>2
  <2>10. OneUpload'
    BY <1>0, <2>0, <2>5 DEF StoreBase, StoreTypeOK, OneUpload
  <2> QED BY <2>6, <2>7, <2>8, <2>9, <2>10 DEF StoreQuiet
<1>3. ASSUME RemoveLists PROVE StoreQuiet'
  <2>1. UNCHANGED <<database, disk, walking, listing, content, current, saved, overlapped, load, counters>>
    BY <1>3 DEF RemoveLists
  <2>2. PICK s : /\ doomed' = [doomed EXCEPT ![Remover] = s]
                 /\ pc' = [pc EXCEPT ![Remover] = "deleting"] /\ pc[Remover] = "listing"
    BY <1>3 DEF RemoveLists
  <2>3. row = "DELETED"
    BY <2>2 DEF StoreBase, ThreadsOK
  <2>4. AddressOK'
    BY <1>0, <2>1, <2>2, <2>3 DEF StoreBase, StoreTypeOK, StoreQuiet, AddressOK, AddressIsWhole
  <2>5. UploadOK' /\ GenerationsOK'
    BY <2>1, <2>3 DEF UploadOK, GenerationsOK
  <2>6. TriesOK'
    BY <2>1, TriesFrame DEF StoreQuiet
  <2>7. OneUpload'
    BY <1>0, <2>2 DEF StoreBase, StoreTypeOK, StoreQuiet, OneUpload
  <2> QED BY <2>4, <2>5, <2>6, <2>7 DEF StoreQuiet
<1> QED BY <1>1, <1>2, <1>3

\* Remover deletes once the address is gone.
LEMMA RemoverKeepsQuiet ==
  ASSUME StoreBase, StoreQuiet, DeleteStep(Remover)
  PROVE  StoreQuiet'
<1> USE DEF database, disk, deletion, threads, counters, At, GoTo
<1>0. Uploads \subseteq Workers /\ Remover \in Workers /\ Remover \notin Uploads
  BY ThreadsAssumption DEF Workers
<1>1. pc[Remover] = "deleting"
  BY DEF DeleteStep, EnterTree, DeleteFile, DeleteDirectory, DeletingEnds
<1>2. row = "DELETED" /\ link = NoLink
  BY <1>1 DEF StoreBase, ThreadsOK, StoreQuiet, AddressOK
<1>3. UNCHANGED <<database, link, switches, load, content, current, saved, overlapped>>
  BY DEF DeleteStep, EnterTree, DeleteFile, DeleteDirectory, DeletingEnds
<1>4. \A u \in Uploads : pc'[u] = pc[u] /\ doomed'[u] = doomed[u]
  BY <1>0 DEF DeleteStep, EnterTree, DeleteFile, DeleteDirectory, DeletingEnds, NextTree, StoreBase, StoreTypeOK
<1>5. AddressOK'
  BY <1>2, <1>3, <1>4 DEF StoreQuiet, AddressOK, AddressIsWhole
<1>6. UploadOK' /\ GenerationsOK'
  BY <1>2, <1>3 DEF UploadOK, GenerationsOK
<1>7. TriesOK'
  BY <1>3, TriesFrame DEF StoreQuiet
<1>8. OneUpload'
  BY <1>4 DEF StoreQuiet, OneUpload
<1> QED BY <1>5, <1>6, <1>7, <1>8 DEF StoreQuiet

\* The problem's own steps.
LEMMA ProblemKeepsQuiet ==
  ASSUME StoreBase, StoreQuiet, ArchiveProblem \/ DeleteProblem \/ RemoveLink
  PROVE  StoreQuiet'
<1> USE DEF database, disk, deletion, threads, counters, At, GoTo
<1>0. Uploads \subseteq Workers /\ Remover \in Workers /\ Remover \notin Uploads
  BY ThreadsAssumption DEF Workers
<1>1. CASE ArchiveProblem
  BY <1>1 DEF ArchiveProblem, StoreQuiet, OneUpload, AddressOK, AddressIsWhole, UploadOK, TriesOK, GenerationsOK
<1>2. CASE DeleteProblem
  <2>1. row' = "DELETED" /\ pc' = [pc EXCEPT ![Remover] = "unlink"]
        /\ UNCHANGED <<lock, disk, deletion, content, current, saved, overlapped, load, counters>>
    BY <1>2 DEF DeleteProblem
  <2>2. AddressOK'
    BY <1>0, <2>1 DEF StoreBase, StoreTypeOK, StoreQuiet, AddressOK, AddressIsWhole
  <2>3. UploadOK' /\ GenerationsOK'
    BY <2>1 DEF UploadOK, GenerationsOK
  <2>4. TriesOK'
    BY <2>1 DEF StoreQuiet, TriesOK
  <2>5. OneUpload'
    BY <1>0, <2>1 DEF StoreBase, StoreTypeOK, StoreQuiet, OneUpload
  <2> QED BY <2>2, <2>3, <2>4, <2>5 DEF StoreQuiet
<1>3. CASE RemoveLink
  <2>1. /\ link' = NoLink /\ pc' = [pc EXCEPT ![Remover] = "listing"] /\ pc[Remover] = "unlink"
        /\ UNCHANGED <<database, dirs, held, mtimes, switches, deletion, content, current, saved, overlapped, load, counters>>
    BY <1>3 DEF RemoveLink
  <2>2. row = "DELETED"
    BY <2>1 DEF StoreBase, ThreadsOK
  <2>3. \A u \in Uploads : NoLink \notin ToSet(doomed[u])
    BY <1>0, SequenceSets, NoLinkAssumption DEF StoreBase, StoreTypeOK
  <2>4. AddressOK'
    BY <1>0, <2>1, <2>2, <2>3 DEF StoreBase, StoreTypeOK, StoreQuiet, AddressOK, AddressIsWhole
  <2>5. UploadOK' /\ GenerationsOK'
    BY <2>1, <2>2 DEF UploadOK, GenerationsOK
  <2>6. TriesOK'
    BY <2>1, <2>2 DEF StoreQuiet, TriesOK
  <2>7. OneUpload'
    BY <1>0, <2>1 DEF StoreBase, StoreTypeOK, StoreQuiet, OneUpload
  <2> QED BY <2>4, <2>5, <2>6, <2>7 DEF StoreQuiet
<1> QED BY <1>1, <1>2, <1>3

\* The upload's own deletions: whole directories, none of them the address.
LEMMA DeleteKeepsQuiet ==
  ASSUME StoreBase, StoreQuiet, NEW u \in Uploads, DeleteStep(u)
  PROVE  StoreQuiet'
<1> USE DEF database, disk, deletion, threads, counters, At, GoTo
<1>0. /\ u \in Workers /\ u # Remover /\ Remover \in Workers /\ Uploads \subseteq Workers
  BY ThreadsAssumption DEF Workers
<1>1. pc[u] = "deleting" /\ UNCHANGED <<database, link, switches, load, content, current, saved, overlapped>>
  BY DEF DeleteStep, EnterTree, DeleteFile, DeleteDirectory, DeletingEnds
<1>o. \A v \in Uploads : v # u => pc[v] = "idle" /\ doomed[v] = <<>> /\ ~walking[v]
  BY <1>1, OthersWait DEF StoreQuiet
<1>q. \A v \in Uploads : v # u => pc'[v] = "idle" /\ doomed'[v] = <<>> /\ ~walking'[v]
  BY <1>0, <1>o DEF DeleteStep, EnterTree, DeleteFile, DeleteDirectory, DeletingEnds, NextTree, StoreBase, StoreTypeOK
<1>r. OneUpload'
  BY <1>q DEF OneUpload
<1>2. TriesOK'
  BY <1>1, TriesFrame DEF StoreQuiet
<1>3. pc'[Remover] = pc[Remover] /\ pc'[u] \in {"deleting", "idle"}
  BY <1>0 DEF DeleteStep, EnterTree, DeleteFile, DeleteDirectory, DeletingEnds, StoreBase, StoreTypeOK
<1>4. link \notin ToSet(doomed[u])
  BY <1>1, <1>o, <1>q DEF StoreQuiet, AddressOK
<1>5. doomed[u] # <<>> => /\ Head(doomed[u]) \in Contents /\ Tail(doomed[u]) \in Seq(Contents)
                          /\ ToSet(doomed[u]) = ToSet(Tail(doomed[u])) \cup {Head(doomed[u])}
                          /\ Head(doomed[u]) # link
  BY <1>0, <1>4, TailSet, SequenceSets DEF StoreBase, StoreTypeOK
<1>a. walking[u] => doomed[u] # <<>>
  BY <1>0 DEF StoreBase, ThreadsOK
<1>g. row # "DELETED" /\ saved =>
        \E x \in Addresses : dirs \subseteq {link, x} \cup ToSet(doomed[u])
  <2> SUFFICES ASSUME row # "DELETED", saved
               PROVE  \E x \in Addresses : dirs \subseteq {link, x} \cup ToSet(doomed[u])
    OBVIOUS
  <2>1. \A v \in Uploads : pc[v] \in {"idle", "deleting"}
    BY <1>1, <1>o
  <2>2. PICK x \in Addresses : \A c \in dirs : c \in {link, x} \/ \E v \in Uploads : c \in ToSet(doomed[v])
    BY <2>1 DEF StoreQuiet, GenerationsOK
  <2> QED BY <1>o, <2>2, EmptyList
<1>h. ASSUME row # "DELETED" /\ saved =>
               \E x \in Addresses : dirs' \subseteq {link, x} \cup ToSet(doomed'[u])
      PROVE  GenerationsOK'
  <2>1. \A v \in Uploads : pc'[v] \in {"idle", "deleting"}
    BY <1>q, <1>3
  <2> QED BY <1>h, <1>1, <2>1 DEF GenerationsOK
<1>6. CASE EnterTree(u)
  <2>1. UNCHANGED <<disk, threads>> /\ doomed[u] # <<>> /\ ~walking[u]
    BY <1>6 DEF EnterTree
  <2>2. CASE Head(doomed[u]) \in dirs
    <3>1. /\ walking' = [walking EXCEPT ![u] = TRUE] /\ doomed' = doomed
          /\ listing' = [listing EXCEPT ![u] = held[Head(doomed[u])]]
      BY <1>6, <2>2 DEF EnterTree
    <3>2. AddressOK' /\ GenerationsOK'
      BY <1>1, <2>1, <3>1, <1>g, <1>h, <1>o, <1>q DEF StoreQuiet, AddressOK, AddressIsWhole
    <3>3. UploadOK'
      BY <1>0, <1>1, <2>1, <2>2, <3>1, <1>o, <1>q DEF StoreBase, StoreTypeOK, StoreQuiet, UploadOK
    <3> QED BY <1>2, <1>r, <3>2, <3>3 DEF StoreQuiet
  <2>3. CASE Head(doomed[u]) \notin dirs
    <3>1. PICK t \in Seq(Contents) : t = Tail(doomed[u])
      BY <1>5, <2>1
    <3>2. /\ walking' = [walking EXCEPT ![u] = FALSE] /\ doomed' = [doomed EXCEPT ![u] = t]
      BY <1>6, <2>3, <3>1 DEF EnterTree, NextTree
    <3>3. walking'[u] = FALSE /\ doomed'[u] = t /\ ToSet(doomed[u]) = ToSet(t) \cup {Head(doomed[u])}
      BY <1>0, <1>5, <2>1, <3>1, <3>2 DEF StoreBase, StoreTypeOK
    <3>4. AddressOK'
      BY <1>0, <1>1, <1>4, <2>1, <3>3, <1>o, <1>q DEF StoreQuiet, AddressOK, AddressIsWhole
    <3>5. UploadOK'
      BY <1>0, <1>1, <2>1, <3>3, <1>o, <1>q DEF StoreQuiet, UploadOK
    <3>6. GenerationsOK'
      BY <1>0, <1>1, <1>g, <1>h, EmptyList, <2>1, <2>3, <3>3
    <3> QED BY <1>2, <1>r, <3>4, <3>5, <3>6 DEF StoreQuiet
  <2> QED BY <2>2, <2>3
<1>7. CASE DeleteFile(u)
  <2>1. PICK c \in Contents : c = Head(doomed[u])
    BY <1>5, <1>7, <1>a DEF DeleteFile
  <2>2. UNCHANGED <<dirs, threads>> /\ walking[u]
    BY <1>7 DEF DeleteFile
  <2>3. PICK f \in listing[u] :
          \/ /\ f \in held[c]
             /\ held' = [held EXCEPT ![c] = held[c] \ {f}]
             /\ listing' = [listing EXCEPT ![u] = listing[u] \ {f}]
             /\ UNCHANGED <<doomed, walking>>
          \/ /\ f \notin held[c]
             /\ UNCHANGED <<held, mtimes, doomed, walking>>
          \/ /\ f \notin held[c]
             /\ NextTree(u)
             /\ UNCHANGED <<held, mtimes>>
    BY <1>7, <2>1 DEF DeleteFile
  <2>4. CASE f \in held[c]
    <3>1. /\ held' = [held EXCEPT ![c] = held[c] \ {f}]
          /\ listing' = [listing EXCEPT ![u] = listing[u] \ {f}]
          /\ UNCHANGED <<doomed, walking>>
      BY <2>3, <2>4
    <3>2. c # link
      BY <1>5, <1>a, <2>1, <2>2
    <3>3. AddressOK'
      BY <1>1, <2>2, <3>1, <3>2, <1>o, <1>q DEF StoreBase, StoreTypeOK, Addresses, StoreQuiet, AddressOK, AddressIsWhole
    <3>4. UploadOK'
      BY <1>0, <1>1, <2>1, <2>2, <3>1, <1>o, <1>q DEF StoreBase, StoreTypeOK, StoreQuiet, UploadOK
    <3>5. GenerationsOK'
      BY <1>1, <1>g, <1>h, <2>2, <3>1
    <3> QED BY <1>2, <1>r, <3>3, <3>4, <3>5 DEF StoreQuiet
  <2>5. CASE f \notin held[c]
    <3>0. UNCHANGED held
      BY <2>3, <2>5
    <3>1. row = "DELETED"
      BY <2>1, <2>2, <2>3, <2>5, <1>o, <1>q DEF StoreQuiet, UploadOK
    <3>2. UploadOK' /\ GenerationsOK'
      BY <1>1, <3>1, <1>o, <1>q DEF UploadOK, GenerationsOK
    <3>3. PICK t \in Seq(Contents) : t = Tail(doomed[u])
      BY <1>5, <1>a, <2>2
    <3>4. doomed' = [doomed EXCEPT ![u] = t] \/ doomed' = doomed
      BY <2>3, <2>5, <3>3 DEF NextTree
    <3>5. link \notin ToSet(doomed'[u])
      BY <1>0, <1>4, <1>5, <1>a, <2>2, <3>3, <3>4 DEF StoreBase, StoreTypeOK
    <3>6. AddressOK'
      BY <1>0, <1>1, <2>2, <3>0, <3>5, <1>o, <1>q DEF StoreQuiet, AddressOK, AddressIsWhole
    <3> QED BY <1>2, <1>r, <3>2, <3>6 DEF StoreQuiet
  <2> QED BY <2>4, <2>5
<1>8. CASE DeleteDirectory(u)
  <2>1. PICK c \in Contents : c = Head(doomed[u])
    BY <1>5, <1>8, <1>a DEF DeleteDirectory
  <2>2. PICK t \in Seq(Contents) : t = Tail(doomed[u])
    BY <1>5, <1>8, <1>a DEF DeleteDirectory
  <2>3. /\ UNCHANGED <<held, threads>> /\ walking[u] /\ listing[u] = {}
        /\ \/ held[c] = {} /\ dirs' = dirs \ {c}
           \/ held[c] # {} /\ dirs' = dirs
        /\ walking' = [walking EXCEPT ![u] = FALSE] /\ doomed' = [doomed EXCEPT ![u] = t]
    BY <1>8, <2>1, <2>2 DEF DeleteDirectory, NextTree
  <2>4. /\ walking'[u] = FALSE /\ doomed'[u] = t /\ ToSet(doomed[u]) = ToSet(t) \cup {c}
        /\ c # link
    BY <1>0, <1>5, <1>a, <2>1, <2>2, <2>3 DEF StoreBase, StoreTypeOK
  <2>5. row # "DELETED" => held[c] = {} /\ dirs' = dirs \ {c}
    BY <2>1, <2>3, <1>o, <1>q DEF StoreQuiet, UploadOK
  <2>6. AddressOK'
    BY <1>0, <1>1, <1>4, <2>3, <2>4, <1>o, <1>q DEF StoreQuiet, AddressOK, AddressIsWhole
  <2>7. UploadOK'
    BY <1>0, <1>1, <2>1, <2>3, <2>4, <2>5, <1>o, <1>q DEF StoreQuiet, UploadOK
  <2>8. GenerationsOK'
    BY <1>0, <1>1, <1>g, <1>h, EmptyList, <2>3, <2>4, <2>5
  <2> QED BY <1>2, <1>r, <2>6, <2>7, <2>8 DEF StoreQuiet
<1>9. CASE DeletingEnds(u)
  <2>1. UNCHANGED <<disk, deletion>> /\ pc'[u] = "idle" /\ doomed[u] = <<>> /\ ~walking[u]
    BY <1>0, <1>9, <1>a DEF DeletingEnds, StoreBase, StoreTypeOK
  <2>2. AddressOK'
    BY <1>0, <1>1, <1>3, <2>1, <1>o, <1>q DEF StoreQuiet, AddressOK, AddressIsWhole
  <2>3. UploadOK'
    BY <1>0, <1>1, <2>1, <1>o, <1>q DEF StoreQuiet, UploadOK
  <2>4. GenerationsOK'
    BY <1>0, <1>1, <1>g, <1>h, EmptyList, <2>1
  <2> QED BY <1>2, <1>r, <2>2, <2>3, <2>4 DEF StoreQuiet
<1> QED BY <1>6, <1>7, <1>8, <1>9 DEF DeleteStep

\* A load fails only when the address has moved as often as it tried.
LEMMA LoadKeepsQuiet ==
  ASSUME StoreBase, StoreQuiet, NEW l \in Loads, LoadStep(l)
  PROVE  StoreQuiet'
<1> USE DEF database, disk, deletion, threads, counters
<1>1. PICK r \in LoadRows : load' = [load EXCEPT ![l] = r] /\ LoadTurn(load[l], r)
  BY LoadTurns DEF StoreBase
<1>2. UNCHANGED <<database, disk, deletion, threads, uploads, crashes>>
  BY LoadTurns DEF StoreBase
<1>3. AddressOK' /\ UploadOK' /\ GenerationsOK'
  BY <1>2 DEF StoreQuiet, AddressOK, AddressIsWhole, UploadOK, GenerationsOK
<1>o. OneUpload'
  BY <1>2 DEF StoreQuiet, OneUpload
<1>4. PICK q \in LoadRows : q = load[l]
  BY DEF StoreBase, StoreTypeOK
<1>5. /\ q.pc \in {"reading", "copying"} =>
           /\ q.attempt \in {1, 2}
           /\ switches >= q.since + q.attempt - 1 \/ row = "DELETED"
           /\ link # NoLink \/ row = "DELETED"
      /\ q.pc = "copying" /\ q.digest # link => switches >= q.since + q.attempt \/ row = "DELETED"
  BY <1>4 DEF StoreQuiet, TriesOK
<1>6. q.since \in Nat /\ r.since \in Nat /\ switches \in Nat
  BY DEF LoadRows, StoreBase, StoreTypeOK
<1>7. ASSUME NEW f \in Files, ~Reachable(f) PROVE link = NoLink
  BY <1>7 DEF Reachable, StoreQuiet, AddressOK, AddressIsWhole
<1>8. MetadataFile \in Files /\ DataFiles \subseteq Files
  BY DEF Files
<1>9. /\ r.pc \in {"reading", "copying"} =>
           /\ r.attempt \in {1, 2}
           /\ switches >= r.since + r.attempt - 1 \/ row = "DELETED"
           /\ link # NoLink \/ row = "DELETED"
      /\ r.pc = "copying" /\ r.digest # link => switches >= r.since + r.attempt \/ row = "DELETED"
      /\ r.pc = "failed" => switches >= r.since + 2 \/ row = "DELETED"
  <2>1. LoadTurn(q, r)
    BY <1>1, <1>4
  <2>2. CASE r.pc = "idle"
    BY <2>2
  <2>3. CASE r.pc = "reading" /\ r.attempt = 1 /\ r.since = switches /\ Reachable(MetadataFile)
    BY <2>3, <1>6 DEF Reachable
  <2>4. CASE /\ q.pc = "reading" /\ r.attempt = q.attempt /\ r.since = q.since
             /\ \/ r.pc = "copying" /\ r.digest = link /\ r.copied = {} /\ Reachable(MetadataFile)
                \/ r.pc = "failed" /\ ~Reachable(MetadataFile)
    BY <2>4, <1>5, <1>7, <1>8
  <2>5. CASE /\ q.pc = "copying" /\ r.since = q.since /\ r.pc = "copying" /\ r.digest = q.digest
             /\ r.attempt = q.attempt
    BY <2>5, <1>5
  <2>6. CASE /\ q.pc = "copying" /\ r.since = q.since
             /\ \E f \in DataFiles : ~(Reachable(f) /\ link = q.digest)
             /\ \/ q.attempt = 2 /\ r.pc = "failed"
                \/ q.attempt # 2 /\ r.pc = "reading" /\ r.attempt = 2
    <3>1. row = "DELETED" \/ switches >= q.since + q.attempt
      BY <2>6, <1>5, <1>7, <1>8
    <3>2. link # NoLink \/ row = "DELETED"
      BY <2>6, <1>5
    <3> QED BY <2>6, <3>1, <3>2, <1>5, <1>6
  <2>7. CASE q.pc = "copying" /\ r.pc = "loaded"
    BY <2>7
  <2> QED BY <2>1, <2>2, <2>3, <2>4, <2>5, <2>6, <2>7 DEF LoadTurn
<1>10. TriesOK'
  <2> SUFFICES ASSUME NEW m \in Loads
               PROVE  LET p == load'[m]
                      IN  /\ p.pc \in {"reading", "copying"} =>
                               /\ p.attempt \in {1, 2}
                               /\ switches >= p.since + p.attempt - 1 \/ row = "DELETED"
                               /\ link # NoLink \/ row = "DELETED"
                          /\ p.pc = "copying" /\ p.digest # link =>
                               switches >= p.since + p.attempt \/ row = "DELETED"
                          /\ p.pc = "failed" => switches >= p.since + 2 \/ row = "DELETED"
    BY <1>2 DEF TriesOK
  <2>1. load'[m] = IF m = l THEN r ELSE load[m]
    BY <1>1 DEF StoreBase, StoreTypeOK
  <2>2. CASE m = l
    BY <1>9, <2>1, <2>2
  <2>3. CASE m # l
    BY <2>1, <2>3 DEF StoreQuiet, TriesOK
  <2> QED BY <2>2, <2>3
<1> QED BY <1>3, <1>o, <1>10 DEF StoreQuiet

\* Every step keeps the inductive invariant.
LEMMA StoreStep ==
  ASSUME StoreIInv, [StoreNext]_storeVars
  PROVE  StoreIInv'
<1>1. StoreBase
  BY DEF StoreIInv, StoreBase
<1>2. StoreBase'
  BY <1>1, BaseStep
<1>3. ASSUME crashes' = 0, ~overlapped' PROVE StoreQuiet'
  <2> USE DEF database, disk, deletion, threads, counters
  <2>1. ~Crash
    BY <1>1, <1>3 DEF Crash, StoreBase, StoreTypeOK
  <2>2. crashes = 0 /\ ~overlapped
    <3>1. ASSUME NEW u \in Uploads, UploadStep(u) PROVE crashes' = crashes /\ (overlapped => overlapped')
      <4>1. CASE \E c \in Contents : Upload(u, c)
        <5>1. crashes' = crashes /\ overlapped' = (overlapped \/ Busy)
          BY <4>1 DEF Upload
        <5> QED BY <5>1
      <4>2. CASE ~\E c \in Contents : Upload(u, c)
        <5>1. UNCHANGED <<crashes, overlapped>>
          BY <3>1, <4>2 DEF UploadStep, PrepareFails, Materialize, MoveIntoPlace, LockRow, Rollback,
                      VerifyTarget, SwitchLink, Commit, Discard, PruneReads, PruneLists
        <5> QED BY <5>1
      <4> QED BY <4>1, <4>2
    <3>2. ASSUME NEW w \in Workers, DeleteStep(w) PROVE UNCHANGED <<crashes, overlapped>>
      BY <3>2 DEF DeleteStep, EnterTree, DeleteFile, DeleteDirectory, DeletingEnds
    <3>3. ASSUME NEW l \in Loads, LoadStep(l) PROVE UNCHANGED <<crashes, overlapped>>
      BY <3>3 DEF LoadStep, StartLoad, ReadMetadata, CopyFile, FinishLoad, CancelLoad
    <3>4. CASE ArchiveProblem \/ DeleteProblem \/ RemoveLink \/ RemoveLists \/ UNCHANGED storeVars
      BY <3>4, <1>3 DEF ArchiveProblem, DeleteProblem, RemoveLink, RemoveLists, storeVars
    <3> QED BY <1>3, <2>1, <3>1, <3>2, <3>3, <3>4 DEF StoreNext
  <2>3. StoreQuiet
    BY <2>2 DEF StoreIInv, StoreQuiet
  <2>4. CASE \E u \in Uploads : UploadStep(u)
    BY <1>1, <1>3, <2>3, <2>4, UploadKeepsQuiet, MoveKeepsQuiet, ListingKeepsQuiet DEF UploadStep
  <2>5. CASE \E w \in Workers : DeleteStep(w)
    BY <1>1, <2>3, <2>5, DeleteKeepsQuiet, RemoverKeepsQuiet DEF Workers
  <2>6. CASE ArchiveProblem \/ DeleteProblem \/ RemoveLink
    BY <1>1, <2>3, <2>6, ProblemKeepsQuiet
  <2>7. CASE RemoveLists
    BY <1>1, <2>3, <2>7, ListingKeepsQuiet
  <2>8. CASE \E l \in Loads : LoadStep(l)
    BY <1>1, <2>3, <2>8, LoadKeepsQuiet
  <2>9. CASE UNCHANGED storeVars
    BY <2>3, <2>9 DEF storeVars, StoreQuiet, OneUpload, AddressOK, AddressIsWhole, UploadOK, TriesOK, GenerationsOK
  <2> QED BY <2>1, <2>4, <2>5, <2>6, <2>7, <2>8, <2>9 DEF StoreNext
<1> QED BY <1>2, <1>3 DEF StoreIInv, StoreBase, StoreQuiet

\* The store keeps StoreInv with any number of uploads, loads, deletions and
\* crashes: what a node accepted is one whole content and, as long as
\* problem-service has not crashed and no upload began beside another one, the
\* address is complete (activate, discard, prune), one replacement never fails
\* a load (Load's retry), and after a successful upload at most two
\* generations stay.
THEOREM StoreIsSafe == StoreSpec => []StoreInv
<1>1. ASSUME StoreInit PROVE StoreIInv
  <2>1. StoreBase
    BY <1>1, BaseInit
  <2>2. (\A u \in Uploads : u \in Workers) /\ Remover \in Workers
    BY DEF Workers
  <2>3. NoLoad.pc = "idle"
    BY DEF NoLoad
  <2>4. StoreQuiet
    BY <1>1, <2>2, <2>3 DEF StoreInit, StoreQuiet, OneUpload, AddressOK, AddressIsWhole, UploadOK, TriesOK, GenerationsOK
  <2> QED BY <2>1, <2>4 DEF StoreIInv, StoreBase, StoreQuiet
<1>2. ASSUME StoreIInv PROVE StoreInv
  <2>1. StoreTypeOK
    BY <1>2 DEF StoreIInv
  <2>2. LoadedIsWhole
    <3> SUFFICES ASSUME NEW l \in Loads, load[l].pc = "loaded"
                 PROVE  load[l].copied = DataFiles \X {load[l].digest}
      BY DEF LoadedIsWhole
    <3> QED BY <1>2 DEF StoreIInv, LoadsOK
  <2>3. crashes = 0 /\ ~overlapped => AddressIsWhole /\ ToleratesOneReplacement
    BY <1>2 DEF StoreIInv, AddressOK, TriesOK, ToleratesOneReplacement
  <2>4. ASSUME crashes = 0, ~overlapped PROVE KeepsTwoGenerations
    <3> SUFFICES ASSUME row # "DELETED", \A w \in Workers : pc[w] = "idle", saved
                 PROVE  Cardinality(dirs) <= 2
      BY DEF KeepsTwoGenerations
    <3>1. \A u \in Uploads : pc[u] = "idle" /\ doomed[u] = <<>>
      BY <1>2 DEF StoreIInv, ThreadsOK, Workers
    <3>2. PICK z \in Addresses : \A c \in dirs :
            c \in {link, z} \/ \E u \in Uploads : c \in ToSet(doomed[u])
      BY <1>2, <2>4, <3>1 DEF StoreIInv, GenerationsOK
    <3>4. \E x, y : dirs \subseteq {y, x}
      BY <3>1, <3>2, EmptyList
    <3>5. PICK d : d = dirs
      OBVIOUS
    <3>6. PICK x, y : d \subseteq {y, x}
      BY <3>4, <3>5
    <3>7. IsFiniteSet({y, x}) /\ Cardinality({y, x}) <= 2
      <4>1. IsFiniteSet({y}) /\ Cardinality({y}) = 1
        BY FS_Singleton
      <4>2. IsFiniteSet({y} \cup {x}) /\ Cardinality({y} \cup {x}) <= 2
        BY <4>1, FS_AddElement
      <4>3. {y} \cup {x} = {y, x}
        OBVIOUS
      <4> QED BY <4>2, <4>3
    <3>8. Cardinality(d) <= Cardinality({y, x}) /\ Cardinality(d) \in Nat /\ Cardinality({y, x}) \in Nat
      BY <3>6, <3>7, FS_Subset, FS_CardinalityType
    <3> QED BY <3>5, <3>7, <3>8
  <2> QED BY <2>1, <2>2, <2>3, <2>4 DEF StoreInv
<1> QED BY <1>1, <1>2, StoreStep, PTL DEF StoreSpec

-----------------------------------------------------------------------------
(* ProblemLists *)

-----------------------------------------------------------------------------
(* The order of a list. *)

\* The keys of a sort are numbers.
LEMMA KeyOfType ==
  ASSUME RowsOK, NEW sort, NEW id \in Problems
  PROVE  KeyOf(sort, id) \in Nat /\ id \in Nat
BY ListsAssumption DEF RowsOK, Row, KeyOf

\* The order of a sort is strict and total: the id decides between equal keys.
LEMMA PrecedesIsTotal ==
  ASSUME RowsOK, NEW sort
  PROVE  /\ \A a \in Problems : ~Precedes(sort, a, a)
         /\ \A a, b \in Problems : a # b => Precedes(sort, a, b) \/ Precedes(sort, b, a)
         /\ \A a, b, c \in Problems : Precedes(sort, a, b) /\ Precedes(sort, b, c) => Precedes(sort, a, c)
<1>1. \A id \in Problems : KeyOf(sort, id) \in Nat /\ id \in Nat
  BY KeyOfType
<1> HIDE DEF KeyOf
<1>2. \A a \in Problems : ~Precedes(sort, a, a)
  BY <1>1 DEF Precedes
<1>3. \A a, b \in Problems : a # b => Precedes(sort, a, b) \/ Precedes(sort, b, a)
  BY <1>1 DEF Precedes
<1>4. \A a, b, c \in Problems : Precedes(sort, a, b) /\ Precedes(sort, b, c) => Precedes(sort, a, c)
  <2> SUFFICES ASSUME NEW a \in Problems, NEW b \in Problems, NEW c \in Problems,
                      Precedes(sort, a, b), Precedes(sort, b, c)
               PROVE  Precedes(sort, a, c)
    OBVIOUS
  <2>1. CASE sort = "UPDATED_DESC"
    BY <1>1, <2>1 DEF Precedes
  <2>2. CASE sort # "UPDATED_DESC"
    BY <1>1, <2>2 DEF Precedes
  <2> QED BY <2>1, <2>2
<1> QED BY <1>2, <1>3, <1>4

\* Any set of problems can be put in order, and InOrder does: the problems
\* before one are fewer than the problems before a later one, so that their
\* number is a bijection.
LEMMA InOrderIsSorted ==
  ASSUME RowsOK, NEW sort, NEW ids \in SUBSET Problems
  PROVE  /\ IsFiniteSet(ids) /\ Cardinality(ids) \in Nat
         /\ InOrder(ids, sort) \in [1..Cardinality(ids) -> ids]
         /\ \A i, j \in 1..Cardinality(ids) :
                i < j => Precedes(sort, InOrder(ids, sort)[i], InOrder(ids, sort)[j])
<1>1. PICK n : n = Cardinality(ids)
  OBVIOUS
<1>2. IsFiniteSet(ids) /\ n \in Nat
  BY <1>1, ListsAssumption, FS_Subset, FS_CardinalityType
<1> DEFINE Before(x) == {y \in ids : Precedes(sort, y, x)}
           rank == [x \in ids |-> Cardinality(Before(x)) + 1]
<1>3. \A x \in ids : IsFiniteSet(Before(x)) /\ Cardinality(Before(x)) \in Nat /\ Cardinality(Before(x)) < n
  <2> SUFFICES ASSUME NEW x \in ids
               PROVE  IsFiniteSet(Before(x)) /\ Cardinality(Before(x)) \in Nat /\ Cardinality(Before(x)) < n
    OBVIOUS
  <2>1. Before(x) \subseteq ids /\ x \notin Before(x)
    BY PrecedesIsTotal
  <2> HIDE DEF Before
  <2> QED BY <1>1, <1>2, <2>1, FS_Subset, FS_CardinalityType
<1>4. \A x, y \in ids : Precedes(sort, x, y) => rank[x] < rank[y]
  <2> SUFFICES ASSUME NEW x \in ids, NEW y \in ids, Precedes(sort, x, y)
               PROVE  rank[x] < rank[y]
    OBVIOUS
  <2>0. rank[x] = Cardinality(Before(x)) + 1 /\ rank[y] = Cardinality(Before(y)) + 1
    OBVIOUS
  <2>1. Before(x) \subseteq Before(y) /\ x \in Before(y) /\ x \notin Before(x)
    BY PrecedesIsTotal
  <2> HIDE DEF Before, rank
  <2>2. Cardinality(Before(x)) < Cardinality(Before(y))
    BY <1>3, <2>1, FS_Subset
  <2> QED BY <1>3, <2>0, <2>2
<1>5. rank \in [ids -> 1..n]
  BY <1>2, <1>3
<1> HIDE DEF rank, Before
<1>6. \A x, y \in ids : rank[x] = rank[y] => x = y
  <2> SUFFICES ASSUME NEW x \in ids, NEW y \in ids, rank[x] = rank[y], x # y
               PROVE  FALSE
    OBVIOUS
  <2>1. Precedes(sort, x, y) \/ Precedes(sort, y, x)
    BY PrecedesIsTotal
  <2>2. rank[x] \in Nat /\ rank[y] \in Nat
    BY <1>2, <1>5
  <2> QED BY <1>4, <2>1, <2>2
<1>7. rank \in Injection(ids, 1..n)
  BY <1>5, <1>6 DEF Injection, IsInjective
<1>8. IsFiniteSet(1..n) /\ Cardinality(1..n) = n
  BY <1>2, FS_Interval
<1>9. rank \in Surjection(ids, 1..n)
  BY <1>1, <1>7, <1>8, FS_Injection
<1>10. \A i \in 1..n : \E x \in ids : rank[x] = i
  BY <1>9 DEF Surjection
<1>11. PICK s : s = [i \in 1..n |-> CHOOSE x \in ids : rank[x] = i]
  OBVIOUS
<1>12. s \in [1..n -> ids] /\ \A i \in 1..n : rank[s[i]] = i
  BY <1>10, <1>11
<1>13. \A i, j \in 1..n : i < j => Precedes(sort, s[i], s[j])
  <2> SUFFICES ASSUME NEW i \in 1..n, NEW j \in 1..n, i < j
               PROVE  Precedes(sort, s[i], s[j])
    OBVIOUS
  <2>1. s[i] \in ids /\ s[j] \in ids /\ rank[s[i]] = i /\ rank[s[j]] = j
    BY <1>12
  <2>2. ~Precedes(sort, s[j], s[i]) /\ s[i] # s[j]
    BY <1>2, <1>4, <2>1
  <2> QED BY <2>1, <2>2, PrecedesIsTotal
<1> QED BY <1>1, <1>2, <1>12, <1>13 DEF InOrder

\* Every problem has a place in the order.
LEMMA InOrderIsOnto ==
  ASSUME RowsOK, NEW sort, NEW ids \in SUBSET Problems, NEW x \in ids
  PROVE  \E i \in 1..Cardinality(ids) : InOrder(ids, sort)[i] = x
<1>1. PICK s, n : s = InOrder(ids, sort) /\ n = Cardinality(ids)
  OBVIOUS
<1>2. /\ IsFiniteSet(ids) /\ n \in Nat /\ s \in [1..n -> ids]
      /\ \A i, j \in 1..n : i < j => Precedes(sort, s[i], s[j])
  BY <1>1, InOrderIsSorted
<1>3. \A i, j \in 1..n : s[i] = s[j] => i = j
  <2> SUFFICES ASSUME NEW i \in 1..n, NEW j \in 1..n, s[i] = s[j], i # j
               PROVE  FALSE
    OBVIOUS
  <2>1. s[i] \in Problems /\ s[j] \in Problems /\ (i < j \/ j < i)
    BY <1>2
  <2> QED BY <1>2, <2>1, PrecedesIsTotal
<1>4. s \in Injection(1..n, ids)
  BY <1>2, <1>3 DEF Injection, IsInjective
<1>5. IsFiniteSet(1..n) /\ Cardinality(1..n) = n
  BY <1>2, FS_Interval
<1>6. s \in Surjection(1..n, ids)
  BY <1>1, <1>2, <1>4, <1>5, FS_Injection
<1> QED BY <1>1, <1>6 DEF Surjection

-----------------------------------------------------------------------------
(* A batch of the catalogue. *)

\* Nothing is a batch of every search.
LEMMA NoDataIsBatch ==
  ASSUME NEW k
  PROVE  BatchOK(k, NoData)
BY DEF BatchOK, NoData, NoCursor, CursorOK

\* A batch starts behind its cursor; if there are more problems it ends where
\* its own cursor points, and otherwise it goes to the end.
LEMMA CatalogueIsBatch ==
  ASSUME RowsOK, NEW k, k.sort \in Sorts, CursorOK(k.cursor)
  PROVE  BatchOK(k, findPublicProblems(k))
<1>1. PICK sort, c, filter : sort = k.sort /\ c = k.cursor /\ filter = k.filter
  OBVIOUS
<1>2. PICK ids : ids = {id \in Catalogue(filter) : Follows(sort, id, c)}
  OBVIOUS
<1>3. Catalogue(filter) \subseteq Problems /\ ids \subseteq Catalogue(filter)
  BY <1>2 DEF Catalogue
<1>4. PICK s, n : s = InOrder(ids, sort) /\ n = Cardinality(ids)
  OBVIOUS
<1>5. /\ n \in Nat /\ s \in [1..n -> ids]
      /\ \A i, j \in 1..n : i < j => Precedes(sort, s[i], s[j])
      /\ \A x \in ids : \E i \in 1..n : s[i] = x
  BY <1>3, <1>4, InOrderIsSorted, InOrderIsOnto
<1>6. s \in Seq(ids) /\ Len(s) = n
  BY <1>5
<1>7. PICK more \in BOOLEAN : more <=> (n > Size)
  <2>1. CASE n > Size
    <3> WITNESS TRUE \in BOOLEAN
    <3> QED BY <2>1
  <2>2. CASE ~(n > Size)
    <3> WITNESS FALSE \in BOOLEAN
    <3> QED BY <2>2
  <2> QED BY <2>1, <2>2
<1>8. PICK m : m = IF more THEN Size ELSE n
  OBVIOUS
<1>9. m \in 0..n /\ (more => m >= 1 /\ m = Size) /\ (~more => m = n) /\ more \in BOOLEAN
  <2>1. CASE more = TRUE
    BY <1>5, <1>7, <1>8, <2>1, ListsAssumption
  <2>2. CASE more = FALSE
    BY <1>5, <1>8, <2>2
  <2> QED BY <2>1, <2>2
<1>10. PICK items : items = SubSeq(s, 1, m)
  OBVIOUS
<1>11. Len(items) = m /\ DOMAIN items = 1..m /\ \A i \in 1..m : items[i] = s[i]
  BY <1>6, <1>9, <1>10
<1>12. PICK next : next = IF more THEN [sort |-> sort, key |-> KeyOf(sort, Last(items)), id |-> Last(items),
                                        filter |-> filter] ELSE NoCursor
  OBVIOUS
<1>13. PICK all : all = Snapshot(Catalogue(filter))
  OBVIOUS
<1>14. PICK b : b = findPublicProblems(k)
  OBVIOUS
<1>15. b = [items |-> items, more |-> more, pages |-> 0, all |-> all, next |-> next]
  <2>1. more = (n > Size)
    <3>1. n \in Int /\ Size \in Int
      BY <1>5, ListsAssumption
    <3>2. CASE more = TRUE
      <4>1. n > Size
        BY <1>7, <3>2
      <4>2. (n > Size) = TRUE
        BY <3>1, <4>1
      <4> QED BY <3>2, <4>2
    <3>3. CASE more = FALSE
      <4>1. ~(n > Size)
        BY <1>7, <3>3
      <4>2. (n > Size) = FALSE
        BY <3>1, <4>1
      <4> QED BY <3>3, <4>2
    <3> QED BY <1>7, <3>2, <3>3
  <2> QED BY <2>1, <1>1, <1>2, <1>4, <1>6, <1>8, <1>10, <1>12, <1>13, <1>14 DEF findPublicProblems
<1>16. b.items = items /\ b.more = more /\ b.all = all /\ b.next = next
  BY <1>15
<1>17. more => /\ s[m] \in ids /\ next.sort = sort /\ next.filter = filter /\ next # NoCursor
               /\ next.key = KeyOf(sort, s[m]) /\ next.id = s[m]
  BY <1>1, <1>5, <1>9, <1>11, <1>12 DEF Last, NoCursor, Sorts
<1>18. CursorOK(next)
  <2>1. CASE more
    BY <1>3, <1>17, <2>1, KeyOfType DEF CursorOK
  <2>2. CASE ~more
    BY <1>12, <2>2 DEF CursorOK, NoCursor
  <2> QED BY <2>1, <2>2
<1>19. ASSUME more, NEW x \in Problems
       PROVE  Follows(sort, x, next) <=> Precedes(sort, s[m], x)
  <2>1. KeyOf(sort, x) \in Nat /\ x \in Nat /\ KeyOf(sort, s[m]) \in Nat /\ s[m] \in Nat
    BY <1>3, <1>17, <1>19, KeyOfType
  <2> QED BY <1>17, <1>19, <2>1 DEF Follows, After, Precedes
<1>20. ASSUME NEW x \in Catalogue(filter)
       PROVE  x \in Range(items) <=> Follows(sort, x, c) /\ (more => ~Follows(sort, x, next))
  <2>0. x \in Problems
    BY <1>3, <1>20
  <2>1. ASSUME x \in Range(items)
        PROVE  Follows(sort, x, c) /\ (more => ~Follows(sort, x, next))
    <3>1. PICK i \in 1..m : x = s[i]
      BY <1>11, <2>1 DEF Range
    <3>2. i \in 1..n /\ x \in ids
      BY <1>5, <1>9, <3>1
    <3>3. Follows(sort, x, c)
      BY <1>2, <3>2
    <3>4. ASSUME more, Precedes(sort, s[m], x)
          PROVE  FALSE
      <4>1. m \in 1..n /\ s[m] \in Problems /\ (i = m \/ i < m)
        BY <1>3, <1>5, <1>9, <3>1, <3>4
      <4>2. s[m] = x \/ Precedes(sort, x, s[m])
        BY <1>5, <3>1, <3>2, <4>1
      <4> QED BY <2>0, <3>4, <4>1, <4>2, PrecedesIsTotal
    <3> QED BY <1>19, <2>0, <3>3, <3>4
  <2>2. ASSUME Follows(sort, x, c), more => ~Follows(sort, x, next)
        PROVE  x \in Range(items)
    <3>1. PICK i \in 1..n : s[i] = x
      BY <1>2, <1>5, <1>20, <2>2
    <3>2. i \in 1..m
      <4>1. CASE more
        <5>1. m \in 1..n
          BY <1>5, <1>9, <4>1
        <5>2. ~Precedes(sort, s[m], x)
          BY <1>19, <2>0, <2>2, <4>1
        <5>3. ~(m < i)
          BY <1>5, <3>1, <5>1, <5>2
        <5> QED BY <1>5, <5>1, <5>3
      <4>2. CASE ~more
        BY <1>9, <4>2
      <4> QED BY <4>1, <4>2
    <3> QED BY <1>11, <3>1, <3>2 DEF Range
  <2> QED BY <2>1, <2>2
<1>21. ASSUME NEW rw \in all
       PROVE  /\ rw.id \in Problems /\ rw.updated \in Nat
              /\ rw.id \in Range(items) <=> Behind(sort, rw, c) /\ (more => ~Behind(sort, rw, next))
  <2>1. PICK id \in Catalogue(filter) : rw.id = id /\ rw.updated = rows[id].updated
    BY <1>13, <1>21 DEF Snapshot
  <2>2. id \in Problems /\ rw.updated \in Nat
    BY <1>3, <2>1 DEF RowsOK, Row
  <2>3. \A d : Behind(sort, rw, d) <=> Follows(sort, id, d)
    BY <2>1 DEF Behind, Follows, KeyOf
  <2> QED BY <1>20, <2>1, <2>2, <2>3
<1>22. more => After(sort, next.key, next.id, c)
  BY <1>2, <1>17 DEF Follows
<1> QED BY <1>1, <1>9, <1>14, <1>16, <1>17, <1>18, <1>21, <1>22 DEF BatchOK

-----------------------------------------------------------------------------
(* Queries. *)

\* What a request leaves of a query.
LEMMA AskingFacts ==
  ASSUME NEW k, NEW q, QueryOK(k, q)
  PROVE  /\ QueryOK(k, Asking(q)) /\ Asking(q).data = q.data /\ Asking(q).stale = q.stale
         /\ Asking(q).asked = "sent"
         /\ Current(q) => Current(Asking(q))
<1>1. PICK p : p = Asking(q)
  OBVIOUS
<1>2. /\ p = [f \in DOMAIN Idle |-> p[f]] /\ p.data = q.data /\ p.stale = q.stale
      /\ p.asked = "sent" /\ p.reply = NoData /\ (q.data # NoData /\ ~p.overtaken => ~q.overtaken)
  BY <1>1 DEF Asking, QueryOK, Idle
<1>3. QueryOK(k, p)
  BY <1>2, NoDataIsBatch DEF QueryOK
<1>4. Current(q) => Current(p)
  BY <1>2 DEF Current
<1> QED BY <1>1, <1>2, <1>3, <1>4

\* A cancelled query keeps what it has.
LEMMA CancelledFacts ==
  ASSUME NEW k, NEW q, QueryOK(k, q)
  PROVE  /\ QueryOK(k, Cancelled(q)) /\ Cancelled(q).data = q.data /\ Cancelled(q).stale = q.stale
         /\ Cancelled(q).asked = "no" /\ Cancelled(q).reply = NoData
         /\ Cancelled(q).overtaken = q.overtaken
         /\ Current(q) => Current(Cancelled(q))
<1>1. PICK p : p = Cancelled(q)
  OBVIOUS
<1>2. /\ p = [f \in DOMAIN Idle |-> p[f]] /\ p.data = q.data /\ p.stale = q.stale
      /\ p.asked = "no" /\ p.reply = NoData /\ p.overtaken = q.overtaken
  BY <1>1 DEF Cancelled, QueryOK, Idle
<1>3. QueryOK(k, p)
  BY <1>2, NoDataIsBatch DEF QueryOK
<1>4. Current(q) => Current(p)
  BY <1>2 DEF Current
<1> QED BY <1>1, <1>2, <1>3, <1>4

\* The keys that may be asked for: a catalogue's has its own cursor.
KeyOK(k) == k.list = "catalog" => k.sort \in Sorts /\ CursorOK(k.cursor) /\ decode(k)

\* A query that was never asked.
LEMMA IdleFacts ==
  ASSUME NEW k, KeyOK(k)
  PROVE  QueryOK(k, Idle) /\ Current(Idle)
<1>1. Idle.data = NoData /\ Idle.reply = NoData /\ Idle.asked = "no" /\ Idle = [f \in DOMAIN Idle |-> Idle[f]]
  BY DEF Idle
<1>2. QueryOK(k, Idle)
  BY <1>1, NoDataIsBatch DEF QueryOK, KeyOK
<1> QED BY <1>1, <1>2 DEF Current

\* What the pages show.
LEMMA ObservedKeys ==
         /\ \A s : KeyOK(s) => \A k \in Observed("catalog", s) : KeyOK(k)
         /\ \A text, status, page : \A k \in Observed("list", AdminKey(text, status, page)) : KeyOK(k)
         /\ \A s : \A k \in Observed("dashboard", s) : KeyOK(k)
         /\ \A s : Observed("workbench", s) = {}
<1>1. \A name \in {"users", "nodes", "languages"} : OtherKey(name).list = name
  BY DEF OtherKey, AdminKey
<1>2. \A text, status, page : AdminKey(text, status, page).list = "admin"
  BY DEF AdminKey
<1>3. DashboardKey.list = "admin"
  BY <1>2 DEF DashboardKey
<1>4. \A s : Observed("catalog", s) = {s}
  BY DEF Observed
<1>5. \A s : Observed("list", s) = {s, OtherKey("languages")}
  BY DEF Observed
<1>6. \A s : Observed("dashboard", s) = {DashboardKey, OtherKey("users"), OtherKey("nodes")}
  BY DEF Observed
<1>7. \A s : Observed("workbench", s) = {}
  BY DEF Observed
<1> QED BY <1>1, <1>2, <1>3, <1>4, <1>5, <1>6, <1>7 DEF KeyOK

\* Showing a page keeps every query in order.
LEMMA MountedFacts ==
  ASSUME CacheOK, NEW r, NEW s, NEW old, \A k \in Observed(r, s) : KeyOK(k)
  PROVE  /\ Mounted(r, s, old) = [k \in DOMAIN Mounted(r, s, old) |-> Mounted(r, s, old)[k]]
         /\ Observed(r, s) \subseteq DOMAIN Mounted(r, s, old)
         /\ \A k \in DOMAIN Mounted(r, s, old) :
                /\ QueryOK(k, Mounted(r, s, old)[k])
                /\ k \notin Observed(r, s) => Mounted(r, s, old)[k].asked = "no"
                /\ Owes(k) => Current(Mounted(r, s, old)[k])
<1>1. PICK m : m = Mounted(r, s, old)
  OBVIOUS
<1>2. m = [k \in DOMAIN m |-> m[k]] /\ DOMAIN m = DOMAIN cache \cup Observed(r, s)
  BY <1>1 DEF Mounted
<1>3. ASSUME NEW k \in DOMAIN m
      PROVE  /\ QueryOK(k, m[k])
             /\ k \notin Observed(r, s) => m[k].asked = "no"
             /\ Owes(k) => Current(m[k])
  <2>1. CASE k \notin Observed(r, s)
    <3>1. k \in DOMAIN cache /\ m[k] = Cancelled(cache[k])
      BY <1>1, <1>2, <1>3, <2>1 DEF Mounted
    <3>2. QueryOK(k, cache[k]) /\ (Owes(k) => Current(cache[k]))
      BY <3>1 DEF CacheOK
    <3> QED BY <2>1, <3>1, <3>2, CancelledFacts
  <2>2. CASE k \in Observed(r, s)
    <3>1. QueryOK(k, Query(k)) /\ (Owes(k) => Current(Query(k)))
      <4>1. CASE k \in DOMAIN cache
        BY <4>1 DEF CacheOK, Query
      <4>2. CASE k \notin DOMAIN cache
        BY <2>2, <4>2, IdleFacts DEF Query
      <4> QED BY <4>1, <4>2
    <3>2. m[k] = Asking(Query(k)) \/ m[k] = Query(k)
      BY <1>1, <1>2, <1>3, <2>2 DEF Mounted
    <3> QED BY <2>2, <3>1, <3>2, AskingFacts
  <2> QED BY <2>1, <2>2
<1> QED BY <1>1, <1>2, <1>3

\* Going somewhere: the lists shown then are asked for if they are not there.
LEMMA GoesKeepsCache ==
  ASSUME CacheOK, NEW r, NEW s, Goes(r, s), \A k \in Observed(r, s) : KeyOK(k), UNCHANGED <<rows, known>>
  PROVE  CacheOK' /\ route' = r /\ search' = s
<1>1. PICK old : cache' = Mounted(r, s, old)
  BY DEF Goes
<1>2. route' = r /\ search' = s
  BY DEF Goes
<1>3. \A k : Owes(k)' <=> Owes(k)
  BY DEF Owes, Managed
<1>4. cache' = [k \in DOMAIN cache' |-> cache'[k]] /\ Observed(r, s) \subseteq DOMAIN cache'
  BY <1>1, MountedFacts
<1>5. \A k \in DOMAIN cache' :
         /\ QueryOK(k, cache'[k])
         /\ k \notin Observed(r, s) => cache'[k].asked = "no"
         /\ Owes(k) => Current(cache'[k])
  BY <1>1, MountedFacts
<1> QED BY <1>2, <1>3, <1>4, <1>5 DEF CacheOK

\* One query is replaced by another.
LEMMA ReplacedKeepsCache ==
  ASSUME CacheOK, NEW k \in DOMAIN cache, NEW q, cache' = [cache EXCEPT ![k] = q],
         QueryOK(k, q), k \in Observed(route, search) \/ q.asked = "no", Owes(k) => Current(q),
         UNCHANGED <<rows, known, route, search>>
  PROVE  CacheOK'
<1>1. \A j : Owes(j)' <=> Owes(j)
  BY DEF Owes, Managed
<1>2. /\ cache' = [j \in DOMAIN cache' |-> cache'[j]] /\ DOMAIN cache' = DOMAIN cache
      /\ cache'[k] = q /\ \A j \in DOMAIN cache : j # k => cache'[j] = cache[j]
  BY DEF CacheOK
<1>3. ASSUME NEW j \in DOMAIN cache'
      PROVE  /\ QueryOK(j, cache'[j])
             /\ j \notin Observed(route, search) => cache'[j].asked = "no"
             /\ Owes(j) => Current(cache'[j])
  <2>1. CASE j = k
    BY <1>2, <2>1
  <2>2. CASE j # k
    BY <1>2, <1>3, <2>2 DEF CacheOK
  <2> QED BY <2>1, <2>2
<1>4. Observed(route, search) \subseteq DOMAIN cache'
  BY <1>2 DEF CacheOK
<1> QED BY <1>1, <1>2, <1>3, <1>4 DEF CacheOK

\* Nothing of the cache is touched, and no list comes to owe the problem.
LEMMA UntouchedKeepsCache ==
  ASSUME CacheOK, UNCHANGED <<cache, route, search>>, \A k : Owes(k)' => Owes(k)
  PROVE  CacheOK'
BY DEF CacheOK

\* An answer of problem-service that arrives in a query.
LEMMA AnswerFacts ==
  ASSUME RowsOK, NEW k, NEW q, QueryOK(k, q), k.list = "catalog" => k.sort \in Sorts /\ CursorOK(k.cursor)
  PROVE  /\ k.list = "catalog" => BatchOK(k, Answer(k))
         /\ Owes(k) => Shows(Answer(k))
<1>1. ASSUME k.list = "catalog"
      PROVE  BatchOK(k, Answer(k))
  <2>1. Answer(k) = findPublicProblems(k)
    BY <1>1 DEF Answer
  <2> QED BY <1>1, <2>1, CatalogueIsBatch
<1>2. ASSUME Owes(k)
      PROVE  Shows(Answer(k))
  <2>1. k.list = "admin" /\ Created \in Managed(k.filter)
    BY <1>2 DEF Owes
  <2>2. Answer(k) = listProblems(k)
    BY <2>1 DEF Answer
  <2>3. listProblems(k).all = Snapshot(Managed(k.filter))
    BY DEF listProblems
  <2>4. \E rw \in Snapshot(Managed(k.filter)) : rw.id = Created
    <3>1. PICK rw : rw = [id |-> Created, updated |-> rows[Created].updated, visibility |-> rows[Created].visibility]
      OBVIOUS
    <3>2. rw \in Snapshot(Managed(k.filter)) /\ rw.id = Created
      BY <2>1, <3>1 DEF Snapshot
    <3> QED BY <3>2
  <2> QED BY <2>2, <2>3, <2>4 DEF Shows
<1> QED BY <1>1, <1>2

\* Serving a request.
LEMMA ServeKeepsCache ==
  ASSUME RowsOK, CacheOK, NEW k \in DOMAIN cache, Serve(k)
  PROVE  CacheOK'
<1>1. /\ Query(k) = cache[k] /\ QueryOK(k, cache[k]) /\ cache[k].asked = "sent"
      /\ k \in Observed(route, search) /\ (Owes(k) => Current(cache[k]))
  BY DEF CacheOK, Query, Serve
<1>2. UNCHANGED <<rows, known, route, search>>
  BY DEF Serve, serverVars
<1>3. CASE cache' = [cache EXCEPT ![k].asked = "lost"]
  <2>1. PICK q : q = [cache[k] EXCEPT !.asked = "lost"]
    OBVIOUS
  <2>2. /\ q = [f \in DOMAIN Idle |-> q[f]] /\ q.data = cache[k].data /\ q.reply = cache[k].reply
        /\ q.stale = cache[k].stale /\ q.asked = "lost" /\ q.overtaken = cache[k].overtaken
    BY <1>1, <2>1 DEF QueryOK, Idle
  <2>3. QueryOK(k, q) /\ (Owes(k) => Current(q))
    BY <1>1, <2>2 DEF QueryOK, Current
  <2>4. cache' = [cache EXCEPT ![k] = q]
    BY <1>1, <1>3, <2>1 DEF QueryOK, Idle, CacheOK
  <2> QED BY <1>1, <1>2, <2>3, <2>4, ReplacedKeepsCache
<1>4. CASE cache' = [cache EXCEPT ![k].asked = IF k.list = "catalog" /\ ~decode(k) THEN "INVALID_CURSOR" ELSE "ok",
                                  ![k].reply = IF k.list = "catalog" /\ ~decode(k) THEN NoData ELSE Answer(k)]
  <2>1. ~(k.list = "catalog" /\ ~decode(k)) /\ (k.list = "catalog" => k.sort \in Sorts /\ CursorOK(k.cursor))
    BY <1>1 DEF QueryOK
  <2>2. PICK a : a = Answer(k)
    OBVIOUS
  <2>3. cache' = [cache EXCEPT ![k].asked = "ok", ![k].reply = a]
    BY <1>4, <2>1, <2>2
  <2>4. PICK q : q = [cache[k] EXCEPT !.asked = "ok", !.reply = a]
    OBVIOUS
  <2>5. /\ q = [f \in DOMAIN Idle |-> q[f]] /\ q.data = cache[k].data /\ q.reply = a
        /\ q.stale = cache[k].stale /\ q.asked = "ok" /\ q.overtaken = cache[k].overtaken
    BY <1>1, <2>4 DEF QueryOK, Idle
  <2>6. (k.list = "catalog" => BatchOK(k, a)) /\ (Owes(k) => Shows(a))
    BY <1>1, <2>1, <2>2, AnswerFacts
  <2>7. QueryOK(k, q) /\ (Owes(k) => Current(q))
    BY <1>1, <2>5, <2>6 DEF QueryOK, Current
  <2>8. cache' = [cache EXCEPT ![k] = q]
    BY <1>1, <2>3, <2>4 DEF QueryOK, Idle, CacheOK
  <2> QED BY <1>1, <1>2, <2>7, <2>8, ReplacedKeepsCache
<1> QED BY <1>3, <1>4 DEF Serve

\* Hearing an answer, or that it is lost.
LEMMA HearKeepsCache ==
  ASSUME CacheOK, NEW k \in DOMAIN cache, Hear(k)
  PROVE  CacheOK'
<1>1. PICK q : q = cache[k]
  OBVIOUS
<1>2. /\ Query(k) = q /\ QueryOK(k, q) /\ q.asked \in {"ok", "lost", "INVALID_CURSOR"}
      /\ k \in Observed(route, search) /\ (Owes(k) => Current(q))
  BY <1>1 DEF CacheOK, Query, Hear
<1>3. UNCHANGED <<rows, known, route, search>>
  BY DEF Hear, serverVars
<1>4. /\ QueryOK(k, Cancelled(q)) /\ Cancelled(q).data = q.data /\ Cancelled(q).stale = q.stale
      /\ Cancelled(q).asked = "no" /\ Cancelled(q).reply = NoData
      /\ Cancelled(q).overtaken = q.overtaken
      /\ Current(q) => Current(Cancelled(q))
  BY <1>2, CancelledFacts
<1>5. PICK c : c = Cancelled(q)
  OBVIOUS
<1>6. PICK p : /\ cache' = [cache EXCEPT ![k] = p]
               /\ \/ q.asked = "ok" /\ p = [c EXCEPT !.data = q.reply, !.error = "none", !.stale = FALSE,
                                                    !.overtaken = (q.overtaken /\ q.data = NoData)]
                  \/ q.asked = "lost" /\ p = [q EXCEPT !.asked = "sent", !.failures = 1]
                  \/ p = [c EXCEPT !.error = q.asked]
  BY <1>2, <1>5 DEF Hear
<1>7. QueryOK(k, p) /\ (Owes(k) => Current(p))
  <2>1. CASE q.asked = "ok" /\ p = [c EXCEPT !.data = q.reply, !.error = "none", !.stale = FALSE,
                                                    !.overtaken = (q.overtaken /\ q.data = NoData)]
    <3>1. /\ p = [f \in DOMAIN Idle |-> p[f]] /\ p.data = q.reply /\ p.reply = NoData /\ p.asked = "no"
          /\ p.overtaken = (q.overtaken /\ q.data = NoData)
      BY <1>4, <1>5, <2>1 DEF QueryOK, Idle
    <3> QED BY <1>2, <2>1, <3>1, NoDataIsBatch DEF QueryOK, Current
  <2>2. CASE q.asked = "lost" /\ p = [q EXCEPT !.asked = "sent", !.failures = 1]
    <3>1. /\ p = [f \in DOMAIN Idle |-> p[f]] /\ p.data = q.data /\ p.reply = q.reply /\ p.asked = "sent"
          /\ p.stale = q.stale /\ p.overtaken = q.overtaken
      BY <1>2, <2>2 DEF QueryOK, Idle
    <3> QED BY <1>2, <3>1 DEF QueryOK, Current
  <2>3. CASE p = [c EXCEPT !.error = q.asked]
    <3>1. /\ p = [f \in DOMAIN Idle |-> p[f]] /\ p.data = q.data /\ p.reply = NoData /\ p.asked = "no"
          /\ p.stale = q.stale /\ p.overtaken = q.overtaken
      BY <1>4, <1>5, <2>3 DEF QueryOK, Idle
    <3> QED BY <1>2, <3>1, NoDataIsBatch DEF QueryOK, Current
  <2> QED BY <1>6, <2>1, <2>2, <2>3
<1> QED BY <1>2, <1>3, <1>6, <1>7, ReplacedKeepsCache

\* Fetching a list that is shown once more.
LEMMA RefetchKeepsCache ==
  ASSUME CacheOK, Refetch
  PROVE  CacheOK'
<1>1. PICK k \in Observed(route, search) : cache' = [cache EXCEPT ![k] = Asking(cache[k])]
  BY DEF Refetch
<1>2. UNCHANGED <<rows, known, route, search>>
  BY DEF Refetch, serverVars
<1>3. k \in DOMAIN cache /\ QueryOK(k, cache[k]) /\ (Owes(k) => Current(cache[k]))
  BY <1>1 DEF CacheOK
<1>4. QueryOK(k, Asking(cache[k])) /\ (Owes(k) => Current(Asking(cache[k])))
  BY <1>3, AskingFacts
<1> QED BY <1>1, <1>2, <1>3, <1>4, ReplacedKeepsCache

\* The overview asks for its lists once more.
LEMMA RetryKeepsCache ==
  ASSUME CacheOK, RetryDashboard
  PROVE  CacheOK'
<1>1. /\ cache' = [k \in DOMAIN cache |-> IF k \in dashboardKeys THEN Asking(cache[k]) ELSE cache[k]]
      /\ route = "dashboard" /\ UNCHANGED <<rows, known, route, search>>
  BY DEF RetryDashboard, serverVars
<1>2. Observed(route, search) = dashboardKeys
  BY <1>1 DEF dashboardKeys, Observed
<1>3. \A j : Owes(j)' <=> Owes(j)
  BY <1>1 DEF Owes, Managed
<1>4. /\ DOMAIN cache' = DOMAIN cache /\ cache' = [j \in DOMAIN cache' |-> cache'[j]]
      /\ \A j \in DOMAIN cache : cache'[j] = IF j \in dashboardKeys THEN Asking(cache[j]) ELSE cache[j]
  BY <1>1
<1>5. ASSUME NEW j \in DOMAIN cache
      PROVE  /\ QueryOK(j, cache'[j])
             /\ j \notin Observed(route, search) => cache'[j].asked = "no"
             /\ Owes(j) => Current(cache'[j])
  <2>1. /\ QueryOK(j, cache[j]) /\ (j \notin Observed(route, search) => cache[j].asked = "no")
        /\ (Owes(j) => Current(cache[j]))
    BY DEF CacheOK
  <2> QED BY <1>2, <1>4, <2>1, AskingFacts
<1> QED BY <1>1, <1>3, <1>4, <1>5 DEF CacheOK

\* Hearing of the creation: every list of the administrator is stale from then
\* on, and what was on the way to the one shown is dropped or marked.
LEMMA HearCreateKeepsCache ==
  ASSUME CacheOK, HearCreate
  PROVE  CacheOK'
<1>1. UNCHANGED <<rows, route, search>>
  BY DEF HearCreate, serverVars
<1>2. CASE create # "201"
  <2>1. cache' = cache /\ known' = known
    BY <1>2 DEF HearCreate
  <2>2. \A j : Owes(j)' => Owes(j)
    BY <1>1, <2>1 DEF Owes, Managed
  <2> QED BY <1>1, <2>1, <2>2, UntouchedKeepsCache
<1>3. CASE create = "201"
  <2>1. cache' = invalidateQueries
    BY <1>3 DEF HearCreate
  <2>2. /\ DOMAIN cache' = DOMAIN cache /\ cache' = [j \in DOMAIN cache' |-> cache'[j]]
        /\ \A j \in DOMAIN cache : cache'[j] =
               IF j.list # "admin" THEN cache[j]
               ELSE [IF j \in Observed(route, search) THEN Refetched(cache[j]) ELSE cache[j]
                        EXCEPT !.stale = TRUE]
    BY <2>1 DEF invalidateQueries
  <2>3. ASSUME NEW j \in DOMAIN cache
        PROVE  /\ QueryOK(j, cache'[j])
               /\ j \notin Observed(route, search) => cache'[j].asked = "no"
               /\ j.list = "admin" => Current(cache'[j])
    <3>1. QueryOK(j, cache[j]) /\ (j \notin Observed(route, search) => cache[j].asked = "no")
      BY DEF CacheOK
    <3>2. PICK p : p = cache'[j]
      OBVIOUS
    <3>3. CASE j.list # "admin"
      BY <2>2, <3>1, <3>3
    <3>4. CASE j.list = "admin" /\ j \in Observed(route, search)
      <4>1. PICK a : a = Refetched(cache[j])
        OBVIOUS
      <4>2. QueryOK(j, a) /\ (a.asked = "ok" => a.overtaken /\ a.data = NoData)
        <5>1. CASE cache[j].data = NoData /\ cache[j].asked # "no"
          <6>1. a = [cache[j] EXCEPT !.overtaken = (cache[j].asked = "ok")]
            BY <4>1, <5>1 DEF Refetched
          <6>2. /\ a = [f \in DOMAIN Idle |-> a[f]] /\ a.data = NoData /\ a.reply = cache[j].reply
                /\ a.asked = cache[j].asked /\ a.overtaken = (cache[j].asked = "ok")
            BY <3>1, <5>1, <6>1 DEF QueryOK, Idle
          <6> QED BY <3>1, <5>1, <6>2 DEF QueryOK
        <5>2. CASE ~(cache[j].data = NoData /\ cache[j].asked # "no")
          <6>1. a = Asking(cache[j])
            BY <4>1, <5>2 DEF Refetched
          <6> QED BY <3>1, <6>1, AskingFacts
        <5> QED BY <5>1, <5>2
      <4>3. p = [a EXCEPT !.stale = TRUE]
        BY <2>2, <3>2, <3>4, <4>1
      <4>4. /\ p = [f \in DOMAIN Idle |-> p[f]] /\ p.asked = a.asked /\ p.stale = TRUE
            /\ p.data = a.data /\ p.reply = a.reply /\ p.overtaken = a.overtaken
        BY <4>2, <4>3 DEF QueryOK, Idle
      <4> QED BY <3>2, <3>4, <4>2, <4>4 DEF QueryOK, Current
    <3>5. CASE j.list = "admin" /\ j \notin Observed(route, search)
      <4>1. p = [cache[j] EXCEPT !.stale = TRUE]
        BY <2>2, <3>2, <3>5
      <4>2. p = [f \in DOMAIN Idle |-> p[f]] /\ p.asked = "no" /\ p.stale = TRUE
        BY <3>1, <3>5, <4>1 DEF QueryOK, Idle
      <4> QED BY <3>2, <3>5, <4>2 DEF QueryOK, Current
    <3> QED BY <3>3, <3>4, <3>5
  <2>4. \A j : Owes(j)' => j.list = "admin"
    BY DEF Owes
  <2> QED BY <1>1, <2>2, <2>3, <2>4 DEF CacheOK
<1> QED BY <1>2, <1>3

\* Creating a problem: nobody knows of it yet.
LEMMA ServeCreateKeeps ==
  ASSUME RowsOK, CacheOK, CreationOK, ServeCreate
  PROVE  RowsOK' /\ CacheOK' /\ CreationOK'
<1>1. UNCHANGED <<route, search, cache, known>> /\ Created \in Problems
  BY ListsAssumption DEF ServeCreate
<1>2. CASE Taken
  <2>1. UNCHANGED <<rows, clock>> /\ create' = "409"
    BY <1>2 DEF ServeCreate, serverVars
  <2>2. \A j : Owes(j)' => Owes(j)
    BY <1>1, <2>1 DEF Owes, Managed
  <2> QED BY <1>1, <2>1, <2>2, UntouchedKeepsCache DEF RowsOK, CreationOK
<1>3. CASE ~Taken
  <2>1. PICK rw : rw = [visibility |-> "PRIVATE", status |-> "ACTIVE", updated |-> clock + 1]
    OBVIOUS
  <2>2. clock' = clock + 1 /\ rows' = [rows EXCEPT ![Created] = rw]
    BY <1>3, <2>1 DEF ServeCreate
  <2>3. rw \in Row /\ rw.status = "ACTIVE" /\ clock + 1 \in Nat
    BY <2>1 DEF RowsOK, Row
  <2>4. rows' \in [Problems -> Row] /\ rows'[Created] = rw
    BY <1>1, <2>2, <2>3 DEF RowsOK
  <2>5. ~known
    BY <1>3 DEF CreationOK, Taken
  <2>6. \A j : Owes(j)' => Owes(j)
    BY <1>1, <2>5 DEF Owes
  <2> QED BY <1>1, <2>2, <2>3, <2>4, <2>6, UntouchedKeepsCache DEF RowsOK, CreationOK
<1> QED BY <1>2, <1>3

\* Others change a problem: it may leave a list, and never comes back to one.
LEMMA OthersKeep ==
  ASSUME RowsOK, CacheOK, CreationOK, Others
  PROVE  RowsOK' /\ CacheOK' /\ CreationOK'
<1>1. PICK id \in Problems :
         /\ rows[id].status = "ACTIVE" /\ clock' = clock + 1
         /\ \/ rows' = [rows EXCEPT ![id].updated = clock + 1]
            \/ rows' = [rows EXCEPT ![id].updated = clock + 1,
                           ![id].visibility = IF rows[id].visibility = "PUBLIC" THEN "PRIVATE" ELSE "PUBLIC"]
            \/ rows' = [rows EXCEPT ![id].updated = clock + 1, ![id].status = "ARCHIVED"]
         /\ UNCHANGED <<route, search, cache, create, known>>
  BY DEF Others
<1>2. PICK t : t = clock + 1
  OBVIOUS
<1>3. t \in Nat /\ rows[id] \in Row /\ Created \in Problems
  BY <1>1, <1>2, ListsAssumption DEF RowsOK
<1>4. \E rw \in Row : rows' = [rows EXCEPT ![id] = rw] /\ rw.status \in {"ACTIVE", "ARCHIVED"}
  <2>1. CASE rows' = [rows EXCEPT ![id].updated = clock + 1]
    <3>1. PICK rw : rw = [rows[id] EXCEPT !.updated = t]
      OBVIOUS
    <3>2. rw \in Row /\ rw.status = "ACTIVE"
      BY <1>1, <1>3, <3>1 DEF Row
    <3>3. rows' = [rows EXCEPT ![id] = rw]
      BY <1>2, <1>3, <2>1, <3>1 DEF RowsOK, Row
    <3> QED BY <3>2, <3>3
  <2>2. CASE rows' = [rows EXCEPT ![id].updated = clock + 1,
                        ![id].visibility = IF rows[id].visibility = "PUBLIC" THEN "PRIVATE" ELSE "PUBLIC"]
    <3>1. PICK v : v = IF rows[id].visibility = "PUBLIC" THEN "PRIVATE" ELSE "PUBLIC"
      OBVIOUS
    <3>2. PICK rw : rw = [rows[id] EXCEPT !.updated = t, !.visibility = v]
      OBVIOUS
    <3>3. rw \in Row /\ rw.status = "ACTIVE"
      BY <1>1, <1>3, <3>1, <3>2 DEF Row
    <3>4. rows' = [rows EXCEPT ![id] = rw]
      BY <1>2, <1>3, <2>2, <3>1, <3>2 DEF RowsOK, Row
    <3> QED BY <3>3, <3>4
  <2>3. CASE rows' = [rows EXCEPT ![id].updated = clock + 1, ![id].status = "ARCHIVED"]
    <3>1. PICK rw : rw = [rows[id] EXCEPT !.updated = t, !.status = "ARCHIVED"]
      OBVIOUS
    <3>2. rw \in Row /\ rw.status = "ARCHIVED"
      BY <1>3, <3>1 DEF Row
    <3>3. rows' = [rows EXCEPT ![id] = rw]
      BY <1>2, <1>3, <2>3, <3>1 DEF RowsOK, Row
    <3> QED BY <3>2, <3>3
  <2> QED BY <1>1, <2>1, <2>2, <2>3
<1>5. PICK rw \in Row : rows' = [rows EXCEPT ![id] = rw] /\ rw.status \in {"ACTIVE", "ARCHIVED"}
  BY <1>4
<1>6. RowsOK'
  BY <1>1, <1>2, <1>3, <1>5 DEF RowsOK
<1>7. \/ rows'[Created].status = rows[Created].status
      \/ rows[Created].status = "ACTIVE" /\ rows'[Created].status \in {"ACTIVE", "ARCHIVED"}
  <2>1. CASE id = Created
    <3>1. rows'[Created] = rw
      BY <1>3, <1>5, <2>1 DEF RowsOK
    <3> QED BY <1>1, <1>5, <2>1, <3>1
  <2>2. CASE id # Created
    BY <1>3, <1>5, <2>2 DEF RowsOK
  <2> QED BY <2>1, <2>2
<1>8. CreationOK'
  BY <1>1, <1>7 DEF CreationOK
<1>9. ASSUME NEW j, Owes(j)'
      PROVE  Owes(j)
  <2>1. /\ known /\ j.list = "admin" /\ j.filter.status # "ARCHIVED" /\ rows'[Created].status # "none"
        /\ j.filter.status \in {"ALL", rows'[Created].status} /\ j.filter.text \in {"", Kind[Created].text}
    BY <1>1, <1>9 DEF Owes, Managed
  <2>2. rows[Created].status # "none" /\ j.filter.status \in {"ALL", rows[Created].status}
    BY <1>7, <2>1
  <2> QED BY <1>3, <2>1, <2>2 DEF Owes, Managed
<1> QED BY <1>1, <1>6, <1>8, <1>9, UntouchedKeepsCache

-----------------------------------------------------------------------------
(* The walk. *)

\* A cursor behind another one leaves less to go.
LEMMA AfterIsTransitive ==
  ASSUME NEW sort, NEW x \in Nat, NEW id \in Nat, NEW c, CursorOK(c), c # NoCursor, NEW d, CursorOK(d),
         After(sort, x, id, c), After(sort, c.key, c.id, d)
  PROVE  After(sort, x, id, d)
<1>1. CASE d = NoCursor
  BY <1>1 DEF After
<1>2. CASE d # NoCursor /\ sort = "UPDATED_DESC"
  BY <1>2 DEF After, CursorOK
<1>3. CASE d # NoCursor /\ sort # "UPDATED_DESC"
  BY <1>3 DEF After, CursorOK
<1> QED BY <1>1, <1>2, <1>3

\* A walk that nobody goes on with.
LEMMA WalkStays ==
  ASSUME walk \in Seq(Range(walk)), WalkOK, walk' = walk,
         (route' = route /\ search' = search) \/ route' # "catalog"
  PROVE  (walk \in Seq(Range(walk)))' /\ WalkOK'
BY DEF WalkOK

\* A new search starts at the first batch.
LEMMA WalkRestarts ==
  ASSUME walk' = <<>>, search'.list = "catalog", search'.cursor = NoCursor
  PROVE  (walk \in Seq(Range(walk)))' /\ WalkOK'
<1>1. walk' \in Seq(Range(walk')) /\ 1..Len(walk') = {}
  OBVIOUS
<1> QED BY <1>1 DEF WalkOK

\* The next batch is offered when there is more behind this one.
LEMMA NextIsOffered ==
  ASSUME "next" \in pagination
  PROVE  Query(search).data.more
BY DEF pagination

\* The next batch begins where this one ends: what is between the two cursors
\* is in this one and in no other.
LEMMA WalkGoesOn ==
  ASSUME CacheOK, walk \in Seq(Range(walk)), WalkOK, NextBatch
  PROVE  /\ (walk \in Seq(Range(walk)))' /\ WalkOK'
         /\ KeyOK(CatalogKey(search.filter, search.sort, Query(search).data.next))
<1>1. route = "catalog" /\ search.list = "catalog" /\ search \in DOMAIN cache
  BY DEF NextBatch, WalkOK, CacheOK, Observed
<1>2. PICK b : b = Query(search).data
  OBVIOUS
<1>3. PICK k : k = search
  OBVIOUS
<1>4. k.sort \in Sorts /\ CursorOK(k.cursor) /\ BatchOK(k, b)
  BY <1>1, <1>2, <1>3 DEF CacheOK, QueryOK, Query
<1>5. b.more
  BY <1>2, NextIsOffered DEF NextBatch
<1>6. /\ CursorOK(b.next) /\ b.next.sort = k.sort /\ b.next.filter = k.filter /\ b.next # NoCursor
      /\ After(k.sort, b.next.key, b.next.id, k.cursor)
  BY <1>4, <1>5 DEF BatchOK, NoCursor, Sorts
<1>7. PICK s : s = CatalogKey(k.filter, k.sort, b.next)
  OBVIOUS
<1>8. s.list = "catalog" /\ s.sort = k.sort /\ s.cursor = b.next /\ s.filter = k.filter
  BY <1>7 DEF CatalogKey
<1>9. KeyOK(s)
  BY <1>4, <1>6, <1>8 DEF KeyOK, decode
<1>10. route' = "catalog" /\ search' = s /\ walk' = Append(walk, b)
  BY <1>2, <1>3, <1>7 DEF NextBatch, Goes
<1>11. PICK S : S = Range(walk)
  OBVIOUS
<1>12. PICK n \in Nat : n = Len(walk)
  BY <1>11
<1>13. /\ walk' \in Seq(S \cup {b}) /\ Len(walk') = n + 1 /\ walk'[n + 1] = b
       /\ \A i \in 1..n : walk'[i] = walk[i]
  BY <1>10, <1>11, <1>12
<1>14. (walk \in Seq(Range(walk)))'
  <2>1. \A i \in 1..Len(walk') : walk'[i] \in Range(walk')
    BY <1>13 DEF Range
  <2>2. walk' = [i \in 1..Len(walk') |-> walk'[i]]
    BY <1>13
  <2> QED BY <1>12, <1>13, <2>1, <2>2
<1>15. ASSUME NEW rw, \A i \in 1..(n + 1) : rw \in walk'[i].all
       PROVE  /\ rw.id \in Problems /\ rw.updated \in Nat
              /\ IF Behind(s.sort, rw, s.cursor)
                 THEN \A i \in 1..(n + 1) : rw.id \notin Range(walk'[i].items)
                 ELSE \E i \in 1..(n + 1) :
                          /\ rw.id \in Range(walk'[i].items)
                          /\ \A j \in 1..(n + 1) \ {i} : rw.id \notin Range(walk'[j].items)
  <2>1. rw \in b.all /\ \A i \in 1..n : rw \in walk[i].all
    <3>1. n + 1 \in 1..(n + 1) /\ \A i \in 1..n : i \in 1..(n + 1)
      BY <1>12
    <3> QED BY <1>13, <1>15, <3>1
  <2>2. /\ rw.id \in Problems /\ rw.updated \in Nat
        /\ rw.id \in Range(b.items) <=> Behind(k.sort, rw, k.cursor) /\ ~Behind(k.sort, rw, b.next)
    BY <1>4, <1>5, <2>1 DEF BatchOK
  <2>3. Behind(k.sort, rw, b.next) => Behind(k.sort, rw, k.cursor)
    <3>1. PICK x : x = IF k.sort = "TITLE_ASC" THEN Title[rw.id] ELSE rw.updated
      OBVIOUS
    <3>2. x \in Nat /\ rw.id \in Nat
      BY <2>2, <3>1, ListsAssumption
    <3>3. PICK sort, c, d : sort = k.sort /\ c = b.next /\ d = k.cursor
      OBVIOUS
    <3>4. After(sort, x, rw.id, c) => After(sort, x, rw.id, d)
      BY <1>4, <1>6, <3>2, <3>3, AfterIsTransitive
    <3> QED BY <3>1, <3>3, <3>4 DEF Behind
  <2>4. ASSUME Behind(k.sort, rw, k.cursor)
        PROVE  \A i \in 1..n : rw.id \notin Range(walk[i].items)
    <3> SUFFICES ASSUME NEW i \in 1..n
                 PROVE  rw.id \notin Range(walk[i].items)
      OBVIOUS
    <3>1. rw \in UNION {walk[j].all : j \in 1..Len(walk)}
      BY <1>12, <2>1
    <3> QED BY <1>1, <1>3, <1>12, <2>1, <2>4, <3>1 DEF WalkOK
  <2>5. ASSUME ~Behind(k.sort, rw, k.cursor)
        PROVE  \E i \in 1..n : /\ rw.id \in Range(walk[i].items)
                               /\ \A j \in 1..n \ {i} : rw.id \notin Range(walk[j].items)
    <3>1. k.cursor # NoCursor
      BY <2>5 DEF Behind, After
    <3>2. walk # <<>>
      BY <1>1, <1>3, <3>1 DEF WalkOK
    <3>3. n # 0 /\ 1 \in 1..n
      BY <1>12, <3>2
    <3>4. rw \in UNION {walk[j].all : j \in 1..Len(walk)}
      BY <1>12, <2>1, <3>3
    <3> QED BY <1>1, <1>3, <1>12, <2>1, <2>5, <3>4 DEF WalkOK
  <2>6. 1..(n + 1) = 1..n \cup {n + 1} /\ n + 1 \notin 1..n
    BY <1>12
  <2>7. CASE Behind(k.sort, rw, b.next)
    BY <1>8, <1>13, <2>2, <2>3, <2>4, <2>6, <2>7
  <2>8. CASE ~Behind(k.sort, rw, b.next) /\ Behind(k.sort, rw, k.cursor)
    <3>1. rw.id \in Range(walk'[n + 1].items) /\ \A j \in 1..(n + 1) \ {n + 1} : rw.id \notin Range(walk'[j].items)
      BY <1>13, <2>2, <2>4, <2>6, <2>8
    <3> QED BY <1>8, <2>2, <2>6, <2>8, <3>1
  <2>9. CASE ~Behind(k.sort, rw, b.next) /\ ~Behind(k.sort, rw, k.cursor)
    <3>1. PICK i \in 1..n : /\ rw.id \in Range(walk[i].items)
                            /\ \A j \in 1..n \ {i} : rw.id \notin Range(walk[j].items)
      BY <2>5, <2>9
    <3>2. i \in 1..(n + 1) /\ rw.id \in Range(walk'[i].items)
      BY <1>13, <2>6, <3>1
    <3>3. \A j \in 1..(n + 1) \ {i} : rw.id \notin Range(walk'[j].items)
      BY <1>13, <2>2, <2>6, <2>9, <3>1
    <3> QED BY <1>8, <2>2, <2>9, <3>2, <3>3
  <2> QED BY <2>7, <2>8, <2>9
<1>16. walk' # <<>>
  BY <1>12, <1>13
<1>17. WalkOK'
  BY <1>8, <1>10, <1>13, <1>15, <1>16 DEF WalkOK
<1> QED BY <1>2, <1>3, <1>7, <1>9, <1>14, <1>17

-----------------------------------------------------------------------------
(* The steps. *)

\* Another search of the catalogue.
LEMMA SearchKeeps ==
  ASSUME ListsIInv, NEW s, Goes("catalog", s), s.list = "catalog", s.sort \in Sorts, s.cursor = NoCursor,
         walk' = <<>>, UNCHANGED catalogVars
  PROVE  ListsIInv'
<1>1. PICK r : r = "catalog"
  OBVIOUS
<1>2. \A k \in Observed(r, s) : KeyOK(k)
  <2>1. KeyOK(s)
    BY DEF KeyOK, CursorOK, NoCursor, decode
  <2> QED BY <1>1, <2>1, ObservedKeys
<1>3. CacheOK /\ UNCHANGED <<rows, known>> /\ Goes(r, s)
  BY <1>1 DEF ListsIInv, catalogVars, serverVars
<1>4. CacheOK' /\ search' = s
  BY <1>2, <1>3, GoesKeepsCache
<1>5. (walk \in Seq(Range(walk)))' /\ WalkOK'
  BY <1>4, WalkRestarts
<1>6. RowsOK' /\ CreationOK'
  BY DEF ListsIInv, RowsOK, CreationOK, catalogVars, serverVars
<1> QED BY <1>4, <1>5, <1>6 DEF ListsIInv

\* Another page of the administrator.
LEMMA AdminKeeps ==
  ASSUME ListsIInv, NEW r, r # "catalog", NEW s, Goes(r, s), \A k \in Observed(r, s) : KeyOK(k),
         UNCHANGED <<rows, clock, walk, known>>, create' = create \/ create' = "none"
  PROVE  ListsIInv'
<1>1. CacheOK' /\ route' = r /\ search' = s
  BY GoesKeepsCache DEF ListsIInv
<1>2. (walk \in Seq(Range(walk)))' /\ WalkOK'
  BY <1>1, WalkStays DEF ListsIInv
<1>3. RowsOK' /\ CreationOK'
  BY DEF ListsIInv, RowsOK, CreationOK
<1> QED BY <1>1, <1>2, <1>3 DEF ListsIInv

\* The search on the screen is one that may be asked for.
LEMMA SearchIsGood ==
  ASSUME ListsIInv
  PROVE  route = "catalog" => /\ search.list = "catalog" /\ search.sort \in Sorts
                              /\ search \in DOMAIN cache
BY DEF ListsIInv, WalkOK, CacheOK, QueryOK, Observed

\* The controls of the catalogue.
LEMMA CatalogKeeps ==
  ASSUME ListsIInv, ChooseFilter \/ ChooseSort \/ clearFilters \/ FirstBatch \/ NextBatch
  PROVE  ListsIInv'
<1>1. CASE ChooseFilter
  <2>1. PICK f, v : Goes("catalog", Filtered([search.filter EXCEPT ![f] = v]))
    BY <1>1 DEF ChooseFilter
  <2>2. PICK s : s = Filtered([search.filter EXCEPT ![f] = v])
    OBVIOUS
  <2>3. s.list = "catalog" /\ s.sort \in Sorts /\ s.cursor = NoCursor
    BY <1>1, <2>2, SearchIsGood DEF ChooseFilter, Filtered, CatalogKey
  <2>4. walk' = <<>> /\ UNCHANGED catalogVars
    BY <1>1 DEF ChooseFilter
  <2> QED BY <2>1, <2>2, <2>3, <2>4, SearchKeeps
<1>2. CASE ChooseSort
  <2>1. PICK o \in Sorts : Goes("catalog", CatalogKey(search.filter, o, NoCursor))
    BY <1>2 DEF ChooseSort
  <2>2. PICK s : s = CatalogKey(search.filter, o, NoCursor)
    OBVIOUS
  <2>3. s.list = "catalog" /\ s.sort \in Sorts /\ s.cursor = NoCursor
    BY <2>1, <2>2 DEF CatalogKey
  <2>4. walk' = <<>> /\ UNCHANGED catalogVars
    BY <1>2 DEF ChooseSort
  <2> QED BY <2>1, <2>2, <2>3, <2>4, SearchKeeps
<1>3. CASE clearFilters
  <2>1. Goes("catalog", FirstSearch) /\ walk' = <<>> /\ UNCHANGED catalogVars
    BY <1>3 DEF clearFilters
  <2>2. FirstSearch.list = "catalog" /\ FirstSearch.sort \in Sorts /\ FirstSearch.cursor = NoCursor
    BY DEF FirstSearch, CatalogKey, Sorts
  <2> QED BY <2>1, <2>2, SearchKeeps
<1>4. CASE FirstBatch
  <2>1. PICK s : s = Filtered(search.filter)
    OBVIOUS
  <2>2. s.list = "catalog" /\ s.sort \in Sorts /\ s.cursor = NoCursor
    BY <1>4, <2>1, SearchIsGood DEF FirstBatch, Filtered, CatalogKey
  <2>3. Goes("catalog", s) /\ walk' = <<>> /\ UNCHANGED catalogVars
    BY <1>4, <2>1 DEF FirstBatch
  <2> QED BY <2>2, <2>3, SearchKeeps
<1>5. CASE NextBatch
  <2>1. PICK s : s = CatalogKey(search.filter, search.sort, Query(search).data.next)
    OBVIOUS
  <2>2. KeyOK(s) /\ (walk \in Seq(Range(walk)))' /\ WalkOK'
    BY <1>5, <2>1, WalkGoesOn DEF ListsIInv
  <2>3. PICK r : r = "catalog"
    OBVIOUS
  <2>4. Goes(r, s) /\ UNCHANGED <<rows, known>> /\ CacheOK
    BY <1>5, <2>1, <2>3 DEF NextBatch, ListsIInv, catalogVars, serverVars
  <2>5. \A k \in Observed(r, s) : KeyOK(k)
    BY <2>2, <2>3, ObservedKeys
  <2>6. CacheOK'
    BY <2>4, <2>5, GoesKeepsCache
  <2>7. RowsOK' /\ CreationOK'
    BY <1>5 DEF NextBatch, ListsIInv, RowsOK, CreationOK, catalogVars, serverVars
  <2> QED BY <2>2, <2>6, <2>7 DEF ListsIInv
<1> QED BY <1>1, <1>2, <1>3, <1>4, <1>5

\* The administrator goes to another list or page.
LEMMA NavigationKeeps ==
  ASSUME ListsIInv, ChooseList \/ Navigate \/ FinishCreate
  PROVE  ListsIInv'
<1>1. CASE ChooseList
  <2>1. PICK text, status, page : Goes("list", AdminKey(text, status, page))
    BY <1>1 DEF ChooseList
  <2>2. PICK r, s : r = "list" /\ s = AdminKey(text, status, page)
    OBVIOUS
  <2>3. \A k \in Observed(r, s) : KeyOK(k)
    BY <2>2, ObservedKeys
  <2>4. UNCHANGED <<rows, clock, walk, known, create>>
    BY <1>1 DEF ChooseList, adminVars, serverVars
  <2> QED BY <2>1, <2>2, <2>3, <2>4, AdminKeeps
<1>2. CASE Navigate
  <2>1. UNCHANGED <<rows, clock, walk, known, create>>
    BY <1>2 DEF Navigate, adminVars, serverVars
  <2>2. \/ Goes("list", AdminKey("", "ALL", 1)) \/ Goes("dashboard", DashboardKey) \/ Goes("workbench", search)
    BY <1>2 DEF Navigate
  <2>3. PICK r, s : /\ Goes(r, s)
                    /\ \/ (r = "list" /\ s = AdminKey("", "ALL", 1))
                       \/ r \in {"dashboard", "workbench"}
    BY <2>2
  <2>4. r # "catalog" /\ \A k \in Observed(r, s) : KeyOK(k)
    BY <2>3, ObservedKeys
  <2> QED BY <2>1, <2>3, <2>4, AdminKeeps
<1>3. CASE FinishCreate
  <2>1. UNCHANGED <<rows, clock, walk, known>> /\ create' = "none" /\ Goes("workbench", search)
    BY <1>3 DEF FinishCreate, serverVars
  <2>2. PICK r, s : r = "workbench" /\ s = search
    OBVIOUS
  <2>3. \A k \in Observed(r, s) : KeyOK(k)
    BY <2>2, ObservedKeys
  <2> QED BY <2>1, <2>2, <2>3, AdminKeeps
<1> QED BY <1>1, <1>2, <1>3

\* A step that leaves the pages where they are.
LEMMA OnPageKeeps ==
  ASSUME ListsIInv, RowsOK', CacheOK', CreationOK', UNCHANGED <<route, search, walk>>
  PROVE  ListsIInv'
BY WalkStays DEF ListsIInv

\* The dialog touches no list.
LEMMA DialogKeeps ==
  ASSUME ListsIInv, UNCHANGED <<rows, clock, route, search, cache, walk, known>>, create' = create \/ create' = "sent"
  PROVE  ListsIInv'
<1>1. \A k : Owes(k)' => Owes(k)
  BY DEF Owes, Managed
<1>2. CacheOK'
  BY <1>1, UntouchedKeepsCache DEF ListsIInv
<1>3. RowsOK' /\ CreationOK'
  BY DEF ListsIInv, RowsOK, CreationOK
<1> QED BY <1>2, <1>3, OnPageKeeps

\* The first page.
LEMMA ListsInitially ==
  ASSUME Init
  PROVE  ListsIInv
<1>1. RowsOK
  <2>1. PICK times \in [Problems \ {Created} -> 1..2] :
           rows = [id \in Problems |->
                     IF id = Created THEN [visibility |-> "PRIVATE", status |-> "none", updated |-> 0]
                     ELSE [visibility |-> "PUBLIC", status |-> "ACTIVE", updated |-> times[id]]]
    BY DEF Init
  <2>2. \A id \in Problems : rows[id] \in Row
    BY <2>1 DEF Row
  <2>3. rows = [id \in Problems |-> rows[id]]
    BY <2>1
  <2> QED BY <2>2, <2>3 DEF RowsOK, Init
<1>2. \A k \in Observed(route, search) : KeyOK(k)
  <2>1. KeyOK(FirstSearch)
    BY DEF KeyOK, FirstSearch, CatalogKey, Sorts, CursorOK, NoCursor, decode
  <2> QED BY <2>1, ObservedKeys DEF Init
<1>3. CacheOK
  <2>1. /\ DOMAIN cache = Observed(route, search) /\ cache = [k \in DOMAIN cache |-> cache[k]]
        /\ \A k \in DOMAIN cache : cache[k] = Asking(Idle)
    BY DEF Init
  <2>2. \A k \in DOMAIN cache : QueryOK(k, cache[k]) /\ ~Owes(k)
    BY <1>2, <2>1, IdleFacts, AskingFacts DEF Init, Owes
  <2> QED BY <2>1, <2>2 DEF CacheOK
<1>4. CreationOK
  BY DEF Init, CreationOK
<1>5. walk \in Seq(Range(walk)) /\ 1..Len(walk) = {} /\ walk = <<>>
  BY DEF Init
<1>6. WalkOK
  BY <1>5 DEF Init, WalkOK, FirstSearch, CatalogKey
<1> QED BY <1>1, <1>3, <1>4, <1>5, <1>6 DEF ListsIInv

\* Every step keeps the invariant.
LEMMA ListsStep ==
  ASSUME ListsIInv, [Next]_vars
  PROVE  ListsIInv'
<1>0. RowsOK /\ CacheOK /\ CreationOK
  BY DEF ListsIInv
<1>1. CASE \E k \in DOMAIN cache : Serve(k) \/ Hear(k)
  <2>1. PICK k \in DOMAIN cache : Serve(k) \/ Hear(k)
    BY <1>1
  <2>2. UNCHANGED <<rows, clock, route, search, walk, create, known>>
    BY <2>1 DEF Serve, Hear, serverVars
  <2>3. CacheOK'
    BY <1>0, <2>1, ServeKeepsCache, HearKeepsCache
  <2> QED BY <1>0, <2>2, <2>3, OnPageKeeps DEF RowsOK, CreationOK
<1>2. CASE Refetch \/ RetryDashboard
  <2>1. UNCHANGED <<rows, clock, route, search, walk, create, known>>
    BY <1>2 DEF Refetch, RetryDashboard, serverVars
  <2>2. CacheOK'
    BY <1>0, <1>2, RefetchKeepsCache, RetryKeepsCache
  <2> QED BY <1>0, <2>1, <2>2, OnPageKeeps DEF RowsOK, CreationOK
<1>3. CASE ChooseFilter \/ ChooseSort \/ clearFilters \/ FirstBatch \/ NextBatch
  BY <1>3, CatalogKeeps
<1>4. CASE ChooseList \/ Navigate \/ FinishCreate
  BY <1>4, NavigationKeeps
<1>5. CASE OpenDialog \/ CloseDialog \/ FillDialog \/ onSubmit
  <2>1. UNCHANGED <<rows, clock, route, search, cache, walk, known>> /\ (create' = create \/ create' = "sent")
    BY <1>5 DEF OpenDialog, CloseDialog, FillDialog, onSubmit, serverVars
  <2> QED BY <2>1, DialogKeeps
<1>6. CASE ServeCreate
  <2>1. UNCHANGED <<route, search, walk>>
    BY <1>6 DEF ServeCreate
  <2> QED BY <1>0, <1>6, <2>1, ServeCreateKeeps, OnPageKeeps
<1>7. CASE HearCreate
  <2>1. UNCHANGED <<rows, clock, route, search, walk>>
    BY <1>7 DEF HearCreate, serverVars
  <2>2. create' # "201" /\ (known' => known \/ create = "201")
    BY <1>7 DEF HearCreate
  <2>3. RowsOK' /\ CreationOK'
    BY <1>0, <2>1, <2>2 DEF RowsOK, CreationOK
  <2> QED BY <1>0, <1>7, <2>1, <2>3, HearCreateKeepsCache, OnPageKeeps
<1>8. CASE Others
  <2>1. UNCHANGED <<route, search, walk>>
    BY <1>8 DEF Others
  <2> QED BY <1>0, <1>8, <2>1, OthersKeep, OnPageKeeps
<1>9. CASE UNCHANGED vars
  <2>1. UNCHANGED <<rows, clock, route, search, cache, walk, known, create>>
    BY <1>9 DEF vars, serverVars
  <2> QED BY <2>1, DialogKeeps
<1> QED BY <1>1, <1>2, <1>3, <1>4, <1>5, <1>6, <1>7, <1>8, <1>9 DEF Next

\* The batches of a walk that came to its end make up one list.
LEMMA WalkIsSoundNow ==
  ASSUME ListsIInv
  PROVE  WalkIsSound
<1>1. CursorIsOfSearch
  BY DEF ListsIInv, CacheOK, QueryOK, CursorIsOfSearch
<1>2. WalkIsComplete
  <2>1. PICK k, b, n : k = search /\ b = Query(search).data /\ n = Len(walk)
    OBVIOUS
  <2>2. PICK w : w = Append(walk, b)
    OBVIOUS
  <2>3. /\ n \in Nat /\ Len(w) = n + 1 /\ w[n + 1] = b /\ \A i \in 1..n : w[i] = walk[i]
    BY <2>1, <2>2 DEF ListsIInv
  <2>4. 1..(n + 1) = 1..n \cup {n + 1} /\ n + 1 \notin 1..n
    BY <2>3
  <2>5. ASSUME route = "catalog", ~b.more, NEW rw \in b.all, \A i \in 1..(n + 1) : rw \in w[i].all
        PROVE  Cardinality({i \in 1..(n + 1) : rw.id \in Range(w[i].items)}) = 1
    <3>1. search \in DOMAIN cache /\ search.list = "catalog"
      BY <2>5, SearchIsGood
    <3>2. BatchOK(k, b)
      BY <2>1, <3>1 DEF ListsIInv, CacheOK, QueryOK, Query
    <3>3. rw.id \in Range(b.items) <=> Behind(k.sort, rw, k.cursor)
      BY <2>5, <3>2 DEF BatchOK
    <3>4. \A i \in 1..n : rw \in walk[i].all
      BY <2>3, <2>4, <2>5
    <3>5. \E i \in 1..(n + 1) : /\ rw.id \in Range(w[i].items)
                                /\ \A j \in 1..(n + 1) \ {i} : rw.id \notin Range(w[j].items)
      <4>1. CASE Behind(k.sort, rw, k.cursor)
        <5>1. ASSUME NEW i \in 1..n
              PROVE  rw.id \notin Range(walk[i].items)
          <6>1. rw \in UNION {walk[j].all : j \in 1..Len(walk)}
            BY <2>1, <3>4, <5>1
          <6> QED BY <2>1, <2>5, <3>4, <4>1, <5>1, <6>1 DEF ListsIInv, WalkOK
        <5>2. rw.id \in Range(w[n + 1].items) /\ \A j \in 1..(n + 1) \ {n + 1} : rw.id \notin Range(w[j].items)
          BY <2>3, <2>4, <3>3, <4>1, <5>1
        <5> QED BY <2>4, <5>2
      <4>2. CASE ~Behind(k.sort, rw, k.cursor)
        <5>1. k.cursor # NoCursor
          BY <4>2 DEF Behind, After
        <5>2. walk # <<>>
          BY <2>1, <2>5, <5>1 DEF ListsIInv, WalkOK
        <5>3. 1 \in 1..n
          BY <2>1, <2>3, <5>2 DEF ListsIInv
        <5>4. rw \in UNION {walk[j].all : j \in 1..Len(walk)}
          BY <2>1, <3>4, <5>3
        <5>5. PICK i \in 1..n : /\ rw.id \in Range(walk[i].items)
                                /\ \A j \in 1..n \ {i} : rw.id \notin Range(walk[j].items)
          BY <2>1, <2>5, <3>4, <4>2, <5>4 DEF ListsIInv, WalkOK
        <5>6. /\ i \in 1..(n + 1) /\ rw.id \in Range(w[i].items)
              /\ \A j \in 1..(n + 1) \ {i} : rw.id \notin Range(w[j].items)
          BY <2>3, <2>4, <3>3, <4>2, <5>5
        <5> QED BY <5>6
      <4> QED BY <4>1, <4>2
    <3>6. PICK i \in 1..(n + 1) : {j \in 1..(n + 1) : rw.id \in Range(w[j].items)} = {i}
      BY <3>5
    <3> QED BY <3>6, FS_Singleton
  <2> QED BY <2>1, <2>2, <2>3, <2>5 DEF WalkIsComplete
<1> QED BY <1>1, <1>2 DEF WalkIsSound

\* For any problems, titles and batch size, and however often others change
\* problems: a cursor is only sent with the search it was made for, and a walk
\* through the catalogue shows every problem that stayed as it was exactly
\* once (findPublicProblems and problem-list-page.tsx).
THEOREM WalksAreSound == Spec => []WalkIsSound
<1>1. Init => ListsIInv
  BY ListsInitially
<1>2. ListsIInv /\ [Next]_vars => ListsIInv'
  BY ListsStep
<1>3. ListsIInv => WalkIsSound
  BY WalkIsSoundNow
<1> QED BY <1>1, <1>2, <1>3, PTL DEF Spec

\* Once the client knows that a problem was created, no list of the
\* administrator in which it belongs is taken as current without it
\* (admin-problem-create-dialog.tsx with the queries it invalidates), unless
\* its first answer was computed before the creation and arrived after it.
THEOREM CreatedIsNeverHidden == Spec => []NoListHidesTheCreated
<1>1. Init => ListsIInv
  BY ListsInitially
<1>2. ListsIInv /\ [Next]_vars => ListsIInv'
  BY ListsStep
<1>3. ListsIInv => NoListHidesTheCreated
  BY DEF ListsIInv, CacheOK, Owes, Current, Shows, NoListHidesTheCreated
<1> QED BY <1>1, <1>2, <1>3, PTL DEF Spec

-----------------------------------------------------------------------------
(* BlobStore *)

\* Every non-empty set of numbers has a least one.
LEMMA LeastNumber ==
  ASSUME NEW N, N \subseteq Nat, N # {}
  PROVE  \E n \in N : \A m \in N : n <= m
<1>1. PICK n \in N : \A m \in N : ~(<<m, n>> \in OpToRel(<, Nat))
  BY NatLessThanWellFounded, WFMin
<1>2. \A m \in N : ~(m < n)
  BY <1>1 DEF OpToRel
<1> QED BY <1>2

\* Every non-empty set of subsets of a finite set has a minimal one.
LEMMA MinimalSubset ==
  ASSUME NEW S, IsFiniteSet(S), NEW T, T \subseteq SUBSET S, T # {}
  PROVE  \E s \in T : \A t \in T : t \subseteq s => t = s
<1>1. IsWellFoundedOn(StrictSubsetOrdering(S), SUBSET S)
  BY FS_StrictSubsetOrderingWellFounded, FS_FiniteSubsetsOfFinite
<1>2. PICK s \in T : \A t \in T : ~(<<t, s>> \in StrictSubsetOrdering(S))
  BY <1>1, WFMin
<1>3. \A t \in T : t \subseteq s => t = s
  BY <1>2 DEF StrictSubsetOrdering
<1> QED BY <1>3

\* The element a fold takes first.
First(s) == CHOOSE x \in s : TRUE

\* g folds f over every subset of S.
IsFoldOf(g, f, S) ==
  \A s \in SUBSET S : g[s] = IF s = {} THEN 0 ELSE f[First(s)] + g[s \ {First(s)}]

\* A fold over a finite set exists: it is built level by level, the subsets
\* with one element more from those with one less.
LEMMA FoldExists ==
  ASSUME NEW S, IsFiniteSet(S), NEW f, \A x \in S : f[x] \in Nat
  PROVE  \E g \in [SUBSET S -> Nat] : IsFoldOf(g, f, S)
<1> DEFINE Level(n) == {s \in SUBSET S : Cardinality(s) <= n}
           Folded(g, n) ==
             \A s \in Level(n) : g[s] = IF s = {} THEN 0 ELSE f[First(s)] + g[s \ {First(s)}]
           Missing == {n \in Nat : ~\E g \in [Level(n) -> Nat] : Folded(g, n)}
<1>1. \A s \in SUBSET S : Cardinality(s) \in Nat /\ IsFiniteSet(s) /\ (Cardinality(s) = 0 <=> s = {})
  BY FS_Subset, FS_CardinalityType, FS_EmptySet
<1>2. \A s \in SUBSET S : s # {} => /\ First(s) \in s /\ First(s) \in S
                                    /\ s \ {First(s)} \in SUBSET S
                                    /\ Cardinality(s \ {First(s)}) = Cardinality(s) - 1
  BY <1>1, FS_RemoveElement DEF First
<1>3. Missing = {}
  <2> SUFFICES ASSUME Missing # {} PROVE FALSE
    OBVIOUS
  <2>1. PICK n \in Missing : \A m \in Missing : n <= m
    <3> HIDE DEF Missing
    <3>1. Missing \subseteq Nat
      BY DEF Missing
    <3> QED BY <3>1, LeastNumber
  <2>2. n # 0
    <3> SUFFICES ASSUME n = 0 PROVE FALSE
      OBVIOUS
    <3>1. \A s \in Level(n) : s = {}
      BY <1>1
    <3>2. [s \in Level(n) |-> 0] \in [Level(n) -> Nat] /\ Folded([s \in Level(n) |-> 0], n)
      BY <3>1
    <3> QED BY <3>2, <2>1
  <2>3. n - 1 \in Nat /\ n \in Nat /\ n - 1 \notin Missing
    <3>1. n \in Nat
      BY <2>1
    <3>2. n - 1 \in Missing => n <= n - 1
      BY <2>1
    <3> HIDE DEF Missing
    <3> QED BY <3>1, <3>2, <2>2
  <2>4. PICK g \in [Level(n - 1) -> Nat] : Folded(g, n - 1)
    BY <2>3
  <2> DEFINE h == [s \in Level(n) |-> IF s \in Level(n - 1) THEN g[s]
                                      ELSE f[First(s)] + g[s \ {First(s)}]]
  <2>5. \A s \in Level(n) : s # {} => s \ {First(s)} \in Level(n - 1)
    BY <1>1, <1>2, <2>3
  <2>6. \A s \in Level(n) : s = {} => s \in Level(n - 1)
    BY <1>1, <2>3
  <2>7. h \in [Level(n) -> Nat]
    <3> SUFFICES ASSUME NEW s \in Level(n), s \notin Level(n - 1)
                 PROVE  f[First(s)] + g[s \ {First(s)}] \in Nat
      BY <2>4
    <3>1. s # {} /\ First(s) \in S /\ g[s \ {First(s)}] \in Nat
      BY <1>2, <2>4, <2>5, <2>6
    <3> QED BY <3>1
  <2>8. Folded(h, n)
    <3> SUFFICES ASSUME NEW s \in Level(n)
                 PROVE  h[s] = IF s = {} THEN 0 ELSE f[First(s)] + h[s \ {First(s)}]
      OBVIOUS
    <3>1. CASE s = {}
      BY <3>1, <2>4, <2>6
    <3>2. CASE s # {}
      <4>1. s \ {First(s)} \in Level(n - 1) /\ s \ {First(s)} \in Level(n)
        BY <3>2, <2>5, <1>1, <2>3
      <4>2. h[s \ {First(s)}] = g[s \ {First(s)}]
        BY <4>1
      <4>3. h[s] = f[First(s)] + g[s \ {First(s)}]
        BY <2>4, <3>2
      <4> QED BY <4>2, <4>3, <3>2
    <3> QED BY <3>1, <3>2
  <2> QED BY <2>1, <2>7, <2>8
<1>4. Cardinality(S) \in Nat /\ Level(Cardinality(S)) = SUBSET S
  BY FS_Subset, FS_CardinalityType, <1>1
<1>5. PICK g \in [Level(Cardinality(S)) -> Nat] : Folded(g, Cardinality(S))
  BY <1>3, <1>4
<1> QED BY <1>4, <1>5 DEF IsFoldOf

\* The sum of the community modules is the value of such a fold.
LEMMA SumIsFold ==
  ASSUME NEW S, IsFiniteSet(S), NEW f, \A x \in S : f[x] \in Nat
  PROVE  \E g : IsFoldOf(g, f, S) /\ SumOver(f, S) = g[S]
<1> DEFINE Def(g) == [s \in SUBSET S |-> IF s = {} THEN 0 ELSE f[First(s)] + g[s \ {First(s)}]]
           iter == CHOOSE g : g = Def(g)
<1>1. PICK h \in [SUBSET S -> Nat] : IsFoldOf(h, f, S)
  BY FoldExists
<1>2. h = Def(h)
  BY <1>1 DEF IsFoldOf
<1>3. iter = Def(iter)
  BY <1>2
<1>4. IsFoldOf(iter, f, S)
  BY <1>3 DEF IsFoldOf
<1>5. SumOver(f, S) = iter[S]
  BY DEF SumOver, MapThenSumSet, MapThenFoldSet, First
<1> QED BY <1>4, <1>5

\* Whatever order it takes the elements in, a fold takes any of them out alike.
LEMMA FoldTakesAny ==
  ASSUME NEW S, IsFiniteSet(S), NEW f, \A x \in S : f[x] \in Nat,
         NEW g, IsFoldOf(g, f, S)
  PROVE  \A s \in SUBSET S : /\ g[s] \in Nat
                             /\ \A y \in s : g[s] = f[y] + g[s \ {y}]
<1> DEFINE Good(s) == g[s] \in Nat /\ \A y \in s : g[s] = f[y] + g[s \ {y}]
           Bad == {s \in SUBSET S : ~Good(s)}
<1> SUFFICES ASSUME Bad # {} PROVE FALSE
  OBVIOUS
<1>1. PICK s \in Bad : \A t \in Bad : t \subseteq s => t = s
  <2> HIDE DEF Bad
  <2>1. Bad \subseteq SUBSET S
    BY DEF Bad
  <2> QED BY <2>1, MinimalSubset
<1>2. s \in SUBSET S /\ ~Good(s)
  BY <1>1
<1>3. \A y \in s : s \ {y} \in SUBSET S /\ s \ {y} # s /\ s \ {y} \notin Bad
  BY <1>1, <1>2
<1>4. \A y \in s : Good(s \ {y})
  BY <1>3
<1>5. CASE s = {}
  <2>1. g[s] = 0
    BY <1>2, <1>5 DEF IsFoldOf
  <2> QED BY <1>2, <1>5, <2>1
<1>6. CASE s # {}
  <2> DEFINE x == First(s)
  <2>1. x \in s /\ x \in S /\ f[x] \in Nat
    BY <1>2, <1>6 DEF First
  <2>2. g[s] = f[x] + g[s \ {x}]
    BY <1>2, <1>6 DEF IsFoldOf
  <2> HIDE DEF x
  <2>3. g[s] \in Nat
    BY <1>4, <2>1, <2>2
  <2>4. ASSUME NEW y \in s, y # x PROVE g[s] = f[y] + g[s \ {y}]
    <3>1. y \in s \ {x} /\ x \in s \ {y} /\ (s \ {x}) \ {y} = (s \ {y}) \ {x}
      BY <2>1, <2>4
    <3>2. g[s \ {x}] = f[y] + g[(s \ {x}) \ {y}]
      BY <1>4, <2>1, <3>1
    <3>3. g[s \ {y}] = f[x] + g[(s \ {y}) \ {x}]
      BY <1>4, <2>4, <3>1
    <3>4. f[y] \in Nat /\ g[(s \ {x}) \ {y}] \in Nat
      <4>1. PICK r : r = (s \ {x}) \ {y}
        OBVIOUS
      <4>2. r \in SUBSET S /\ r # s /\ r \subseteq s
        BY <4>1, <1>2, <2>1
      <4>3. r \notin Bad
        BY <4>2, <1>1
      <4> QED BY <4>1, <4>2, <4>3, <1>2, <2>4
    <3> QED BY <2>1, <2>2, <3>1, <3>2, <3>3, <3>4
  <2> QED BY <1>2, <2>2, <2>3, <2>4
<1> QED BY <1>5, <1>6

\* A fold is determined by the values it adds.
LEMMA FoldIsUnique ==
  ASSUME NEW S, IsFiniteSet(S), NEW f, NEW g, IsFoldOf(g, f, S),
         NEW T, NEW e, NEW h, IsFoldOf(h, e, T),
         S \subseteq T, \A x \in S : f[x] = e[x]
  PROVE  g[S] = h[S]
<1> DEFINE Bad == {s \in SUBSET S : g[s] # h[s]}
<1> SUFFICES ASSUME Bad # {} PROVE FALSE
  OBVIOUS
<1>1. PICK s \in Bad : \A t \in Bad : t \subseteq s => t = s
  <2> HIDE DEF Bad
  <2>1. Bad \subseteq SUBSET S
    BY DEF Bad
  <2> QED BY <2>1, MinimalSubset
<1>2. s \in SUBSET S /\ s \in SUBSET T /\ g[s] # h[s]
  BY <1>1
<1>3. s # {}
  BY <1>2 DEF IsFoldOf
<1>4. First(s) \in s
  BY <1>3 DEF First
<1>5. s \ {First(s)} \in SUBSET S /\ s \ {First(s)} # s
  BY <1>2, <1>4
<1>6. g[s \ {First(s)}] = h[s \ {First(s)}]
  BY <1>1, <1>5
<1>7. g[s] = f[First(s)] + g[s \ {First(s)}] /\ h[s] = e[First(s)] + h[s \ {First(s)}]
  BY <1>2, <1>3 DEF IsFoldOf
<1> QED BY <1>2, <1>4, <1>6, <1>7

-----------------------------------------------------------------------------
(* What the proofs below use of sums. *)

\* A sum of nothing is zero.
LEMMA SumEmpty == ASSUME NEW f PROVE SumOver(f, {}) = 0
<1>1. PICK g : IsFoldOf(g, f, {}) /\ SumOver(f, {}) = g[{}]
  BY SumIsFold, FS_EmptySet
<1> QED BY <1>1 DEF IsFoldOf

\* A sum of numbers is a number.
LEMMA SumType ==
  ASSUME NEW S, IsFiniteSet(S), NEW f, \A x \in S : f[x] \in Nat
  PROVE  SumOver(f, S) \in Nat
<1>1. PICK g : IsFoldOf(g, f, S) /\ SumOver(f, S) = g[S]
  BY SumIsFold
<1> QED BY <1>1, FoldTakesAny

\* Equal summands, equal sums.
LEMMA SumSame ==
  ASSUME NEW S, IsFiniteSet(S), NEW f, NEW e,
         \A x \in S : f[x] \in Nat /\ f[x] = e[x]
  PROVE  SumOver(f, S) = SumOver(e, S)
<1>1. PICK g : IsFoldOf(g, f, S) /\ SumOver(f, S) = g[S]
  BY SumIsFold
<1>2. PICK h : IsFoldOf(h, e, S) /\ SumOver(e, S) = h[S]
  BY SumIsFold
<1> QED BY <1>1, <1>2, FoldIsUnique

\* One summand taken out of a sum.
LEMMA SumWithout ==
  ASSUME NEW S, IsFiniteSet(S), NEW f, \A x \in S : f[x] \in Nat, NEW y \in S
  PROVE  SumOver(f, S) = f[y] + SumOver(f, S \ {y})
<1> DEFINE R == S \ {y}
<1>1. IsFiniteSet(R) /\ R \subseteq S
  BY FS_RemoveElement
<1>2. PICK g : IsFoldOf(g, f, S) /\ SumOver(f, S) = g[S]
  BY SumIsFold
<1>3. PICK h : IsFoldOf(h, f, R) /\ SumOver(f, R) = h[R]
  BY <1>1, SumIsFold
<1>4. h[R] = g[R]
  <2> HIDE DEF R
  <2> QED BY <1>1, <1>2, <1>3, FoldIsUnique
<1>5. g[S] = f[y] + g[R]
  BY <1>2, FoldTakesAny
<1> QED BY <1>2, <1>3, <1>4, <1>5

\* One summand added to a sum.
LEMMA SumWith ==
  ASSUME NEW S, IsFiniteSet(S), NEW y, y \notin S, NEW f, \A x \in S \cup {y} : f[x] \in Nat
  PROVE  SumOver(f, S \cup {y}) = f[y] + SumOver(f, S)
<1>1. IsFiniteSet(S \cup {y}) /\ (S \cup {y}) \ {y} = S
  BY FS_AddElement
<1> QED BY <1>1, SumWithout

\* A sum splits at any subset.
LEMMA SumSplits ==
  ASSUME NEW S, IsFiniteSet(S), NEW f, \A x \in S : f[x] \in Nat, NEW T \in SUBSET S
  PROVE  SumOver(f, S) = SumOver(f, T) + SumOver(f, S \ T)
<1> DEFINE Bad == {t \in SUBSET S : SumOver(f, S) # SumOver(f, t) + SumOver(f, S \ t)}
<1> SUFFICES ASSUME Bad # {} PROVE FALSE
  OBVIOUS
<1>1. PICK t \in Bad : \A u \in Bad : u \subseteq t => u = t
  <2> HIDE DEF Bad
  <2>1. Bad \subseteq SUBSET S
    BY DEF Bad
  <2> QED BY <2>1, MinimalSubset
<1>2. t \in SUBSET S /\ SumOver(f, S) # SumOver(f, t) + SumOver(f, S \ t)
  BY <1>1
<1>3. SumOver(f, S) \in Nat
  BY SumType
<1>4. t # {}
  <2> SUFFICES ASSUME t = {} PROVE FALSE
    OBVIOUS
  <2>1. S \ t = S /\ SumOver(f, t) = 0
    BY SumEmpty
  <2> QED BY <1>2, <1>3, <2>1
<1>5. PICK y \in t : TRUE
  BY <1>4
<1>6. PICK u : u = t \ {y}
  OBVIOUS
<1>7. u \in SUBSET S /\ u \subseteq t /\ u # t /\ y \in S
  BY <1>2, <1>5, <1>6
<1>8. SumOver(f, S) = SumOver(f, u) + SumOver(f, S \ u)
  BY <1>1, <1>7
<1>9. PICK v : v = S \ u
  OBVIOUS
<1>10. y \in v /\ v \ {y} = S \ t /\ IsFiniteSet(v) /\ IsFiniteSet(t) /\ v \subseteq S
  BY <1>2, <1>5, <1>6, <1>9, FS_Subset
<1>11. SumOver(f, v) = f[y] + SumOver(f, S \ t) /\ SumOver(f, t) = f[y] + SumOver(f, u)
  <2>1. SumOver(f, v) = f[y] + SumOver(f, v \ {y})
    BY <1>10, SumWithout
  <2>2. SumOver(f, t) = f[y] + SumOver(f, t \ {y})
    BY <1>2, <1>5, <1>10, SumWithout
  <2> QED BY <2>1, <2>2, <1>6, <1>10
<1>12. f[y] \in Nat /\ SumOver(f, u) \in Nat /\ SumOver(f, S \ t) \in Nat
  <2>1. IsFiniteSet(u) /\ IsFiniteSet(S \ t)
    BY <1>7, FS_Subset
  <2> QED BY <2>1, <1>7, SumType
<1> QED BY <1>2, <1>8, <1>9, <1>11, <1>12

\* Summands bounded one by one, up to one for each element of P: a bound of
\* the sum.
LEMMA SumBound ==
  ASSUME NEW S, IsFiniteSet(S), NEW f, NEW e, NEW P,
         \A x \in S : f[x] \in Nat /\ e[x] \in Nat /\ f[x] <= e[x] + (IF x \in P THEN 1 ELSE 0)
  PROVE  SumOver(f, S) <= SumOver(e, S) + Cardinality(S \cap P)
<1> DEFINE Bad == {t \in SUBSET S : ~(SumOver(f, t) <= SumOver(e, t) + Cardinality(t \cap P))}
<1> SUFFICES ASSUME Bad # {} PROVE FALSE
  OBVIOUS
<1>1. PICK t \in Bad : \A u \in Bad : u \subseteq t => u = t
  <2> HIDE DEF Bad
  <2>1. Bad \subseteq SUBSET S
    BY DEF Bad
  <2> QED BY <2>1, MinimalSubset
<1>2. t \in SUBSET S /\ ~(SumOver(f, t) <= SumOver(e, t) + Cardinality(t \cap P)) /\ IsFiniteSet(t)
  BY <1>1, FS_Subset
<1>3. t # {}
  <2> SUFFICES ASSUME t = {} PROVE FALSE
    OBVIOUS
  <2>1. t \cap P = {} /\ SumOver(f, t) = 0 /\ SumOver(e, t) = 0
    BY SumEmpty
  <2> QED BY <1>2, <2>1, FS_EmptySet
<1>4. PICK y \in t : TRUE
  BY <1>3
<1>5. PICK u : u = t \ {y}
  OBVIOUS
<1>6. u \in SUBSET S /\ u \subseteq t /\ u # t /\ y \in S /\ IsFiniteSet(u)
  BY <1>2, <1>4, <1>5, FS_RemoveElement
<1>7. SumOver(f, u) <= SumOver(e, u) + Cardinality(u \cap P)
  BY <1>1, <1>6
<1>8. SumOver(f, t) = f[y] + SumOver(f, u) /\ SumOver(e, t) = e[y] + SumOver(e, u)
  <2>1. (\A x \in t : f[x] \in Nat) /\ (\A x \in t : e[x] \in Nat)
    BY <1>2
  <2>2. SumOver(f, t) = f[y] + SumOver(f, t \ {y})
    BY <2>1, <1>2, <1>4, SumWithout
  <2>3. SumOver(e, t) = e[y] + SumOver(e, t \ {y})
    BY <2>1, <1>2, <1>4, SumWithout
  <2> QED BY <2>2, <2>3, <1>5
<1>9. SumOver(f, u) \in Nat /\ SumOver(e, u) \in Nat
  <2>1. (\A x \in u : f[x] \in Nat) /\ (\A x \in u : e[x] \in Nat)
    BY <1>6
  <2> QED BY <2>1, <1>6, SumType
<1>10. PICK c : c = u \cap P
  OBVIOUS
<1>11. IsFiniteSet(c) /\ Cardinality(c) \in Nat /\ y \notin c
  BY <1>5, <1>6, <1>10, FS_Intersection, FS_CardinalityType
<1>12. Cardinality(t \cap P) = Cardinality(c) + (IF y \in P THEN 1 ELSE 0)
  <2>1. CASE y \in P
    <3>1. t \cap P = c \cup {y}
      BY <2>1, <1>4, <1>5, <1>10
    <3> QED BY <3>1, <2>1, <1>11, FS_AddElement
  <2>2. CASE y \notin P
    <3>1. t \cap P = c
      BY <2>2, <1>4, <1>5, <1>10
    <3> QED BY <3>1, <2>2, <1>11
  <2> QED BY <2>1, <2>2
<1>13. f[y] \in Nat /\ e[y] \in Nat /\ f[y] <= e[y] + (IF y \in P THEN 1 ELSE 0)
  BY <1>6
<1> QED BY <1>2, <1>7, <1>8, <1>9, <1>10, <1>11, <1>12, <1>13

\* Nothing but zeros adds up to zero.
LEMMA SumZero ==
  ASSUME NEW S, IsFiniteSet(S), NEW f, \A x \in S : f[x] = 0
  PROVE  SumOver(f, S) = 0
<1>1. PICK g : IsFoldOf(g, f, S) /\ SumOver(f, S) = g[S]
  BY SumIsFold
<1> DEFINE h == [s \in SUBSET S |-> 0]
<1>2. IsFoldOf(h, f, S)
  BY DEF IsFoldOf, First
<1>3. h[S] = 0
  OBVIOUS
<1> HIDE DEF h
<1> QED BY <1>1, <1>2, <1>3, FoldIsUnique

-----------------------------------------------------------------------------
(* The blob store. *)

\* Any set of references is finite.
LEMMA RefsFinite ==
  ASSUME NEW S, S \subseteq Refs
  PROVE  IsFiniteSet(S) /\ Cardinality(S) \in Nat
  BY BoundsAssumption, FS_Subset, FS_CardinalityType

\* When every reference occupies at most what it is accounted with, and one
\* byte more where an upload probes the limit, the disk is accounted for, and
\* so is any part of it without such uploads.
LEMMA Accounts ==
  ASSUME NEW E, E \subseteq Refs, NEW P, P \subseteq Refs, NEW K, K \subseteq E, K \cap P = {},
         NEW z, NEW b,
         \A r \in Refs : z[r] \in Nat, \A r \in Refs : b[r] \in Nat,
         \A r \in Refs : b[r] <= z[r] + (IF r \in P THEN 1 ELSE 0),
         \A r \in Refs \ E : z[r] = 0
  PROVE  /\ SumOver(b, Refs) <= SumOver(z, E) + Cardinality(P)
         /\ SumOver(b, K) <= SumOver(z, E)
<1>1. IsFiniteSet(Refs) /\ IsFiniteSet(E) /\ IsFiniteSet(K) /\ IsFiniteSet(Refs \ E) /\ IsFiniteSet(E \ K)
  BY RefsFinite
<1>2. SumOver(z, Refs) = SumOver(z, E)
  <2>1. SumOver(z, Refs) = SumOver(z, E) + SumOver(z, Refs \ E)
    BY <1>1, SumSplits
  <2>2. SumOver(z, Refs \ E) = 0
    BY <1>1, SumZero
  <2>3. SumOver(z, E) \in Nat
    BY <1>1, SumType
  <2> QED BY <2>1, <2>2, <2>3
<1>3. SumOver(b, Refs) <= SumOver(z, Refs) + Cardinality(Refs \cap P)
  BY <1>1, SumBound
<1>4. Refs \cap P = P
  OBVIOUS
<1>5. SumOver(b, K) <= SumOver(z, K)
  <2>1. SumOver(b, K) <= SumOver(z, K) + Cardinality(K \cap P)
    BY <1>1, SumBound
  <2>2. SumOver(b, K) \in Nat /\ SumOver(z, K) \in Nat
    <3>1. \A r \in K : z[r] \in Nat /\ b[r] \in Nat
      OBVIOUS
    <3> QED BY <3>1, <1>1, SumType
  <2> QED BY <2>1, <2>2, FS_EmptySet
<1>6. SumOver(z, E) = SumOver(z, K) + SumOver(z, E \ K)
  BY <1>1, SumSplits
<1>7. SumOver(z, K) \in Nat /\ SumOver(z, E \ K) \in Nat /\ SumOver(b, K) \in Nat
  <2>1. (\A r \in K : z[r] \in Nat) /\ (\A r \in K : b[r] \in Nat) /\ (\A r \in E \ K : z[r] \in Nat)
    OBVIOUS
  <2> QED BY <2>1, <1>1, SumType
<1>8. SumOver(b, Refs) <= SumOver(z, E) + Cardinality(P)
  BY <1>2, <1>3, <1>4
<1>9. SumOver(b, K) <= SumOver(z, E)
  BY <1>5, <1>6, <1>7
<1> QED BY <1>8, <1>9

\* Entries that go take their sizes out of the sum, whatever happens to the
\* others' readers and marks.
LEMMA SumOfRest ==
  ASSUME NEW E, E \subseteq Refs, NEW F \in SUBSET E, NEW z, NEW y,
         \A r \in E : z[r] \in Nat, \A r \in E \ F : y[r] = z[r]
  PROVE  /\ SumOver(y, E \ F) = SumOver(z, E) - SumOver(z, F)
         /\ SumOver(y, E \ F) \in Nat /\ SumOver(y, E \ F) <= SumOver(z, E)
<1>1. IsFiniteSet(E) /\ IsFiniteSet(F) /\ IsFiniteSet(E \ F)
  BY RefsFinite
<1>2. SumOver(z, E) = SumOver(z, F) + SumOver(z, E \ F)
  BY <1>1, SumSplits
<1>3. SumOver(z, F) \in Nat /\ SumOver(z, E \ F) \in Nat
  BY <1>1, SumType
<1>4. SumOver(z, E \ F) = SumOver(y, E \ F)
  BY <1>1, SumSame
<1> QED BY <1>2, <1>3, <1>4

FileStates == {"none", "pending", "published", "unlinked"}

\* A new store satisfies the invariant.
LEMMA BlobInitOK == BlobInit => BlobIInv
<1> SUFFICES ASSUME BlobInit PROVE BlobIInv
  OBVIOUS
<1>1. NoEntry \in BlobEntries
  BY BudgetAssumption DEF NoEntry, BlobEntries
<1>2. BlobTypeOK
  <2>1. storeClosed \in BOOLEAN
    BY DEF BlobInit
  <2> QED BY <1>1, <2>1, BudgetAssumption, BoundsAssumption DEF BlobInit, BlobTypeOK
<1>3. \A r \in Refs : RefOK(r)
  BY DEF BlobInit, RefOK
<1>4. UsedIsSumOfEntries
  BY SumEmpty DEF BlobInit, UsedIsSumOfEntries
<1>5. Cardinality(entries) <= MaxEntries
  BY FS_EmptySet, BudgetAssumption DEF BlobInit
<1>6. RestartFits
  <2>1. Kept = {}
    BY DEF BlobInit, Kept, OnDisk
  <2> QED BY <2>1, SumEmpty, FS_EmptySet, BudgetAssumption DEF RestartFits, LoadFits
<1> QED BY <1>2, <1>3, <1>4, <1>5, <1>6 DEF BlobIInv, BlobAccount

\* The account, as numbers: what is used is within the budget, and is the sum
\* of sizes that are numbers.
LEMMA BlobNumbers ==
  ASSUME BlobIInv
  PROVE  /\ MaxTotalBytes \in Nat /\ MaxBlobBytes \in Nat /\ MaxEntries \in Nat
         /\ used \in Nat /\ used <= MaxTotalBytes /\ used = SumOver(Sizes, entries)
         /\ entries \subseteq Refs
         /\ \A r \in Refs : /\ Sizes[r] = entry[r].size /\ Sizes[r] \in Nat /\ Sizes[r] <= MaxBlobBytes
                            /\ bytes[r] \in Nat /\ bytes[r] <= MaxBlobBytes + 1
                            /\ handles[r] \in Nat /\ handles[r] <= MaxReaders
                            /\ entry[r] \in BlobEntries
  BY BudgetAssumption, BoundsAssumption DEF BlobIInv, BlobAccount, BlobTypeOK, UsedIsSumOfEntries, Sizes, BlobEntries

\* What the removal of R makes of the reference r: nothing, all of it goes, or
\* its readers keep it.
LeftOf(w, R, r) ==
    \/ /\ r \notin R /\ (r \in w.entries <=> r \in entries)
       /\ w.entry[r] = entry[r] /\ w.file[r] = file[r] /\ w.bytes[r] = bytes[r]
    \/ /\ r \in R /\ handles[r] = 0 /\ r \notin w.entries
       /\ w.entry[r] = NoEntry /\ w.file[r] = "none" /\ w.bytes[r] = 0
    \/ /\ r \in R /\ handles[r] > 0 /\ r \in w.entries
       /\ w.entry[r].size = entry[r].size /\ w.entry[r].readers = entry[r].readers
       /\ w.entry[r].deleted /\ w.file[r] = "unlinked" /\ w.bytes[r] = bytes[r]

\* remove and sweep: what they leave of each reference, and of the account.
LEMMA WithoutFacts ==
  ASSUME BlobIInv, ~storeClosed, NEW R, R \subseteq Live, NEW w, w = Without(R)
  PROVE  /\ w.entries \subseteq entries /\ Cardinality(w.entries) <= Cardinality(entries)
         /\ w.entry \in [Refs -> BlobEntries]
         /\ w.file \in [Refs -> FileStates] /\ w.bytes \in [Refs -> 0..(MaxBlobBytes + 1)]
         /\ w.used = SumOver([r \in Refs |-> w.entry[r].size], w.entries)
         /\ w.used \in Nat /\ w.used <= used
         /\ \A r \in Refs : LeftOf(w, R, r)
<1> DEFINE F == Freed(R)
           e == [r \in Refs |-> IF r \in F THEN NoEntry
                                ELSE IF r \in R THEN [entry[r] EXCEPT !.deleted = TRUE] ELSE entry[r]]
           f == [r \in Refs |-> IF r \in R THEN (IF handles[r] = 0 THEN "none" ELSE "unlinked") ELSE file[r]]
           b == [r \in Refs |-> IF r \in R /\ handles[r] = 0 THEN 0 ELSE bytes[r]]
<1>1. /\ w.entries = entries \ F /\ w.entry = e /\ w.used = used - SumOver(Sizes, F)
      /\ w.file = f /\ w.bytes = b
  BY DEF Without
<1>2. \A r \in R : /\ r \in entries /\ r \in Refs /\ entry[r].readers = handles[r] /\ handles[r] \in Nat
  <2> SUFFICES ASSUME NEW r \in R
               PROVE  r \in entries /\ r \in Refs /\ entry[r].readers = handles[r] /\ handles[r] \in Nat
    OBVIOUS
  <2>1. r \in entries /\ ~entry[r].deleted /\ r \in Refs
    BY BlobNumbers DEF Live
  <2>2. RefOK(r) /\ file[r] \in FileStates
    BY <2>1 DEF BlobIInv, BlobAccount, BlobTypeOK, FileStates
  <2>3. file[r] # "pending"
    BY <2>1, <2>2 DEF RefOK, UploadEntry
  <2>4. file[r] \in {"published", "unlinked"}
    BY <2>1, <2>2, <2>3 DEF RefOK, FileStates
  <2> QED BY <2>1, <2>2, <2>4, BlobNumbers DEF RefOK
<1>3. F = {r \in R : handles[r] = 0} /\ F \in SUBSET entries
  BY <1>2 DEF Freed
<1> HIDE DEF F
<1>4. NoEntry \in BlobEntries /\ \A r \in Refs : [entry[r] EXCEPT !.deleted = TRUE] \in BlobEntries
  <2>1. NoEntry \in BlobEntries
    BY BudgetAssumption DEF NoEntry, BlobEntries
  <2>2. \A r \in Refs : entry[r] \in BlobEntries
    BY BlobNumbers
  <2>3. \A n \in BlobEntries : [n EXCEPT !.deleted = TRUE] \in BlobEntries
    BY DEF BlobEntries
  <2> QED BY <2>1, <2>2, <2>3
<1>5. e \in [Refs -> BlobEntries]
  BY <1>4, BlobNumbers
<1>6. f \in [Refs -> FileStates] /\ b \in [Refs -> 0..(MaxBlobBytes + 1)]
  <2>1. bytes \in [Refs -> 0..(MaxBlobBytes + 1)] /\ file \in [Refs -> FileStates]
    BY DEF BlobIInv, BlobAccount, BlobTypeOK, FileStates
  <2>2. f \in [Refs -> FileStates]
    BY <2>1 DEF FileStates
  <2>3. 0 \in 0..(MaxBlobBytes + 1)
    BY BudgetAssumption
  <2> QED BY <2>1, <2>2, <2>3
<1>7. \A r \in entries \ F : e[r].size = Sizes[r]
  <2> SUFFICES ASSUME NEW r \in entries \ F PROVE e[r].size = Sizes[r]
    OBVIOUS
  <2>1. r \in Refs /\ Sizes[r] = entry[r].size /\ entry[r] \in BlobEntries
    BY BlobNumbers
  <2> QED BY <2>1 DEF BlobEntries
<1> DEFINE y == [r \in Refs |-> e[r].size]
<1>8. \A r \in entries \ F : y[r] = Sizes[r]
  BY <1>7, BlobNumbers
<1>9. /\ SumOver(y, entries \ F) = SumOver(Sizes, entries) - SumOver(Sizes, F)
      /\ SumOver(y, entries \ F) \in Nat /\ SumOver(y, entries \ F) <= SumOver(Sizes, entries)
  <2>1. entries \subseteq Refs /\ \A r \in entries : Sizes[r] \in Nat
    BY BlobNumbers
  <2>2. PICK z : z = Sizes
    OBVIOUS
  <2>3. PICK v : v = y
    OBVIOUS
  <2>4. PICK G : G = F
    OBVIOUS
  <2>5. (\A r \in entries : z[r] \in Nat) /\ (\A r \in entries \ G : v[r] = z[r]) /\ G \in SUBSET entries
    BY <1>3, <1>8, <2>1, <2>2, <2>3, <2>4
  <2> HIDE DEF y
  <2>6. /\ SumOver(v, entries \ G) = SumOver(z, entries) - SumOver(z, G)
        /\ SumOver(v, entries \ G) \in Nat /\ SumOver(v, entries \ G) <= SumOver(z, entries)
    BY <2>1, <2>5, SumOfRest
  <2> QED BY <2>2, <2>3, <2>4, <2>6
<1>10. Cardinality(entries \ F) <= Cardinality(entries)
  <2>1. IsFiniteSet(entries)
    BY BlobNumbers, RefsFinite
  <2> QED BY <2>1, FS_Subset
<1>11. w.used = SumOver([r \in Refs |-> w.entry[r].size], w.entries) /\ w.used \in Nat /\ w.used <= used
  BY <1>1, <1>9, BlobNumbers
<1>12. \A r \in Refs : LeftOf(w, R, r)
  <2> SUFFICES ASSUME NEW r \in Refs
               PROVE LeftOf(w, R, r)
    OBVIOUS
  <2>1. CASE r \notin R
    BY <2>1, <1>1, <1>3 DEF LeftOf
  <2>2. CASE r \in R /\ handles[r] = 0
    BY <2>2, <1>1, <1>3 DEF LeftOf
  <2>3. CASE r \in R /\ handles[r] # 0
    <3>1. w.entry[r] = [entry[r] EXCEPT !.deleted = TRUE] /\ entry[r] \in BlobEntries
      BY <2>3, <1>1, <1>3, BlobNumbers
    <3>2. w.entry[r].size = entry[r].size /\ w.entry[r].readers = entry[r].readers /\ w.entry[r].deleted
      BY <3>1 DEF BlobEntries
    <3> QED BY <2>3, <3>2, <1>1, <1>2, <1>3 DEF LeftOf
  <2> QED BY <2>1, <2>2, <2>3
<1> QED BY <1>1, <1>3, <1>5, <1>6, <1>10, <1>11, <1>12

\* An open store's directory fits into a new one: what load would keep is
\* accounted for.
LEMMA OpenFits ==
  ASSUME BlobAccount', ~storeClosed'
  PROVE  RestartFits'
<1> DEFINE K == Kept'
           z == Sizes'
           b == bytes'
           E == entries'
<1>1. \A r \in Refs : RefOK(r)' /\ (r \in K => r \in E /\ file'[r] = "published")
  BY DEF BlobAccount, RefOK, Kept, OnDisk
<1>2. E \subseteq Refs /\ K \subseteq E
  BY <1>1 DEF BlobAccount, BlobTypeOK, Kept, OnDisk
<1>3. \A r \in Refs : z[r] = entry'[r].size /\ z[r] \in Nat /\ b[r] \in Nat
  BY BudgetAssumption DEF BlobAccount, BlobTypeOK, BlobEntries, Sizes
<1>4. \A r \in K : b[r] <= MaxBlobBytes /\ b[r] = z[r]
  BY <1>1, <1>2, <1>3 DEF RefOK
<1>5. Cardinality(K) <= MaxEntries
  <2>1. IsFiniteSet(E)
    BY <1>2, RefsFinite
  <2>2. Cardinality(K) <= Cardinality(E) /\ Cardinality(K) \in Nat /\ Cardinality(E) \in Nat
    BY <2>1, <1>2, FS_Subset, RefsFinite
  <2>3. Cardinality(E) <= MaxEntries
    BY DEF BlobAccount
  <2> QED BY <2>2, <2>3, BudgetAssumption
<1>6. SumOver(b, K) <= MaxTotalBytes
  <2>1. SumOver(z, E) = used' /\ used' \in Nat /\ used' <= MaxTotalBytes
    BY BudgetAssumption DEF BlobAccount, BlobTypeOK, UsedIsSumOfEntries
  <2>2. IsFiniteSet(E) /\ IsFiniteSet(K) /\ IsFiniteSet(E \ K)
    BY <1>2, RefsFinite
  <2> HIDE DEF K, z, b, E
  <2>3. SumOver(z, E) = SumOver(z, K) + SumOver(z, E \ K)
    BY <1>2, <1>3, <2>2, SumSplits
  <2>4. SumOver(z, K) \in Nat /\ SumOver(z, E \ K) \in Nat
    <3>1. (\A r \in K : z[r] \in Nat) /\ (\A r \in E \ K : z[r] \in Nat)
      BY <1>2, <1>3
    <3> QED BY <3>1, <2>2, SumType
  <2>5. SumOver(b, K) = SumOver(z, K)
    <3>1. \A r \in K : b[r] \in Nat /\ b[r] = z[r]
      BY <1>2, <1>3, <1>4
    <3> QED BY <3>1, <2>2, SumSame
  <2> QED BY <2>1, <2>3, <2>4, <2>5, BudgetAssumption
<1> QED BY <1>4, <1>5, <1>6 DEF RestartFits, LoadFits

\* An open store accounts for every byte on disk.
LEMMA OpenAccounts ==
  ASSUME BlobAccount
  PROVE  BytesAreAccounted
<1> SUFFICES ASSUME ~storeClosed PROVE SumOver(bytes, Refs) <= used + Cardinality(Probing)
  BY DEF BytesAreAccounted
<1>1. \A r \in Refs : /\ Sizes[r] = entry[r].size /\ Sizes[r] \in Nat /\ bytes[r] \in Nat
                      /\ bytes[r] <= MaxBlobBytes + 1
  BY BudgetAssumption DEF BlobAccount, BlobTypeOK, BlobEntries, Sizes
<1>2. \A r \in Refs \ entries : Sizes[r] = 0
  BY <1>1 DEF BlobAccount, RefOK, NoEntry
<1>3. \A r \in Refs : bytes[r] <= Sizes[r] + (IF r \in Probing THEN 1 ELSE 0)
  <2> SUFFICES ASSUME NEW r \in Refs PROVE bytes[r] <= Sizes[r] + (IF r \in Probing THEN 1 ELSE 0)
    OBVIOUS
  <2>1. RefOK(r) /\ file[r] \in FileStates
    BY DEF BlobAccount, BlobTypeOK, FileStates
  <2>2. CASE file[r] = "none"
    BY <2>1, <2>2, <1>1 DEF RefOK, Probing
  <2>3. CASE file[r] = "pending"
    <3>1. entry[r] = UploadEntry
      BY <2>1, <2>3 DEF RefOK
    <3>2. entry[r].size = MaxBlobBytes /\ r \in Probing
      BY <3>1, <2>3 DEF UploadEntry, Reservation, Probing
    <3> QED BY <3>2, <1>1, BudgetAssumption
  <2>4. CASE file[r] \in {"published", "unlinked"}
    <3>1. entry[r].size = bytes[r]
      BY <2>1, <2>4 DEF RefOK
    <3> QED BY <3>1, <1>1
  <2> QED BY <2>1, <2>2, <2>3, <2>4 DEF FileStates
<1>4. entries \subseteq Refs /\ Probing \subseteq Refs /\ used = SumOver(Sizes, entries)
  BY DEF BlobAccount, BlobTypeOK, UsedIsSumOfEntries, Probing
<1>5. PICK z : z = Sizes
  OBVIOUS
<1>6. PICK P : P = Probing
  OBVIOUS
<1>7. PICK K : K = {}
  OBVIOUS
<1>8. SumOver(bytes, Refs) <= SumOver(z, entries) + Cardinality(P)
  <2>1. /\ \A r \in Refs : z[r] \in Nat
        /\ \A r \in Refs : bytes[r] \in Nat
        /\ \A r \in Refs : bytes[r] <= z[r] + (IF r \in P THEN 1 ELSE 0)
        /\ \A r \in Refs \ entries : z[r] = 0
        /\ P \subseteq Refs /\ K \subseteq entries /\ K \cap P = {}
    BY <1>1, <1>2, <1>3, <1>4, <1>5, <1>6, <1>7
  <2> QED BY <2>1, <1>4, Accounts
<1> QED BY <1>4, <1>5, <1>6, <1>8

\* Removing published blobs keeps the account.
LEMMA RemoveKeeps ==
  ASSUME BlobIInv, ~storeClosed, NEW R, R \subseteq Live, RemoveEntries(R),
         UNCHANGED <<storeClosed, outdated, put, handles, restarts>>
  PROVE  BlobAccount'
<1>1. PICK w : w = Without(R)
  OBVIOUS
<1>2. entries' = w.entries /\ entry' = w.entry /\ used' = w.used /\ file' = w.file /\ bytes' = w.bytes
  BY <1>1 DEF RemoveEntries
<1>3. BlobTypeOK'
  <2>1. /\ w.entries \subseteq entries /\ w.entry \in [Refs -> BlobEntries]
        /\ w.file \in [Refs -> FileStates] /\ w.bytes \in [Refs -> 0..(MaxBlobBytes + 1)]
        /\ w.used \in Nat /\ w.used <= used
    BY <1>1, WithoutFacts
  <2>2. w.used \in 0..MaxTotalBytes
    BY <2>1, BlobNumbers
  <2> QED BY <1>2, <2>1, <2>2 DEF BlobIInv, BlobAccount, BlobTypeOK, FileStates
<1>4. ASSUME NEW r \in Refs PROVE RefOK(r)'
  <2>1. LeftOf(w, R, r)
    BY <1>1, WithoutFacts
  <2>2. RefOK(r) /\ file[r] \in FileStates /\ entry[r] \in BlobEntries
    BY BlobNumbers DEF BlobIInv, BlobAccount, BlobTypeOK, FileStates
  <2>3. CASE r \notin R
    BY <1>2, <2>1, <2>2, <2>3 DEF RefOK, LeftOf
  <2>4. CASE r \in R
    <3>1. r \in entries /\ ~entry[r].deleted
      BY <2>4 DEF Live
    <3>2. file[r] = "published"
      BY <2>2, <3>1 DEF RefOK, UploadEntry, FileStates
    <3>3. CASE handles[r] = 0
      BY <1>2, <2>1, <2>2, <2>4, <3>2, <3>3 DEF RefOK, LeftOf
    <3>4. CASE handles[r] # 0
      <4>1. /\ entry'[r].size = entry[r].size /\ entry'[r].readers = entry[r].readers
            /\ entry'[r].deleted /\ r \in entries'
            /\ file'[r] = "unlinked" /\ bytes'[r] = bytes[r] /\ handles'[r] > 0
        BY <1>2, <2>1, <2>4, <3>4 DEF LeftOf
      <4> QED BY <4>1, <2>2, <3>1, <3>2 DEF RefOK
    <3> QED BY <3>3, <3>4
  <2> QED BY <2>3, <2>4
<1>5. UsedIsSumOfEntries'
  <2>1. w.used = SumOver([r \in Refs |-> w.entry[r].size], w.entries)
    BY <1>1, WithoutFacts
  <2> QED BY <1>2, <2>1 DEF UsedIsSumOfEntries, Sizes
<1>6. Cardinality(entries') <= MaxEntries
  <2>1. w.entries \subseteq entries /\ Cardinality(w.entries) <= Cardinality(entries)
    BY <1>1, WithoutFacts
  <2>2. Cardinality(w.entries) \in Nat /\ Cardinality(entries) \in Nat
    BY <2>1, BlobNumbers, RefsFinite
  <2>3. Cardinality(entries) <= MaxEntries
    BY DEF BlobIInv, BlobAccount
  <2> QED BY <1>2, <2>1, <2>2, <2>3, BudgetAssumption
<1> QED BY <1>3, <1>4, <1>5, <1>6 DEF BlobAccount

\* A reservation is made only where the sweep left room for it.
LEMMA ReservesKeeps ==
  ASSUME BlobIInv, NEW q \in Refs, PutReserves(q)
  PROVE  BlobAccount'
<1>1. PICK w : w = Without(Stale)
  OBVIOUS
<1>2. /\ put[q] = "idle" /\ ~storeClosed
      /\ Cardinality(w.entries) < MaxEntries /\ MaxBlobBytes <= MaxTotalBytes - w.used
      /\ entries' = w.entries \cup {q} /\ entry' = [w.entry EXCEPT ![q] = UploadEntry]
      /\ used' = w.used + MaxBlobBytes
      /\ file' = [w.file EXCEPT ![q] = "pending"] /\ bytes' = w.bytes
      /\ put' = [put EXCEPT ![q] = "copying"]
      /\ UNCHANGED <<storeClosed, outdated, handles, restarts>>
  BY <1>1 DEF PutReserves, Reservation
<1>3. Stale \subseteq Live
  BY DEF Stale
<1>4. /\ w.entries \subseteq entries /\ w.entry \in [Refs -> BlobEntries]
      /\ w.file \in [Refs -> FileStates] /\ w.bytes \in [Refs -> 0..(MaxBlobBytes + 1)]
      /\ w.used = SumOver([r \in Refs |-> w.entry[r].size], w.entries)
      /\ w.used \in Nat /\ w.used <= used
      /\ entries \subseteq Refs
  BY <1>1, <1>2, <1>3, WithoutFacts, BlobNumbers
<1>5. \A r \in Refs : LeftOf(w, Stale, r)
  BY <1>1, <1>2, <1>3, WithoutFacts
<1>6. RefOK(q) /\ q \notin entries /\ q \notin w.entries /\ bytes[q] = 0 /\ handles[q] = 0 /\ w.bytes[q] = 0
  <2>1. RefOK(q) /\ handles[q] \in Nat
    BY BlobNumbers DEF BlobIInv, BlobAccount
  <2>2. q \notin entries /\ bytes[q] = 0 /\ handles[q] = 0 /\ q \notin Stale
    BY <2>1, <1>2 DEF RefOK, Stale, Live
  <2> QED BY <2>1, <2>2, <1>4, <1>5 DEF LeftOf
<1>7. UploadEntry \in BlobEntries
  BY BudgetAssumption DEF UploadEntry, Reservation, BlobEntries
<1>8. BlobTypeOK'
  <2>1. used' \in 0..MaxTotalBytes
    BY <1>2, <1>4, BudgetAssumption
  <2>2. entry' \in [Refs -> BlobEntries] /\ entries' \subseteq Refs
    BY <1>2, <1>4, <1>7
  <2> QED BY <1>2, <1>4, <2>1, <2>2 DEF BlobIInv, BlobAccount, BlobTypeOK, FileStates
<1>9. ASSUME NEW r \in Refs PROVE RefOK(r)'
  <2>1. RefOK(r) /\ file[r] \in FileStates /\ entry[r] \in BlobEntries /\ handles[r] \in Nat
    BY BlobNumbers DEF BlobIInv, BlobAccount, BlobTypeOK, FileStates
  <2>2. CASE r = q
    <3>1. /\ q \in entries' /\ entry'[q] = UploadEntry /\ file'[q] = "pending" /\ bytes'[q] = 0
          /\ put'[q] = "copying" /\ handles'[q] = 0 /\ ~storeClosed'
      BY <1>2, <1>4, <1>6 DEF BlobIInv, BlobAccount, BlobTypeOK
    <3> QED BY <2>2, <3>1 DEF RefOK
  <2>3. CASE r # q
    <3>1. /\ r \in entries' <=> r \in w.entries
          /\ entry'[r] = w.entry[r] /\ file'[r] = w.file[r] /\ bytes'[r] = w.bytes[r]
          /\ put'[r] = put[r] /\ handles'[r] = handles[r] /\ storeClosed' = storeClosed
      BY <1>2, <1>4, <2>3 DEF BlobIInv, BlobAccount, BlobTypeOK
    <3>2. CASE r \notin Stale
      BY <1>5, <2>1, <3>1, <3>2 DEF RefOK, LeftOf
    <3>3. CASE r \in Stale
      <4>1. r \in entries /\ ~entry[r].deleted
        BY <3>3 DEF Stale, Live
      <4>2. file[r] = "published"
        BY <2>1, <4>1 DEF RefOK, UploadEntry, FileStates
      <4>3. CASE handles[r] = 0
        BY <1>5, <2>1, <3>1, <3>3, <4>2, <4>3 DEF RefOK, LeftOf
      <4>4. CASE handles[r] # 0
        <5>1. /\ entry'[r].size = entry[r].size /\ entry'[r].readers = entry[r].readers
              /\ entry'[r].deleted /\ r \in entries'
              /\ file'[r] = "unlinked" /\ bytes'[r] = bytes[r] /\ handles'[r] > 0
          BY <1>5, <2>1, <3>1, <3>3, <4>4 DEF LeftOf
        <5> QED BY <5>1, <2>1, <3>1, <4>1, <4>2, <1>2 DEF RefOK, LeftOf
      <4> QED BY <4>3, <4>4
    <3> QED BY <3>2, <3>3
  <2> QED BY <2>2, <2>3
<1>10. UsedIsSumOfEntries'
  <2> DEFINE z == [r \in Refs |-> w.entry[r].size]
             y == Sizes'
  <2>1. \A r \in Refs : y[r] = entry'[r].size /\ z[r] = w.entry[r].size /\ y[r] \in Nat /\ z[r] \in Nat
    BY <1>4, <1>8, BudgetAssumption DEF Sizes, BlobTypeOK, BlobEntries
  <2>2. \A r \in w.entries : z[r] \in Nat /\ z[r] = y[r]
    BY <2>1, <1>2, <1>4, <1>6
  <2>3. y[q] = MaxBlobBytes
    BY <2>1, <1>2, <1>4 DEF UploadEntry, Reservation
  <2>4. w.used = SumOver(z, w.entries)
    BY <1>4
  <2>5. IsFiniteSet(w.entries) /\ w.entries \subseteq Refs
    BY <1>4, RefsFinite
  <2> HIDE DEF z, y
  <2>6. SumOver(z, w.entries) = SumOver(y, w.entries)
    BY <2>2, <2>5, SumSame
  <2>7. SumOver(y, w.entries \cup {q}) = y[q] + SumOver(y, w.entries)
    <3>1. \A r \in w.entries \cup {q} : y[r] \in Nat
      BY <2>1, <2>5
    <3>2. PICK E : E = w.entries
      OBVIOUS
    <3> QED BY <3>1, <3>2, <2>5, <1>6, SumWith
  <2>8. used' = SumOver(y, entries')
    BY <1>2, <1>4, <2>3, <2>4, <2>6, <2>7, BudgetAssumption
  <2> QED BY <2>8 DEF UsedIsSumOfEntries, y
<1>11. Cardinality(entries') <= MaxEntries
  <2>1. IsFiniteSet(w.entries) /\ Cardinality(w.entries) \in Nat
    BY <1>4, RefsFinite
  <2>2. Cardinality(w.entries \cup {q}) = Cardinality(w.entries) + 1
    BY <2>1, <1>6, FS_AddElement
  <2> QED BY <1>2, <2>1, <2>2, BudgetAssumption
<1> QED BY <1>8, <1>9, <1>10, <1>11 DEF BlobAccount

\* The facts about one reference that the steps below use.
LEMMA RefFacts ==
  ASSUME BlobIInv, NEW r \in Refs
  PROVE  /\ RefOK(r) /\ file[r] \in FileStates /\ entry[r] \in BlobEntries
         /\ put[r] \in {"idle", "copying", "copied", "returned"}
         /\ handles[r] \in Nat /\ bytes[r] \in Nat
  BY BlobNumbers DEF BlobIInv, BlobAccount, BlobTypeOK, FileStates

\* Bytes are written to a pending file, within the reservation but for one.
LEMMA CopiesKeeps ==
  ASSUME BlobIInv, NEW q \in Refs, NEW n \in 0..(MaxBlobBytes + 1), PutCopies(q, n)
  PROVE  BlobAccount'
<1>1. BlobTypeOK'
  BY DEF PutCopies, BlobIInv, BlobAccount, BlobTypeOK
<1>2. ASSUME NEW r \in Refs PROVE RefOK(r)'
  <2>1. RefOK(r) /\ RefOK(q)
    BY RefFacts
  <2>2. bytes \in [Refs -> 0..(MaxBlobBytes + 1)] /\ put \in [Refs -> {"idle", "copying", "copied", "returned"}]
    BY DEF BlobIInv, BlobAccount, BlobTypeOK
  <2> QED BY <2>1, <2>2 DEF PutCopies, RefOK
<1>3. UsedIsSumOfEntries'
  BY DEF PutCopies, BlobIInv, BlobAccount, UsedIsSumOfEntries, Sizes
<1>4. Cardinality(entries') <= MaxEntries
  BY DEF PutCopies, BlobIInv, BlobAccount
<1> QED BY <1>1, <1>2, <1>3, <1>4 DEF BlobAccount

\* A blob is published with the size it has; the rest of its reservation goes.
LEMMA PublishesKeeps ==
  ASSUME BlobIInv, NEW q \in Refs, PutPublishes(q)
  PROVE  BlobAccount'
<1>1. RefOK(q) /\ q \in entries /\ entry[q] = UploadEntry /\ entry[q].size = MaxBlobBytes /\ handles[q] = 0
      /\ bytes[q] \in Nat /\ bytes[q] <= MaxBlobBytes /\ ~storeClosed /\ file[q] = "pending"
  <2>1. RefOK(q) /\ bytes[q] \in Nat
    BY RefFacts
  <2>2. /\ q \in entries /\ entry[q] = UploadEntry /\ handles[q] = 0 /\ ~storeClosed
        /\ file[q] = "pending" /\ bytes[q] <= MaxBlobBytes
    BY <2>1 DEF PutPublishes, RefOK
  <2>3. UploadEntry.size = MaxBlobBytes
    BY DEF UploadEntry, Reservation
  <2> QED BY <2>1, <2>2, <2>3
<1>2. PICK n : n = PublishedEntry(bytes[q])
  OBVIOUS
<1>3. n \in BlobEntries /\ n.size = bytes[q] /\ n.readers = 0 /\ ~n.deleted
  BY <1>1, <1>2, BudgetAssumption DEF PublishedEntry, BlobEntries
<1>4. /\ used' = used - (MaxBlobBytes - bytes[q]) /\ entry' = [entry EXCEPT ![q] = n]
      /\ file' = [file EXCEPT ![q] = "published"] /\ put' = [put EXCEPT ![q] = "returned"]
      /\ UNCHANGED <<entries, storeClosed, bytes, outdated, handles, restarts>>
  BY <1>2 DEF PutPublishes, Reservation
<1>5. UsedIsSumOfEntries' /\ used' \in Nat /\ used' <= used
  <2> DEFINE z == Sizes
             y == Sizes'
  <2>1. entry \in [Refs -> BlobEntries]
    BY DEF BlobIInv, BlobAccount, BlobTypeOK
  <2>2. /\ \A r \in entries : z[r] \in Nat /\ y[r] \in Nat
        /\ \A r \in entries \ {q} : z[r] = y[r]
        /\ z[q] = MaxBlobBytes /\ y[q] = bytes[q]
    BY <1>1, <1>3, <1>4, <2>1, BlobNumbers DEF Sizes
  <2>3. used = SumOver(z, entries) /\ IsFiniteSet(entries) /\ IsFiniteSet(entries \ {q})
    BY BlobNumbers, RefsFinite
  <2> HIDE DEF z, y
  <2>4. SumOver(z, entries) = z[q] + SumOver(z, entries \ {q})
    BY <1>1, <2>2, <2>3, SumWithout
  <2>5. SumOver(y, entries) = y[q] + SumOver(y, entries \ {q})
    BY <1>1, <2>2, <2>3, SumWithout
  <2>6. SumOver(z, entries \ {q}) = SumOver(y, entries \ {q}) /\ SumOver(z, entries \ {q}) \in Nat
    <3>1. \A r \in entries \ {q} : z[r] \in Nat /\ z[r] = y[r]
      BY <2>2
    <3> QED BY <3>1, <2>3, SumSame, SumType
  <2>7. used' = SumOver(y, entries) /\ used' \in Nat /\ used' <= used
    BY <1>1, <1>4, <2>2, <2>3, <2>4, <2>5, <2>6, BudgetAssumption
  <2> QED BY <1>4, <2>7 DEF UsedIsSumOfEntries, y
<1>6. BlobTypeOK'
  <2>1. used' \in 0..MaxTotalBytes
    BY <1>5, BlobNumbers
  <2> QED BY <1>3, <1>4, <2>1 DEF BlobIInv, BlobAccount, BlobTypeOK
<1>7. ASSUME NEW r \in Refs PROVE RefOK(r)'
  <2>1. RefOK(r)
    BY RefFacts
  <2>2. /\ file \in [Refs -> FileStates] /\ put \in [Refs -> {"idle", "copying", "copied", "returned"}]
        /\ entry \in [Refs -> BlobEntries]
    BY DEF BlobIInv, BlobAccount, BlobTypeOK, FileStates
  <2>3. CASE r = q
    <3>1. /\ file'[q] = "published" /\ put'[q] = "returned" /\ entry'[q] = n /\ q \in entries'
          /\ bytes'[q] = bytes[q] /\ handles'[q] = 0 /\ ~storeClosed'
      BY <1>1, <1>4, <2>2
    <3> QED BY <1>1, <1>3, <2>3, <3>1 DEF RefOK
  <2>4. CASE r # q
    BY <1>4, <2>1, <2>2, <2>4 DEF RefOK
  <2> QED BY <2>3, <2>4
<1>8. Cardinality(entries') <= MaxEntries
  BY <1>4 DEF BlobIInv, BlobAccount
<1> QED BY <1>5, <1>6, <1>7, <1>8 DEF BlobAccount

\* An entry that goes alone: a failed upload's, or a deleted blob's with its
\* last reader.
LEMMA FreeKeepsSum ==
  ASSUME BlobIInv, NEW q \in entries, entries' = entries \ {q},
         used' = used - entry[q].size, \A r \in Refs \ {q} : entry'[r] = entry[r]
  PROVE  /\ UsedIsSumOfEntries' /\ used' \in 0..MaxTotalBytes
         /\ Cardinality(entries') <= MaxEntries
<1> DEFINE z == Sizes
           y == Sizes'
<1>1. /\ entries \subseteq Refs /\ z[q] = entry[q].size
      /\ \A r \in entries : z[r] \in Nat
      /\ \A r \in entries \ {q} : z[r] = y[r]
  BY BlobNumbers DEF Sizes
<1>2. used = SumOver(z, entries) /\ IsFiniteSet(entries) /\ IsFiniteSet(entries \ {q})
  BY BlobNumbers, RefsFinite
<1> HIDE DEF z, y
<1>3. SumOver(z, entries) = z[q] + SumOver(z, entries \ {q})
  BY <1>1, <1>2, SumWithout
<1>4. SumOver(z, entries \ {q}) = SumOver(y, entries \ {q}) /\ SumOver(z, entries \ {q}) \in Nat
  BY <1>1, <1>2, SumSame, SumType
<1>5. used' = SumOver(y, entries') /\ used' \in 0..MaxTotalBytes
  BY <1>1, <1>2, <1>3, <1>4, BlobNumbers
<1>6. Cardinality(entries') <= MaxEntries
  <2>1. Cardinality(entries \ {q}) = Cardinality(entries) - 1 /\ Cardinality(entries) \in Nat
    BY <1>2, FS_RemoveElement, FS_CardinalityType
  <2>2. Cardinality(entries) <= MaxEntries
    BY DEF BlobIInv, BlobAccount
  <2> QED BY <2>1, <2>2, BudgetAssumption
<1> QED BY <1>5, <1>6 DEF UsedIsSumOfEntries, y

\* A failed upload gives all it reserved back.
LEMMA FailsKeeps ==
  ASSUME BlobIInv, NEW q \in Refs, PutFails(q)
  PROVE  BlobAccount'
<1>1. RefOK(q) /\ q \in entries /\ put[q] = "copied" /\ file[q] = "pending" /\ handles[q] = 0
  BY RefFacts DEF PutFails, RefOK
<1>2. /\ file \in [Refs -> FileStates] /\ put \in [Refs -> {"idle", "copying", "copied", "returned"}]
      /\ entry \in [Refs -> BlobEntries] /\ bytes \in [Refs -> 0..(MaxBlobBytes + 1)]
  BY DEF BlobIInv, BlobAccount, BlobTypeOK, FileStates
<1>3. UsedIsSumOfEntries' /\ used' \in 0..MaxTotalBytes /\ Cardinality(entries') <= MaxEntries
  <2>1. /\ entries' = entries \ {q} /\ used' = used - entry[q].size
        /\ \A r \in Refs \ {q} : entry'[r] = entry[r]
    BY <1>2 DEF PutFails
  <2> QED BY <1>1, <2>1, FreeKeepsSum
<1>4. BlobTypeOK'
  <2>1. NoEntry \in BlobEntries /\ 0 \in 0..(MaxBlobBytes + 1)
    BY BudgetAssumption DEF NoEntry, BlobEntries
  <2>2. /\ file' \in [Refs -> FileStates] /\ put' \in [Refs -> {"idle", "copying", "copied", "returned"}]
        /\ entry' \in [Refs -> BlobEntries] /\ bytes' \in [Refs -> 0..(MaxBlobBytes + 1)]
        /\ entries' \subseteq entries
        /\ UNCHANGED <<storeClosed, outdated, handles, restarts>>
    BY <1>2, <2>1 DEF PutFails, FileStates
  <2> QED BY <1>3, <2>2 DEF BlobIInv, BlobAccount, BlobTypeOK, FileStates
<1>5. ASSUME NEW r \in Refs PROVE RefOK(r)'
  <2>1. RefOK(r)
    BY RefFacts
  <2>2. CASE r = q
    BY <1>1, <1>2, <2>2 DEF PutFails, RefOK
  <2>3. CASE r # q
    BY <1>2, <2>1, <2>3 DEF PutFails, RefOK
  <2> QED BY <2>2, <2>3
<1> QED BY <1>3, <1>4, <1>5 DEF BlobAccount

\* A pending file that cannot be deleted keeps its reservation.
LEMMA LeakKeeps ==
  ASSUME BlobIInv, NEW q \in Refs, PutFailsLeaking(q)
  PROVE  BlobAccount'
<1>1. put \in [Refs -> {"idle", "copying", "copied", "returned"}]
  BY DEF BlobIInv, BlobAccount, BlobTypeOK
<1>2. ASSUME NEW r \in Refs PROVE RefOK(r)'
  <2>1. RefOK(r) /\ RefOK(q)
    BY RefFacts
  <2> QED BY <1>1, <2>1 DEF PutFailsLeaking, RefOK
<1>3. BlobTypeOK' /\ UsedIsSumOfEntries' /\ Cardinality(entries') <= MaxEntries
  BY DEF PutFailsLeaking, BlobIInv, BlobAccount, BlobTypeOK, UsedIsSumOfEntries, Sizes
<1> QED BY <1>2, <1>3 DEF BlobAccount

\* A handle more: only the readers of the entry change.
LEMMA GetKeeps ==
  ASSUME BlobIInv, NEW q \in Refs, Get(q)
  PROVE  BlobAccount'
<1>1. /\ ~storeClosed /\ q \in entries /\ ~entry[q].deleted /\ handles[q] < MaxReaders
      /\ handles[q] \in Nat /\ entry[q] \in BlobEntries /\ RefOK(q) /\ file[q] \in FileStates
  BY RefFacts DEF Get, Live
<1>2. file[q] = "published" /\ entry[q].readers = handles[q] /\ entry[q].size = bytes[q]
  BY <1>1 DEF RefOK, UploadEntry, FileStates
<1>3. PICK m \in Nat : m = handles[q] + 1
  BY <1>1
<1>4. PICK n : n = [entry[q] EXCEPT !.readers = m]
  OBVIOUS
<1>5. n \in BlobEntries /\ n.size = entry[q].size /\ n.readers = m /\ ~n.deleted
  BY <1>1, <1>3, <1>4 DEF BlobEntries
<1>6. entry \in [Refs -> BlobEntries] /\ handles \in [Refs -> 0..MaxReaders]
  BY DEF BlobIInv, BlobAccount, BlobTypeOK
<1>7. /\ entry' = [entry EXCEPT ![q] = n] /\ handles' = [handles EXCEPT ![q] = m]
      /\ UNCHANGED <<entries, used, storeClosed, file, bytes, outdated, put, restarts>>
  BY <1>2, <1>3, <1>4, <1>6 DEF Get
<1>8. BlobTypeOK'
  <2>1. m \in 0..MaxReaders
    BY <1>1, <1>3, BoundsAssumption
  <2>2. entry' \in [Refs -> BlobEntries] /\ handles' \in [Refs -> 0..MaxReaders]
    BY <1>5, <1>6, <1>7, <2>1
  <2> QED BY <1>7, <2>2 DEF BlobIInv, BlobAccount, BlobTypeOK
<1>9. ASSUME NEW r \in Refs PROVE RefOK(r)'
  <2>1. RefOK(r)
    BY RefFacts
  <2>2. CASE r = q
    <3>1. entry'[q] = n /\ handles'[q] = m /\ m > 0
      BY <1>1, <1>3, <1>6, <1>7
    <3> QED BY <1>1, <1>2, <1>5, <1>7, <2>1, <2>2, <3>1 DEF RefOK
  <2>3. CASE r # q
    BY <1>6, <1>7, <2>1, <2>3 DEF RefOK
  <2> QED BY <2>2, <2>3
<1>10. UsedIsSumOfEntries' /\ Cardinality(entries') <= MaxEntries
  <2>1. Sizes' = Sizes
    BY <1>5, <1>6, <1>7 DEF Sizes
  <2> QED BY <1>7, <2>1 DEF BlobIInv, BlobAccount, UsedIsSumOfEntries
<1> QED BY <1>8, <1>9, <1>10 DEF BlobAccount

\* A handle less: the last one of a deleted blob frees its entry and its bytes.
LEMMA ReleaseKeeps ==
  ASSUME BlobIInv, NEW q \in Refs, Release(q)
  PROVE  BlobAccount'
<1>1. /\ handles[q] > 0 /\ handles[q] \in Nat /\ entry[q] \in BlobEntries /\ RefOK(q)
      /\ bytes[q] \in Nat
  BY RefFacts DEF Release
<1>2. /\ q \in entries /\ file[q] \in {"published", "unlinked"} /\ ~storeClosed
      /\ entry[q].readers = handles[q] /\ entry[q].size = bytes[q]
      /\ (entry[q].deleted <=> file[q] = "unlinked")
      /\ bytes[q] <= MaxBlobBytes /\ put[q] = "returned"
  BY <1>1 DEF RefOK
<1>3. PICK m \in Nat : m = handles[q] - 1
  BY <1>1
<1>4. /\ entry \in [Refs -> BlobEntries] /\ handles \in [Refs -> 0..MaxReaders]
      /\ file \in [Refs -> FileStates] /\ bytes \in [Refs -> 0..(MaxBlobBytes + 1)]
  BY DEF BlobIInv, BlobAccount, BlobTypeOK, FileStates
<1>5. m \in 0..MaxReaders
  BY <1>1, <1>3, <1>4, BoundsAssumption
<1>6. CASE file[q] = "unlinked" /\ handles[q] = 1
  <2>1. /\ handles' = [handles EXCEPT ![q] = m] /\ entries' = entries \ {q}
        /\ used' = used - entry[q].size /\ entry' = [entry EXCEPT ![q] = NoEntry]
        /\ file' = [file EXCEPT ![q] = "none"] /\ bytes' = [bytes EXCEPT ![q] = 0]
        /\ UNCHANGED <<storeClosed, outdated, put, restarts>>
    BY <1>2, <1>3, <1>6 DEF Release
  <2>2. UsedIsSumOfEntries' /\ used' \in 0..MaxTotalBytes /\ Cardinality(entries') <= MaxEntries
    <3>1. \A r \in Refs \ {q} : entry'[r] = entry[r]
      BY <1>4, <2>1
    <3> QED BY <1>2, <2>1, <3>1, FreeKeepsSum
  <2>3. BlobTypeOK'
    <3>1. NoEntry \in BlobEntries /\ 0 \in 0..(MaxBlobBytes + 1)
      BY BudgetAssumption DEF NoEntry, BlobEntries
    <3>2. /\ file' \in [Refs -> FileStates] /\ handles' \in [Refs -> 0..MaxReaders]
          /\ entry' \in [Refs -> BlobEntries] /\ bytes' \in [Refs -> 0..(MaxBlobBytes + 1)]
      BY <1>4, <1>5, <2>1, <3>1 DEF FileStates
    <3> QED BY <2>1, <2>2, <3>2 DEF BlobIInv, BlobAccount, BlobTypeOK, FileStates
  <2>4. ASSUME NEW r \in Refs PROVE RefOK(r)'
    <3>1. RefOK(r)
      BY RefFacts
    <3>2. CASE r = q
      <4>1. m = 0
        BY <1>3, <1>6
      <4> QED BY <1>2, <1>4, <2>1, <3>2, <4>1 DEF RefOK
    <3>3. CASE r # q
      BY <1>4, <2>1, <3>1, <3>3 DEF RefOK
    <3> QED BY <3>2, <3>3
  <2> QED BY <2>2, <2>3, <2>4 DEF BlobAccount
<1>7. CASE ~(file[q] = "unlinked" /\ handles[q] = 1)
  <2>1. PICK n : n = [entry[q] EXCEPT !.readers = m]
    OBVIOUS
  <2>2. n \in BlobEntries /\ n.size = entry[q].size /\ n.readers = m /\ (n.deleted <=> entry[q].deleted)
    BY <1>1, <1>3, <2>1 DEF BlobEntries
  <2>3. /\ handles' = [handles EXCEPT ![q] = m] /\ entry' = [entry EXCEPT ![q] = n]
        /\ UNCHANGED <<entries, used, storeClosed, outdated, put, restarts>>
    BY <1>2, <1>3, <1>7, <2>1 DEF Release
  <2>4. file' = file /\ bytes' = bytes
    BY <1>4, <1>7 DEF Release
  <2>5. BlobTypeOK'
    <3>1. entry' \in [Refs -> BlobEntries] /\ handles' \in [Refs -> 0..MaxReaders]
      BY <1>4, <1>5, <2>2, <2>3
    <3> QED BY <2>3, <2>4, <3>1 DEF BlobIInv, BlobAccount, BlobTypeOK
  <2>6. ASSUME NEW r \in Refs PROVE RefOK(r)'
    <3>1. RefOK(r)
      BY RefFacts
    <3>2. CASE r = q
      <4>1. entry'[q] = n /\ handles'[q] = m /\ (file[q] = "unlinked" => m > 0)
        BY <1>1, <1>3, <1>4, <1>7, <2>3
      <4> QED BY <1>1, <1>2, <1>3, <2>2, <2>3, <2>4, <3>2, <4>1 DEF RefOK
    <3>3. CASE r # q
      BY <1>4, <2>3, <2>4, <3>1, <3>3 DEF RefOK
    <3> QED BY <3>2, <3>3
  <2>7. UsedIsSumOfEntries' /\ Cardinality(entries') <= MaxEntries
    <3>1. Sizes' = Sizes
      BY <1>4, <2>2, <2>3 DEF Sizes
    <3> QED BY <2>3, <3>1 DEF BlobIInv, BlobAccount, UsedIsSumOfEntries
  <2> QED BY <2>5, <2>6, <2>7 DEF BlobAccount
<1> QED BY <1>6, <1>7

\* Time passes for a published blob, and what load would keep can only shrink.
LEMMA ExpireKeeps ==
  ASSUME BlobIInv, NEW q \in Refs, Expire(q)
  PROVE  BlobIInv'
<1>1. BlobTypeOK'
  BY DEF Expire, BlobIInv, BlobAccount, BlobTypeOK
<1>2. (\A r \in Refs : RefOK(r))' /\ UsedIsSumOfEntries' /\ Cardinality(entries') <= MaxEntries
  BY DEF Expire, BlobIInv, BlobAccount, RefOK, UsedIsSumOfEntries, Sizes
<1>3. RestartFits'
  <2>1. Kept' \subseteq Kept /\ Kept \subseteq Refs /\ bytes' = bytes
    BY DEF Expire, Kept, OnDisk
  <2>2. PICK K : K = Kept
    OBVIOUS
  <2>3. PICK L : L = Kept'
    OBVIOUS
  <2>4. L \subseteq K /\ K \subseteq Refs
    BY <2>1, <2>2, <2>3
  <2>5. /\ Cardinality(K) <= MaxEntries /\ SumOver(bytes, K) <= MaxTotalBytes
        /\ \A r \in K : bytes[r] <= MaxBlobBytes
    BY <2>2 DEF BlobIInv, RestartFits, LoadFits
  <2>6. \A r \in K : bytes[r] \in Nat
    BY <2>4, BlobNumbers
  <2>7. IsFiniteSet(K) /\ IsFiniteSet(L) /\ IsFiniteSet(K \ L)
    BY <2>4, RefsFinite
  <2>8. Cardinality(L) <= Cardinality(K) /\ Cardinality(L) \in Nat /\ Cardinality(K) \in Nat
    BY <2>4, <2>7, FS_Subset, FS_CardinalityType
  <2>9. SumOver(bytes, K) = SumOver(bytes, L) + SumOver(bytes, K \ L)
    BY <2>4, <2>6, <2>7, SumSplits
  <2>10. SumOver(bytes, L) \in Nat /\ SumOver(bytes, K \ L) \in Nat
    <3>1. (\A r \in L : bytes[r] \in Nat) /\ (\A r \in K \ L : bytes[r] \in Nat)
      BY <2>4, <2>6
    <3> QED BY <3>1, <2>7, SumType
  <2>11. /\ Cardinality(L) <= MaxEntries /\ SumOver(bytes, L) <= MaxTotalBytes
         /\ \A r \in L : bytes[r] <= MaxBlobBytes
    BY <2>4, <2>5, <2>8, <2>9, <2>10, BudgetAssumption
  <2> QED BY <2>1, <2>3, <2>11 DEF RestartFits, LoadFits
<1> QED BY <1>1, <1>2, <1>3 DEF BlobIInv, BlobAccount

\* Close waits until no entry has a reader, an upload's included.
LEMMA CloseKeeps ==
  ASSUME BlobIInv, Close
  PROVE  BlobIInv'
<1>1. storeClosed' \in BOOLEAN /\ storeClosed'
  BY DEF Close
<1>2. BlobTypeOK' /\ UsedIsSumOfEntries' /\ Cardinality(entries') <= MaxEntries
  BY <1>1 DEF Close, BlobIInv, BlobAccount, BlobTypeOK, UsedIsSumOfEntries, Sizes
<1>3. ASSUME NEW r \in Refs PROVE RefOK(r)'
  <2>1. RefOK(r) /\ handles[r] \in Nat
    BY RefFacts
  <2>2. ~(file[r] = "pending" /\ r \in entries)
    BY <2>1 DEF Close, RefOK, UploadEntry
  <2>3. handles[r] = 0
    BY <2>1 DEF Close, RefOK
  <2> QED BY <2>1, <2>2, <2>3 DEF Close, RefOK
<1>4. RestartFits'
  BY DEF Close, BlobIInv, RestartFits, LoadFits, Kept, OnDisk
<1> QED BY <1>2, <1>3, <1>4 DEF BlobIInv, BlobAccount

\* Whenever the process ends, the directory keeps what load would keep.
LEMMA EndKeeps ==
  ASSUME BlobIInv, ProcessEnds
  PROVE  BlobIInv'
<1>1. NoEntry \in BlobEntries /\ 0 \in 0..(MaxBlobBytes + 1) /\ 0 \in 0..MaxReaders /\ 0 \in 0..MaxTotalBytes
  BY BudgetAssumption, BoundsAssumption DEF NoEntry, BlobEntries
<1>2. storeClosed' \in BOOLEAN /\ storeClosed'
  BY DEF ProcessEnds
<1>3. restarts' \in 0..MaxRestarts
  BY BoundsAssumption DEF ProcessEnds, BlobIInv, BlobAccount, BlobTypeOK
<1>4. BlobTypeOK'
  <2>1. /\ entries' = {} /\ entry' \in [Refs -> BlobEntries] /\ used' = 0
        /\ handles' \in [Refs -> 0..MaxReaders] /\ outdated' = outdated
    BY <1>1 DEF ProcessEnds
  <2>2. /\ file' \in [Refs -> FileStates] /\ bytes' \in [Refs -> 0..(MaxBlobBytes + 1)]
        /\ put' \in [Refs -> {"idle", "copying", "copied", "returned"}]
    BY <1>1 DEF ProcessEnds, BlobIInv, BlobAccount, BlobTypeOK, FileStates
  <2> QED BY <1>1, <1>2, <1>3, <2>1, <2>2 DEF BlobIInv, BlobAccount, BlobTypeOK, FileStates
<1>5. ASSUME NEW r \in Refs PROVE RefOK(r)'
  <2>1. RefOK(r) /\ file[r] \in FileStates
    BY RefFacts
  <2>2. /\ entries' = {} /\ entry'[r] = NoEntry /\ handles'[r] = 0
        /\ put'[r] = (IF put[r] = "idle" THEN "idle" ELSE "returned")
        /\ file'[r] = (IF file[r] \in {"pending", "published"} THEN file[r] ELSE "none")
        /\ bytes'[r] = (IF file[r] \in {"pending", "published"} THEN bytes[r] ELSE 0)
    BY DEF ProcessEnds, OnDisk
  <2> QED BY <1>2, <2>1, <2>2 DEF RefOK
<1>6. UsedIsSumOfEntries' /\ Cardinality(entries') <= MaxEntries
  BY SumEmpty, FS_EmptySet, BudgetAssumption DEF ProcessEnds, UsedIsSumOfEntries
<1>7. RestartFits'
  <2>1. Kept' = Kept /\ Kept \subseteq Refs
    BY DEF ProcessEnds, Kept, OnDisk
  <2>2. \A r \in Kept : bytes[r] = bytes'[r] /\ bytes[r] \in Nat
    BY BlobNumbers DEF ProcessEnds, Kept, OnDisk
  <2>3. PICK K : K = Kept
    OBVIOUS
  <2>4. SumOver(bytes, K) = SumOver(bytes', K)
    <3>1. IsFiniteSet(K)
      BY <2>1, <2>3, RefsFinite
    <3>2. \A r \in K : bytes[r] \in Nat /\ bytes[r] = bytes'[r]
      BY <2>2, <2>3
    <3>3. PICK b : b = bytes'
      OBVIOUS
    <3> QED BY <3>1, <3>2, <3>3, SumSame
  <2> QED BY <2>1, <2>2, <2>3, <2>4 DEF BlobIInv, RestartFits, LoadFits
<1> QED BY <1>4, <1>5, <1>6, <1>7 DEF BlobIInv, BlobAccount

\* load rebuilds the account from the files it keeps.
LEMMA LoadKeeps ==
  ASSUME BlobIInv, Load
  PROVE  BlobAccount'
<1> DEFINE K == Kept
<1>1. K \subseteq Refs /\ \A r \in K : file[r] = "published" /\ bytes[r] \in Nat /\ bytes[r] <= MaxBlobBytes
  BY BlobNumbers DEF Kept, OnDisk, Load, LoadFits
<1>2. storeClosed' \in BOOLEAN /\ ~storeClosed' /\ storeClosed
  BY DEF Load, Down
<1> DEFINE n(r) == PublishedEntry(bytes[r])
<1>3. \A r \in K : n(r) \in BlobEntries /\ n(r).size = bytes[r] /\ n(r).readers = 0 /\ ~n(r).deleted
  <2> SUFFICES ASSUME NEW r \in K
               PROVE  n(r) \in BlobEntries /\ n(r).size = bytes[r] /\ n(r).readers = 0 /\ ~n(r).deleted
    OBVIOUS
  <2>1. bytes[r] \in 0..MaxBlobBytes
    BY <1>1, BudgetAssumption
  <2> QED BY <2>1 DEF PublishedEntry, BlobEntries
<1>4. NoEntry \in BlobEntries /\ 0 \in 0..(MaxBlobBytes + 1)
  BY BudgetAssumption DEF NoEntry, BlobEntries
<1>5. /\ entries' = K /\ entry' = [r \in Refs |-> IF r \in K THEN n(r) ELSE NoEntry]
      /\ used' = SumOver(bytes, K) /\ file' = [r \in Refs |-> IF r \in K THEN file[r] ELSE "none"]
      /\ bytes' = [r \in Refs |-> IF r \in K THEN bytes[r] ELSE 0]
      /\ UNCHANGED <<outdated, put, handles, restarts>>
  BY DEF Load
<1>6. Cardinality(K) <= MaxEntries /\ SumOver(bytes, K) <= MaxTotalBytes
  BY DEF Load, LoadFits
<1> HIDE DEF K, n
<1>7. IsFiniteSet(K) /\ SumOver(bytes, K) \in Nat
  <2>1. \A r \in K : bytes[r] \in Nat
    BY <1>1
  <2> QED BY <1>1, <2>1, RefsFinite, SumType
<1>8. BlobTypeOK'
  <2>1. used' \in 0..MaxTotalBytes
    BY <1>5, <1>6, <1>7, BudgetAssumption
  <2>2. entry' \in [Refs -> BlobEntries] /\ entries' \subseteq Refs
    BY <1>1, <1>3, <1>4, <1>5
  <2>3. file' \in [Refs -> FileStates] /\ bytes' \in [Refs -> 0..(MaxBlobBytes + 1)]
    BY <1>4, <1>5 DEF BlobIInv, BlobAccount, BlobTypeOK, FileStates
  <2> QED BY <1>2, <1>5, <2>1, <2>2, <2>3 DEF BlobIInv, BlobAccount, BlobTypeOK, FileStates
<1>9. ASSUME NEW r \in Refs PROVE RefOK(r)'
  <2>1. RefOK(r) /\ file[r] \in FileStates /\ handles[r] \in Nat
    BY RefFacts
  <2>2. handles[r] = 0 /\ put[r] \notin {"copying", "copied"}
    BY <1>2, <2>1 DEF RefOK
  <2>3. CASE r \in K
    <3>1. /\ r \in entries' /\ entry'[r] = n(r) /\ file'[r] = "published" /\ bytes'[r] = bytes[r]
          /\ put'[r] = put[r] /\ handles'[r] = 0
      BY <1>1, <1>5, <2>2, <2>3
    <3> QED BY <1>1, <1>2, <1>3, <2>1, <2>2, <2>3, <3>1 DEF RefOK
  <2>4. CASE r \notin K
    <3>1. /\ r \notin entries' /\ entry'[r] = NoEntry /\ file'[r] = "none" /\ bytes'[r] = 0
          /\ put'[r] = put[r] /\ handles'[r] = 0
      BY <1>5, <2>2, <2>4
    <3> QED BY <1>2, <2>1, <2>2, <3>1 DEF RefOK
  <2> QED BY <2>3, <2>4
<1>10. UsedIsSumOfEntries'
  <2> DEFINE y == Sizes'
  <2>1. \A r \in K : bytes[r] \in Nat /\ bytes[r] = y[r]
    BY <1>1, <1>3, <1>5 DEF Sizes
  <2> HIDE DEF y
  <2>2. SumOver(bytes, K) = SumOver(y, K)
    BY <1>7, <2>1, SumSame
  <2> QED BY <1>5, <2>2 DEF UsedIsSumOfEntries, y
<1> QED BY <1>5, <1>6, <1>8, <1>9, <1>10 DEF BlobAccount

\* Every step keeps the invariant.
LEMMA BlobStep == BlobIInv /\ [BlobNext]_blobVars => BlobIInv'
<1> SUFFICES ASSUME BlobIInv, [BlobNext]_blobVars PROVE BlobIInv'
  OBVIOUS
<1>1. CASE Sweep
  <2>1. PICK R \in SUBSET Stale : RemoveEntries(R)
    BY <1>1 DEF Sweep
  <2>2. R \subseteq Live /\ ~storeClosed /\ UNCHANGED <<storeClosed, outdated, put, handles, restarts>>
    BY <1>1 DEF Stale, Sweep
  <2>3. BlobAccount'
    BY <2>1, <2>2, RemoveKeeps
  <2> QED BY <2>2, <2>3, OpenFits DEF BlobIInv
<1>2. ASSUME NEW r \in Refs, Delete(r) \/ GetStale(r) PROVE BlobIInv'
  <2>1. PICK R : R = {r}
    OBVIOUS
  <2>2. R \subseteq Live /\ RemoveEntries(R) /\ ~storeClosed /\ UNCHANGED <<storeClosed, outdated, put, handles, restarts>>
    BY <1>2, <2>1 DEF Delete, GetStale, Stale
  <2>3. BlobAccount'
    BY <2>2, RemoveKeeps
  <2> QED BY <2>2, <2>3, OpenFits DEF BlobIInv
<1>3. ASSUME NEW r \in Refs,
             \/ PutReserves(r) \/ (\E n \in 0..(MaxBlobBytes + 1) : PutCopies(r, n)) \/ PutPublishes(r)
             \/ PutFails(r) \/ PutFailsLeaking(r) \/ Get(r) \/ Release(r)
      PROVE  BlobIInv'
  <2>1. BlobAccount'
    BY <1>3, ReservesKeeps, CopiesKeeps, PublishesKeeps, FailsKeeps, LeakKeeps, GetKeeps, ReleaseKeeps
  <2>2. ~storeClosed'
    <3>1. RefOK(r) /\ handles[r] \in Nat
      BY RefFacts
    <3>2. ~storeClosed
      BY <1>3, <3>1 DEF PutReserves, PutCopies, PutPublishes, PutFails, PutFailsLeaking, Get, Release, RefOK
    <3> QED BY <1>3, <3>2
        DEF PutReserves, PutCopies, PutPublishes, PutFails, PutFailsLeaking, Get, Release
  <2> QED BY <2>1, <2>2, OpenFits DEF BlobIInv
<1>4. CASE \E r \in Refs : Expire(r)
  BY <1>4, ExpireKeeps
<1>5. CASE Close
  BY <1>5, CloseKeeps
<1>6. CASE ProcessEnds
  BY <1>6, EndKeeps
<1>7. CASE Load
  <2>1. BlobAccount' /\ ~storeClosed'
    BY <1>7, LoadKeeps DEF Load
  <2> QED BY <2>1, OpenFits DEF BlobIInv
<1>8. CASE UNCHANGED blobVars
  BY <1>8 DEF blobVars, BlobIInv, BlobAccount, BlobTypeOK, RefOK, UsedIsSumOfEntries, Sizes,
              RestartFits, LoadFits, Kept, OnDisk
<1> QED BY <1>1, <1>2, <1>3, <1>4, <1>5, <1>6, <1>7, <1>8 DEF BlobNext

\* The blob store of the judge engine (execution/store/disk.go) keeps its
\* account, the disk within it, restarts that fit, and a quiet Close, for any
\* budget, any number of uploads, readers and restarts.
THEOREM BlobStoreIsSafe == BlobSpec => []BlobInv
<1>1. BlobIInv => BlobInv
  <2> SUFFICES ASSUME BlobIInv PROVE BlobInv
    OBVIOUS
  <2>1. ClosedIsQuiet
    <3> SUFFICES ASSUME storeClosed, NEW r \in Refs
                 PROVE  put[r] \notin {"copying", "copied"} /\ handles[r] = 0
      BY DEF ClosedIsQuiet
    <3>1. RefOK(r) /\ handles[r] \in Nat
      BY RefFacts
    <3> QED BY <3>1 DEF RefOK
  <2> QED BY <2>1, OpenAccounts DEF BlobIInv, BlobAccount, BlobInv
<1> QED BY <1>1, BlobInitOK, BlobStep, PTL DEF BlobSpec

-----------------------------------------------------------------------------
(* ExecutionPool *)

USE DEF Executing, HasSlot, HasPlace, InFlight

\* A new pool satisfies the invariant.
LEMMA InitEstablishesPoolInv == PoolInit => PoolInv
BY DEF PoolInit, PoolInv, PoolTypeOK, Holdings, StopInv, CloseInv

\* Every step of a call of Run preserves the invariant.
LEMMA RunKeepsPoolInv ==
    ASSUME NEW r \in Requests, PoolInv,
           \/ Admit(r) \/ HangUp(r) \/ CancelArrives(r) \/ TakeSlot(r)
           \/ GiveUp(r) \/ ExecutorReturns(r) \/ RunStep(r)
    PROVE  PoolInv'
<1> USE DEF PoolInv, PoolTypeOK, Holdings, StopInv, CloseInv, MoveTo
<1>1. CASE Admit(r)
  BY <1>1 DEF Admit
<1>2. CASE HangUp(r)
  BY <1>2 DEF HangUp
<1>3. CASE CancelArrives(r)
  BY <1>3 DEF CancelArrives
<1>4. CASE TakeSlot(r)
  BY <1>4 DEF TakeSlot
<1>5. CASE GiveUp(r)
  BY <1>5 DEF GiveUp
<1>6. CASE ExecutorReturns(r)
  BY <1>6 DEF ExecutorReturns
<1>7. CASE CheckContext(r)
  BY <1>7 DEF CheckContext
<1>8. CASE CheckPool(r)
  BY <1>8 DEF CheckPool
<1>9. CASE StartExecutor(r)
  BY <1>9 DEF StartExecutor
<1>10. CASE Poison(r)
  <2>1. wg # {}
    BY <1>10 DEF Poison
  <2>. QED  BY <1>10, <2>1 DEF Poison
<1>11. CASE ReleaseSlot(r)
  BY <1>11 DEF ReleaseSlot
<1>12. CASE ReleaseAdmission(r)
  BY <1>12 DEF ReleaseAdmission
<1>13. CASE Done(r)
  BY <1>13 DEF Done
<1>. QED
  BY <1>1, <1>2, <1>3, <1>4, <1>5, <1>6, <1>7, <1>8, <1>9, <1>10, <1>11, <1>12, <1>13
  DEF RunStep

\* So does every step of a call of Close.
LEMMA CloseKeepsPoolInv ==
    ASSUME NEW k \in Closers, PoolInv, CloseStarts(k) \/ CloseEnds(k)
    PROVE  PoolInv'
<1> USE DEF PoolInv, PoolTypeOK, Holdings, StopInv, CloseInv
<1>1. CASE CloseStarts(k)
  BY <1>1 DEF CloseStarts
<1>2. CASE CloseEnds(k)
  BY <1>2 DEF CloseEnds
<1>. QED  BY <1>1, <1>2

\* The inductive invariant: sem, admitted and the wait group hold exactly the
\* calls of Run that are inside them, a closed pool is cancelled, and a Close
\* that returned left nothing in flight.
THEOREM PoolInvariant == PoolSpec => []PoolInv
<1>1. PoolInit => PoolInv
  BY InitEstablishesPoolInv
<1>2. PoolInv /\ [PoolNext]_poolVars => PoolInv'
  <2> SUFFICES ASSUME PoolInv, [PoolNext]_poolVars PROVE PoolInv'
    OBVIOUS
  <2>1. CASE UNCHANGED poolVars
    BY <2>1 DEF poolVars, PoolInv, PoolTypeOK, Holdings, StopInv, CloseInv
  <2>2. CASE PoolNext
    BY <2>2, RunKeepsPoolInv, CloseKeepsPoolInv DEF PoolNext
  <2>. QED  BY <2>1, <2>2
<1>. QED  BY <1>1, <1>2, PTL DEF PoolSpec

\* Nothing that gets its slot after the pool stopped is executed.
THEOREM StoppedPool == PoolSpec => []StoppedPoolStartsNothing
<1>1. PoolInv => StoppedPoolStartsNothing
  BY DEF PoolInv, StopInv, StoppedPoolStartsNothing
<1>. QED  BY <1>1, PoolInvariant, PTL

\* A Close that returned has waited for every run.
THEOREM CloseWaits == PoolSpec => []CloseWaitsForAll
<1>1. PoolInv => CloseWaitsForAll
  BY DEF PoolInv, PoolTypeOK, Holdings, CloseInv, CloseWaitsForAll
<1>. QED  BY <1>1, PoolInvariant, PTL

\* A Close that returned has reported every unconfirmed clean-up there will
\* ever be.
THEOREM CloseReports == PoolSpec => []CloseReportsEveryFailure
<1>1. PoolInv => CloseReportsEveryFailure
  BY DEF PoolInv, CloseInv, CloseReportsEveryFailure
<1>. QED  BY <1>1, PoolInvariant, PTL
=============================================================================
