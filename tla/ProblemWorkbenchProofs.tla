----------------------- MODULE ProblemWorkbenchProofs -----------------------
(***************************************************************************)
(* What the workbench says is saved was stored, the timer never changes     *)
(* what students see, and a problem becomes public only with calibrated     *)
(* test data unless the data was replaced and put back meanwhile: for any   *)
(* texts, tags, samples, drivers and digests, and any number of acts,       *)
(* faults and requests.  The argument is about copies of the row:     *)
(* they lag behind, but one with the row's version agrees with it on        *)
(* whether the problem is public, and requests carry such versions.         *)
(***************************************************************************)
EXTENDS ProblemWorkbench, SequenceTheorems, TLAPS

-----------------------------------------------------------------------------
(* The form. *)

\* An element removed from or inserted into a sequence leaves one over the same set.
LEMMA SequenceEdits ==
  ASSUME NEW S, NEW s \in Seq(S), NEW e \in S, NEW i \in 1..Len(s)
  PROVE  /\ RemoveAt(s, i) \in Seq(S)
         /\ InsertAt(s, i + 1, e) \in Seq(S)
         /\ ReplaceAt(s, i, e) \in Seq(S)
         /\ Append(s, e) \in Seq(S)
         /\ i < Len(s) => [s EXCEPT ![i] = s[i + 1], ![i + 1] = s[i]] \in Seq(S)
<1>0. Len(s) \in Nat /\ i \in Nat /\ i >= 1 /\ i <= Len(s)
  BY LenProperties
<1>1. RemoveAt(s, i) \in Seq(S)
  <2>1. SubSeq(s, 1, i - 1) \in Seq(S)
    BY <1>0, SubSeqProperties
  <2>2. SubSeq(s, i + 1, Len(s)) \in Seq(S)
    BY <1>0, SubSeqProperties
  <2> QED
    BY <2>1, <2>2, ConcatProperties DEF RemoveAt
<1>2. InsertAt(s, i + 1, e) \in Seq(S)
  <2>1. SubSeq(s, 1, (i + 1) - 1) \in Seq(S)
    BY <1>0, SubSeqProperties
  <2>2. SubSeq(s, i + 1, Len(s)) \in Seq(S)
    BY <1>0, SubSeqProperties
  <2>3. SubSeq(s, 1, (i + 1) - 1) \o <<e>> \in Seq(S)
    BY <2>1, ConcatProperties
  <2> QED
    BY <2>2, <2>3, ConcatProperties DEF InsertAt
<1>3. ReplaceAt(s, i, e) \in Seq(S)
  BY <1>0, ExceptSeq DEF ReplaceAt
<1>4. ASSUME i < Len(s) PROVE [s EXCEPT ![i] = s[i + 1], ![i + 1] = s[i]] \in Seq(S)
  <2>1. s[i] \in S /\ s[i + 1] \in S
    BY <1>0, <1>4, ElementOfSeq
  <2> DEFINE t == [s EXCEPT ![i] = s[i + 1]]
  <2>2. t \in Seq(S) /\ Len(t) = Len(s)
    BY <1>0, <2>1, ExceptSeq
  <2>3. [t EXCEPT ![i + 1] = s[i]] \in Seq(S)
    <3> HIDE DEF t
    <3> QED
      BY <1>0, <1>4, <2>1, <2>2, ExceptSeq
  <2> QED
    BY <2>3
<1> QED
  BY <1>1, <1>2, <1>3, <1>4

\* Every edit of the form's controls leaves values of a problem.
LEMMA EditsAreValues ==
  ASSUME NEW v \in Values
  PROVE  Edits(v) \subseteq Values
<1> DEFINE S == {Filled, "emptySample"}
           G == Tags \ TooLong
<1>0. v.tags \in Seq(G) /\ v.samples \in Seq(S)
  BY DEF Values
<1>1. addDraft(v.tags) \subseteq Seq(G)
  BY <1>0 DEF addDraft
<1>2. dropTag(v.tags) \subseteq Seq(G)
  <2> SUFFICES ASSUME NEW i \in 1..Len(v.tags) PROVE RemoveAt(v.tags, i) \in Seq(G)
    BY DEF dropTag
  <2>1. v.tags[i] \in G
    BY <1>0, ElementOfSeq
  <2> QED
    BY <1>0, <2>1, SequenceEdits
<1>3. SampleEdits(v.samples) \subseteq Seq(S)
  <2> HIDE DEF S
  <2> DEFINE s == v.samples
  <2>0. Filled \in S /\ "emptySample" \in S
    BY DEF S
  <2>1. updateSample(s) \subseteq Seq(S)
    BY <1>0, <2>0, SequenceEdits DEF updateSample
  <2>2. move(s) \subseteq Seq(S)
    <3> SUFFICES ASSUME NEW i \in 1..(Len(s) - 1)
                 PROVE  [s EXCEPT ![i] = s[i + 1], ![i + 1] = s[i]] \in Seq(S)
      BY DEF move
    <3>1. Len(s) \in Nat
      BY <1>0, LenProperties
    <3>2. i \in 1..Len(s) /\ i < Len(s)
      BY <3>1
    <3> QED
      BY <1>0, <2>0, <3>2, SequenceEdits
  <2>3. duplicate(s) \subseteq Seq(S)
    <3> SUFFICES ASSUME NEW i \in 1..Len(s) PROVE InsertAt(s, i + 1, s[i]) \in Seq(S)
      BY DEF duplicate
    <3>1. s[i] \in S
      BY <1>0, ElementOfSeq
    <3> QED
      BY <1>0, <3>1, SequenceEdits
  <2>4. remove(s) \subseteq Seq(S)
    BY <1>0, <2>0, SequenceEdits DEF remove
  <2>5. Append(s, "emptySample") \in Seq(S)
    BY <1>0, <2>0, AppendProperties
  <2> QED
    BY <2>1, <2>2, <2>3, <2>4, <2>5 DEF SampleEdits
<1>4. DriverEdits(v.driver) \subseteq Drivers \union {NoDriver}
  BY DEF DriverEdits
<1> HIDE DEF S, G
<1>5. \A t \in Texts \union {Untitled} : [v EXCEPT !.text = t] \in Values
  BY DEF Values
<1>6. \A t \in Seq(G) : [v EXCEPT !.tags = t] \in Values
  BY DEF Values, G
<1>7. \A s \in Seq(S) : [v EXCEPT !.samples = s] \in Values
  BY DEF Values, S
<1>8. \A d \in Drivers \union {NoDriver} : [v EXCEPT !.driver = d] \in Values
  BY DEF Values
<1> QED
  BY <1>1, <1>2, <1>3, <1>4, <1>5, <1>6, <1>7, <1>8 DEF Edits

\* What the service stores of a save are values; storing them again, or storing
\* what is stored, changes nothing.
LEMMA StoredAgain ==
  ASSUME NEW v \in Values, NEW old \in Values
  PROVE  /\ Stored(v, old) \in Values
         /\ Same(v, Stored(v, old))
         /\ Same(v, v)
<1>1. Stored(v, old) \in Values
  BY DEF Stored, Values
<1>2. Same(v, v)
  BY DEF Same, Stored, Values
<1>3. Same(v, Stored(v, old))
  <2> DEFINE d == IF IsCore /\ v.driver # NoDriver THEN v.driver ELSE old.driver
             w == [v EXCEPT !.driver = d]
  <2>1. Stored(v, old) = w
    BY DEF Stored
  <2>2. w.driver = d
    BY DEF Values
  <2>3. (IF IsCore /\ v.driver # NoDriver THEN v.driver ELSE w.driver) = d
    BY <2>2
  <2>4. Stored(v, w) = w
    <3> HIDE DEF d
    <3> QED
      BY <2>3 DEF Stored
  <2> QED
    BY <2>1, <2>4 DEF Same
<1> QED
  BY <1>1, <1>2, <1>3

-----------------------------------------------------------------------------
(* Rows, copies and requests. *)

\* How a step may move the row, and what it may add to the history.
RowMoves ==
    /\ row' \in Rows /\ held \subseteq held' /\ vouched \subseteq vouched'
    /\ row.version <= row'.version
    /\ row'.version = row.version => row'.public = row.public

\* A step that leaves the service alone.
RowStays == UNCHANGED <<row, valid, vouched, held>>

\* A copy of the row stays one while the row moves on.
LEMMA CopyLags ==
  ASSUME row \in Rows, RowMoves, NEW s \in Rows, WasRow(s)
  PROVE  /\ s.values \in held' /\ s.version <= row'.version
         /\ s.version = row'.version => s.public = row'.public
<1>1. row.version \in Nat /\ row'.version \in Nat /\ s.version \in Nat
  BY DEF Rows, RowMoves
<1> QED
  BY <1>1 DEF WasRow, RowMoves

\* A request keeps fitting while the row moves on.
LEMMA RequestLags ==
  ASSUME row \in Rows, RowMoves, NEW r \in Requests, RequestFits(r)
  PROVE  RequestFits(r)'
<1>1. row.version \in Nat /\ row'.version \in Nat /\ r.version \in Nat /\ r.answer \in Rows \union {None}
  BY DEF Rows, RowMoves, Requests
<1>2. (r.kind \in {"save", "reload"} /\ r.stage = "ok" => r.answer # None /\ WasRow(r.answer))'
  BY <1>1, CopyLags DEF RequestFits, WasRow
<1>3. (r.kind = "save" => r.values \in Values /\ (r.stage = "ok" => WasHeld(r.values)))'
  BY DEF RequestFits, WasHeld, RowMoves
<1>4. (r.kind = "save" /\ r.by = "timer" =>
           r.version <= row.version /\ (r.version = row.version => ~row.public))'
  BY <1>1 DEF RequestFits, RowMoves
<1>5. (/\ r.kind = "publish" /\ r.stage = "asking" => r.asked # 0
       /\ r.kind = "publish" /\ r.stage = "checked" => r.asked \in vouched)'
  BY DEF RequestFits, RowMoves
<1> QED
  BY <1>2, <1>3, <1>4, <1>5 DEF RequestFits

\* A request with another listener carries the same.
LEMMA Listener ==
  ASSUME NEW r \in Requests, NEW h \in {"editor", "page", "nobody"}
  PROVE  LET q == [r EXCEPT !.heard = h] IN
         q \in Requests /\ q.heard = h /\ (RequestFits(r) => RequestFits(q))
<1> DEFINE q == [r EXCEPT !.heard = h]
<1>1. /\ q \in Requests /\ q.heard = h /\ q.kind = r.kind /\ q.version = r.version /\ q.values = r.values
      /\ q.by = r.by /\ q.data = r.data /\ q.asked = r.asked /\ q.stage = r.stage /\ q.answer = r.answer
  BY DEF Requests
<1> HIDE DEF q
<1>2. RequestFits(r) => RequestFits(q)
  BY <1>1 DEF RequestFits
<1> QED
  BY <1>1, <1>2 DEF q

\* The answer to a request is of its kind and for its listener.
LEMMA Answering ==
  ASSUME NEW r \in Requests, NEW a \in Rows \union {None},
         NEW st \in {"ok", "FAILED", "conflict", "refused"}
  PROVE  LET q == [r EXCEPT !.stage = st, !.answer = a] IN
         /\ q \in Requests /\ q.heard = r.heard /\ q.kind = r.kind /\ q.version = r.version
         /\ q.values = r.values /\ q.by = r.by /\ q.data = r.data /\ q.asked = r.asked /\ q.stage = st /\ q.answer = a
  BY DEF Requests

\* A step of the service, or one that only sends: the page keeps its copies, and
\* every request that is new fits.
LEMMA ServiceKeeps ==
  ASSUME WorkbenchInv, TypeOK', RowMoves,
         row'.values \in held', valid' \in vouched' \union {0},
         UNCHANGED <<cache, fetch, mounted, editor>>,
         NEW Q, wire' \subseteq wire \union Q,
         \A q \in Q : RequestFits(q)' /\ (q.heard = "editor" => InEditor)
  PROVE  WorkbenchInv'
<1>0. row \in Rows /\ wire \subseteq Requests /\ cache \in Rows \union {None} /\ fetch \in Rows \union {None}
  BY DEF WorkbenchInv, TypeOK
<1>1. ASSUME NEW s \in {cache', fetch'}, s # None PROVE WasRow(s)'
  <2>1. s \in Rows /\ WasRow(s)
    BY <1>0, <1>1 DEF WorkbenchInv
  <2> QED
    BY <1>0, <2>1, CopyLags DEF WasRow
<1>2. ASSUME NEW q \in wire' PROVE RequestFits(q)' /\ (q.heard = "editor" => InEditor')
  <2>1. CASE q \in wire
    BY <1>0, <2>1, RequestLags DEF WorkbenchInv, InEditor
  <2>2. CASE q \in Q
    BY <2>2 DEF InEditor
  <2> QED
    BY <1>2, <2>1, <2>2
<1>3. InEditor' => mounted' /\ cache' # None /\ WasHeld(editor.saved)'
  BY DEF WorkbenchInv, InEditor, WasHeld, RowMoves
<1> QED
  BY <1>1, <1>2, <1>3 DEF WorkbenchInv

\* A step of the page: the service keeps its row.
LEMMA PageKeeps ==
  ASSUME WorkbenchInv, TypeOK', RowStays,
         cache' # None => WasRow(cache'), fetch' # None => WasRow(fetch'),
         \A q \in wire' : RequestFits(q) /\ (q.heard = "editor" => InEditor'),
         InEditor' => mounted' /\ cache' # None /\ WasHeld(editor'.saved)
  PROVE  WorkbenchInv'
<1>1. row' = row /\ valid' = valid /\ vouched' = vouched /\ held' = held
  BY DEF RowStays
<1>2. \A q \in wire' : RequestFits(q)'
  BY <1>1 DEF RequestFits, WasRow, WasHeld
<1>3. (\A s \in {cache, fetch} : s # None => WasRow(s))'
  BY <1>1 DEF WasRow
<1>4. (InEditor => mounted /\ cache # None /\ WasHeld(editor.saved))'
  BY <1>1 DEF WasHeld
<1>5. (row.values \in held /\ valid \in vouched \union {0})'
  BY <1>1 DEF WorkbenchInv
<1> QED
  BY <1>2, <1>3, <1>4, <1>5 DEF WorkbenchInv

\* The workbench opens on a problem without requests or an editor.
LEMMA WorkbenchInit == Init => WorkbenchInv
<1> SUFFICES ASSUME Init PROVE WorkbenchInv
  OBVIOUS
<1>1. PICK public \in BOOLEAN, data \in {0, FirstData} :
        row = Row(public, data) /\ valid \in (IF public THEN {data} ELSE {0, data})
  BY DEF Init
<1>2. row \in Rows /\ row.values = First
  BY <1>1, FirstAssumption, DigestsAssumption DEF Row, Rows
<1>3. valid \in {0, FirstData} /\ vouched = {valid} \ {0}
  BY <1>1 DEF Init
<1>4. held = {First} /\ wire = {} /\ cache = None /\ fetch = None /\ editor = None
        /\ acts = 0 /\ faults = 0
  BY DEF Init
<1>5. node \in BOOLEAN /\ failed \in BOOLEAN /\ mounted \in BOOLEAN
  BY DEF Init
<1>6. TypeOK
  <2>1. check \in Checks
    BY DEF Init, Checks
  <2> QED
    BY <1>2, <1>3, <1>4, <1>5, <2>1, FirstAssumption, DigestsAssumption DEF TypeOK
<1> QED
  BY <1>2, <1>3, <1>4, <1>6 DEF WorkbenchInv, InEditor

-----------------------------------------------------------------------------
(* The service. *)

\* A refusal leaves the service alone and answers without a row.
LEMMA Refusing ==
  ASSUME WorkbenchInv, NEW r \in wire, NEW st \in {"ok", "FAILED", "conflict", "refused"},
         Refuse(r, st), st = "ok" => r.kind \notin {"save", "reload"},
         UNCHANGED <<queryVars, editor>>, Unbounded
  PROVE  WorkbenchInv' /\ RowStays
<1> DEFINE q == [r EXCEPT !.stage = st, !.answer = None]
<1>0. r \in Requests /\ RequestFits(r) /\ (r.heard = "editor" => InEditor)
  BY DEF WorkbenchInv, TypeOK
<1>1. /\ q \in Requests /\ q.heard = r.heard /\ q.kind = r.kind /\ q.version = r.version
      /\ q.values = r.values /\ q.by = r.by /\ q.data = r.data /\ q.asked = r.asked /\ q.stage = st
  BY <1>0 DEF Requests
<1>2. wire' \subseteq wire \union {q} /\ UNCHANGED serverVars
  BY DEF Refuse, Answer
<1> HIDE DEF q
<1>3. RowStays /\ RowMoves
  BY <1>2 DEF serverVars, RowStays, RowMoves, WorkbenchInv, TypeOK, Rows
<1>4. RequestFits(q)
  BY <1>0, <1>1 DEF RequestFits
<1>5. RequestFits(q)'
  <2>1. row \in Rows
    BY DEF WorkbenchInv, TypeOK
  <2> QED
    BY <1>1, <1>3, <1>4, <2>1, RequestLags
<1>6. TypeOK'
  BY <1>1, <1>2 DEF WorkbenchInv, TypeOK, serverVars, queryVars, Unbounded
<1>7. row'.values \in held' /\ valid' \in vouched' \union {0}
  BY <1>2 DEF WorkbenchInv, serverVars
<1>8. UNCHANGED <<cache, fetch, mounted, editor>>
  BY DEF queryVars
<1> QED
  BY <1>0, <1>1, <1>2, <1>3, <1>5, <1>6, <1>7, <1>8, ServiceKeeps

\* What ServiceKeeps asks of a request that is answered with a success.
LEMMA Succeeding ==
  ASSUME WorkbenchInv, NEW r \in wire, NEW a \in Rows \union {None}, Answer(r, "ok", a),
         RowMoves, row'.values \in held', valid' \in vouched' \union {0},
         valid' \in Digests \union {0}, vouched' \subseteq Digests \union {0}, held' \subseteq Values, node' \in BOOLEAN,
         r.kind \in {"save", "reload"} =>
            /\ a # None /\ a.values \in held' /\ a.version <= row'.version
            /\ a.version = row'.version => a.public = row'.public,
         r.kind = "save" => \E w \in held' : Same(r.values, w),
         UNCHANGED <<queryVars, editor>>, Unbounded
  PROVE  WorkbenchInv'
<1> DEFINE q == [r EXCEPT !.stage = "ok", !.answer = a]
<1>0. r \in Requests /\ RequestFits(r) /\ (r.heard = "editor" => InEditor) /\ row \in Rows
  BY DEF WorkbenchInv, TypeOK
<1>1. /\ q \in Requests /\ q.heard = r.heard /\ q.kind = r.kind /\ q.version = r.version
      /\ q.values = r.values /\ q.by = r.by /\ q.data = r.data /\ q.asked = r.asked /\ q.stage = "ok" /\ q.answer = a
  BY <1>0, Answering
<1>2. wire' \subseteq wire \union {q}
  BY DEF Answer
<1> HIDE DEF q
<1>3. RequestFits(r)'
  BY <1>0, RequestLags
<1>4. RequestFits(q)'
  BY <1>1, <1>3 DEF RequestFits, WasRow, WasHeld
<1>5. TypeOK'
  BY <1>1, <1>2 DEF WorkbenchInv, TypeOK, queryVars, Unbounded, RowMoves
<1>6. UNCHANGED <<cache, fetch, mounted, editor>>
  BY DEF queryVars
<1> QED
  BY <1>0, <1>1, <1>2, <1>4, <1>5, <1>6, ServiceKeeps

\* What a step does with the text of a public problem, and with a private problem
\* that becomes public.
TextStep == row.public /\ row'.values # row.values => row'.by # "timer"
DataStep == ~row.public /\ row'.public => row.data \in vouched \/ PutBack

\* A step that leaves the row's text, and its privacy, alone.
LEMMA QuietRow == RowStays => TextStep /\ DataStep
  BY DEF RowStays, TextStep, DataStep

\* Data that the judging service is ready for is calibrated.
LEMMA ReadyIsVouched ==
  ASSUME WorkbenchInv, NEW d \in Digests, readiness(d) = {}
  PROVE  d \in vouched
<1>1. "CALIBRATION" \notin readiness(d)
  OBVIOUS
<1>2. valid = d
  BY <1>1 DEF readiness
<1> QED
  BY <1>2, DigestsAssumption DEF WorkbenchInv

\* Without a failing check the row's test data is calibrated.
LEMMA CheckVouches ==
  ASSUME WorkbenchInv, publishCheck = {}
  PROVE  row.data \in vouched
<1>1. row.data # 0 /\ readiness(row.data) = {}
  BY DEF publishCheck
<1>2. row.data \in Digests
  BY <1>1 DEF WorkbenchInv, TypeOK, Rows
<1> QED
  BY <1>1, <1>2, ReadyIsVouched

\* PUT: the values of the row and their author change under the version the page knew.
LEMMA UpdateStep ==
  ASSUME WorkbenchInv, NEW r \in wire, r.kind = "save", update(r), UNCHANGED <<queryVars, editor>>, Unbounded
  PROVE  WorkbenchInv' /\ TextStep /\ DataStep
<1> DEFINE next == Stored(r.values, row.values)
<1>0. /\ row \in Rows /\ r \in Requests /\ RequestFits(r) /\ r.values \in Values /\ row.values \in Values
      /\ row.values \in held /\ held \subseteq Values
  BY DEF WorkbenchInv, TypeOK, Rows, RequestFits
<1>1. next \in Values /\ Same(r.values, next)
  BY <1>0, StoredAgain
<1> HIDE DEF next
<1>2. \/ Refuse(r, "refused") \/ Refuse(r, "conflict")
      \/ /\ row.version = r.version
         /\ row' = Written(row, next, r.by) /\ held' = held \union {next}
         /\ Answer(r, "ok", row') /\ UNCHANGED <<valid, vouched, node>>
  BY DEF update, next
<1>3. CASE Refuse(r, "refused") \/ Refuse(r, "conflict")
  BY <1>3, Refusing, QuietRow
<1>4. CASE /\ row.version = r.version
           /\ row' = Written(row, next, r.by) /\ held' = held \union {next}
           /\ Answer(r, "ok", row') /\ UNCHANGED <<valid, vouched, node>>
  <2>1. r.by \in {"admin", "timer"}
    BY <1>0 DEF Requests
  <2>2. /\ row' \in Rows /\ row'.version = row.version + 1 /\ row'.values = next
        /\ row'.public = row.public /\ row'.by = r.by
    <3>1. PICK n \in Nat : n = row.version + 1
      BY <1>0 DEF Rows
    <3>2. row' = [row EXCEPT !.version = n, !.values = next, !.by = r.by]
      BY <1>4, <3>1 DEF Written
    <3> QED
      BY <1>0, <1>1, <2>1, <3>1, <3>2 DEF Rows
  <2>3. row.version \in Nat
    BY <1>0 DEF Rows
  <2>4. RowMoves
    BY <1>4, <2>2, <2>3 DEF RowMoves
  <2>5. row'.values \in held' /\ \E w \in held' : Same(r.values, w)
    BY <1>1, <1>4, <2>2
  <2>6. /\ valid' \in vouched' \union {0} /\ valid' \in Digests \union {0} /\ vouched' \subseteq Digests \union {0}
        /\ held' \subseteq Values /\ node' \in BOOLEAN
    BY <1>0, <1>1, <1>4 DEF WorkbenchInv, TypeOK
  <2>7. WorkbenchInv'
    <3>1. row' # None /\ row'.version <= row'.version
      BY <2>2, <2>3, NoneAssumption
    <3> QED
      BY <1>4, <2>2, <2>4, <2>5, <2>6, <3>1, Succeeding
  <2>8. TextStep
    BY <1>0, <1>4, <2>2 DEF TextStep, RequestFits
  <2>9. DataStep
    BY <2>2 DEF DataStep
  <2> QED
    BY <2>7, <2>8, <2>9
<1> QED
  BY <1>2, <1>3, <1>4

\* A request that changes the row beside its values: what it has to keep.
LEMMA RowStep ==
  ASSUME WorkbenchInv, NEW r \in wire, r.kind \notin {"save", "reload"}, Answer(r, "ok", None),
         row' \in Rows, row'.values = row.values, row'.version \in {row.version, row.version + 1},
         row'.version = row.version => row'.public = row.public,
         ~row.public /\ row'.public => row.data \in vouched \/ PutBack,
         UNCHANGED <<valid, vouched, held, node>>, UNCHANGED <<queryVars, editor>>, Unbounded
  PROVE  WorkbenchInv' /\ TextStep /\ DataStep
<1>1. row.version \in Nat
  BY DEF WorkbenchInv, TypeOK, Rows
<1>2. RowMoves
  BY <1>1 DEF RowMoves
<1>3. row'.values \in held'
  BY DEF WorkbenchInv
<1>4. /\ valid' \in vouched' \union {0} /\ valid' \in Digests \union {0} /\ vouched' \subseteq Digests \union {0}
      /\ held' \subseteq Values /\ node' \in BOOLEAN
  BY DEF WorkbenchInv, TypeOK
<1>5. WorkbenchInv'
  BY <1>2, <1>3, <1>4, Succeeding
<1> QED
  BY <1>5 DEF TextStep, DataStep

\* POST archive and DELETE.
LEMMA RemovalStep ==
  ASSUME WorkbenchInv, NEW r \in wire, UNCHANGED <<queryVars, editor>>, Unbounded,
         (r.kind = "archive" /\ archive(r)) \/ (r.kind = "delete" /\ delete(r))
  PROVE  WorkbenchInv' /\ TextStep /\ DataStep
<1>0. row \in Rows /\ row.version \in Nat
  BY DEF WorkbenchInv, TypeOK, Rows
<1>1. \/ Refuse(r, "refused") \/ Refuse(r, "conflict")
      \/ /\ \/ row' = [row EXCEPT !.version = row.version + 1, !.active = FALSE]
            \/ row' = [row EXCEPT !.here = FALSE]
         /\ Answer(r, "ok", None) /\ UNCHANGED <<valid, vouched, held, node>>
  BY DEF archive, delete
<1>2. CASE Refuse(r, "refused") \/ Refuse(r, "conflict")
  BY <1>2, Refusing, QuietRow
<1>3. CASE /\ \/ row' = [row EXCEPT !.version = row.version + 1, !.active = FALSE]
              \/ row' = [row EXCEPT !.here = FALSE]
           /\ Answer(r, "ok", None) /\ UNCHANGED <<valid, vouched, held, node>>
  <2>1. /\ row' \in Rows /\ row'.values = row.values /\ row'.version \in {row.version, row.version + 1}
        /\ row'.public = row.public
    <3>1. PICK n \in Nat : n = row.version + 1
      BY <1>0
    <3>2. CASE row' = [row EXCEPT !.version = n, !.active = FALSE]
      BY <1>0, <3>1, <3>2 DEF Rows
    <3>3. CASE row' = [row EXCEPT !.here = FALSE]
      BY <1>0, <3>3 DEF Rows
    <3> QED
      BY <1>3, <3>1, <3>2, <3>3
  <2> QED
    BY <1>3, <2>1, RowStep
<1> QED
  BY <1>1, <1>2, <1>3

\* The upload of test data, which does not move the version.
LEMMA UploadStep ==
  ASSUME WorkbenchInv, NEW r \in wire, UNCHANGED <<queryVars, editor>>, Unbounded,
         r.kind = "upload", upload(r)
  PROVE  WorkbenchInv' /\ TextStep /\ DataStep
<1>0. row \in Rows
  BY DEF WorkbenchInv, TypeOK
<1>1. CASE Refuse(r, "refused")
  BY <1>1, Refusing, QuietRow
<1>2. CASE /\ \E d \in Digests : row' = [row EXCEPT !.data = d]
           /\ Answer(r, "ok", None) /\ UNCHANGED <<valid, vouched, held, node>>
  <2>1. /\ row' \in Rows /\ row'.values = row.values /\ row'.version = row.version
        /\ row'.public = row.public
    BY <1>0, <1>2 DEF Rows
  <2> QED
    BY <1>2, <2>1, RowStep
<1> QED
  BY <1>1, <1>2 DEF upload

\* A request goes on with a snapshot: a publication that has the judging service's
\* answer asked about vouched test data.
LEMMA GoesOnStep ==
  ASSUME WorkbenchInv, NEW r \in wire, UNCHANGED <<queryVars, editor>>, Unbounded,
         NEW st \in Running, NEW d \in Digests \union {0}, NEW a \in Digests \union {0},
         GoesOn(r, st, d, a),
         r.kind \notin {"save", "reload"},
         r.kind = "publish" => (st = "asking" => a # 0) /\ (st = "checked" => a \in vouched)
  PROVE  WorkbenchInv' /\ TextStep /\ DataStep
<1>0. r \in Requests /\ row \in Rows /\ (r.heard = "editor" => InEditor)
  BY DEF WorkbenchInv, TypeOK
<1>1. PICK q \in Requests : /\ q = [r EXCEPT !.stage = st, !.data = d, !.asked = a]
                            /\ q.kind = r.kind /\ q.heard = r.heard /\ q.stage = st /\ q.asked = a
  <2> DEFINE p == [r EXCEPT !.stage = st, !.data = d, !.asked = a]
  <2>1. p \in Requests /\ p.kind = r.kind /\ p.heard = r.heard /\ p.stage = st /\ p.asked = a
    BY <1>0 DEF Requests
  <2> QED
    BY <2>1
<1>2. wire' \subseteq wire \union {q} /\ UNCHANGED serverVars
  BY <1>1 DEF GoesOn
<1>3. RowStays /\ RowMoves
  BY <1>2 DEF serverVars, RowStays, RowMoves, WorkbenchInv, TypeOK, Rows
<1>4. RequestFits(q)'
  BY <1>1, <1>3 DEF RequestFits, RowStays
<1>5. TypeOK'
  BY <1>1, <1>2 DEF WorkbenchInv, TypeOK, serverVars, queryVars, Unbounded
<1>6. row'.values \in held' /\ valid' \in vouched' \union {0}
  BY <1>2 DEF WorkbenchInv, serverVars
<1>7. UNCHANGED <<cache, fetch, mounted, editor>>
  BY DEF queryVars
<1>8. \A p \in {q} : RequestFits(p)' /\ (p.heard = "editor" => InEditor)
  BY <1>0, <1>1, <1>4
<1>9. WorkbenchInv'
  BY <1>2, <1>3, <1>5, <1>6, <1>7, <1>8, ServiceKeeps
<1> QED
  BY <1>3, <1>9, QuietRow

\* The calibration: its last step vouches for the data it ran on.
LEMMA CalibrateStep ==
  ASSUME WorkbenchInv, NEW r \in wire, UNCHANGED <<queryVars, editor>>, Unbounded,
         r.kind = "calibrate", calibrate(r)
  PROVE  WorkbenchInv' /\ TextStep /\ DataStep
<1>1. CASE Refuse(r, "refused") \/ Refuse(r, "FAILED")
  BY <1>1, Refusing, QuietRow
<1>2. CASE GoesOn(r, "checked", row.data, 0)
  <2>1. row.data \in Digests \union {0} /\ "checked" \in Running
    BY DEF WorkbenchInv, TypeOK, Rows, Running
  <2> QED
    BY <1>2, <2>1, GoesOnStep
<1>3. CASE /\ valid' = r.data /\ vouched' = vouched \union {r.data}
           /\ Answer(r, "ok", None) /\ UNCHANGED <<row, held, node>>
  <2>1. r.data \in Digests \union {0} /\ row \in Rows /\ row.version \in Nat
    BY DEF WorkbenchInv, TypeOK, Requests, Rows
  <2>2. RowMoves
    BY <1>3, <2>1 DEF RowMoves
  <2>3. /\ row'.values \in held' /\ valid' \in vouched' \union {0} /\ valid' \in Digests \union {0}
        /\ vouched' \subseteq Digests \union {0} /\ held' \subseteq Values /\ node' \in BOOLEAN
    BY <1>3, <2>1 DEF WorkbenchInv, TypeOK
  <2>4. WorkbenchInv'
    BY <1>3, <2>2, <2>3, Succeeding
  <2> QED
    BY <1>3, <2>4 DEF TextStep, DataStep
<1> QED
  BY <1>1, <1>2, <1>3 DEF calibrate

\* POST publish with its snapshots, the judging service's answer and the locked
\* transaction, and POST unpublish.
LEMMA PublishStep ==
  ASSUME WorkbenchInv, NEW r \in wire, UNCHANGED <<queryVars, editor>>, Unbounded,
         (r.kind = "publish" /\ publish(r)) \/ (r.kind = "unpublish" /\ unpublish(r))
  PROVE  WorkbenchInv' /\ TextStep /\ DataStep
<1>0. /\ row \in Rows /\ row.version \in Nat /\ RequestFits(r) /\ row.data \in Digests \union {0}
      /\ r.data \in Digests \union {0} /\ r.asked \in Digests \union {0} /\ 0 \in Digests \union {0}
      /\ {"before", "asking", "checked"} \subseteq Running
  BY DEF WorkbenchInv, TypeOK, Rows, Requests, Running
<1>1. CASE Refuse(r, "conflict") \/ Refuse(r, "ok")
  BY <1>1, Refusing, QuietRow
<1>2. CASE r.kind = "publish" /\ (publishBefore(r) \/ publishLocal(r))
  <2>1. \/ Refuse(r, "conflict") \/ Refuse(r, "ok")
        \/ GoesOn(r, "before", row.data, 0)
        \/ row.data # 0 /\ GoesOn(r, "asking", r.data, row.data)
    BY <1>2 DEF publishBefore, publishLocal, localChecks
  <2>2. CASE GoesOn(r, "before", row.data, 0)
    BY <1>0, <1>2, <2>2, GoesOnStep
  <2>3. CASE row.data # 0 /\ GoesOn(r, "asking", r.data, row.data)
    BY <1>0, <1>2, <2>3, GoesOnStep
  <2> QED
    BY <1>1, <2>1, <2>2, <2>3
<1>5. CASE r.kind = "publish" /\ publishRemote(r)
  <2>1. CASE Refuse(r, "conflict")
    BY <1>1, <2>1
  <2>2. CASE readiness(r.asked) = {} /\ GoesOn(r, "checked", r.data, r.asked)
    <3>1. r.asked \in Digests
      BY <1>0, <1>5 DEF publishRemote, RequestFits
    <3> QED
      BY <1>0, <1>5, <2>2, <3>1, ReadyIsVouched, GoesOnStep
  <2> QED
    BY <1>5, <2>1, <2>2 DEF publishRemote
<1>3. CASE /\ r.kind = "publish" /\ r.stage = "checked" /\ row.data = r.data
           /\ row' = [row EXCEPT !.version = row.version + 1, !.public = TRUE, !.published = TRUE]
           /\ Answer(r, "ok", None) /\ UNCHANGED <<valid, vouched, held, node>>
  <2>1. row' \in Rows /\ row'.values = row.values /\ row'.version = row.version + 1
    <3>1. PICK n \in Nat : n = row.version + 1
      BY <1>0
    <3>2. row' = [row EXCEPT !.version = n, !.public = TRUE, !.published = TRUE]
      BY <1>3, <3>1
    <3> QED
      BY <1>0, <3>1, <3>2 DEF Rows
  <2>2. row'.version # row.version
    BY <1>0, <2>1
  <2>3. row.data \in vouched \/ PutBack
    BY <1>0, <1>3 DEF RequestFits, PutBack
  <2> QED
    BY <1>3, <2>1, <2>2, <2>3, RowStep
<1>4. CASE /\ r.kind = "unpublish"
           /\ row' = [row EXCEPT !.version = row.version + 1, !.public = FALSE]
           /\ Answer(r, "ok", None) /\ UNCHANGED <<valid, vouched, held, node>>
  <2>1. /\ row' \in Rows /\ row'.values = row.values /\ row'.version = row.version + 1
        /\ row'.public = FALSE
    <3>1. PICK n \in Nat : n = row.version + 1
      BY <1>0
    <3>2. row' = [row EXCEPT !.version = n, !.public = FALSE]
      BY <1>4, <3>1
    <3> QED
      BY <1>0, <3>1, <3>2 DEF Rows
  <2>2. row'.version # row.version
    BY <1>0, <2>1
  <2> QED
    BY <1>4, <2>1, <2>2, RowStep
<1>6. CASE r.kind = "publish" /\ publishLocked(r)
  <2>1. \/ Refuse(r, "conflict")
        \/ /\ r.stage = "checked" /\ row.data = r.data
           /\ row' = [row EXCEPT !.version = row.version + 1, !.public = TRUE, !.published = TRUE]
           /\ Answer(r, "ok", None) /\ UNCHANGED <<valid, vouched, held, node>>
    BY <1>6 DEF publishLocked
  <2> QED
    BY <1>1, <1>3, <1>6, <2>1
<1>7. CASE r.kind = "unpublish" /\ unpublish(r)
  BY <1>1, <1>4, <1>7 DEF unpublish
<1> QED
  BY <1>2, <1>5, <1>6, <1>7 DEF publish

\* A read of the row.
LEMMA ReadStep ==
  ASSUME WorkbenchInv, NEW r \in wire, UNCHANGED <<queryVars, editor>>, Unbounded,
         r.kind = "reload", getProblem(r)
  PROVE  WorkbenchInv' /\ TextStep /\ DataStep
<1>1. CASE Refuse(r, "refused")
  BY <1>1, Refusing, QuietRow
<1>2. CASE Answer(r, "ok", row) /\ UNCHANGED serverVars
  <2>1. row \in Rows /\ row.version \in Nat /\ row # None
    BY NoneAssumption DEF WorkbenchInv, TypeOK, Rows
  <2>2. RowStays /\ RowMoves
    BY <1>2, <2>1 DEF serverVars, RowStays, RowMoves
  <2>3. /\ row'.values \in held' /\ valid' \in vouched' \union {0} /\ valid' \in Digests \union {0}
        /\ vouched' \subseteq Digests \union {0} /\ held' \subseteq Values /\ node' \in BOOLEAN
    BY <1>2 DEF WorkbenchInv, TypeOK, serverVars
  <2>4. row.values \in held' /\ row.version <= row'.version /\ row.public = row'.public
    BY <2>1, <2>2 DEF RowStays, WorkbenchInv
  <2> QED
    BY <1>2, <2>1, <2>2, <2>3, <2>4, Succeeding, QuietRow
<1> QED
  BY <1>1, <1>2 DEF getProblem

\* Every request that is served.
LEMMA ServeStep ==
  ASSUME WorkbenchInv, NEW r \in wire, Serve(r)
  PROVE  WorkbenchInv' /\ TextStep /\ DataStep
  BY UpdateStep, RemovalStep, UploadStep, CalibrateStep, PublishStep, ReadStep DEF Serve

-----------------------------------------------------------------------------
(* The page. *)

\* What the editor of an open workbench knows.
LEMMA EditorFacts ==
  ASSUME WorkbenchInv, InEditor
  PROVE  /\ editor \in Editors /\ editor.form \in Values /\ mounted
         /\ cache \in Rows /\ WasRow(cache) /\ WasHeld(editor.saved)
  BY DEF WorkbenchInv, TypeOK, InEditor, Editors

\* A step that only sends, changes a listener or writes into the editor.
LEMMA EditorKeeps ==
  ASSUME WorkbenchInv, UNCHANGED <<serverVars, queryVars>>, acts' \in Nat, faults' \in Nat,
         \/ editor' = editor
         \/ InEditor /\ editor' \in Editors /\ editor'.saved = editor.saved,
         NEW Q \in SUBSET Requests, wire' \subseteq wire \union Q,
         \A q \in Q : RequestFits(q) /\ (q.heard = "editor" => InEditor)
  PROVE  WorkbenchInv' /\ RowStays
<1>1. RowStays /\ cache' = cache /\ fetch' = fetch /\ mounted' = mounted
  BY DEF serverVars, queryVars, RowStays
<1>2. editor' \in Editors \union {None} /\ InEditor' = InEditor
  BY NoneAssumption DEF WorkbenchInv, TypeOK, InEditor
<1>3. TypeOK'
  BY <1>2 DEF WorkbenchInv, TypeOK, serverVars, queryVars
<1>4. \A q \in wire' : RequestFits(q) /\ (q.heard = "editor" => InEditor')
  BY <1>2 DEF WorkbenchInv
<1>5. InEditor' => mounted' /\ cache' # None /\ WasHeld(editor'.saved)
  BY <1>1, <1>2 DEF WorkbenchInv
<1>6. (cache' # None => WasRow(cache')) /\ (fetch' # None => WasRow(fetch'))
  BY <1>1 DEF WorkbenchInv
<1> QED
  BY <1>1, <1>3, <1>4, <1>5, <1>6, PageKeeps

\* The same, with no new request.
LEMMA EditorAlone ==
  ASSUME WorkbenchInv, UNCHANGED <<serverVars, queryVars>>, acts' \in Nat, faults' \in Nat,
         \/ editor' = editor
         \/ InEditor /\ editor' \in Editors /\ editor'.saved = editor.saved,
         wire' \subseteq wire
  PROVE  WorkbenchInv' /\ RowStays
<1> DEFINE Q == {}
<1>1. Q \in SUBSET Requests /\ wire' \subseteq wire \union Q
        /\ \A q \in Q : RequestFits(q) /\ (q.heard = "editor" => InEditor)
  OBVIOUS
<1> HIDE DEF Q
<1> QED
  BY <1>1, EditorKeeps

\* A request that the editor sends fits: a save by the timer carries the version of
\* a copy that is private.
LEMMA Sending ==
  ASSUME WorkbenchInv, InEditor, NEW kind \in Kinds, NEW by \in {"admin", "timer"},
         by = "timer" => ~cache.public, Send(kind, by)
  PROVE  \E q \in Requests : wire' = wire \union {q} /\ RequestFits(q)
<1>0. /\ editor.form \in Values /\ cache \in Rows /\ cache.version \in Nat /\ WasRow(cache)
      /\ row \in Rows
  BY EditorFacts DEF Rows, WorkbenchInv, TypeOK
<1>1. PICK q : q = Request(kind, by)
  OBVIOUS
<1>2. CASE kind = "save"
  <2>1. q = [kind |-> kind, version |-> cache.version, values |-> editor.form, by |-> by, data |-> 0, asked |-> 0,
             stage |-> "sent", answer |-> None, heard |-> "editor"]
    BY <1>1, <1>2 DEF Request, Requested
  <2>2. q \in Requests /\ q.kind = "save" /\ q.stage = "sent" /\ q.values \in Values
          /\ q.version = cache.version /\ q.by = by
    BY <1>0, <1>2, <2>1 DEF Requests, Running
  <2>3. RequestFits(q)
    BY <1>0, <2>2 DEF RequestFits, WasRow
  <2> QED
    BY <1>1, <2>2, <2>3 DEF Send
<1>3. CASE kind \in {"upload", "calibrate", "reload"}
  <2>1. q = [kind |-> kind, version |-> 0, values |-> None, by |-> "admin", data |-> 0, asked |-> 0,
             stage |-> "sent", answer |-> None, heard |-> "editor"]
    BY <1>1, <1>3 DEF Request, Requested
  <2>2. q \in Requests /\ q.kind = kind /\ q.stage = "sent"
    BY <2>1 DEF Requests, Running
  <2>3. RequestFits(q)
    BY <1>3, <2>2 DEF RequestFits
  <2> QED
    BY <1>1, <2>2, <2>3 DEF Send
<1>4. CASE kind \notin {"save", "upload", "calibrate", "reload"}
  <2>1. q = [kind |-> kind, version |-> cache.version, values |-> None, by |-> "admin", data |-> 0, asked |-> 0,
             stage |-> "sent", answer |-> None, heard |-> "editor"]
    BY <1>1, <1>4 DEF Request, Requested
  <2>2. q \in Requests /\ q.kind = kind /\ q.stage = "sent"
    BY <1>0, <2>1 DEF Requests, Running
  <2>3. RequestFits(q)
    BY <1>4, <2>2 DEF RequestFits
  <2> QED
    BY <1>1, <2>2, <2>3 DEF Send
<1> QED
  BY <1>2, <1>3, <1>4

\* A step of the editor that sends.
LEMMA SendKeeps ==
  ASSUME WorkbenchInv, InEditor, NEW kind \in Kinds, NEW by \in {"admin", "timer"},
         by = "timer" => ~cache.public, Send(kind, by),
         UNCHANGED <<serverVars, queryVars>>, acts' \in Nat, faults' \in Nat,
         editor' = editor \/ (editor' \in Editors /\ editor'.saved = editor.saved)
  PROVE  WorkbenchInv' /\ RowStays
<1>1. PICK q \in Requests : wire' = wire \union {q} /\ RequestFits(q)
  BY Sending
<1>2. {q} \in SUBSET Requests /\ wire' \subseteq wire \union {q}
        /\ \A p \in {q} : RequestFits(p) /\ (p.heard = "editor" => InEditor)
  BY <1>1
<1> QED
  BY <1>2, EditorKeeps

\* The bounds stay numbers.
LEMMA Bounds ==
  ASSUME WorkbenchInv, Acted \/ Disturbed \/ Unbounded
  PROVE  acts' \in Nat /\ faults' \in Nat
  BY DEF WorkbenchInv, TypeOK, Acted, Disturbed, Unbounded

\* Editing and saving.
LEMMA WritingStep ==
  ASSUME WorkbenchInv, Writing
  PROVE  WorkbenchInv' /\ RowStays
<1>0. InEditor /\ editor \in Editors /\ editor.form \in Values
  <2>1. InEditor
    BY DEF Writing, Edit, AutosaveTimer, AutosaveDue, Save, RetrySave, ReloadLatest
  <2> QED
    BY <2>1, EditorFacts
<1>1. CASE Edit
  <2>1. PICK v \in FormControls, e \in {editor.saveError, "none"} :
          editor' = [editor EXCEPT !.form = v, !.saveError = e]
    BY <1>1 DEF Edit
  <2>2. v \in Values
    BY <1>0, EditsAreValues DEF FormControls
  <2>3. editor' \in Editors /\ editor'.saved = editor.saved
    BY <1>0, <2>1, <2>2 DEF Editors
  <2>4. acts' \in Nat /\ faults' \in Nat
    BY <1>1, Bounds DEF Edit
  <2>5. UNCHANGED <<serverVars, queryVars>> /\ wire' \subseteq wire
    BY <1>1 DEF Edit
  <2> QED
    BY <1>0, <2>3, <2>4, <2>5, EditorAlone
<1>2. ASSUME NEW by \in {"admin", "timer"}, Submit(by), by = "timer" => ~cache.public,
             acts' \in Nat, faults' \in Nat
      PROVE  WorkbenchInv' /\ RowStays
  <2>1. editor' \in Editors /\ editor'.saved = editor.saved
    BY <1>0, <1>2 DEF Submit, Editors
  <2>2. Send("save", by) /\ UNCHANGED <<serverVars, queryVars>> /\ "save" \in Kinds
    BY <1>2 DEF Submit, Kinds
  <2> QED
    BY <1>0, <1>2, <2>1, <2>2, SendKeeps
<1>3. CASE AutosaveTimer
  <2>1. Submit("timer") /\ Unbounded /\ ~cache.public
    BY <1>3 DEF AutosaveTimer, AutosaveDue, autosave, isPublic
  <2> QED
    BY <1>2, <2>1, Bounds
<1>4. CASE Save \/ RetrySave
  <2>1. Submit("admin") /\ Acted
    BY <1>4 DEF Save, RetrySave
  <2> QED
    BY <1>2, <2>1, Bounds
<1>5. CASE ReloadLatest
  <2>1. Send("reload", "admin") /\ Acted /\ UNCHANGED <<serverVars, queryVars, editor>> /\ "reload" \in Kinds
    BY <1>5 DEF ReloadLatest, Kinds
  <2> QED
    BY <1>0, <2>1, SendKeeps, Bounds
<1> QED
  BY <1>1, <1>3, <1>4, <1>5 DEF Writing

\* The dialogs.
LEMMA DialogStep ==
  ASSUME WorkbenchInv, Dialogs
  PROVE  WorkbenchInv' /\ RowStays
<1>0. InEditor /\ editor \in Editors
  <2>1. InEditor
    BY DEF Dialogs, Upload, CancelUpload, TypeReference, EditLimits, Calibrate, ChangeVisibility,
           AskConfirmation, CancelConfirmation, Confirm
  <2> QED
    BY <2>1, EditorFacts
<1>1. acts' \in Nat /\ faults' \in Nat /\ UNCHANGED <<serverVars, queryVars>>
  <2>1. UNCHANGED <<serverVars, queryVars>> /\ (Acted \/ Unbounded)
    BY DEF Dialogs, Upload, CancelUpload, TypeReference, EditLimits, Calibrate, ChangeVisibility,
           AskConfirmation, CancelConfirmation, Confirm
  <2> QED
    BY <2>1, Bounds
<1>2. ASSUME NEW kind \in Kinds, Send(kind, "admin"), editor' = editor PROVE WorkbenchInv' /\ RowStays
  BY <1>0, <1>1, <1>2, SendKeeps
<1>3. CASE Upload \/ Calibrate \/ ChangeVisibility
  BY <1>2, <1>3 DEF Upload, Calibrate, ChangeVisibility, Kinds
<1>4. CASE Confirm
  <2>1. editor.confirming \in Kinds
    BY <1>0, <1>4 DEF Confirm, ConfirmControls, Editors, Kinds
  <2> QED
    BY <1>2, <1>4, <2>1 DEF Confirm
<1>5. CASE CancelUpload
  <2>1. PICK r \in wire : wire' \subseteq wire \union {[r EXCEPT !.heard = "nobody"]}
    BY <1>5 DEF CancelUpload
  <2>2. r \in Requests /\ RequestFits(r)
    BY DEF WorkbenchInv, TypeOK
  <2>3. PICK q \in Requests : q = [r EXCEPT !.heard = "nobody"] /\ q.heard = "nobody" /\ RequestFits(q)
    BY <2>2, Listener
  <2>4. {q} \in SUBSET Requests /\ wire' \subseteq wire \union {q}
          /\ \A p \in {q} : RequestFits(p) /\ (p.heard = "editor" => InEditor)
    BY <2>1, <2>3
  <2>5. editor' = editor
    BY <1>5 DEF CancelUpload
  <2> QED
    BY <1>1, <2>4, <2>5, EditorKeeps
<1>6. CASE TypeReference \/ EditLimits \/ AskConfirmation \/ CancelConfirmation
  <2>1. wire' \subseteq wire
    BY <1>6 DEF TypeReference, EditLimits, AskConfirmation, CancelConfirmation
  <2>2. \/ \E b \in BOOLEAN : editor' = [editor EXCEPT !.reference = b]
        \/ \E l \in {"valid", "invalid"} : editor' = [editor EXCEPT !.limits = l]
        \/ \E c \in {"none", "archive", "delete"} : editor' = [editor EXCEPT !.confirming = c]
    BY <1>0, <1>6 DEF TypeReference, EditLimits, AskConfirmation, CancelConfirmation, Editors
  <2>3. editor' \in Editors /\ editor'.saved = editor.saved
    BY <1>0, <2>2 DEF Editors
  <2> QED
    BY <1>0, <1>1, <2>1, <2>3, EditorAlone
<1> QED
  BY <1>3, <1>4, <1>5, <1>6 DEF Dialogs

\* The cached row is replaced by a copy; an editor stays, mounts, or records values
\* that were stored.
LEMMA CacheKeeps ==
  ASSUME WorkbenchInv, UNCHANGED <<serverVars, mounted>>, check' \in Checks, acts' \in Nat, faults' \in Nat,
         NEW s \in Rows, WasRow(s), cache' = s, failed' \in BOOLEAN, fetch' = fetch \/ fetch' = None,
         wire' \subseteq wire,
         \/ editor' = editor
         \/ mounted /\ ~InEditor /\ editor' = Mounted(s)
         \/ InEditor /\ editor' \in Editors /\ WasHeld(editor'.saved)
  PROVE  WorkbenchInv' /\ RowStays
<1>1. RowStays /\ mounted' = mounted /\ cache' # None
  BY NoneAssumption DEF serverVars, RowStays
<1>2. Mounted(s) \in Editors /\ Mounted(s).saved = s.values
  <2>1. s.values \in Values /\ s.values.driver \in Drivers \union {NoDriver}
    BY DEF Rows, Values
  <2> QED
    BY <2>1 DEF Mounted, Editors
<1>3. WasHeld(s.values)
  <2>1. s.values \in held /\ s.values \in Values
    BY DEF WasRow, Rows
  <2> QED
    BY <2>1, StoredAgain DEF WasHeld
<1>4. /\ editor' \in Editors \union {None} /\ (InEditor => InEditor')
      /\ InEditor' => mounted /\ WasHeld(editor'.saved)
  BY <1>2, <1>3, NoneAssumption DEF WorkbenchInv, TypeOK, InEditor
<1>5. TypeOK'
  BY <1>4 DEF WorkbenchInv, TypeOK, serverVars
<1>6. \A q \in wire' : RequestFits(q) /\ (q.heard = "editor" => InEditor')
  BY <1>4 DEF WorkbenchInv
<1>7. WasRow(cache') /\ (fetch' # None => WasRow(fetch'))
  BY DEF WorkbenchInv
<1> QED
  BY <1>1, <1>4, <1>5, <1>6, <1>7, PageKeeps

\* When the editor goes, nobody listens as the editor any more.
LEMMA OrphansFit ==
  ASSUME WorkbenchInv
  PROVE  \A q \in Orphaned : q \in Requests /\ RequestFits(q) /\ q.heard # "editor"
<1> SUFFICES ASSUME NEW q \in Orphaned PROVE q \in Requests /\ RequestFits(q) /\ q.heard # "editor"
  OBVIOUS
<1>1. PICK r \in wire : q = [r EXCEPT !.heard = IF r.heard # "editor" THEN r.heard
                                               ELSE IF r.kind = "upload" THEN "nobody" ELSE "page"]
  BY DEF Orphaned
<1>2. r \in Requests /\ RequestFits(r)
  BY DEF WorkbenchInv, TypeOK
<1>3. PICK h \in {"page", "nobody"} : q = [r EXCEPT !.heard = h]
  BY <1>1, <1>2 DEF Requests
<1> QED
  BY <1>2, <1>3, Listener

\* The editor goes.
LEMMA UnmountKeeps ==
  ASSUME WorkbenchInv, UNCHANGED <<serverVars, cache>>, check' \in Checks, acts' \in Nat, faults' \in Nat,
         editor' = None, fetch' = None, failed' \in BOOLEAN, mounted' \in BOOLEAN,
         wire' \subseteq Orphaned \/ (~InEditor /\ wire' = wire)
  PROVE  WorkbenchInv' /\ RowStays
<1>1. RowStays /\ ~InEditor'
  BY DEF serverVars, RowStays, InEditor
<1>2. \A q \in wire' : q \in Requests /\ RequestFits(q) /\ q.heard # "editor"
  BY OrphansFit DEF WorkbenchInv, TypeOK
<1>3. TypeOK'
  BY <1>2 DEF WorkbenchInv, TypeOK, serverVars
<1>4. cache' # None => WasRow(cache')
  BY DEF WorkbenchInv
<1> QED
  BY <1>1, <1>2, <1>3, <1>4, PageKeeps

\* The check after an invalidation, or when its request is aborted.
LEMMA CheckIsKept ==
  ASSUME WorkbenchInv
  PROVE  /\ check \in Checks /\ [check EXCEPT !.asking = None] \in Checks
         /\ CheckInvalidated => check' \in Checks
<1>1. check \in Checks
  BY DEF WorkbenchInv, TypeOK
<1>2. [check EXCEPT !.asking = None] \in Checks
  BY <1>1 DEF Checks
<1> QED
  BY <1>1, <1>2 DEF CheckInvalidated

\* The publish check.
LEMMA CheckStep ==
  ASSUME WorkbenchInv, Check
  PROVE  WorkbenchInv' /\ RowStays
<1>0. check \in Checks /\ row \in Rows
  BY DEF WorkbenchInv, TypeOK
<1>1. UNCHANGED <<serverVars, wire, cache, failed, mounted, fetch, editor>>
  BY DEF Check, CheckAnswered, AskCheck, CheckReads, CheckAsks, CheckArrives, CheckFails, Asking
<1>2. acts' \in Nat /\ faults' \in Nat
  <2>1. Acted \/ Disturbed \/ Unbounded
    BY DEF Check, CheckAnswered, AskCheck, CheckReads, CheckAsks, CheckArrives, CheckFails
  <2> QED
    BY <2>1, Bounds
<1>3. ASSUME NEW a \in Askings \union {None}, Asking(a) PROVE check' \in Checks
  BY <1>0, <1>3 DEF Asking, Checks
<1>4. localChecks(row) \subseteq Codes /\ \A d : readiness(d) \subseteq Codes
  BY DEF localChecks, readiness, Codes
<1>5. check' \in Checks
  <2>1. CASE AskCheck
    <3>1. [stage |-> "sent", codes |-> {}, data |-> 0] \in Askings
      BY DEF Askings
    <3> QED
      BY <1>3, <2>1, <3>1 DEF AskCheck
  <2>2. CASE CheckReads
    <3> DEFINE st == IF row.data = 0 THEN "answered" ELSE "asking"
               cs == localChecks(row) \union IF row.data = 0 THEN {"CALIBRATION"} ELSE {}
    <3>1. st \in {"sent", "asking", "answered"} /\ cs \in SUBSET Codes /\ row.data \in Digests \union {0}
      BY <1>0, <1>4 DEF Codes, Rows
    <3>2. Asking([stage |-> st, data |-> row.data, codes |-> cs])
      BY <2>2 DEF CheckReads
    <3> HIDE DEF st, cs
    <3>3. [stage |-> st, data |-> row.data, codes |-> cs] \in Askings
      BY <3>1 DEF Askings
    <3> QED
      BY <1>3, <3>2, <3>3
  <2>3. CASE CheckAsks
    <3>1. check.asking \in Askings
      BY <1>0, <2>3 DEF CheckAsks, Checks
    <3>2. [check.asking EXCEPT !.stage = "answered", !.codes = @ \union readiness(check.asking.data)] \in Askings
      BY <1>4, <3>1 DEF Askings
    <3> QED
      BY <1>3, <2>3, <3>2 DEF CheckAsks
  <2>4. CASE CheckArrives
    <3>1. check.asking \in Askings
      BY <1>0, <2>4 DEF CheckArrives, Checks
    <3>2. check.asking.codes \in SUBSET Codes
      BY <3>1 DEF Askings
    <3> QED
      BY <2>4, <3>2 DEF CheckArrives, Checks
  <2>5. CASE CheckFails
    BY <1>3, <2>5 DEF CheckFails
  <2> QED
    BY <2>1, <2>2, <2>3, <2>4, <2>5 DEF Check, CheckAnswered
<1>6. TypeOK'
  BY <1>1, <1>2, <1>5 DEF WorkbenchInv, TypeOK, serverVars
<1>7. RowStays /\ InEditor' = InEditor
  BY <1>1 DEF serverVars, RowStays, InEditor
<1>8. /\ (cache' # None => WasRow(cache')) /\ (fetch' # None => WasRow(fetch'))
      /\ \A q \in wire' : RequestFits(q) /\ (q.heard = "editor" => InEditor')
      /\ InEditor' => mounted' /\ cache' # None /\ WasHeld(editor'.saved)
  BY <1>1, <1>7 DEF WorkbenchInv
<1> QED
  BY <1>6, <1>7, <1>8, PageKeeps

\* The problem query.
LEMMA QueryStep ==
  ASSUME WorkbenchInv, Query
  PROVE  WorkbenchInv' /\ RowStays
<1>1. CASE RefetchReads
  <2>1. /\ UNCHANGED <<serverVars, wire, cache, failed, mounted, check, editor>> /\ fetch' = row
        /\ acts' \in Nat /\ faults' \in Nat
    BY <1>1, Bounds DEF RefetchReads
  <2>2. row \in Rows /\ row.version \in Nat
    BY DEF WorkbenchInv, TypeOK, Rows
  <2>3. TypeOK'
    BY <2>1, <2>2 DEF WorkbenchInv, TypeOK, serverVars
  <2>4. RowStays /\ InEditor' = InEditor /\ WasRow(fetch')
    BY <2>1, <2>2 DEF serverVars, RowStays, InEditor, WasRow, WorkbenchInv
  <2>5. /\ cache' # None => WasRow(cache')
        /\ \A q \in wire' : RequestFits(q) /\ (q.heard = "editor" => InEditor')
        /\ InEditor' => mounted' /\ cache' # None /\ WasHeld(editor'.saved)
    BY <2>1, <2>4 DEF WorkbenchInv
  <2> QED
    BY <2>3, <2>4, <2>5, PageKeeps
<1>2. CASE RefetchArrives
  <2>1. fetch \in Rows /\ WasRow(fetch)
    BY <1>2 DEF RefetchArrives, WorkbenchInv, TypeOK
  <2>2. /\ UNCHANGED <<serverVars, wire, mounted, check>> /\ fetch' = None
        /\ cache' = fetch /\ failed' = FALSE
        /\ editor' = IF mounted /\ ~InEditor THEN Mounted(fetch) ELSE editor
    BY <1>2 DEF RefetchArrives, SetProblem
  <2>3. acts' \in Nat /\ faults' \in Nat
    BY <1>2, Bounds DEF RefetchArrives
  <2> QED
    BY <2>1, <2>2, <2>3, CacheKeeps, CheckIsKept
<1>3. CASE RefetchFails
  <2>1. /\ UNCHANGED <<serverVars, cache, mounted>> /\ fetch' = None /\ failed' = TRUE
        /\ editor' = None /\ wire' = (IF InEditor THEN Orphaned ELSE wire)
        /\ check' = [check EXCEPT !.asking = None]
    BY <1>3 DEF RefetchFails, Unmount
  <2>2. acts' \in Nat /\ faults' \in Nat /\ mounted' \in BOOLEAN
    BY <1>3, Bounds DEF RefetchFails, WorkbenchInv, TypeOK
  <2> QED
    BY <2>1, <2>2, UnmountKeeps, CheckIsKept
<1> QED
  BY <1>1, <1>2, <1>3 DEF Query

\* Coming and going.
LEMMA VisitStep ==
  ASSUME WorkbenchInv, Visit
  PROVE  WorkbenchInv' /\ RowStays
<1>1. CASE Leave
  <2>1. /\ UNCHANGED <<serverVars, cache, failed>> /\ fetch' = None /\ mounted' = FALSE
        /\ editor' = None /\ wire' = (IF InEditor THEN Orphaned ELSE wire)
        /\ check' = [check EXCEPT !.asking = None]
    BY <1>1 DEF Leave, Gone, Unmount
  <2>2. acts' \in Nat /\ faults' \in Nat /\ failed' \in BOOLEAN
    BY <1>1, <2>1, Bounds DEF Leave, WorkbenchInv, TypeOK
  <2> QED
    BY <2>1, <2>2, UnmountKeeps, CheckIsKept
<1>2. CASE Enter
  <2>1. /\ UNCHANGED <<serverVars, wire, cache, failed, fetch, check>> /\ mounted' = TRUE
        /\ editor' = (IF cache # None /\ ~failed THEN Mounted(cache) ELSE None) /\ ~mounted
    BY <1>2 DEF Enter
  <2>2. acts' \in Nat /\ faults' \in Nat
    BY <1>2, Bounds DEF Enter
  <2>3. ~InEditor /\ \A q \in wire' : q \in Requests /\ RequestFits(q) /\ q.heard # "editor"
    BY <2>1 DEF WorkbenchInv, TypeOK
  <2>4. cache # None => cache \in Rows /\ WasRow(cache)
    BY DEF WorkbenchInv, TypeOK
  <2>5. cache # None => /\ Mounted(cache) \in Editors /\ Mounted(cache).saved = cache.values
                        /\ WasHeld(cache.values)
    <3> SUFFICES ASSUME cache # None
                 PROVE  /\ Mounted(cache) \in Editors /\ Mounted(cache).saved = cache.values
                        /\ WasHeld(cache.values)
      OBVIOUS
    <3>1. /\ cache.values \in Values /\ cache.values.driver \in Drivers \union {NoDriver}
          /\ cache.values \in held
      BY <2>4 DEF Rows, Values, WasRow
    <3> QED
      BY <3>1, StoredAgain DEF Mounted, Editors, WasHeld
  <2>6. editor' \in Editors \union {None} /\ (InEditor' => cache' # None /\ WasHeld(editor'.saved))
    BY <2>1, <2>5 DEF InEditor
  <2>7. TypeOK'
    BY <2>1, <2>2, <2>6 DEF WorkbenchInv, TypeOK, serverVars
  <2>8. RowStays /\ (cache' # None => WasRow(cache')) /\ (fetch' # None => WasRow(fetch'))
    BY <2>1 DEF serverVars, RowStays, WorkbenchInv
  <2> QED
    BY <2>1, <2>3, <2>6, <2>7, <2>8, PageKeeps
<1> QED
  BY <1>1, <1>2 DEF Visit

\* What comes back of a save or of "load the latest version".
LEMMA HearRowStep ==
  ASSUME WorkbenchInv, NEW r \in wire, HearSave(r) \/ HearReload(r),
         UNCHANGED serverVars, Unbounded
  PROVE  WorkbenchInv' /\ RowStays
<1>0. /\ r \in Requests /\ RequestFits(r) /\ (r.heard = "editor" => InEditor)
      /\ acts' \in Nat /\ faults' \in Nat
  BY Bounds DEF WorkbenchInv, TypeOK
<1>1. wire' \subseteq wire /\ mounted' = mounted /\ check' \in Checks
  BY CheckIsKept DEF HearSave, HearReload, Heard, SaveSucceeds, SaveRejected, SaveOrphaned, Reloaded, refresh
<1>2. ASSUME r.kind \in {"save", "reload"}, r.stage = "ok" PROVE r.answer \in Rows /\ WasRow(r.answer)
  BY <1>0, <1>2 DEF RequestFits, Requests
<1>3. CASE r.kind = "save" /\ r.heard = "editor" /\ r.stage = "ok" /\ SaveSucceeds(r)
  <2>1. editor \in Editors /\ r.values \in Values /\ WasHeld(r.values) /\ InEditor
    BY <1>0, <1>3, EditorFacts DEF RequestFits
  <2>2. r.values.driver \in Drivers \union {NoDriver}
    BY <2>1 DEF Values
  <2>3. PICK b \in BOOLEAN :
          editor' = [editor EXCEPT !.saved = r.values, !.lastSaved = TRUE, !.savedDriver = r.values.driver,
                                   !.driverChanged = b]
    <3> DEFINE b == editor.driverChanged \/ ( /\ IsCore /\ r.values.driver # NoDriver
                                              /\ r.values.driver # editor.savedDriver )
    <3>1. b \in BOOLEAN
      OBVIOUS
    <3>2. editor' = [editor EXCEPT !.saved = r.values, !.lastSaved = TRUE, !.savedDriver = r.values.driver,
                                   !.driverChanged = b]
      BY <1>3 DEF SaveSucceeds
    <3> QED
      BY <3>1, <3>2
  <2>4. editor' \in Editors /\ editor'.saved = r.values
    BY <2>1, <2>2, <2>3 DEF Editors
  <2>5. cache' = r.answer /\ failed' = FALSE /\ fetch' = None
    BY <1>3 DEF SaveSucceeds, refresh
  <2> QED
    BY <1>0, <1>1, <1>2, <1>3, <2>1, <2>4, <2>5, CacheKeeps
<1>4. CASE r.kind = "save" /\ r.heard = "editor" /\ r.stage # "ok" /\ SaveRejected(r)
  <2>1. editor \in Editors /\ InEditor
    BY <1>0, <1>4, EditorFacts
  <2>2. PICK e \in {"conflict", "failed"} : editor' = [editor EXCEPT !.saveError = e]
    BY <1>4 DEF SaveRejected
  <2>3. editor' \in Editors /\ editor'.saved = editor.saved
    BY <2>1, <2>2 DEF Editors
  <2>4. UNCHANGED <<serverVars, queryVars>>
    BY <1>1, <1>4 DEF SaveRejected, queryVars
  <2> QED
    BY <1>0, <1>1, <2>1, <2>3, <2>4, EditorAlone
<1>5. CASE /\ r.kind \in {"save", "reload"} /\ r.stage = "ok" /\ SetProblem(r.answer)
           /\ fetch' = fetch \/ fetch' = None
  <2>1. cache' = r.answer /\ failed' = FALSE
          /\ editor' = (IF mounted /\ ~InEditor THEN Mounted(r.answer) ELSE editor)
    BY <1>5 DEF SetProblem
  <2> QED
    BY <1>0, <1>1, <1>2, <1>5, <2>1, CacheKeeps
<1>6. CASE UNCHANGED <<cache, failed, fetch, check, editor>>
  <2>1. UNCHANGED <<serverVars, queryVars>>
    BY <1>1, <1>6 DEF queryVars
  <2> QED
    BY <1>0, <1>1, <1>6, <2>1, EditorAlone
<1>7. CASE r.kind = "reload" /\ r.heard = "editor" /\ r.stage = "ok" /\ Reloaded(r)
  <2>1. editor \in Editors /\ InEditor /\ r.answer \in Rows /\ WasRow(r.answer)
    BY <1>0, <1>2, <1>7, EditorFacts
  <2>2. r.answer.values \in Values /\ r.answer.values \in held
    BY <2>1 DEF Rows, WasRow
  <2>3. editor' = [editor EXCEPT !.form = r.answer.values, !.saved = r.answer.values, !.saveError = "none"]
    BY <1>7 DEF Reloaded
  <2>4. editor' \in Editors /\ editor'.saved = r.answer.values
    BY <2>1, <2>2, <2>3 DEF Editors
  <2>5. WasHeld(editor'.saved)
    BY <2>2, <2>4, StoredAgain DEF WasHeld
  <2>6. cache' = r.answer /\ failed' = FALSE /\ fetch' = fetch
    BY <1>7 DEF Reloaded
  <2> QED
    BY <1>0, <1>1, <2>1, <2>4, <2>5, <2>6, CacheKeeps
<1> QED
  BY <1>3, <1>4, <1>5, <1>6, <1>7 DEF HearSave, HearReload, SaveOrphaned, refresh

\* What comes back of the other requests.
LEMMA HearJobStep ==
  ASSUME WorkbenchInv, NEW r \in wire, HearJob(r) \/ HearDeleted(r),
         UNCHANGED serverVars, Unbounded
  PROVE  WorkbenchInv' /\ RowStays
<1>0. /\ r \in Requests /\ (r.heard = "editor" => InEditor) /\ acts' \in Nat /\ faults' \in Nat
  BY Bounds DEF WorkbenchInv, TypeOK
<1>1. CASE HearDeleted(r)
  <2>1. /\ editor' = None /\ wire' \subseteq Orphaned /\ failed' = TRUE /\ mounted' = FALSE
        /\ fetch' = None /\ cache' = cache /\ check' = [check EXCEPT !.asking = None]
    BY <1>1 DEF HearDeleted
  <2> QED
    BY <1>0, <2>1, UnmountKeeps, CheckIsKept
<1>2. CASE HearJob(r)
  <2>1. /\ wire' \subseteq wire /\ UNCHANGED <<mounted, cache, failed>>
        /\ fetch' = fetch \/ fetch' = None
        /\ check' = check \/ CheckInvalidated
        /\ \/ editor' = editor
           \/ r.heard = "editor" /\ editor' = Calibrated(r)
           \/ r.heard = "editor" /\ editor' = [editor EXCEPT !.confirming = "none"]
    BY <1>2 DEF HearJob, Heard, JobSucceeds, refresh
  <2>2. \/ editor' = editor
        \/ InEditor /\ editor' \in Editors /\ editor'.saved = editor.saved
    <3>1. CASE r.heard = "editor" /\ editor' = Calibrated(r)
      <4>1. editor \in Editors /\ InEditor
        BY <1>0, <3>1, EditorFacts
      <4>2. PICK b \in BOOLEAN :
              editor' = [editor EXCEPT !.reference = FALSE, !.limits = "valid", !.driverChanged = b]
        <5> DEFINE b == editor.driverChanged /\ r.stage = "FAILED"
        <5>1. b \in BOOLEAN
          OBVIOUS
        <5>2. editor' = [editor EXCEPT !.reference = FALSE, !.limits = "valid", !.driverChanged = b]
          BY <3>1 DEF Calibrated
        <5> QED
          BY <5>1, <5>2
      <4> QED
        BY <4>1, <4>2 DEF Editors
    <3>2. CASE r.heard = "editor" /\ editor' = [editor EXCEPT !.confirming = "none"]
      <4>1. editor \in Editors /\ InEditor
        BY <1>0, <3>2, EditorFacts
      <4> QED
        BY <3>2, <4>1 DEF Editors
    <3> QED
      BY <2>1, <3>1, <3>2
  <2>3. RowStays /\ InEditor' = InEditor /\ editor' \in Editors \union {None}
    BY <2>2, NoneAssumption DEF serverVars, RowStays, InEditor, WorkbenchInv, TypeOK
  <2>4. TypeOK'
    <3>1. check' \in Checks
      BY <2>1, CheckIsKept
    <3> QED
      BY <1>0, <2>1, <2>3, <3>1 DEF WorkbenchInv, TypeOK, serverVars
  <2>5. /\ (cache' # None => WasRow(cache')) /\ (fetch' # None => WasRow(fetch'))
        /\ \A q \in wire' : RequestFits(q) /\ (q.heard = "editor" => InEditor')
    BY <2>1, <2>3 DEF WorkbenchInv
  <2>6. InEditor' => mounted' /\ cache' # None /\ WasHeld(editor'.saved)
    BY <2>1, <2>2, <2>3 DEF WorkbenchInv
  <2> QED
    BY <2>3, <2>4, <2>5, <2>6, PageKeeps
<1> QED
  BY <1>1, <1>2

\* A request or its answer is lost.
LEMMA LostStep ==
  ASSUME WorkbenchInv, NEW r \in wire, Lost(r)
  PROVE  WorkbenchInv' /\ RowStays
<1>0. /\ r \in Requests /\ RequestFits(r) /\ (r.heard = "editor" => InEditor)
      /\ acts' \in Nat /\ faults' \in Nat /\ UNCHANGED <<serverVars, queryVars>>
  BY Bounds DEF WorkbenchInv, TypeOK, Lost
<1>1. PICK q \in Requests : q = [r EXCEPT !.heard = "nobody"] /\ q.heard = "nobody" /\ RequestFits(q)
  BY <1>0, Listener
<1>2. {q} \in SUBSET Requests /\ wire' \subseteq wire \union {q}
        /\ \A p \in {q} : RequestFits(p) /\ (p.heard = "editor" => InEditor)
  BY <1>1 DEF Lost
<1>3. \/ editor' = editor
      \/ InEditor /\ editor' \in Editors /\ editor'.saved = editor.saved
  <2>1. CASE r.kind = "save" /\ r.heard = "editor"
    <3>1. editor \in Editors /\ InEditor
      BY <1>0, <2>1, EditorFacts
    <3> QED
      BY <2>1, <3>1 DEF Lost, Editors
  <2>2. CASE ~(r.kind = "save" /\ r.heard = "editor")
    BY <2>2 DEF Lost
  <2> QED
    BY <2>1, <2>2
<1> QED
  BY <1>0, <1>2, <1>3, EditorKeeps

\* Other administrators work on the latest row.
LEMMA OtherStep ==
  ASSUME WorkbenchInv, OtherAdministrator
  PROVE  WorkbenchInv' /\ TextStep /\ DataStep
<1>0. /\ row \in Rows /\ row.version \in Nat /\ row.values \in Values
      /\ acts' \in Nat /\ faults' \in Nat
      /\ UNCHANGED <<valid, vouched, node, wire, queryVars, editor>>
  BY Bounds DEF WorkbenchInv, TypeOK, OtherAdministrator, Rows
<1>1. PICK n \in Nat : n = row.version + 1
  BY <1>0
<1>2. ASSUME RowMoves, row'.values \in held', held' \subseteq Values PROVE WorkbenchInv'
  <2> DEFINE Q == {}
  <2>1. TypeOK'
    BY <1>0, <1>2 DEF WorkbenchInv, TypeOK, queryVars, RowMoves
  <2>2. UNCHANGED <<cache, fetch, mounted, editor>> /\ valid' \in vouched' \union {0}
    BY <1>0 DEF queryVars, WorkbenchInv
  <2>3. wire' \subseteq wire \union Q /\ \A q \in Q : RequestFits(q)' /\ (q.heard = "editor" => InEditor)
    BY <1>0
  <2> HIDE DEF Q
  <2> QED
    BY <1>2, <2>1, <2>2, <2>3, ServiceKeeps
<1>3. ASSUME NEW v \in Values, row' = Written(row, v, "other"), held' = held \union {v}
      PROVE  WorkbenchInv' /\ TextStep /\ DataStep
  <2>1. row' = [row EXCEPT !.version = n, !.values = v, !.by = "other"]
    BY <1>1, <1>3 DEF Written
  <2>2. row' \in Rows /\ row'.version = n /\ row'.values = v /\ row'.by = "other" /\ row'.public = row.public
    BY <1>0, <2>1 DEF Rows
  <2>3. RowMoves /\ row'.values \in held' /\ held' \subseteq Values
    BY <1>0, <1>1, <1>3, <2>2 DEF RowMoves, WorkbenchInv, TypeOK
  <2> QED
    BY <1>2, <2>2, <2>3 DEF TextStep, DataStep
<1>4. ASSUME held' = held, row' \in Rows, row'.values = row.values,
             \/ row'.version = n
             \/ row'.version = row.version /\ row'.public = row.public,
             ~row.public /\ row'.public => row.data \in vouched \/ PutBack
      PROVE  WorkbenchInv' /\ TextStep /\ DataStep
  <2>1. RowMoves /\ row'.values \in held' /\ held' \subseteq Values
    BY <1>0, <1>1, <1>4 DEF RowMoves, WorkbenchInv, TypeOK
  <2> QED
    BY <1>2, <1>4, <2>1 DEF TextStep, DataStep
<1>5. CASE \E t \in Texts \ {row.values.text} :
             row' = Written(row, [row.values EXCEPT !.text = t], "other")
             /\ held' = held \union {[row.values EXCEPT !.text = t]}
  <2>1. PICK t \in Texts : row' = Written(row, [row.values EXCEPT !.text = t], "other")
                           /\ held' = held \union {[row.values EXCEPT !.text = t]}
    BY <1>5
  <2>2. [row.values EXCEPT !.text = t] \in Values
    BY <1>0 DEF Values
  <2> QED
    BY <1>3, <2>1, <2>2
<1>6. CASE publishCheck = {} /\ held' = held
           /\ row' = [row EXCEPT !.version = n, !.public = TRUE, !.published = TRUE]
  <2>1. row' \in Rows /\ row'.values = row.values /\ row'.version = n
    BY <1>0, <1>6 DEF Rows
  <2> QED
    BY <1>4, <1>6, <2>1, CheckVouches
<1>7. CASE held' = held /\ row' = [row EXCEPT !.version = n, !.public = FALSE]
  <2>1. row' \in Rows /\ row'.values = row.values /\ row'.version = n /\ row'.public = FALSE
    BY <1>0, <1>7 DEF Rows
  <2> QED
    BY <1>4, <1>7, <2>1
<1>8. CASE held' = held /\ \E d \in Digests : row' = [row EXCEPT !.data = d]
  <2>1. row' \in Rows /\ row'.values = row.values /\ row'.version = row.version /\ row'.public = row.public
    BY <1>0, <1>8 DEF Rows
  <2> QED
    BY <1>4, <1>8, <2>1
<1> QED
  BY <1>1, <1>5, <1>6, <1>7, <1>8 DEF OtherAdministrator

\* A judge node comes or goes.
LEMMA NodeStep ==
  ASSUME WorkbenchInv, NodeChanges
  PROVE  WorkbenchInv' /\ RowStays
<1>1. /\ UNCHANGED <<row, valid, vouched, held, wire, queryVars, editor>> /\ node' \in BOOLEAN
      /\ acts' \in Nat /\ faults' \in Nat
  BY Bounds DEF NodeChanges
<1>2. TypeOK'
  BY <1>1 DEF WorkbenchInv, TypeOK, queryVars
<1>3. RowStays /\ InEditor' = InEditor /\ cache' = cache /\ fetch' = fetch /\ mounted' = mounted
  BY <1>1 DEF RowStays, InEditor, queryVars
<1>4. /\ (cache' # None => WasRow(cache')) /\ (fetch' # None => WasRow(fetch'))
      /\ \A q \in wire' : RequestFits(q) /\ (q.heard = "editor" => InEditor')
      /\ InEditor' => mounted' /\ cache' # None /\ WasHeld(editor'.saved)
  BY <1>1, <1>3 DEF WorkbenchInv
<1> QED
  BY <1>2, <1>3, <1>4, PageKeeps

-----------------------------------------------------------------------------
(* All steps. *)

\* Every step keeps the invariant and the two promises about a single step.
LEMMA WorkbenchStep == WorkbenchInv /\ [Next]_vars => WorkbenchInv' /\ TextStep /\ DataStep
<1> SUFFICES ASSUME WorkbenchInv, [Next]_vars PROVE WorkbenchInv' /\ TextStep /\ DataStep
  OBVIOUS
<1>1. CASE Query \/ Check \/ Visit \/ Writing \/ Dialogs
  BY <1>1, QueryStep, CheckStep, VisitStep, WritingStep, DialogStep, QuietRow
<1>2. CASE Served
  BY <1>2, ServeStep DEF Served
<1>3. CASE Heeded
  <2>1. PICK r \in wire : Hear(r)
    BY <1>3 DEF Heeded
  <2> QED
    BY <2>1, HearRowStep, HearJobStep, QuietRow DEF Hear
<1>4. CASE Around
  BY <1>4, OtherStep, NodeStep, LostStep, QuietRow DEF Around
<1>5. CASE UNCHANGED vars
  <2>1. UNCHANGED <<serverVars, queryVars, wire, editor, acts, faults>>
    BY <1>5 DEF vars
  <2>2. acts' \in Nat /\ faults' \in Nat /\ wire' \subseteq wire /\ editor' = editor
    BY <2>1 DEF WorkbenchInv, TypeOK
  <2> QED
    BY <2>1, <2>2, EditorAlone, QuietRow
<1> QED
  BY <1>1, <1>2, <1>3, <1>4, <1>5 DEF Next

\* The inductive invariant of the workbench, with the types of the form's values.
THEOREM WorkbenchInvariant == Spec => []WorkbenchInv
  BY WorkbenchInit, WorkbenchStep, PTL DEF Spec

\* What the status line calls saved was stored by the service: onSuccess of the save
\* records what was sent, never what the form holds by then.
THEOREM SavedStored == Spec => []SavedWasStored
<1>1. WorkbenchInv => SavedWasStored
  <2> SUFFICES ASSUME WorkbenchInv, InEditor, SaveStatus \in {"saved", "automatic"}
               PROVE  \E v \in held : Same(editor.form, v)
    BY DEF SavedWasStored
  <2>1. editor.form = editor.saved
    BY DEF SaveStatus, isDirty
  <2> QED
    BY <2>1, EditorFacts DEF WasHeld
<1> QED
  BY <1>1, WorkbenchInvariant, PTL

\* The timer never changes the text of a public problem: its save carries the version
\* of a private row, and publishing moves the version (update checks it under the lock).
THEOREM ConfirmedText == Spec => PublicTextIsConfirmed
<1>1. WorkbenchInv /\ [Next]_vars => [row.public /\ row'.values # row.values => row'.by # "timer"]_vars
  BY WorkbenchStep DEF TextStep
<1> QED
  BY <1>1, WorkbenchInvariant, PTL DEF Spec, PublicTextIsConfirmed

\* A problem becomes public only with test data a calibration vouched for, unless the
\* data was replaced and put back while the publication ran: publish compares the
\* locked digest with its first snapshot's, and asks about the second one's.
THEOREM CalibratedData == Spec => PublicDataWasCalibrated
<1>1. WorkbenchInv /\ [Next]_vars => [~row.public /\ row'.public => row.data \in vouched \/ PutBack]_vars
  BY WorkbenchStep DEF DataStep
<1> QED
  BY <1>1, WorkbenchInvariant, PTL DEF Spec, PublicDataWasCalibrated
=============================================================================
