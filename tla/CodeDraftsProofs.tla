-------------------------- MODULE CodeDraftsProofs --------------------------
(***************************************************************************)
(* Theorems about CodeDrafts, for any number of tabs, mounts, edits,        *)
(* revisions and disturbances.                                              *)
(***************************************************************************)
EXTENDS CodeDrafts, WellFoundedInduction, TLAPS

\* A page with the same writer, the same revision count and the same baseline.
Same(p, q) == q.writer = p.writer /\ q.seq = p.seq /\ q.baseline = p.baseline

\* The heads are records.
LEMMA HeadsAreRecords == Heads(records) \subseteq records
  BY DEF Heads

\* fail changes what the page says, not what it holds.
LEMMA FailPage ==
  ASSUME NEW p \in Pages
  PROVE  /\ fail(p) \in Pages /\ Same(p, fail(p))
         /\ fail(p).value = p.value /\ fail(p).dirty = p.dirty /\ fail(p).status = "error"
  BY DEF fail, Pages, Same

\* Neither does the list of competing copies.
LEMMA ConflictPage ==
  ASSUME NEW p \in Pages, NEW heads \in SUBSET DraftRecords
  PROVE  /\ showConflict(p, heads) \in Pages /\ Same(p, showConflict(p, heads))
         /\ showConflict(p, heads).value = p.value /\ showConflict(p, heads).dirty = p.dirty
         /\ showConflict(p, heads).status = "conflict"
  BY DEF showConflict, Pages, Same

\* A page that adopts a record shows its text and calls it saved.
LEMMA AdoptPage ==
  ASSUME NEW p \in Pages, NEW r \in DraftRecords
  PROVE  /\ adopt(p, r) \in Pages
         /\ adopt(p, r).writer = p.writer /\ adopt(p, r).seq = p.seq /\ adopt(p, r).baseline = r
         /\ adopt(p, r).value = r.source /\ ~adopt(p, r).dirty /\ adopt(p, r).status = "saved"
  BY DEF adopt, Pages, DraftRecords

\* A changed text is dirty.
LEMMA SetValuePage ==
  ASSUME NEW p \in Pages, NEW s \in Texts
  PROVE  /\ setValue(p, s) \in Pages /\ Same(p, setValue(p, s)) /\ setValue(p, s).value = s
         /\ IF s = p.value THEN setValue(p, s) = p
            ELSE setValue(p, s).dirty /\ setValue(p, s).status = "dirty"
  BY DEF setValue, Pages, Same

\* refresh never changes the text or the baseline of a page.
LEMMA RefreshPage ==
  ASSUME TypeOK, NEW p \in Pages
  PROVE  /\ refresh(p) \in Pages /\ Same(p, refresh(p))
<1> DEFINE heads == Heads(records)
<1>1. heads \in SUBSET DraftRecords
  BY HeadsAreRecords DEF TypeOK
<1>2. CASE corruptKeys # {}
  BY <1>2, FailPage DEF refresh
<1>3. CASE corruptKeys = {} /\ heads # {} /\ ~IsBaseline(p, heads)
  BY <1>1, <1>3, ConflictPage DEF refresh
<1>4. CASE corruptKeys = {} /\ ~(heads # {} /\ ~IsBaseline(p, heads)) /\ p.dirty
  BY <1>4 DEF refresh, Same
<1>5. CASE corruptKeys = {} /\ ~(heads # {} /\ ~IsBaseline(p, heads)) /\ ~p.dirty /\ heads # {}
  <2>1. p.baseline \in DraftRecords
    BY <1>5 DEF IsBaseline, Pages
  <2> QED BY <1>5, <2>1, AdoptPage DEF refresh, Same
<1>6. CASE corruptKeys = {} /\ heads = {} /\ ~p.dirty /\ p.baseline # NoRecord
  <2>1. [p EXCEPT !.dirty = TRUE] \in Pages /\ Same(p, [p EXCEPT !.dirty = TRUE])
    BY DEF Pages, Same
  <2>2. fail([p EXCEPT !.dirty = TRUE]) \in Pages
        /\ Same([p EXCEPT !.dirty = TRUE], fail([p EXCEPT !.dirty = TRUE]))
    BY <2>1, FailPage
  <2> QED BY <1>6, <2>1, <2>2 DEF refresh, Same
<1>7. CASE corruptKeys = {} /\ heads = {} /\ ~p.dirty /\ p.baseline = NoRecord
  BY <1>7 DEF refresh, Pages, Same
<1> QED BY <1>2, <1>3, <1>4, <1>5, <1>6, <1>7

-----------------------------------------------------------------------------
(* Types *)

\* The page a mount makes: a new writer that has written nothing, and a baseline
\* that is stored or that the memory of the page kept.
LEMMA MountPage ==
  ASSUME TypeOK, NEW t \in Tabs, Mount(t)
  PROVE  \E p \in Pages :
           /\ page' = [page EXCEPT ![t] = p]
           /\ p.writer = <<t, mounted[t] + 1>> /\ p.seq = 0
           /\ p.baseline \in {NoRecord, interrupted[t].baseline} \cup records
<1> DEFINE p0 == [NoPage EXCEPT !.writer = <<t, mounted[t] + 1>>, !.value = Starter]
<1> USE DEF TypeOK
<1>0. Heads(records) \subseteq records /\ Heads(records) \in SUBSET DraftRecords
  BY HeadsAreRecords
<1>1. /\ p0 \in Pages /\ p0.writer = <<t, mounted[t] + 1>> /\ p0.seq = 0
      /\ p0.baseline = NoRecord
  <2>1. <<t, mounted[t] + 1>> \in Tabs \X Nat
    OBVIOUS
  <2>2. NoPage \in Pages /\ NoPage.seq = 0 /\ NoPage.baseline = NoRecord
    BY DEF NoPage, Pages, Texts
  <2> QED BY <2>1, <2>2, StarterAssumption DEF Pages, Texts
<1> HIDE DEF p0
<1>2. ASSUME NEW first, first \in Heads(records) \/ first = NoRecord
      PROVE  /\ Scanned(p0, first) \in Pages
             /\ Scanned(p0, first).writer = <<t, mounted[t] + 1>>
             /\ Scanned(p0, first).seq = 0
             /\ Scanned(p0, first).baseline \in {NoRecord} \cup records
  <2> DEFINE shown == IF first = NoRecord THEN p0 ELSE adopt(p0, first)
             told == IF Cardinality(Heads(records)) > 1
                     THEN showConflict(shown, Heads(records)) ELSE shown
  <2>1. /\ shown \in Pages /\ shown.writer = <<t, mounted[t] + 1>> /\ shown.seq = 0
        /\ shown.baseline \in {NoRecord} \cup records
    BY <1>0, <1>1, <1>2, AdoptPage
  <2> HIDE DEF shown
  <2>2. told \in Pages /\ Same(shown, told)
    BY <1>0, <2>1, ConflictPage DEF Same
  <2> HIDE DEF told
  <2>3. fail(told) \in Pages /\ Same(told, fail(told))
    BY <2>2, FailPage
  <2>4. Scanned(p0, first) \in {told, fail(told)}
    BY DEF Scanned, told, shown
  <2> QED BY <2>1, <2>2, <2>3, <2>4 DEF Same
<1>3. ASSUME NEW p \in Pages
      PROVE  /\ Recovered(p, interrupted[t]) \in Pages
             /\ Recovered(p, interrupted[t]).writer = p.writer
             /\ Recovered(p, interrupted[t]).seq = p.seq
             /\ Recovered(p, interrupted[t]).baseline \in {p.baseline, interrupted[t].baseline}
  BY <1>3 DEF Recovered, Pages, Memories
<1>4. ASSUME NEW first, first \in Heads(records) \/ first = NoRecord,
             Put(t, Recovered(Scanned(p0, first), interrupted[t]))
      PROVE  \E p \in Pages :
               /\ page' = [page EXCEPT ![t] = p]
               /\ p.writer = <<t, mounted[t] + 1>> /\ p.seq = 0
               /\ p.baseline \in {NoRecord, interrupted[t].baseline} \cup records
  <2> DEFINE q == Scanned(p0, first)
             p == Recovered(q, interrupted[t])
  <2>1. /\ q \in Pages /\ q.writer = <<t, mounted[t] + 1>> /\ q.seq = 0
        /\ q.baseline \in {NoRecord} \cup records
    BY <1>2, <1>4
  <2> HIDE DEF q
  <2>2. /\ p \in Pages /\ p.writer = q.writer /\ p.seq = q.seq
        /\ p.baseline \in {q.baseline, interrupted[t].baseline}
    BY <1>3, <2>1
  <2>3. page' = [page EXCEPT ![t] = p]
    BY <1>4 DEF Put, q
  <2> HIDE DEF p
  <2> QED BY <2>1, <2>2, <2>3
<1>5. (\E first \in Heads(records) : Put(t, Recovered(Scanned(p0, first), interrupted[t])))
        \/ Put(t, Recovered(Scanned(p0, NoRecord), interrupted[t]))
      => \E p \in Pages :
           /\ page' = [page EXCEPT ![t] = p]
           /\ p.writer = <<t, mounted[t] + 1>> /\ p.seq = 0
           /\ p.baseline \in {NoRecord, interrupted[t].baseline} \cup records
  BY <1>4
<1>6. CASE Put(t, Recovered(fail([p0 EXCEPT !.readFailed = TRUE]), interrupted[t]))
  <2> DEFINE p1 == [p0 EXCEPT !.readFailed = TRUE]
  <2>1. p1 \in Pages /\ Same(p0, p1)
    BY <1>1 DEF Pages, Same
  <2> HIDE DEF p1
  <2>2. fail(p1) \in Pages /\ Same(p1, fail(p1))
    BY <2>1, FailPage
  <2>3. Put(t, Recovered(fail(p1), interrupted[t]))
    BY <1>6 DEF p1
  <2> QED BY <1>1, <1>3, <2>1, <2>2, <2>3 DEF Put, Same
<1> QED BY <1>5, <1>6 DEF Mount, p0

\* The start of a flush: the page keeps its text and its baseline.
LEMMA BeginFlushPage ==
  ASSUME TypeOK, NEW t \in Tabs, NEW then \in Callers, BeginFlush(t, then)
  PROVE  /\ \E p \in Pages : page' = [page EXCEPT ![t] = p] /\ Same(page[t], p)
         /\ pc' \in [Tabs -> Labels] /\ \A u \in Tabs \ {t} : pc'[u] = pc[u]
         /\ pc[t] = "idle" /\ pc'[t] # "off"
         /\ after' = [after EXCEPT ![t] = then]
         /\ UNCHANGED <<store, mounted, interrupted, events>>
         /\ faults' \in Nat
         /\ \/ parents' = parents /\ pc'[t] # "write"
            \/ parents' = [parents EXCEPT ![t] = Baseline(page[t])] /\ pc'[t] = "write"
<1> DEFINE p == [page[t] EXCEPT !.timer = FALSE]
<1> USE DEF TypeOK
<1>1. p \in Pages /\ Same(page[t], p) /\ Baseline(p) = Baseline(page[t])
  <2>1. page[t] \in Pages
    OBVIOUS
  <2> QED BY <2>1 DEF Pages, Same, Baseline
<1> HIDE DEF p
<1>2. fail(p) \in Pages /\ Same(p, fail(p))
  BY <1>1, FailPage
<1>3. [p EXCEPT !.status = "saving"] \in Pages /\ Same(p, [p EXCEPT !.status = "saving"])
  BY <1>1 DEF Pages, Same
<1>4. \E q \in {p, fail(p), [p EXCEPT !.status = "saving"]} : page' = [page EXCEPT ![t] = q]
  BY DEF BeginFlush, Put, p
<1>5. \E q \in Pages : page' = [page EXCEPT ![t] = q] /\ Same(page[t], q)
  BY <1>1, <1>2, <1>3, <1>4 DEF Same
<1>6. \/ parents' = parents /\ pc' \in {[pc EXCEPT ![t] = "idle"], [pc EXCEPT ![t] = "flushed"]}
      \/ parents' = [parents EXCEPT ![t] = Baseline(p)] /\ pc' = [pc EXCEPT ![t] = "write"]
  BY DEF BeginFlush, Finish, GoTo, p
<1>7. faults' \in Nat
  BY DEF BeginFlush, Disturbed
<1> QED BY <1>1, <1>5, <1>6, <1>7 DEF BeginFlush, Labels

\* So every variable keeps its type.
LEMMA BeginFlushTypes ==
  ASSUME TypeOK, NEW t \in Tabs, NEW then \in Callers, BeginFlush(t, then), UNCHANGED ui
  PROVE  TypeOK'
<1> USE DEF TypeOK
<1>1. /\ \E p \in Pages : page' = [page EXCEPT ![t] = p]
      /\ pc' \in [Tabs -> Labels]
      /\ after' = [after EXCEPT ![t] = then]
      /\ UNCHANGED <<store, mounted, interrupted, events>>
      /\ faults' \in Nat
      /\ parents' = parents \/ parents' = [parents EXCEPT ![t] = Baseline(page[t])]
  BY BeginFlushPage
<1>2. Baseline(page[t]) \subseteq DraftRecords
  BY DEF Baseline, Pages
<1>3. page' \in [Tabs -> Pages]
  BY <1>1
<1>4. parents' \in [Tabs -> SUBSET DraftRecords]
  BY <1>1, <1>2
<1> QED BY <1>1, <1>3, <1>4 DEF store, ui

\* ancestry invents nothing: what it lists was a revision of one of the records
\* or replaced by one of them.
LEMMA AncestryIsKnown ==
  ASSUME NEW recs, NEW w, NEW v \in ancestry(recs, w)
  PROVE  v[1] # w /\ \E r \in recs : v = Revision(r) \/ v \in Replaces(r)
  BY DEF ancestry, compactRevisions, Replaces

\* The record a write makes, and what it replaces.
LEMMA RecordType ==
  ASSUME TypeOK, RevisionsAreFresh, NEW t \in Tabs, pc[t] # "off"
  PROVE  LET r == Record(page[t], parents[t])
         IN  /\ r \in DraftRecords
             /\ r.writer = Writer(t) /\ r.seq = page[t].seq + 1 /\ r.at = writes + 1
             /\ r.source = page[t].value
             /\ r.supersedes = ancestry(parents[t], Writer(t))
             /\ r.parent = {Revision(b) : b \in Baseline(page[t])}
<1> DEFINE r == Record(page[t], parents[t])
<1>1. page[t] \in Pages /\ parents[t] \subseteq DraftRecords /\ writes \in Nat
  BY DEF TypeOK
<1>2. page[t].writer = Writer(t) /\ Writer(t) \in Tabs \X Nat
  BY DEF RevisionsAreFresh, Writer, TypeOK
<1>3. ancestry(parents[t], page[t].writer) \subseteq Revisions
  BY <1>1, AncestryIsKnown DEF Replaces, Revision, DraftRecords, Revisions
<1>4. /\ Baseline(page[t]) = IF page[t].baseline = NoRecord THEN {} ELSE {page[t].baseline}
      /\ Baseline(page[t]) \subseteq DraftRecords
  BY <1>1 DEF Baseline, Pages
<1>5. {Revision(b) : b \in Baseline(page[t])} \subseteq Revisions
  BY <1>4 DEF Revision, DraftRecords, Revisions
<1>6. (IF page[t].baseline = NoRecord THEN {} ELSE {Revision(page[t].baseline)})
        = {Revision(b) : b \in Baseline(page[t])}
  BY <1>4
<1>7. r = [writer |-> page[t].writer, seq |-> page[t].seq + 1,
           parent |-> {Revision(b) : b \in Baseline(page[t])},
           supersedes |-> ancestry(parents[t], page[t].writer), source |-> page[t].value,
           at |-> writes + 1]
  BY <1>6 DEF Record
<1>8. page[t].seq \in Nat /\ page[t].value \in Texts
  BY <1>1 DEF Pages
<1> HIDE DEF r
<1>9. r \in DraftRecords
  BY <1>1, <1>2, <1>3, <1>5, <1>7, <1>8 DEF DraftRecords
<1> QED BY <1>2, <1>7, <1>9 DEF r

\* Every handler leaves the types alone.
LEMMA HandlerTypes ==
  ASSUME TypeOK, RevisionsAreFresh, NEW t \in Tabs, Handler(t)
  PROVE  TypeOK'
<1> USE DEF TypeOK, store, ui, tabs, Put, GoTo, Return, Finish, Labels, Callers, Disturbed
<1>0. /\ page[t] \in Pages /\ NoPage \in Pages /\ Nothing \in Memories
      /\ Heads(records) \subseteq DraftRecords
  BY HeadsAreRecords DEF NoPage, Pages, Texts, Nothing, Memories
<1>1. CASE Listen(t)
  BY <1>1 DEF Listen
<1>2. CASE Write(t)
  <2> DEFINE r == Record(page[t], parents[t])
             n == page[t].seq + 1
             p == [page[t] EXCEPT !.seq = n, !.baseline = r, !.dirty = FALSE, !.unsaved = FALSE]
  <2>1. r \in DraftRecords /\ n \in Nat
    BY <1>0, <1>2, RecordType DEF Write, Pages
  <2> HIDE DEF r, n
  <2>2. p \in Pages
    BY <1>0, <2>1 DEF Pages
  <2> HIDE DEF p
  <2>3. /\ records' = {x \in records : x.writer # r.writer} \cup {r}
        /\ corrupt' = corrupt \ {r.writer} /\ writes' = writes + 1
        /\ page' = [page EXCEPT ![t] = p]
        /\ interrupted' = [interrupted EXCEPT ![t] = Nothing]
        /\ events' = events \cup (Listening \ {t})
        /\ pc' \in {[pc EXCEPT ![t] = "refresh"], [pc EXCEPT ![t] = "check"]}
        /\ parents' = [parents EXCEPT ![t] = {}]
        /\ UNCHANGED <<mounted, after, ui, faults>>
    BY <1>2 DEF Write, Notify, r, n, p
  <2>4. Listening \subseteq Tabs
    BY DEF Listening
  <2>5. records' \subseteq DraftRecords /\ corrupt' \subseteq {Foreign} /\ writes' \in Nat
    BY <2>1, <2>3
  <2>6. page' \in [Tabs -> Pages] /\ interrupted' \in [Tabs -> Memories]
    BY <1>0, <2>2, <2>3
  <2>7. pc' \in [Tabs -> Labels] /\ parents' \in [Tabs -> SUBSET DraftRecords]
    BY <2>3
  <2> QED BY <2>3, <2>4, <2>5, <2>6, <2>7
<1>3. CASE WriteThrows(t)
  <2> DEFINE n == page[t].seq + 1
             p == [page[t] EXCEPT !.seq = n]
  <2>0. n \in Nat
    BY <1>0 DEF Pages
  <2> HIDE DEF n
  <2>1. p \in Pages
    BY <1>0, <2>0 DEF Pages
  <2> HIDE DEF p
  <2>2. fail(p) \in Pages
    BY <2>1, FailPage
  <2> QED BY <1>3, <2>2 DEF WriteThrows, p, n
<1>4. CASE CheckFlush(t)
  <2> DEFINE p == [page[t] EXCEPT !.readFailed = FALSE]
             q == [p EXCEPT !.status = "saved", !.conflicts = {}, !.unsaved = FALSE]
  <2>1. p \in Pages
    BY <1>0 DEF Pages
  <2> HIDE DEF p
  <2>2. q \in Pages
    BY <2>1 DEF Pages
  <2>3. fail(p) \in Pages /\ showConflict(p, Heads(records)) \in Pages
    BY <1>0, <2>1, FailPage, ConflictPage
  <2> HIDE DEF q
  <2>4. /\ page' \in {[page EXCEPT ![t] = q], [page EXCEPT ![t] = fail(p)],
                      [page EXCEPT ![t] = showConflict(p, Heads(records))]}
        /\ faults' \in {faults, faults + 1}
    BY <1>4 DEF CheckFlush, p, q
  <2>5. page' \in [Tabs -> Pages]
    BY <2>2, <2>3, <2>4
  <2> QED BY <1>4, <2>4, <2>5 DEF CheckFlush
<1>5. CASE JoinRefresh(t)
  <2>1. refresh(page[t]) \in Pages /\ fail(page[t]) \in Pages
    BY <1>0, RefreshPage, FailPage
  <2>2. \E p \in {refresh(page[t]), fail(page[t])} : page' = [page EXCEPT ![t] = p]
    BY <1>5 DEF JoinRefresh
  <2>3. page' \in [Tabs -> Pages]
    BY <2>1, <2>2
  <2>4. faults' \in Nat
    BY <1>5 DEF JoinRefresh
  <2> QED BY <1>5, <2>3, <2>4 DEF JoinRefresh
<1>6. CASE Blocked(t)
  BY <1>6 DEF Blocked
<1>7. CASE Detach(t)
  <2>1. [source |-> page[t].value, baseline |-> page[t].baseline] \in Memories
    BY <1>0 DEF Pages, Memories
  <2>2. interrupted' \in [Tabs -> Memories]
    BY <1>7, <2>1 DEF Detach
  <2> QED BY <1>0, <1>7, <2>2 DEF Detach, Gone
<1>8. CASE StayOnPage(t)
  BY <1>8 DEF StayOnPage
<1>9. CASE LeavePage(t)
  BY <1>9 DEF LeavePage, Texts
<1>10. CASE PageHide(t)
  BY <1>10, BeginFlushTypes DEF PageHide
<1>11. CASE PageCloses(t)
  BY <1>0, <1>11 DEF PageCloses, Gone
<1> QED
  BY <1>1, <1>2, <1>3, <1>4, <1>5, <1>6, <1>7, <1>8, <1>9, <1>10, <1>11 DEF Handler

\* A refresh, or the failure of one.
LEMMA RefreshOrFail ==
  ASSUME TypeOK, NEW t \in Tabs,
         \/ Put(t, refresh(page[t])) /\ UNCHANGED faults
         \/ Put(t, fail(page[t])) /\ Disturbed
  PROVE  /\ \E p \in Pages : page' = [page EXCEPT ![t] = p] /\ Same(page[t], p)
         /\ page' \in [Tabs -> Pages]
         /\ faults' \in Nat
<1>1. page[t] \in Pages /\ page \in [Tabs -> Pages] /\ faults \in Nat
  BY DEF TypeOK
<1>2. /\ refresh(page[t]) \in Pages /\ Same(page[t], refresh(page[t]))
      /\ fail(page[t]) \in Pages /\ Same(page[t], fail(page[t]))
  BY <1>1, RefreshPage, FailPage
<1>3. \E p \in {refresh(page[t]), fail(page[t])} : page' = [page EXCEPT ![t] = p]
  BY DEF Put
<1>4. page' \in [Tabs -> Pages]
  BY <1>1, <1>2, <1>3
<1>5. faults' \in Nat
  BY <1>1 DEF Disturbed
<1> QED BY <1>2, <1>3, <1>4, <1>5

\* What a refused choice leaves of the page.
LEMMA RefusedPage ==
  ASSUME TypeOK, NEW t \in Tabs, ChoiceRefused(t)
  PROVE  /\ \E p \in Pages : page' = [page EXCEPT ![t] = p] /\ Same(page[t], p)
         /\ faults' \in Nat
<1> DEFINE p == [page[t] EXCEPT !.timer = FALSE]
           d == [p EXCEPT !.dirty = TRUE]
<1>1. page[t] \in Pages /\ faults \in Nat /\ Heads(records) \in SUBSET DraftRecords
  BY HeadsAreRecords DEF TypeOK
<1>2. p \in Pages /\ Same(page[t], p)
  BY <1>1 DEF Pages, Same
<1> HIDE DEF p
<1>3. d \in Pages /\ Same(page[t], d)
  BY <1>2 DEF Pages, Same
<1> HIDE DEF d
<1>4. /\ fail(p) \in Pages /\ Same(p, fail(p))
      /\ fail(d) \in Pages /\ Same(d, fail(d))
      /\ showConflict(p, Heads(records)) \in Pages /\ Same(p, showConflict(p, Heads(records)))
  BY <1>1, <1>2, <1>3, FailPage, ConflictPage
<1>5. \E q \in {fail(p), fail(d), showConflict(p, Heads(records))} : page' = [page EXCEPT ![t] = q]
  BY DEF ChoiceRefused, Put, p, d
<1>6. faults' \in Nat
  BY <1>1 DEF ChoiceRefused, Disturbed
<1> QED BY <1>2, <1>3, <1>4, <1>5, <1>6 DEF Same

\* The page that goes into a chosen or a reset write.
LEMMA JoinPage ==
  ASSUME TypeOK, NEW t \in Tabs, NEW s \in Sources
  PROVE  LET q == [page[t] EXCEPT !.timer = FALSE, !.value = s, !.dirty = TRUE]
             p == [page[t] EXCEPT !.timer = FALSE, !.dirty = TRUE, !.value = s, !.unsaved = TRUE]
         IN  /\ q \in Pages /\ Same(page[t], q) /\ q.dirty /\ q.value = s
             /\ p \in Pages /\ Same(page[t], p) /\ Baseline(p) = Baseline(page[t])
             /\ p.dirty /\ p.value = s
             /\ fail(p) \in Pages /\ Same(page[t], fail(p))
<1> DEFINE q == [page[t] EXCEPT !.timer = FALSE, !.value = s, !.dirty = TRUE]
           p == [page[t] EXCEPT !.timer = FALSE, !.dirty = TRUE, !.value = s, !.unsaved = TRUE]
<1>1. page[t] \in Pages /\ s \in Texts
  BY DEF TypeOK, Texts
<1>2. q \in Pages /\ Same(page[t], q) /\ q.dirty /\ q.value = s
  BY <1>1 DEF Pages, Same
<1>3. p \in Pages /\ Same(page[t], p) /\ Baseline(p) = Baseline(page[t]) /\ p.dirty /\ p.value = s
  BY <1>1 DEF Pages, Same, Baseline
<1> HIDE DEF p, q
<1>4. fail(p) \in Pages /\ Same(p, fail(p))
  BY <1>3, FailPage
<1> QED BY <1>2, <1>3, <1>4 DEF Same, p, q

\* Every action of a user leaves the types alone.
LEMMA UserTypes ==
  ASSUME TypeOK, NEW t \in Tabs, User(t)
  PROVE  TypeOK'
<1> USE DEF TypeOK, store, ui, tabs, Put, GoTo, Labels, Callers
<1>0. /\ page[t] \in Pages /\ Heads(records) \in SUBSET DraftRecords
      /\ Baseline(page[t]) \in SUBSET DraftRecords /\ Nothing \in Memories
      /\ Listening \subseteq Tabs
  BY HeadsAreRecords DEF Baseline, Pages, Nothing, Memories, Texts, Listening
<1>1. CASE Mount(t)
  <2>1. page' \in [Tabs -> Pages]
    BY <1>1, MountPage
  <2>2. faults' \in Nat
    BY <1>1 DEF Mount, Disturbed
  <2> QED BY <1>1, <2>1, <2>2 DEF Mount
<1>2. CASE Navigate(t) \/ Unmount(t) \/ Unload(t) \/ RetryFlush(t) \/ LeaveAnyway(t)
  BY <1>2, BeginFlushTypes DEF Navigate, Unmount, Unload, RetryFlush, LeaveAnyway
<1>3. CASE ClosedElsewhere(t)
  BY <1>0, <1>3 DEF ClosedElsewhere, Texts
<1>4. CASE RetryRefresh(t)
  <2>1. page' \in [Tabs -> Pages] /\ faults' \in Nat
    BY <1>4, RefreshOrFail DEF RetryRefresh
  <2> QED BY <1>4, <2>1 DEF RetryRefresh
<1>5. CASE OpenDialog(t) \/ CloseDialog(t)
  <2>1. \E d \in SUBSET {"leave", "reset", "conflict"} : open' = [open EXCEPT ![t] = d]
    <3>1. CASE OpenDialog(t)
      BY <3>1 DEF OpenDialog
    <3>2. CASE CloseDialog(t)
      <4>1. PICK d \in open[t] : open' = [open EXCEPT ![t] = open[t] \ {d}]
        BY <3>2 DEF CloseDialog
      <4>2. open[t] \ {d} \in SUBSET {"leave", "reset", "conflict"}
        OBVIOUS
      <4> QED BY <4>1, <4>2
    <3> QED BY <1>5, <3>1, <3>2
  <2> QED BY <1>5, <2>1 DEF OpenDialog, CloseDialog
<1>6. CASE ConfirmLoad(t)
  <2>1. load[t][1] \in Texts
    BY <1>6 DEF ConfirmLoad, Texts
  <2>2. setValue(page[t], load[t][1]) \in Pages
    BY <1>0, <2>1, SetValuePage
  <2> QED BY <1>6, <2>1, <2>2 DEF ConfirmLoad
<1>7. CASE CancelLoad(t)
  BY <1>7 DEF CancelLoad
<1>8. CASE ChoiceRefused(t)
  <2>1. (\E p \in Pages : page' = [page EXCEPT ![t] = p]) /\ faults' \in Nat
    BY <1>8, RefusedPage
  <2>2. open' \in [Tabs -> SUBSET {"leave", "reset", "conflict"}]
    BY <1>8 DEF ChoiceRefused, CloseConflict
  <2>3. page' \in [Tabs -> Pages]
    BY <2>1
  <2>4. UNCHANGED <<store, mounted, pc, parents, after, interrupted, events, load, readOnly, edits, typed>>
    BY <1>8 DEF ChoiceRefused
  <2> QED BY <2>1, <2>2, <2>3, <2>4
<1>9. CASE Reset(t)
  <2> DEFINE p == [page[t] EXCEPT !.timer = FALSE, !.dirty = TRUE, !.value = Starter, !.unsaved = TRUE]
  <2>1. p \in Pages /\ fail(p) \in Pages /\ Baseline(p) = Baseline(page[t])
    BY StarterAssumption, JoinPage
  <2> HIDE DEF p
  <2>2. /\ page' \in {[page EXCEPT ![t] = p], [page EXCEPT ![t] = fail(p)]}
        /\ records' \subseteq records /\ corrupt' \subseteq corrupt /\ writes' = writes
        /\ parents' \in {parents, [parents EXCEPT ![t] = Heads(records) \cup Baseline(p)]}
        /\ after' \in {after, [after EXCEPT ![t] = "join"]}
        /\ pc' \in {pc, [pc EXCEPT ![t] = "write"]}
        /\ events' \in {events, events \cup (Listening \ {t})}
        /\ faults' \in {faults, faults + 1}
        /\ typed' = [typed EXCEPT ![t] = Starter]
        /\ open' = [open EXCEPT ![t] = @ \ {"reset"}]
        /\ edits' = edits + 1
        /\ UNCHANGED <<mounted, interrupted, load, readOnly>>
    BY <1>9 DEF Reset, Notify, Changes, Disturbed, p
  <2>3. page' \in [Tabs -> Pages]
    BY <2>1, <2>2
  <2>4. faults' \in Nat /\ events' \subseteq Tabs
    BY <1>0, <2>2
  <2>5. parents' \in [Tabs -> SUBSET DraftRecords]
    BY <1>0, <2>1, <2>2
  <2>6. after' \in [Tabs -> Callers] /\ pc' \in [Tabs -> Labels]
    BY <2>2
  <2>7. typed' \in [Tabs -> Texts]
    BY <2>2, StarterAssumption DEF Texts
  <2> QED BY <2>2, <2>3, <2>4, <2>5, <2>6, <2>7
<1>10. CASE SessionInDoubt(t) \/ SessionConfirmed(t)
  <2>1. /\ readOnly' \subseteq Tabs /\ faults' \in Nat
        /\ load' = load \/ load' = [load EXCEPT ![t] = <<>>]
        /\ UNCHANGED <<store, tabs, open, edits, typed>>
    BY <1>10 DEF SessionInDoubt, SessionConfirmed, Disturbed
  <2> QED BY <2>1
<1>11. ASSUME NEW s \in Sources, Type(t, s)
       PROVE  TypeOK'
  <2>1. setValue(page[t], s) \in Pages /\ s \in Texts
    BY <1>0, SetValuePage DEF Texts
  <2> QED BY <1>11, <2>1 DEF Type, Changes
<1>12. ASSUME NEW s \in Sources, RequestLoad(t, s)
       PROVE  TypeOK'
  <2>1. <<s, page[t].value>> \in Sources \X Texts
    BY <1>0 DEF Pages
  <2> QED BY <1>12, <2>1 DEF RequestLoad, Changes
<1>13. ASSUME NEW s \in Sources, Choose(t, s)
       PROVE  TypeOK'
  <2> DEFINE q == [page[t] EXCEPT !.timer = FALSE, !.value = s, !.dirty = TRUE]
  <2>1. q \in Pages /\ s \in Texts
    BY JoinPage DEF Texts
  <2> HIDE DEF q
  <2>2. /\ page' = [page EXCEPT ![t] = q]
        /\ parents' = [parents EXCEPT ![t] = Heads(records) \cup Baseline(page[t])]
        /\ after' = [after EXCEPT ![t] = "join"] /\ pc' = [pc EXCEPT ![t] = "write"]
        /\ typed' = [typed EXCEPT ![t] = s]
        /\ open' = [open EXCEPT ![t] = @ \ {"conflict"}]
        /\ edits' = edits + 1
        /\ UNCHANGED <<store, mounted, interrupted, events, load, readOnly, faults>>
    BY <1>13 DEF Choose, CloseConflict, Changes, q
  <2>3. parents' \in [Tabs -> SUBSET DraftRecords]
    BY <1>0, <2>2
  <2> QED BY <2>1, <2>2, <2>3
<1> QED
  BY <1>1, <1>2, <1>3, <1>4, <1>5, <1>6, <1>7, <1>8, <1>9, <1>10, <1>11, <1>12, <1>13 DEF User

\* Every step leaves the types alone.
LEMMA TypeStep ==
  ASSUME TypeOK, RevisionsAreFresh, [Next]_vars
  PROVE  TypeOK'
<1> USE DEF TypeOK
<1>1. CASE ClearSite
  <2>1. typed' \in [Tabs -> Texts]
    BY <1>1 DEF ClearSite, Texts
  <2> QED BY <1>1, <2>1 DEF ClearSite, Listening, Disturbed
<1>2. CASE ForeignWrite
  BY <1>2 DEF ForeignWrite, Listening, Disturbed, ui
<1>3. ASSUME NEW t \in Tabs, StorageEvent(t)
      PROVE  TypeOK'
  <2>1. page' \in [Tabs -> Pages] /\ faults' \in Nat
    BY <1>3, RefreshOrFail DEF StorageEvent
  <2> QED BY <1>3, <2>1 DEF StorageEvent, store, ui
<1>4. ASSUME NEW t \in Tabs, SaveTimer(t)
      PROVE  TypeOK'
  BY <1>4, BeginFlushTypes DEF SaveTimer, Callers
<1>5. CASE UNCHANGED vars
  BY <1>5 DEF vars, store, tabs, ui
<1> QED
  BY <1>1, <1>2, <1>3, <1>4, <1>5, HandlerTypes, UserTypes DEF Next

-----------------------------------------------------------------------------
(* Heads *)

\* A record that is superseded is replaced by a stored record of another writer.
LEMMA SupersededIsReplaced ==
  ASSUME NEW R, NEW v \in Superseded(R)
  PROVE  \E s \in R : s.writer # v[1] /\ (v = Revision(s) \/ v \in Replaces(s))
<1>1. PICK s \in R : v \in ancestry({s}, s.writer)
  BY DEF Superseded
<1> QED BY <1>1, AncestryIsKnown

\* And conversely, for what is the latest of its writer: compactRevisions keeps it.
LEMMA ReplacedIsSuperseded ==
  ASSUME NEW R, NEW s \in R, NEW v \in Replaces(s), v[1] # s.writer,
         \A u \in Replaces(s) : u[1] = v[1] => u[2] <= v[2]
  PROVE  v \in Superseded(R)
<1> DEFINE all == UNION {{Revision(r)} \cup r.supersedes \cup r.parent : r \in {s}}
<1>1. all = {Revision(s)} \cup Replaces(s)
  BY DEF Replaces
<1>2. Revision(s)[1] = s.writer
  BY DEF Revision
<1>3. v \in compactRevisions(all, s.writer)
  BY <1>1, <1>2 DEF compactRevisions
<1>4. v \in ancestry({s}, s.writer)
  BY <1>3 DEF ancestry
<1> QED BY <1>4 DEF Superseded

\* Whatever is stored, the newest record is superseded by none.
LEMMA NewestIsHead ==
  ASSUME TypeOK, ReplacesOlder
  PROVE  NeverFalselyCorrupt
<1> SUFFICES ASSUME records # {} PROVE Heads(records) # {}
  BY DEF NeverFalselyCorrupt
<1> DEFINE ages == {writes - r.at : r \in records}
<1>1. \A r \in records : r \in DraftRecords /\ r.at \in Nat /\ r.at <= writes /\ writes \in Nat
  BY DEF TypeOK, DraftRecords, ReplacesOlder, Recs
<1>2. ages \subseteq Nat /\ ages # {}
  BY <1>1
<1>3. PICK a \in ages : \A b \in ages : ~(<<b, a>> \in OpToRel(<, Nat))
  <2> HIDE DEF ages
  <2> QED BY <1>2, NatLessThanWellFounded, WFMin
<1>4. \A b \in ages : ~(b < a)
  BY <1>2, <1>3 DEF OpToRel
<1>5. PICK r \in records : a = writes - r.at
  OBVIOUS
<1>6. ASSUME NEW q \in records
      PROVE  q.at <= r.at
  <2>1. writes - q.at \in ages
    OBVIOUS
  <2>2. ~(writes - q.at < writes - r.at)
    BY <1>4, <1>5, <2>1
  <2> HIDE DEF ages
  <2> QED BY <1>1, <2>2
<1>7. Revision(r) \notin Superseded(records)
  <2> SUFFICES ASSUME Revision(r) \in Superseded(records) PROVE FALSE
    OBVIOUS
  <2>1. PICK s \in records : /\ s.writer # Revision(r)[1]
                             /\ Revision(r) = Revision(s) \/ Revision(r) \in Replaces(s)
    BY SupersededIsReplaced
  <2>2. Revision(r) # Revision(s)
    BY <2>1 DEF Revision
  <2>3. r.at < s.at
    BY <2>1, <2>2 DEF ReplacesOlder, Recs
  <2> QED BY <1>1, <1>6, <2>3
<1> QED BY <1>7 DEF Heads

-----------------------------------------------------------------------------
(* Every step but a write is quiet: it makes no record, and what a page can     *)
(* save from is what some page could save from before.                         *)

\* A tab that stays mounted, or stays away.
TabStays(t) ==
  /\ mounted'[t] = mounted[t] /\ (pc'[t] = "off" <=> pc[t] = "off")
  /\ page'[t].writer = page[t].writer /\ page'[t].baseline = page[t].baseline
  /\ page'[t].seq >= page[t].seq
  /\ parents'[t] \subseteq parents[t] \cup Heads(records) \cup Baseline(page[t])
  /\ interrupted'[t].baseline \in {interrupted[t].baseline, NoRecord}
  /\ pc'[t] = "write" =>
       \/ pc[t] = "write" /\ parents'[t] = parents[t] /\ after'[t] = after[t]
       \/ /\ Baseline(page[t]) \subseteq parents'[t]
          /\ after'[t] # "join" => parents'[t] \subseteq Baseline(page[t])

\* A tab that drops its editor.
TabLeaves(t) ==
  /\ pc'[t] = "off" /\ mounted'[t] = mounted[t] /\ page'[t] = NoPage
  /\ parents'[t] = parents[t]
  /\ interrupted'[t].baseline \in {interrupted[t].baseline, page[t].baseline, NoRecord}

\* A tab that mounts one.
TabMounts(t) ==
  /\ pc[t] = "off" /\ pc'[t] = "mounting" /\ mounted'[t] = mounted[t] + 1
  /\ page'[t].writer = <<t, mounted[t] + 1>> /\ page'[t].seq = 0
  /\ page'[t].baseline \in {NoRecord, interrupted[t].baseline} \cup records
  /\ parents'[t] = parents[t] /\ interrupted'[t] = interrupted[t]

Quiet ==
  /\ records' = records \/ records' = {}
  /\ writes' = writes
  /\ \A t \in Tabs : TabStays(t) \/ TabLeaves(t) \/ TabMounts(t)

\* The page of a tab keeps its writer and its baseline.
KeepsPage(t) ==
  page' = page \/ \E p \in Pages : /\ page' = [page EXCEPT ![t] = p]
                                   /\ p.writer = page[t].writer /\ p.baseline = page[t].baseline
                                   /\ p.seq >= page[t].seq

\* The handler goes on, or ends, without starting a write.
KeepsLabel(t) ==
  \/ UNCHANGED <<pc, parents, after>>
  \/ /\ pc[t] # "off" /\ \E l \in Labels \ {"off", "write"} : pc' = [pc EXCEPT ![t] = l]
     /\ after' = after \/ \E c \in Callers : after' = [after EXCEPT ![t] = c]
     /\ parents' = parents \/ parents' = [parents EXCEPT ![t] = {}]

\* A step of one tab that does both is quiet.
LEMMA PageStepIsQuiet ==
  ASSUME TypeOK, NEW t \in Tabs, KeepsPage(t), KeepsLabel(t),
         UNCHANGED <<records, writes, mounted>>,
         interrupted' = interrupted \/ interrupted' = [interrupted EXCEPT ![t] = Nothing]
  PROVE  Quiet
<1> SUFFICES ASSUME NEW u \in Tabs PROVE TabStays(u)
  BY DEF Quiet
<1> USE DEF TypeOK
<1>1. /\ page[u] \in Pages /\ page[u].seq \in Nat
      /\ Nothing.baseline = NoRecord
  BY DEF Pages, Nothing
<1>2. /\ page'[u].writer = page[u].writer /\ page'[u].baseline = page[u].baseline
      /\ page'[u].seq >= page[u].seq
  <2>1. CASE page' = page
    BY <1>1, <2>1
  <2>2. CASE page' # page
    <3>1. PICK p \in Pages : /\ page' = [page EXCEPT ![t] = p]
                             /\ p.writer = page[t].writer /\ p.baseline = page[t].baseline
                             /\ p.seq >= page[t].seq
      BY <2>2 DEF KeepsPage
    <3>2. page'[u] = IF u = t THEN p ELSE page[u]
      BY <3>1
    <3> QED BY <1>1, <3>1, <3>2
  <2> QED BY <2>1, <2>2
<1>3. /\ parents'[u] \subseteq parents[u] \cup Heads(records) \cup Baseline(page[u])
      /\ pc'[u] = "off" <=> pc[u] = "off"
      /\ pc'[u] = "write" => pc[u] = "write" /\ parents'[u] = parents[u] /\ after'[u] = after[u]
  BY DEF Labels, KeepsLabel
<1>4. interrupted'[u].baseline \in {interrupted[u].baseline, NoRecord}
  BY <1>1
<1> QED BY <1>2, <1>3, <1>4 DEF TabStays

\* A page that is the same but for what it says.
LEMMA SameIsKept ==
  ASSUME TypeOK, NEW t \in Tabs, NEW p \in Pages, Same(page[t], p), page' = [page EXCEPT ![t] = p]
  PROVE  KeepsPage(t)
<1>1. page[t].seq \in Nat /\ p.seq = page[t].seq
  BY DEF TypeOK, Pages, Same
<1>2. p.seq >= page[t].seq
  BY <1>1
<1> QED BY <1>2 DEF KeepsPage, Same

\* The start of a flush is quiet: it may start a write, which joins the baseline.
LEMMA BeginFlushIsQuiet ==
  ASSUME TypeOK, NEW t \in Tabs, NEW then \in Callers, BeginFlush(t, then), then # "join"
  PROVE  Quiet
<1> USE DEF TypeOK
<1>1. /\ \E p \in Pages : page' = [page EXCEPT ![t] = p] /\ Same(page[t], p)
      /\ pc' \in [Tabs -> Labels] /\ \A u \in Tabs \ {t} : pc'[u] = pc[u]
      /\ pc[t] = "idle" /\ pc'[t] # "off"
      /\ after' = [after EXCEPT ![t] = then]
      /\ UNCHANGED <<store, mounted, interrupted, events>>
      /\ \/ parents' = parents /\ pc'[t] # "write"
         \/ parents' = [parents EXCEPT ![t] = Baseline(page[t])] /\ pc'[t] = "write"
  BY BeginFlushPage
<1>2. \A u \in Tabs : page[u].seq \in Nat
  BY DEF Pages
<1>3. ASSUME NEW u \in Tabs PROVE TabStays(u)
  <2>1. Same(page[u], page'[u]) /\ page'[u].seq >= page[u].seq
    BY <1>1, <1>2 DEF Same
  <2>2. CASE u = t
    <3>1. parents'[t] \subseteq parents[t] \cup Heads(records) \cup Baseline(page[t])
      BY <1>1
    <3>2. pc'[t] = "write" => parents'[t] = Baseline(page[t])
      BY <1>1
    <3> QED BY <1>1, <2>1, <2>2, <3>1, <3>2 DEF TabStays, Same
  <2>3. CASE u # t
    BY <1>1, <2>1, <2>3 DEF TabStays, Same
  <2> QED BY <2>2, <2>3
<1> QED BY <1>1, <1>3 DEF Quiet, store

\* A tab that drops its editor is quiet.
LEMMA LeavingIsQuiet ==
  ASSUME TypeOK, NEW t \in Tabs, Gone(t), UNCHANGED <<store, mounted, parents>>,
         \E m \in {interrupted[t].baseline, page[t].baseline, NoRecord} : \E s \in Texts :
           interrupted' = interrupted
             \/ interrupted' = [interrupted EXCEPT ![t] = [source |-> s, baseline |-> m]]
  PROVE  Quiet
<1> USE DEF TypeOK
<1>1. /\ page' = [page EXCEPT ![t] = NoPage] /\ pc' = [pc EXCEPT ![t] = "off"]
      /\ after' = [after EXCEPT ![t] = "none"]
  BY DEF Gone, Put, Return, GoTo
<1>2. \A u \in Tabs : page[u].seq \in Nat
  BY DEF Pages
<1>3. TabLeaves(t)
  BY <1>1 DEF TabLeaves
<1>4. ASSUME NEW u \in Tabs, u # t PROVE TabStays(u)
  BY <1>1, <1>2, <1>4 DEF TabStays
<1> QED BY <1>3, <1>4 DEF Quiet, store

\* A handler writes, or is quiet.
LEMMA HandlerIsQuiet ==
  ASSUME TypeOK, NEW t \in Tabs, Handler(t), ~Write(t)
  PROVE  Quiet
<1> USE DEF TypeOK, store, ui, tabs, Put, GoTo, Return, Finish, Labels, Callers
<1>0. page[t] \in Pages /\ page[t].seq \in Nat /\ Heads(records) \in SUBSET DraftRecords
  BY HeadsAreRecords DEF Pages
<1>1. CASE Listen(t)
  BY <1>1, PageStepIsQuiet DEF Listen, KeepsPage, KeepsLabel
<1>2. CASE WriteThrows(t)
  <2> DEFINE n == page[t].seq + 1
             p == [page[t] EXCEPT !.seq = n]
  <2>1. n \in Nat /\ n >= page[t].seq
    BY <1>0
  <2> HIDE DEF n
  <2>2. p \in Pages /\ p.writer = page[t].writer /\ p.baseline = page[t].baseline /\ p.seq = n
    BY <1>0, <2>1 DEF Pages
  <2> HIDE DEF p
  <2>3. fail(p) \in Pages /\ Same(p, fail(p))
    BY <2>2, FailPage
  <2>4. page' = [page EXCEPT ![t] = fail(p)]
    BY <1>2 DEF WriteThrows, p, n
  <2>5. KeepsPage(t)
    BY <2>1, <2>2, <2>3, <2>4 DEF KeepsPage, Same
  <2>6. KeepsLabel(t)
    <3>1. /\ pc[t] = "write" /\ after' = after /\ parents' = [parents EXCEPT ![t] = {}]
          /\ \E l \in {"idle", "flushed"} : pc' = [pc EXCEPT ![t] = l]
      BY <1>2 DEF WriteThrows
    <3> QED BY <3>1 DEF KeepsLabel
  <2> QED BY <1>2, <2>5, <2>6, PageStepIsQuiet DEF WriteThrows
<1>3. CASE CheckFlush(t)
  <2> DEFINE p == [page[t] EXCEPT !.readFailed = FALSE]
             q == [p EXCEPT !.status = "saved", !.conflicts = {}, !.unsaved = FALSE]
  <2>1. p \in Pages /\ Same(page[t], p)
    BY <1>0 DEF Pages, Same
  <2> HIDE DEF p
  <2>2. q \in Pages /\ Same(p, q)
    BY <2>1 DEF Pages, Same
  <2>3. /\ fail(p) \in Pages /\ Same(p, fail(p))
        /\ showConflict(p, Heads(records)) \in Pages /\ Same(p, showConflict(p, Heads(records)))
    BY <1>0, <2>1, FailPage, ConflictPage
  <2> HIDE DEF q
  <2>4. \E x \in {q, fail(p), showConflict(p, Heads(records))} : page' = [page EXCEPT ![t] = x]
    BY <1>3 DEF CheckFlush, p, q
  <2>5. \E x \in Pages : page' = [page EXCEPT ![t] = x] /\ Same(page[t], x)
    BY <2>1, <2>2, <2>3, <2>4 DEF Same
  <2>6. KeepsPage(t)
    BY <2>5, SameIsKept
  <2>7. KeepsLabel(t)
    BY <1>3 DEF CheckFlush, KeepsLabel
  <2> QED BY <1>3, <2>6, <2>7, PageStepIsQuiet DEF CheckFlush
<1>4. CASE JoinRefresh(t)
  <2>1. \E x \in Pages : page' = [page EXCEPT ![t] = x] /\ Same(page[t], x)
    BY <1>4, RefreshOrFail DEF JoinRefresh
  <2>6. KeepsPage(t)
    BY <2>1, SameIsKept
  <2>7. KeepsLabel(t)
    BY <1>4 DEF JoinRefresh, KeepsLabel
  <2> QED BY <1>4, <2>6, <2>7, PageStepIsQuiet DEF JoinRefresh
<1>5. CASE Blocked(t) \/ StayOnPage(t) \/ LeavePage(t)
  <2>1. KeepsPage(t) /\ KeepsLabel(t)
    BY <1>5 DEF Blocked, StayOnPage, LeavePage, KeepsPage, KeepsLabel
  <2> QED BY <1>5, <2>1, PageStepIsQuiet DEF Blocked, StayOnPage, LeavePage
<1>6. CASE Detach(t)
  <2>1. page[t].value \in Texts
    BY <1>0 DEF Pages
  <2> QED BY <1>6, <2>1, LeavingIsQuiet DEF Detach
<1>7. CASE PageCloses(t)
  BY <1>7, LeavingIsQuiet DEF PageCloses, Nothing, Texts
<1>8. CASE PageHide(t)
  BY <1>8, BeginFlushIsQuiet DEF PageHide
<1> QED
  BY <1>1, <1>2, <1>3, <1>4, <1>5, <1>6, <1>7, <1>8 DEF Handler

\* The confirmed removal of what cannot be read removes no readable record.
LEMMA ResetKeepsRecords ==
  ASSUME TypeOK, ReplacesOlder
  PROVE  {r \in records : r.writer \notin corruptKeys} = records
<1>1. records # {} => Heads(records) # {}
  BY NewestIsHead DEF NeverFalselyCorrupt
<1>2. corruptKeys \subseteq {Foreign}
  BY <1>1 DEF corruptKeys, TypeOK
<1>3. \A r \in records : r.writer \in Tabs \X Nat
  BY DEF TypeOK, DraftRecords
<1> QED BY <1>2, <1>3, ForeignAssumption

\* A user's action is quiet.
LEMMA UserIsQuiet ==
  ASSUME TypeOK, ReplacesOlder, NEW t \in Tabs, User(t)
  PROVE  Quiet
<1> USE DEF TypeOK, store, ui, tabs, Put, GoTo, Labels, Callers
<1>0. page[t] \in Pages /\ \A u \in Tabs : page[u].seq \in Nat
  BY DEF Pages
<1>1. CASE Mount(t)
  <2>1. PICK p \in Pages :
           /\ page' = [page EXCEPT ![t] = p]
           /\ p.writer = <<t, mounted[t] + 1>> /\ p.seq = 0
           /\ p.baseline \in {NoRecord, interrupted[t].baseline} \cup records
    BY <1>1, MountPage
  <2>2. TabMounts(t)
    BY <1>1, <2>1 DEF Mount, TabMounts
  <2>3. ASSUME NEW u \in Tabs, u # t PROVE TabStays(u)
    BY <1>0, <1>1, <2>1, <2>3 DEF Mount, TabStays
  <2> QED BY <1>1, <2>2, <2>3 DEF Quiet, Mount
<1>2. CASE Navigate(t) \/ Unmount(t) \/ Unload(t) \/ RetryFlush(t) \/ LeaveAnyway(t)
  BY <1>2, BeginFlushIsQuiet DEF Navigate, Unmount, Unload, RetryFlush, LeaveAnyway
<1>3. CASE ClosedElsewhere(t)
  BY <1>3, PageStepIsQuiet DEF ClosedElsewhere, KeepsPage, KeepsLabel
<1>4. CASE RetryRefresh(t)
  <2>1. \E x \in Pages : page' = [page EXCEPT ![t] = x] /\ Same(page[t], x)
    BY <1>4, RefreshOrFail DEF RetryRefresh
  <2>6. KeepsPage(t)
    BY <2>1, SameIsKept
  <2>7. KeepsLabel(t)
    BY <1>4 DEF RetryRefresh, KeepsLabel
  <2> QED BY <1>4, <2>6, <2>7, PageStepIsQuiet DEF RetryRefresh
<1>5. CASE \/ OpenDialog(t) \/ CloseDialog(t) \/ CancelLoad(t) \/ SessionInDoubt(t)
           \/ SessionConfirmed(t) \/ \E s \in Sources : RequestLoad(t, s)
  BY <1>5, PageStepIsQuiet
  DEF KeepsPage, KeepsLabel, OpenDialog, CloseDialog, CancelLoad, SessionInDoubt, SessionConfirmed, RequestLoad
<1>6. CASE ConfirmLoad(t)
  <2>1. load[t][1] \in Texts
    BY <1>6 DEF ConfirmLoad, Texts
  <2>2. setValue(page[t], load[t][1]) \in Pages /\ Same(page[t], setValue(page[t], load[t][1]))
    BY <1>0, <2>1, SetValuePage
  <2>3. KeepsPage(t) /\ KeepsLabel(t)
    BY <1>6, <2>2, SameIsKept DEF ConfirmLoad, KeepsLabel
  <2> QED BY <1>6, <2>3, PageStepIsQuiet DEF ConfirmLoad
<1>7. CASE ChoiceRefused(t)
  <2>1. \E x \in Pages : page' = [page EXCEPT ![t] = x] /\ Same(page[t], x)
    BY <1>7, RefusedPage
  <2>6. KeepsPage(t)
    BY <2>1, SameIsKept
  <2>7. KeepsLabel(t)
    BY <1>7 DEF ChoiceRefused, KeepsLabel
  <2> QED BY <1>7, <2>6, <2>7, PageStepIsQuiet DEF ChoiceRefused
<1>8. ASSUME NEW p \in Pages, Same(page[t], p), page' = [page EXCEPT ![t] = p],
             parents' = [parents EXCEPT ![t] = Heads(records) \cup Baseline(page[t])],
             after' = [after EXCEPT ![t] = "join"], pc' = [pc EXCEPT ![t] = "write"], pc[t] # "off",
             UNCHANGED <<records, writes, mounted, interrupted>>
      PROVE  Quiet
  <2>1. ASSUME NEW u \in Tabs PROVE TabStays(u)
    <3>1. CASE u = t
      BY <1>0, <1>8, <3>1 DEF TabStays, Same
    <3>2. CASE u # t
      BY <1>0, <1>8, <3>2 DEF TabStays
    <3> QED BY <3>1, <3>2
  <2> QED BY <1>8, <2>1 DEF Quiet
<1>9. CASE Reset(t)
  <2> DEFINE p == [page[t] EXCEPT !.timer = FALSE, !.dirty = TRUE, !.value = Starter, !.unsaved = TRUE]
  <2>1. /\ p \in Pages /\ Same(page[t], p) /\ Baseline(p) = Baseline(page[t])
        /\ fail(p) \in Pages /\ Same(page[t], fail(p))
    BY StarterAssumption, JoinPage
  <2> HIDE DEF p
  <2>2. pc[t] = "idle" /\ UNCHANGED <<mounted, interrupted>>
    BY <1>9 DEF Reset, Awake
  <2>3. CASE page' = [page EXCEPT ![t] = fail(p)] /\ UNCHANGED <<store, pc, parents, after>>
    <3>1. KeepsPage(t) /\ KeepsLabel(t)
      BY <2>1, <2>3, SameIsKept DEF KeepsLabel
    <3> QED BY <2>2, <2>3, <3>1, PageStepIsQuiet
  <2>4. CASE /\ records' = {r \in records : r.writer \notin corruptKeys}
             /\ page' = [page EXCEPT ![t] = p]
             /\ parents' = [parents EXCEPT ![t] = Heads(records) \cup Baseline(p)]
             /\ after' = [after EXCEPT ![t] = "join"] /\ pc' = [pc EXCEPT ![t] = "write"]
             /\ UNCHANGED writes
    BY <1>8, <2>1, <2>2, <2>4, ResetKeepsRecords
  <2> QED BY <1>9, <2>3, <2>4 DEF Reset, p
<1>10. ASSUME NEW s \in Sources, Type(t, s)
       PROVE  Quiet
  <2>1. setValue(page[t], s) \in Pages /\ Same(page[t], setValue(page[t], s))
    BY <1>0, SetValuePage DEF Texts
  <2>2. KeepsPage(t) /\ KeepsLabel(t)
    BY <1>10, <2>1, SameIsKept DEF Type, KeepsLabel
  <2> QED BY <1>10, <2>2, PageStepIsQuiet DEF Type
<1>11. ASSUME NEW s \in Sources, Choose(t, s)
       PROVE  Quiet
  <2> DEFINE q == [page[t] EXCEPT !.timer = FALSE, !.value = s, !.dirty = TRUE]
  <2>1. q \in Pages /\ Same(page[t], q)
    BY JoinPage
  <2> HIDE DEF q
  <2>2. page' = [page EXCEPT ![t] = q]
    BY <1>11 DEF Choose, q
  <2> QED BY <1>8, <1>11, <2>1, <2>2 DEF Choose, Awake
<1> QED
  BY <1>1, <1>2, <1>3, <1>4, <1>5, <1>6, <1>7, <1>9, <1>10, <1>11 DEF User

\* Every step is a write or quiet.
LEMMA NextIsQuiet ==
  ASSUME TypeOK, ReplacesOlder, [Next]_vars
  PROVE  Quiet \/ \E t \in Tabs : Write(t)
<1> USE DEF TypeOK
<1>0. \A t \in Tabs : page[t] \in Pages /\ page[t].seq \in Nat
  BY DEF Pages
<1>1. CASE ClearSite
  BY <1>0, <1>1 DEF ClearSite, Quiet, TabStays
<1>2. CASE ForeignWrite \/ UNCHANGED vars
  BY <1>0, <1>2 DEF ForeignWrite, Quiet, TabStays, vars, store, tabs
<1>3. ASSUME NEW t \in Tabs, StorageEvent(t)
      PROVE  Quiet
  <2>1. \E x \in Pages : page' = [page EXCEPT ![t] = x] /\ Same(page[t], x)
    BY <1>3, RefreshOrFail DEF StorageEvent
  <2>2. KeepsPage(t) /\ KeepsLabel(t)
    BY <1>3, <2>1, SameIsKept DEF StorageEvent, KeepsLabel
  <2> QED BY <1>3, <2>2, PageStepIsQuiet DEF StorageEvent, store
<1>4. ASSUME NEW t \in Tabs, SaveTimer(t)
      PROVE  Quiet
  BY <1>4, BeginFlushIsQuiet DEF SaveTimer, Callers
<1> QED
  BY <1>1, <1>2, <1>3, <1>4, HandlerIsQuiet, UserIsQuiet DEF Next

-----------------------------------------------------------------------------
(* The invariant *)

\* Revisions are pairs of a writer and a number.
LEMMA RevisionShape ==
  ASSUME TypeOK
  PROVE  /\ Recs \subseteq DraftRecords
         /\ \A r \in Recs : \A v \in Replaces(r) \cup {Revision(r)} :
              /\ v \in Revisions /\ v[1] \in Tabs \X Nat /\ v[2] \in Nat
              /\ v = <<v[1], v[2]>> /\ v[1][1] \in Tabs /\ v[1][2] \in Nat
              /\ v[1] = <<v[1][1], v[1][2]>>
<1>1. ASSUME NEW t \in Tabs PROVE Remembered(t) \subseteq DraftRecords
  BY DEF TypeOK, Remembered, Baseline, Pages, Memories
<1>2. Recs \subseteq DraftRecords
  BY <1>1 DEF Recs, TypeOK
<1>3. ASSUME NEW r \in Recs PROVE Replaces(r) \cup {Revision(r)} \subseteq Revisions
  BY <1>2 DEF Replaces, Revision, DraftRecords, Revisions
<1>4. ASSUME NEW v \in Revisions
      PROVE  /\ v[1] \in Tabs \X Nat /\ v[2] \in Nat
             /\ v = <<v[1], v[2]>> /\ v[1][1] \in Tabs /\ v[1][2] \in Nat
             /\ v[1] = <<v[1][1], v[1][2]>>
  BY DEF Revisions
<1> QED BY <1>2, <1>3, <1>4

\* A quiet step remembers nothing new.
LEMMA QuietRemembers ==
  ASSUME TypeOK, Quiet
  PROVE  Recs' \subseteq Recs
<1>1. records' \subseteq records
  BY DEF Quiet
<1>2. ASSUME NEW t \in Tabs PROVE Remembered(t)' \subseteq Recs
  <2>1. Remembered(t) \subseteq Recs
    BY DEF Recs
  <2>2. CASE TabStays(t)
    BY <2>1, <2>2, HeadsAreRecords DEF TabStays, Remembered, Baseline, Recs
  <2>3. CASE TabLeaves(t)
    <3>1. Baseline(page'[t]) = {}
      BY <2>3 DEF TabLeaves, Baseline, NoPage
    <3> QED BY <2>1, <2>3, <3>1 DEF TabLeaves, Remembered, Baseline
  <2>4. CASE TabMounts(t)
    BY <2>1, <2>4 DEF TabMounts, Remembered, Baseline, Recs
  <2> QED BY <2>2, <2>3, <2>4 DEF Quiet
<1> QED BY <1>1, <1>2 DEF Recs

\* A quiet step keeps the invariant.
LEMMA QuietKeeps ==
  ASSUME DraftInv, TypeOK', Quiet
  PROVE  /\ RevisionsAreFresh' /\ ReplacesOlder' /\ LatestIsStored' /\ ReplacedStays'
         /\ WriteJoinsBaseline'
<1> USE DEF DraftInv
<1>0. Recs' \subseteq Recs /\ records' \subseteq records /\ records \subseteq Recs
  BY QuietRemembers DEF Quiet, Recs
<1>1. \A t \in Tabs : /\ TabStays(t) \/ TabLeaves(t) \/ TabMounts(t)
                      /\ mounted[t] \in Nat /\ page[t].seq \in Nat
  BY DEF Quiet, TypeOK, Pages
<1>2. \A t \in Tabs : pc'[t] # "off" => page'[t].writer = Writer(t)'
  BY <1>1 DEF RevisionsAreFresh, TabStays, TabLeaves, TabMounts, Writer
<1>3. ASSUME NEW r \in Recs, NEW v \in Replaces(r) \cup {Revision(r)}, NEW t \in Tabs, v[1][1] = t
      PROVE  /\ v[1][2] <= mounted'[t]
             /\ pc'[t] # "off" /\ v[1] = Writer(t)' =>
                  pc[t] # "off" /\ v[1] = Writer(t) /\ v[2] <= page'[t].seq
  <2>1. /\ v[1][2] <= mounted[t] /\ v[1][2] \in Nat /\ v[2] \in Nat
        /\ pc[t] # "off" /\ v[1] = Writer(t) => v[2] <= page[t].seq
    BY <1>3, RevisionShape DEF RevisionsAreFresh
  <2>2. CASE TabStays(t)
    <3>1. /\ mounted'[t] = mounted[t] /\ Writer(t)' = Writer(t) /\ page'[t].seq >= page[t].seq
          /\ pc'[t] = "off" <=> pc[t] = "off"
      BY <2>2 DEF TabStays, Writer
    <3>2. page'[t].seq \in Nat
      BY DEF TypeOK, Pages
    <3> QED BY <1>1, <2>1, <3>1, <3>2
  <2>3. CASE TabLeaves(t)
    BY <2>1, <2>3 DEF TabLeaves
  <2>4. CASE TabMounts(t)
    <3>1. v[1][2] <= mounted'[t] /\ Writer(t)' = <<t, mounted[t] + 1>>
      BY <1>1, <2>1, <2>4 DEF TabMounts, Writer
    <3>2. v[1] # Writer(t)'
      BY <1>1, <2>1, <3>1
    <3> QED BY <3>1, <3>2
  <2> QED BY <1>1, <2>2, <2>3, <2>4
<1>4. RevisionsAreFresh'
  BY <1>0, <1>2, <1>3 DEF RevisionsAreFresh
<1>5. ReplacesOlder'
  BY <1>0 DEF ReplacesOlder, Quiet
<1>6. ReplacedStays'
  BY <1>0 DEF ReplacedStays, Quiet
<1>7. LatestIsStored'
  <2>1. ASSUME NEW t \in Tabs, NEW r \in records', pc'[t] # "off", r.writer = page'[t].writer
        PROVE  page'[t].baseline = r
    <3>1. Revision(r)[1] = Writer(t)' /\ r \in Recs
      BY <1>0, <1>2, <2>1 DEF Revision
    <3>2. Revision(r)[1][1] = t
      BY <3>1 DEF Writer
    <3>3. pc[t] # "off" /\ r.writer = Writer(t)
      BY <1>3, <2>1, <3>1, <3>2 DEF Revision
    <3>4. page[t].baseline = r
      BY <1>0, <3>3 DEF LatestIsStored, RevisionsAreFresh
    <3> QED BY <1>1, <2>1, <3>3, <3>4 DEF TabStays, TabLeaves, TabMounts
  <2> QED BY <1>0, <2>1 DEF LatestIsStored
<1>8. WriteJoinsBaseline'
  BY <1>1 DEF WriteJoinsBaseline, TabStays, TabLeaves, TabMounts, Baseline
<1> QED BY <1>4, <1>5, <1>6, <1>7, <1>8

\* What a write replaces: the page's baseline, the records it joins, and what
\* those replaced.
LEMMA WriteReplaces ==
  ASSUME DraftInv, NEW t \in Tabs, pc[t] # "off", NEW v \in Replaces(Record(page[t], parents[t]))
  PROVE  \E q \in parents[t] \cup Baseline(page[t]) :
           \/ v = Revision(q)
           \/ v \in Replaces(q) /\ q \in parents[t] /\ v[1] # Writer(t)
<1> DEFINE r == Record(page[t], parents[t])
<1>1. /\ r.supersedes = ancestry(parents[t], Writer(t))
      /\ r.parent = {Revision(b) : b \in Baseline(page[t])}
  BY RecordType DEF DraftInv
<1> HIDE DEF r
<1>2. CASE v \in r.parent
  BY <1>1, <1>2
<1>3. CASE v \in r.supersedes
  BY <1>1, <1>3, AncestryIsKnown
<1> QED BY <1>2, <1>3 DEF Replaces, r

\* What a write makes of the records: one key is written over, and what the
\* pages remember is what they remembered, but for the new record.
LEMMA WriteRemembers ==
  ASSUME DraftInv, NEW t \in Tabs, Write(t), NEW r, r = Record(page[t], parents[t])
  PROVE  /\ records' = {x \in records : x.writer # r.writer} \cup {r}
         /\ Recs' \subseteq Recs \cup {r}
         /\ parents[t] \cup Baseline(page[t]) \subseteq Recs
         /\ page'[t].baseline = r /\ page'[t].seq = page[t].seq + 1
         /\ page'[t].writer = page[t].writer
         /\ pc[t] = "write" /\ pc'[t] \in {"refresh", "check"} /\ writes' = writes + 1
         /\ \A u \in Tabs \ {t} : page'[u] = page[u] /\ pc'[u] = pc[u] /\ parents'[u] = parents[u]
         /\ UNCHANGED <<mounted, after>>
<1> USE DEF DraftInv, TypeOK
<1>1. /\ records' = {x \in records : x.writer # r.writer} \cup {r}
      /\ page' = [page EXCEPT ![t] = [page[t] EXCEPT !.seq = page[t].seq + 1, !.baseline = r,
                                                     !.dirty = FALSE, !.unsaved = FALSE]]
      /\ interrupted' = [interrupted EXCEPT ![t] = Nothing]
      /\ pc' = [pc EXCEPT ![t] = IF after[t] = "join" THEN "refresh" ELSE "check"]
      /\ parents' = [parents EXCEPT ![t] = {}]
      /\ pc[t] = "write" /\ writes' = writes + 1 /\ UNCHANGED <<mounted, after>>
  BY DEF Write, Put, GoTo
<1>2. page[t] \in Pages
  OBVIOUS
<1>3. page'[t].baseline = r /\ page'[t].seq = page[t].seq + 1 /\ page'[t].writer = page[t].writer
  BY <1>1, <1>2 DEF Pages
<1>4. ASSUME NEW u \in Tabs PROVE Remembered(u)' \subseteq Remembered(u) \cup {r}
  <2>1. CASE u = t
    <3>1. parents'[t] = {} /\ interrupted'[t].baseline = NoRecord
      BY <1>1 DEF Nothing
    <3> QED BY <1>3, <2>1, <3>1 DEF Remembered, Baseline
  <2>2. CASE u # t
    BY <1>1, <2>2 DEF Remembered, Baseline
  <2> QED BY <2>1, <2>2
<1>5. Recs' \subseteq Recs \cup {r}
  BY <1>1, <1>4 DEF Recs
<1>6. parents[t] \cup Baseline(page[t]) \subseteq Recs
  BY DEF Recs, Remembered
<1> QED BY <1>1, <1>3, <1>5, <1>6

\* No record has the revision a write is about to make.
LEMMA FreshRecord ==
  ASSUME DraftInv, NEW t \in Tabs, pc[t] # "off"
  PROVE  Record(page[t], parents[t]) \notin Recs
<1>1. /\ Record(page[t], parents[t]).writer = Writer(t)
      /\ Record(page[t], parents[t]).seq = page[t].seq + 1 /\ page[t].seq \in Nat
  BY RecordType DEF DraftInv, TypeOK, Pages
<1>2. ASSUME NEW q \in Recs, q.writer = Writer(t) PROVE q.seq <= page[t].seq
  <2>1. Revision(q)[1] = Writer(t) /\ Revision(q)[2] = q.seq /\ Revision(q)[1][1] = t
    BY <1>2 DEF Revision, Writer
  <2> QED BY <2>1 DEF DraftInv, RevisionsAreFresh
<1> QED BY <1>1, <1>2

\* A write takes over what the record under its own key replaced: it joins its
\* baseline, which is that record.
LEMMA TakesOver ==
  ASSUME DraftInv, NEW t \in Tabs, pc[t] = "write",
         NEW s \in records, s.writer = Writer(t), NEW x \in records, x.writer # Writer(t),
         Revision(x) \in Replaces(s)
  PROVE  Revision(x) \in Replaces(Record(page[t], parents[t]))
<1> USE DEF DraftInv
<1> DEFINE v == Revision(x)
           all == UNION {{Revision(q)} \cup q.supersedes \cup q.parent : q \in parents[t]}
<1>1. s \in parents[t]
  <2>1. page[t].baseline = s
    BY DEF LatestIsStored, RevisionsAreFresh
  <2>2. s # NoRecord
    BY NoRecordAssumption DEF TypeOK
  <2>3. s \in Baseline(page[t])
    BY <2>1, <2>2 DEF Baseline
  <2> QED BY <2>3 DEF WriteJoinsBaseline
<1>2. v \in all /\ v[1] = x.writer /\ v[2] = x.seq
  BY <1>1 DEF Replaces, Revision
<1>3. parents[t] \subseteq Recs
  BY DEF Recs, Remembered
<1>4. ASSUME NEW u \in all, u[1] = v[1]
      PROVE  u[2] <= v[2]
  <2>1. PICK q \in parents[t] : u \in Replaces(q) \cup {Revision(q)}
    BY DEF Replaces
  <2> HIDE DEF v, all
  <2> QED BY <1>2, <1>3, <1>4, <2>1 DEF LatestIsStored
<1>5. v \in compactRevisions(all, Writer(t))
  <2> HIDE DEF v, all
  <2> QED BY <1>2, <1>4 DEF compactRevisions
<1>6. v \in ancestry(parents[t], Writer(t))
  BY <1>5 DEF ancestry
<1> QED BY <1>6, RecordType DEF Replaces

\* A write keeps the invariant: its revision is fresh, what it replaces was
\* written before, and it takes over what the record it writes over replaced.
LEMMA WriteKeeps ==
  ASSUME DraftInv, TypeOK', NEW t \in Tabs, Write(t)
  PROVE  /\ RevisionsAreFresh' /\ ReplacesOlder' /\ LatestIsStored' /\ ReplacedStays'
         /\ WriteJoinsBaseline'
<1> USE DEF DraftInv
<1>0. PICK r : r = Record(page[t], parents[t])
  OBVIOUS
<1>1. /\ records' = {x \in records : x.writer # r.writer} \cup {r}
      /\ Recs' \subseteq Recs \cup {r}
      /\ parents[t] \cup Baseline(page[t]) \subseteq Recs
      /\ page'[t].baseline = r /\ page'[t].seq = page[t].seq + 1
      /\ page'[t].writer = page[t].writer
      /\ pc[t] = "write" /\ pc'[t] \in {"refresh", "check"} /\ writes' = writes + 1
      /\ \A u \in Tabs \ {t} : page'[u] = page[u] /\ pc'[u] = pc[u] /\ parents'[u] = parents[u]
      /\ UNCHANGED <<mounted, after>>
  BY <1>0, WriteRemembers
<1>2. /\ r \in DraftRecords /\ r.writer = Writer(t) /\ r.seq = page[t].seq + 1 /\ r.at = writes + 1
      /\ page[t].writer = Writer(t)
  BY <1>0, <1>1, RecordType DEF RevisionsAreFresh
<1>3. /\ writes \in Nat /\ page[t].seq \in Nat /\ records \subseteq Recs
      /\ \A u \in Tabs : mounted[u] \in Nat /\ page[u].seq \in Nat
      /\ \A q \in Recs : q.at \in Nat /\ q.seq \in Nat /\ q.writer \in Tabs \X Nat
  BY RevisionShape DEF TypeOK, Pages, DraftRecords, Recs
<1>4. \A v \in Replaces(r) : \E q \in Recs :
        v = Revision(q) \/ v \in Replaces(q)
  BY <1>0, <1>1, WriteReplaces
<1>5. \A q \in Recs : \A v \in Replaces(q) \cup {Revision(q)} :
        /\ v[2] \in Nat
        /\ v[1] = Writer(t) => v[2] <= page[t].seq
  <2>1. ASSUME NEW q \in Recs, NEW v \in Replaces(q) \cup {Revision(q)}, v[1] = Writer(t)
        PROVE  v[2] <= page[t].seq
    <3>1. v[1][1] = t
      BY <2>1 DEF Writer
    <3> QED BY <1>1, <2>1, <3>1 DEF RevisionsAreFresh
  <2> QED BY <2>1, RevisionShape
<1>6. \A v \in Replaces(r) : v[2] \in Nat /\ (v[1] = Writer(t) => v[2] <= page[t].seq)
  BY <1>4, <1>5
<1>7. Revision(r)[1] = Writer(t) /\ Revision(r)[2] = page[t].seq + 1
  BY <1>2 DEF Revision
<1>8. /\ \A q \in Recs : Revision(q) # Revision(r) /\ Revision(r) \notin Replaces(q)
      /\ Revision(r) \notin Replaces(r)
  BY <1>3, <1>5, <1>6, <1>7
<1>9. RevisionsAreFresh'
  <2>1. \A u \in Tabs : pc'[u] # "off" => page'[u].writer = Writer(u)'
    BY <1>1, <1>2 DEF RevisionsAreFresh, Writer
  <2>2. ASSUME NEW q \in Recs, NEW v \in Replaces(q) \cup {Revision(q)}, NEW u \in Tabs, v[1][1] = u
        PROVE  /\ v[1][2] <= mounted'[u]
               /\ pc'[u] # "off" /\ v[1] = Writer(u)' => v[2] <= page'[u].seq
    <3>1. /\ v[1][2] <= mounted[u] /\ v[2] \in Nat
          /\ pc[u] # "off" /\ v[1] = Writer(u) => v[2] <= page[u].seq
      BY <1>5, <2>2 DEF RevisionsAreFresh
    <3>2. mounted' = mounted /\ Writer(u)' = Writer(u)
      BY <1>1 DEF Writer
    <3>3. page'[u].seq >= page[u].seq /\ page'[u].seq \in Nat /\ (pc'[u] = "off" <=> pc[u] = "off")
      BY <1>1, <1>3
    <3> QED BY <1>3, <3>1, <3>2, <3>3
  <2>3. ASSUME NEW v \in Replaces(r) \cup {Revision(r)}, NEW u \in Tabs, v[1][1] = u
        PROVE  /\ v[1][2] <= mounted'[u]
               /\ pc'[u] # "off" /\ v[1] = Writer(u)' => v[2] <= page'[u].seq
    <3>1. CASE v \in Replaces(r)
      BY <1>4, <2>2, <2>3, <3>1
    <3>2. CASE v = Revision(r)
      <4>1. u = t /\ v[1][2] = mounted[t]
        BY <1>7, <2>3, <3>2 DEF Writer
      <4>2. v[2] = page'[t].seq /\ mounted' = mounted
        BY <1>1, <1>7, <3>2
      <4> QED BY <1>1, <1>3, <4>1, <4>2
    <3> QED BY <2>3, <3>1, <3>2
  <2>4. \A p, q \in Recs' : Revision(p) = Revision(q) => p = q
    BY <1>1, <1>8 DEF RevisionsAreFresh
  <2> QED BY <1>1, <2>1, <2>2, <2>3, <2>4 DEF RevisionsAreFresh
<1>10. ReplacesOlder'
  <2>1. \A q \in Recs : q.at <= writes /\ q.at < r.at /\ q.at <= writes'
    BY <1>1, <1>2, <1>3 DEF ReplacesOlder
  <2>2. r.at <= writes'
    BY <1>1, <1>2, <1>3
  <2>3. \A p, q \in Recs' : Revision(p) \in Replaces(q) => p.at < q.at
    BY <1>1, <1>8, <2>1 DEF ReplacesOlder
  <2>4. \A v \in Replaces(r) : v[1] = r.writer => v[2] < r.seq
    BY <1>2, <1>3, <1>6
  <2> QED BY <1>1, <2>1, <2>2, <2>3, <2>4 DEF ReplacesOlder
<1>11. LatestIsStored'
  <2>1. \A p, q \in records' : p.writer = q.writer => p = q
    BY <1>1 DEF LatestIsStored
  <2>2. ASSUME NEW x \in records', NEW q \in Recs, NEW v \in Replaces(q) \cup {Revision(q)},
               v[1] = x.writer
        PROVE  v[2] <= x.seq
    <3>1. CASE x = r
      BY <1>2, <1>3, <1>5, <2>2, <3>1
    <3>2. CASE x \in records
      BY <2>2, <3>2 DEF LatestIsStored
    <3> QED BY <1>1, <3>1, <3>2
  <2>3. ASSUME NEW x \in records', NEW v \in Replaces(r) \cup {Revision(r)}, v[1] = x.writer
        PROVE  v[2] <= x.seq
    <3>1. CASE v \in Replaces(r)
      BY <1>4, <2>2, <2>3, <3>1
    <3>2. CASE v = Revision(r)
      <4>1. x = r
        BY <1>1, <1>2, <1>7, <2>3, <3>2
      <4> QED BY <1>2, <1>3, <1>7, <3>2, <4>1
    <3> QED BY <2>3, <3>1, <3>2
  <2>4. ASSUME NEW u \in Tabs, NEW x \in records', pc'[u] # "off", x.writer = page'[u].writer
        PROVE  page'[u].baseline = x
    <3>1. CASE u = t
      BY <1>1, <1>2, <2>4, <3>1
    <3>2. CASE u # t
      <4>1. pc[u] # "off" /\ page'[u] = page[u]
        BY <1>1, <2>4, <3>2
      <4>2. page[u].writer # r.writer
        BY <1>2, <3>2, <4>1 DEF RevisionsAreFresh, Writer
      <4> QED BY <1>1, <2>4, <4>1, <4>2 DEF LatestIsStored
    <3> QED BY <3>1, <3>2
  <2> QED BY <1>1, <2>1, <2>2, <2>3, <2>4 DEF LatestIsStored
<1>12. ReplacedStays'
  <2> SUFFICES ASSUME NEW q \in Recs', NEW x \in records', Revision(x) \in Replaces(q)
               PROVE  \E s \in records' : s.writer # x.writer /\ Revision(x) \in Replaces(s)
    BY DEF ReplacedStays
  <2>1. x \in records /\ x.writer # r.writer
    BY <1>1, <1>8
  <2>2. CASE q = r
    BY <1>1, <2>1, <2>2
  <2>3. CASE q \in Recs
    <3>1. PICK s \in records : s.writer # x.writer /\ Revision(x) \in Replaces(s)
      BY <2>1, <2>3 DEF ReplacedStays
    <3>2. CASE s.writer # r.writer
      BY <1>1, <3>1, <3>2
    <3>3. CASE s.writer = r.writer
      <4>1. Revision(x) \in Replaces(r)
        BY <1>0, <1>1, <1>2, <2>1, <3>1, <3>3, TakesOver
      <4> QED BY <1>1, <2>1, <4>1
    <3> QED BY <3>2, <3>3
  <2> QED BY <1>1, <2>2, <2>3
<1>13. WriteJoinsBaseline'
  BY <1>1 DEF WriteJoinsBaseline, Baseline
<1> QED BY <1>9, <1>10, <1>11, <1>12, <1>13

\* The invariant is inductive.
LEMMA DraftStep == DraftInv /\ [Next]_vars => DraftInv'
<1> SUFFICES ASSUME DraftInv, [Next]_vars PROVE DraftInv'
  OBVIOUS
<1>1. TypeOK'
  BY TypeStep DEF DraftInv
<1>2. Quiet \/ \E t \in Tabs : Write(t)
  BY NextIsQuiet DEF DraftInv
<1> QED BY <1>1, <1>2, QuietKeeps, WriteKeeps DEF DraftInv

\* It holds in an empty storage.
LEMMA DraftInit == Init => DraftInv
<1> SUFFICES ASSUME Init PROVE DraftInv
  OBVIOUS
<1>1. NoPage \in Pages /\ Nothing \in Memories
  BY DEF NoPage, Pages, Nothing, Memories, Texts
<1>2. TypeOK
  BY <1>1 DEF Init, TypeOK, Labels, Callers, Texts
<1>3. ASSUME NEW t \in Tabs PROVE Remembered(t) = {} /\ pc[t] = "off"
  BY DEF Init, Remembered, Baseline, NoPage, Nothing
<1>4. Recs = {} /\ records = {}
  BY <1>3 DEF Recs, Init
<1> QED
  BY <1>2, <1>3, <1>4
  DEF DraftInv, RevisionsAreFresh, ReplacesOlder, LatestIsStored, ReplacedStays, WriteJoinsBaseline

-----------------------------------------------------------------------------
(* The theorems *)

\* The inductive invariant holds in every reachable state of the drafts.
THEOREM DraftInvariant == Spec => []DraftInv
  BY DraftInit, DraftStep, PTL DEF Spec

\* Whatever the tabs of a browser save, join, reset and clear, in whatever
\* order, drafts that are readable are never refused as corrupt.
THEOREM NeverCorrupt == Spec => []NeverFalselyCorrupt
<1>1. DraftInv => NeverFalselyCorrupt
  BY NewestIsHead DEF DraftInv
<1> QED BY <1>1, DraftInvariant, PTL

\* One write: a copy that stops being current was the writer's own, its page's
\* baseline or a copy its user chose over; what was replaced before stays so.
LEMMA WriteCompetesOpenly ==
  ASSUME DraftInv, DraftInv', NEW t \in Tabs, Write(t)
  PROVE  /\ \A x \in Heads(records) \ Heads(records') :
              \/ x.writer = page[t].writer
              \/ x = page[t].baseline
              \/ after[t] = "join" /\ x \in parents[t]
         /\ Heads(records') \cap records \subseteq Heads(records)
<1>0. PICK r : r = Record(page[t], parents[t])
  OBVIOUS
<1>1. /\ records' = {x \in records : x.writer # r.writer} \cup {r}
      /\ parents[t] \cup Baseline(page[t]) \subseteq Recs
      /\ pc[t] = "write"
  BY <1>0, WriteRemembers
<1>2. r.writer = Writer(t) /\ page[t].writer = Writer(t) /\ r \in DraftRecords
  BY <1>0, <1>1, RecordType DEF RevisionsAreFresh, DraftInv
<1>3. records \subseteq Recs
  BY DEF Recs
<1>4. ASSUME NEW x \in Heads(records) \ Heads(records'), x.writer # page[t].writer
      PROVE  x = page[t].baseline \/ (after[t] = "join" /\ x \in parents[t])
  <2>1. x \in records /\ x \in records' /\ x \in Recs
    BY <1>1, <1>2, <1>3, <1>4 DEF Heads
  <2>2. Revision(x) \in Superseded(records') /\ Revision(x) \notin Superseded(records)
    BY <1>4, <2>1 DEF Heads
  <2>3. \A s \in records : ~(s.writer # x.writer /\ Revision(x) \in Replaces(s))
    <3> SUFFICES ASSUME NEW s \in records, s.writer # x.writer, Revision(x) \in Replaces(s)
                 PROVE  FALSE
      OBVIOUS
    <3>1. Revision(x)[1] = x.writer /\ Revision(x)[2] = x.seq
      BY DEF Revision
    <3>2. \A u \in Replaces(s) : u[1] = Revision(x)[1] => u[2] <= Revision(x)[2]
      BY <1>3, <2>1, <3>1 DEF DraftInv, LatestIsStored
    <3> QED BY <2>2, <3>1, <3>2, ReplacedIsSuperseded
  <2>4. PICK s \in records' : /\ s.writer # Revision(x)[1]
                              /\ Revision(x) = Revision(s) \/ Revision(x) \in Replaces(s)
    BY <2>2, SupersededIsReplaced
  <2>5. Revision(x) \in Replaces(s) /\ s.writer # x.writer
    BY <2>4 DEF Revision
  <2>6. Revision(x) \in Replaces(r)
    BY <1>1, <2>3, <2>5
  <2>7. PICK q \in parents[t] \cup Baseline(page[t]) :
          Revision(x) = Revision(q) \/ (Revision(x) \in Replaces(q) /\ q \in parents[t])
    BY <1>0, <1>1, <2>6, WriteReplaces
  <2>8. Revision(x) \notin Replaces(q)
    BY <1>1, <2>1, <2>3, <2>7 DEF DraftInv, ReplacedStays
  <2>9. x = q
    BY <1>1, <2>1, <2>7, <2>8 DEF DraftInv, RevisionsAreFresh
  <2> QED BY <1>1, <2>7, <2>9 DEF DraftInv, WriteJoinsBaseline, Baseline
<1>5. ASSUME NEW x \in records, x \in Heads(records'), x \notin Heads(records)
      PROVE  FALSE
  <2>1. x \in records' /\ Revision(x) \notin Superseded(records') /\ Revision(x) \in Superseded(records)
    BY <1>5 DEF Heads
  <2>2. PICK s \in records : /\ s.writer # Revision(x)[1]
                             /\ Revision(x) = Revision(s) \/ Revision(x) \in Replaces(s)
    BY <2>1, SupersededIsReplaced
  <2>3. Revision(x) \in Replaces(s) /\ s.writer # x.writer
    BY <2>2 DEF Revision
  <2>4. x.writer # r.writer
    <3>1. x # r
      <4>1. r \notin records
        BY <1>0, <1>1, <1>3, FreshRecord
      <4> QED BY <1>5, <4>1
    <3> QED BY <1>1, <2>1, <3>1
  <2>5. PICK z \in records' : z.writer # x.writer /\ Revision(x) \in Replaces(z)
    <3>1. CASE s.writer # r.writer
      BY <1>1, <2>3, <3>1
    <3>2. CASE s.writer = r.writer
      <4>1. Revision(x) \in Replaces(r)
        BY <1>0, <1>1, <1>2, <2>3, <2>4, <3>2, TakesOver
      <4> QED BY <1>1, <2>4, <4>1
    <3> QED BY <3>1, <3>2
  <2>6. Revision(x)[1] = x.writer /\ Revision(x)[2] = x.seq
    BY DEF Revision
  <2>7. \A u \in Replaces(z) : u[1] = Revision(x)[1] => u[2] <= Revision(x)[2]
    <3>1. z \in Recs' /\ x \in records'
      BY <2>1, <2>5 DEF Recs
    <3> QED BY <2>6, <3>1 DEF DraftInv, LatestIsStored
  <2> QED BY <2>1, <2>5, <2>6, <2>7, ReplacedIsSuperseded
<1> QED BY <1>4, <1>5

\* A stored copy stops being current only because its own page saved again,
\* because a page that started from it saved, or because a user chose over it;
\* and none that was replaced comes back.
THEOREM OpenCompetition == Spec => CopiesCompeteOpenly
<1> DEFINE Openly ==
      \/ records' = {}
      \/ /\ \A r \in Heads(records) \ Heads(records') :
               \E t \in Tabs : /\ pc[t] = "write" /\ pc'[t] # "write"
                               /\ \/ r.writer = page[t].writer
                                  \/ r = page[t].baseline
                                  \/ after[t] = "join" /\ r \in parents[t]
         /\ Heads(records') \cap records \subseteq Heads(records)
<1>1. DraftInv /\ DraftInv' /\ [Next]_vars => [Openly]_vars
  <2> SUFFICES ASSUME DraftInv, DraftInv', [Next]_vars PROVE Openly
    OBVIOUS
  <2>1. CASE Quiet
    <3>1. CASE records' = records
      BY <3>1
    <3> QED BY <2>1, <3>1 DEF Quiet
  <2>2. ASSUME NEW t \in Tabs, Write(t) PROVE Openly
    <3>1. pc[t] = "write" /\ pc'[t] # "write"
      BY <2>2, WriteRemembers
    <3>2. /\ \A x \in Heads(records) \ Heads(records') :
               \/ x.writer = page[t].writer
               \/ x = page[t].baseline
               \/ after[t] = "join" /\ x \in parents[t]
          /\ Heads(records') \cap records \subseteq Heads(records)
      BY <2>2, WriteCompetesOpenly
    <3> QED BY <3>1, <3>2
  <2> QED BY <2>1, <2>2, NextIsQuiet DEF DraftInv
<1> QED BY <1>1, DraftInvariant, PTL DEF CopiesCompeteOpenly, Spec

-----------------------------------------------------------------------------
(* The text a user typed *)

\* What a step of tab t leaves to every other tab: its page, its memory and the
\* records it wrote.
SparesOthers(t) ==
  /\ \A u \in Tabs \ {t} : /\ page'[u] = page[u] /\ pc'[u] = pc[u] /\ after'[u] = after[u]
                           /\ interrupted'[u] = interrupted[u] /\ typed'[u] = typed[u]
                           /\ u \in events => u \in events'
  /\ \A r \in records : r.writer[1] # t => r \in records'

\* What a tab knows about its text.
Knows(t) == TextIsWithThePage(t) /\ (pc[t] # "off" => PageKnowsBaseline(t))

\* A tab whose page, memory and own records are left alone knows what it knew.
LEMMA SparedTabKnows ==
  ASSUME RevisionsAreFresh, NEW u \in Tabs, Knows(u),
         page'[u] = page[u], pc'[u] = pc[u], after'[u] = after[u],
         interrupted'[u] = interrupted[u], typed'[u] = typed[u],
         u \in events => u \in events',
         \A r \in records : r.writer[1] = u => r \in records'
  PROVE  Knows(u)'
<1>1. pc[u] # "off" => page[u].writer[1] = u
  BY DEF RevisionsAreFresh, Writer
<1>2. InStorage(u) => InStorage(u)'
  BY DEF InStorage
<1>3. TextIsWithThePage(u)'
  BY <1>2 DEF Knows, TextIsWithThePage
<1>4. pc[u] # "off" => PageKnowsBaseline(u)'
  BY <1>1 DEF Knows, PageKnowsBaseline
<1> QED BY <1>3, <1>4 DEF Knows

\* So do the other tabs in a step of one.
LEMMA OthersKnow ==
  ASSUME RevisionsAreFresh, NEW t \in Tabs, SparesOthers(t), \A u \in Tabs : Knows(u), Knows(t)'
  PROVE  \A u \in Tabs : Knows(u)'
<1> SUFFICES ASSUME NEW u \in Tabs, u # t PROVE Knows(u)'
  OBVIOUS
<1>1. /\ page'[u] = page[u] /\ pc'[u] = pc[u] /\ after'[u] = after[u]
      /\ interrupted'[u] = interrupted[u] /\ typed'[u] = typed[u]
      /\ u \in events => u \in events'
      /\ \A r \in records : r.writer[1] = u => r \in records'
  BY DEF SparesOthers
<1> QED BY <1>1, SparedTabKnows

\* A page that keeps its text: it may lose its mark of being saved, and gets it
\* only when its baseline is stored.
KeepsText(t, q) ==
  /\ q.writer = page[t].writer /\ q.baseline = page[t].baseline /\ q.value = page[t].value
  /\ q.dirty = page[t].dirty \/ (q.dirty /\ typed[t] = NoText)
  /\ q.dirty => q.unsaved
  /\ q.status = "saved" => /\ ~q.dirty /\ q.baseline # NoRecord
                           /\ (t \notin events' /\ q.baseline.writer = q.writer) => q.baseline \in records

\* A tab that ends a handler with such a page still knows where its text is.
LEMMA PageStillKnows ==
  ASSUME NEW t \in Tabs, Knows(t), NEW q \in Pages, KeepsText(t, q), page'[t] = q,
         pc[t] # "off", pc'[t] \in {"idle", "flushed"},
         typed'[t] \in {typed[t], NoText}, interrupted'[t] = interrupted[t], records' = records,
         after'[t] \in {"pagehide", "closed"} => typed'[t] = NoText \/ ~q.dirty,
         pc'[t] = "idle" => after'[t] # "closed"
  PROVE  Knows(t)'
<1>0. page[t].dirty => q.dirty
  BY DEF KeepsText
<1>1. typed'[t] # NoText => typed'[t] = typed[t] /\ (InStorage(t) => InStorage(t)')
  BY DEF InStorage
<1>2. TextIsWithThePage(t)'
  BY <1>0, <1>1 DEF Knows, TextIsWithThePage, KeepsText
<1>3. PageKnowsBaseline(t)'
  BY <1>0 DEF Knows, PageKnowsBaseline, KeepsText
<1> QED BY <1>2, <1>3 DEF Knows

\* A page that only reports a failure or a conflict keeps its text.
LEMMA ReportKeepsText ==
  ASSUME TypeOK, NEW t \in Tabs, NEW p \in Pages, Same(page[t], p),
         p.value = page[t].value, p.dirty = page[t].dirty,
         NEW heads \in SUBSET DraftRecords
  PROVE  KeepsText(t, fail(p)) /\ KeepsText(t, showConflict(p, heads))
<1>1. /\ Same(p, fail(p)) /\ fail(p).value = p.value /\ fail(p).dirty = p.dirty
      /\ fail(p).status = "error" /\ fail(p).unsaved = p.dirty
  BY DEF Same, fail, Pages
<1>2. /\ Same(p, showConflict(p, heads)) /\ showConflict(p, heads).value = p.value
      /\ showConflict(p, heads).dirty = p.dirty
      /\ showConflict(p, heads).status = "conflict" /\ showConflict(p, heads).unsaved = p.dirty
  BY DEF Same, showConflict, Pages
<1> QED BY <1>1, <1>2 DEF KeepsText, Same

\* refresh keeps the text of a page, and calls it saved only when it is.
LEMMA RefreshKeepsText ==
  ASSUME DraftInv, NEW t \in Tabs, Knows(t), pc[t] \in {"idle", "refresh"}
  PROVE  KeepsText(t, refresh(page[t]))
<1> DEFINE heads == Heads(records)
           p == page[t]
<1>1. p \in Pages /\ heads \in SUBSET DraftRecords /\ heads \subseteq records
  BY HeadsAreRecords DEF DraftInv, TypeOK
<1>2. PageKnowsBaseline(t) /\ TextIsWithThePage(t)
  BY DEF Knows
<1>3. CASE corruptKeys # {} \/ (heads # {} /\ ~IsBaseline(p, heads))
  <2>1. refresh(p) \in {fail(p), showConflict(p, heads)}
    BY <1>3 DEF refresh
  <2>2. KeepsText(t, fail(p)) /\ KeepsText(t, showConflict(p, heads))
    BY <1>1, ReportKeepsText DEF DraftInv, Same
  <2> QED BY <2>1, <2>2
<1>4. CASE corruptKeys = {} /\ ~(heads # {} /\ ~IsBaseline(p, heads)) /\ p.dirty
  <2>1. refresh(p) = p
    BY <1>4 DEF refresh
  <2>2. pc[t] = "idle" /\ p.unsaved /\ p.status # "saved"
    BY <1>2, <1>4 DEF PageKnowsBaseline
  <2>3. KeepsText(t, page[t])
    BY <2>2 DEF KeepsText
  <2> QED BY <2>1, <2>3
<1>5. CASE corruptKeys = {} /\ ~(heads # {} /\ ~IsBaseline(p, heads)) /\ ~p.dirty /\ heads # {}
  <2>1. refresh(p) = adopt(p, p.baseline)
    BY <1>5 DEF refresh
  <2>2. p.baseline # NoRecord /\ p.baseline \in DraftRecords /\ p.baseline \in Recs
    BY <1>1, <1>5 DEF IsBaseline, Pages, Recs, Remembered, Baseline
  <2>3. PICK r \in heads : Revision(r) = Revision(p.baseline)
    BY <1>5 DEF IsBaseline
  <2>4. r = p.baseline
    BY <1>1, <2>2, <2>3 DEF DraftInv, RevisionsAreFresh, Recs
  <2>5. p.baseline.source = p.value
    BY <1>2, <1>5, <2>2 DEF PageKnowsBaseline
  <2>6. /\ adopt(p, p.baseline).writer = p.writer /\ adopt(p, p.baseline).baseline = p.baseline
        /\ adopt(p, p.baseline).value = p.baseline.source /\ ~adopt(p, p.baseline).dirty
        /\ adopt(p, p.baseline) \in Pages
    BY <1>1, <2>2, AdoptPage
  <2>7. adopt(p, p.baseline).dirty = p.dirty
    BY <1>1, <1>5, <2>6 DEF Pages
  <2>8. p.baseline \in records
    BY <1>1, <2>4
  <2> HIDE DEF p
  <2> DEFINE q == adopt(p, p.baseline)
  <2> HIDE DEF q
  <2>9. KeepsText(t, q)
    BY <2>2, <2>5, <2>6, <2>7, <2>8 DEF KeepsText, p, q
  <2> QED BY <2>1, <2>9 DEF p, q
<1>6. CASE corruptKeys = {} /\ heads = {} /\ ~p.dirty /\ p.baseline # NoRecord
  <2> DEFINE d == [p EXCEPT !.dirty = TRUE]
  <2>1. refresh(p) = fail(d)
    BY <1>6 DEF refresh
  <2>2. records = {}
    BY <1>6, NewestIsHead DEF DraftInv, NeverFalselyCorrupt
  <2>3. typed[t] = NoText
    BY <1>2, <1>6, <2>2 DEF TextIsWithThePage, InStorage
  <2>4. d \in Pages /\ Same(p, d) /\ d.value = p.value /\ d.dirty
    BY <1>1 DEF Pages, Same
  <2> HIDE DEF d
  <2>5. fail(d).unsaved /\ fail(d).dirty /\ fail(d).status = "error" /\ fail(d).value = d.value
        /\ Same(d, fail(d))
    BY <2>4 DEF fail, Pages, Same
  <2> QED BY <2>1, <2>3, <2>4, <2>5 DEF KeepsText, Same
<1>7. CASE corruptKeys = {} /\ heads = {} /\ ~p.dirty /\ p.baseline = NoRecord
  <2>1. refresh(p) \in {p, [p EXCEPT !.readFailed = FALSE, !.status = "clean"]}
    BY <1>7 DEF refresh
  <2>2. p.status # "saved"
    BY <1>2, <1>7 DEF PageKnowsBaseline
  <2> DEFINE c == [p EXCEPT !.readFailed = FALSE, !.status = "clean"]
  <2>3. /\ c.writer = p.writer /\ c.baseline = p.baseline /\ c.value = p.value
        /\ c.dirty = p.dirty /\ c.status = "clean"
    BY <1>1 DEF Pages
  <2> HIDE DEF c
  <2>4. KeepsText(t, p)
    BY <1>7, <2>2 DEF KeepsText
  <2>5. KeepsText(t, c)
    BY <1>7, <2>3 DEF KeepsText
  <2> QED BY <2>1, <2>4, <2>5 DEF c
<1> QED BY <1>3, <1>4, <1>5, <1>6, <1>7

\* A refresh, or the failure of one, keeps the text.
LEMMA RefreshOrFailKnows ==
  ASSUME DraftInv, NEW t \in Tabs, Knows(t), pc[t] \in {"idle", "refresh"},
         \/ Put(t, refresh(page[t])) /\ UNCHANGED faults
         \/ Put(t, fail(page[t])) /\ Disturbed,
         pc'[t] \in {"idle", "flushed"}, UNCHANGED <<typed, interrupted, records, after>>,
         pc'[t] = "idle" => after[t] # "closed"
  PROVE  Knows(t)'
<1>1. /\ page[t] \in Pages /\ refresh(page[t]) \in Pages /\ fail(page[t]) \in Pages
      /\ page \in [Tabs -> Pages] /\ Heads(records) \in SUBSET DraftRecords
  BY HeadsAreRecords, RefreshPage, FailPage DEF DraftInv, TypeOK
<1>2. KeepsText(t, refresh(page[t])) /\ KeepsText(t, fail(page[t]))
  BY <1>1, RefreshKeepsText, ReportKeepsText DEF DraftInv, Same
<1>3. PICK q \in {refresh(page[t]), fail(page[t])} : page' = [page EXCEPT ![t] = q]
  BY DEF Put
<1>4. q \in Pages /\ KeepsText(t, q) /\ page'[t] = q
  BY <1>1, <1>2, <1>3
<1>5. after'[t] \in {"pagehide", "closed"} => typed'[t] = NoText \/ ~q.dirty
  BY <1>4 DEF Knows, TextIsWithThePage, KeepsText
<1> QED BY <1>4, <1>5, PageStillKnows

\* The start of a flush keeps the text too; one that goes on to write has text
\* that can be written.
LEMMA BeginFlushKnows ==
  ASSUME DraftInv, NEW t \in Tabs, Knows(t), NEW then \in Callers, BeginFlush(t, then), UNCHANGED ui,
         then \notin {"pagehide", "closed"} \/ (then = "closed" /\ after[t] = "pagehide")
  PROVE  Knows(t)' /\ SparesOthers(t)
<1> DEFINE p == [page[t] EXCEPT !.timer = FALSE]
           w == [p EXCEPT !.status = "saving"]
<1>0. /\ page[t] \in Pages /\ page \in [Tabs -> Pages] /\ pc \in [Tabs -> Labels]
      /\ after \in [Tabs -> Callers] /\ pc[t] = "idle" /\ Heads(records) \in SUBSET DraftRecords
  BY HeadsAreRecords DEF DraftInv, TypeOK, BeginFlush
<1>1. /\ p \in Pages /\ Same(page[t], p) /\ p.value = page[t].value /\ p.dirty = page[t].dirty
      /\ p.unsaved = page[t].unsaved /\ p.status = page[t].status
  BY <1>0 DEF Pages, Same
<1>2. KeepsText(t, p) /\ KeepsText(t, fail(p)) /\ fail(p) \in Pages /\ fail(p).dirty = p.dirty
  <2>1. PageKnowsBaseline(t) /\ events' = events
    BY <1>0 DEF Knows, BeginFlush
  <2> HIDE DEF p
  <2>2. KeepsText(t, p)
    BY <1>0, <1>1, <2>1 DEF KeepsText, PageKnowsBaseline, Same
  <2> QED BY <1>0, <1>1, <2>2, ReportKeepsText, FailPage DEF DraftInv
<1>3. /\ w \in Pages /\ Same(page[t], w) /\ w.value = page[t].value /\ w.dirty = page[t].dirty
      /\ w.status = "saving"
  BY <1>0 DEF Pages, Same
<1> HIDE DEF w
<1>4. /\ after' = [after EXCEPT ![t] = then]
      /\ UNCHANGED <<records, interrupted, events, typed>>
      /\ \/ /\ page' \in {[page EXCEPT ![t] = p], [page EXCEPT ![t] = fail(p)]}
            /\ pc' = [pc EXCEPT ![t] = IF then \in {"none", "join"} THEN "idle" ELSE "flushed"]
         \/ /\ page[t].dirty /\ page[t].value \notin Oversized
            /\ page' = [page EXCEPT ![t] = w] /\ pc' = [pc EXCEPT ![t] = "write"]
  <2>1. p.dirty = page[t].dirty /\ p.value = page[t].value
    BY <1>1
  <2> QED BY <2>1 DEF BeginFlush, Put, GoTo, Finish, store, ui, p, w
<1> HIDE DEF p
<1>5. SparesOthers(t)
  BY <1>0, <1>4 DEF SparesOthers
<1>6. /\ after'[t] = then
      /\ then \in {"pagehide", "closed"} => typed[t] = NoText \/ ~page[t].dirty
  BY <1>0, <1>4 DEF Knows, TextIsWithThePage
<1>7. CASE page' \in {[page EXCEPT ![t] = p], [page EXCEPT ![t] = fail(p)]}
           /\ pc' = [pc EXCEPT ![t] = IF then \in {"none", "join"} THEN "idle" ELSE "flushed"]
  <2>1. PICK q \in {p, fail(p)} : page' = [page EXCEPT ![t] = q]
    BY <1>7
  <2>2. page'[t] = q /\ q \in Pages /\ KeepsText(t, q) /\ q.dirty = page[t].dirty
    BY <1>0, <1>1, <1>2, <2>1
  <2>3. pc'[t] \in {"idle", "flushed"} /\ (pc'[t] = "idle" => then # "closed")
    BY <1>0, <1>7
  <2> QED BY <1>0, <1>4, <1>5, <1>6, <2>2, <2>3, PageStillKnows
<1>8. CASE /\ page[t].dirty /\ page[t].value \notin Oversized
           /\ page' = [page EXCEPT ![t] = w] /\ pc' = [pc EXCEPT ![t] = "write"]
  <2>1. page'[t] = w /\ pc'[t] = "write"
    BY <1>0, <1>8
  <2>2. InStorage(t) => InStorage(t)'
    BY <1>4 DEF InStorage
  <2>3. TextIsWithThePage(t)'
    BY <1>0, <1>3, <1>4, <1>6, <1>8, <2>1, <2>2 DEF Knows, TextIsWithThePage
  <2>4. PageKnowsBaseline(t)'
    BY <1>0, <1>3, <1>4, <1>8, <2>1 DEF Knows, PageKnowsBaseline
  <2> QED BY <1>5, <2>3, <2>4 DEF Knows
<1> QED BY <1>4, <1>7, <1>8

\* A write puts the text of the page under its own key, and touches no other.
LEMMA WriteKnows ==
  ASSUME DraftInv, NEW t \in Tabs, Knows(t), Write(t)
  PROVE  /\ Knows(t)' /\ SparesOthers(t)
         /\ \A r \in records' : r \in records \/ r.source = page[t].value
         /\ page[t].value \notin Oversized
<1> DEFINE r == Record(page[t], parents[t])
           n == page[t].seq + 1
           p == [page[t] EXCEPT !.seq = n, !.baseline = r, !.dirty = FALSE, !.unsaved = FALSE]
<1>0. /\ page[t] \in Pages /\ page \in [Tabs -> Pages] /\ pc \in [Tabs -> Labels]
      /\ after \in [Tabs -> Callers] /\ pc[t] = "write" /\ interrupted \in [Tabs -> Memories]
  BY DEF DraftInv, TypeOK, Write
<1>1. r \in DraftRecords /\ r.writer = Writer(t) /\ r.source = page[t].value /\ n \in Nat
  BY <1>0, RecordType DEF DraftInv, Pages
<1>2. r # NoRecord /\ r.writer[1] = t /\ page[t].writer = Writer(t)
  BY <1>0, <1>1, NoRecordAssumption DEF Writer, DraftInv, RevisionsAreFresh
<1> HIDE DEF r, n
<1>3. /\ p.writer = page[t].writer /\ p.baseline = r /\ p.value = page[t].value
      /\ p.dirty = FALSE /\ p.status = page[t].status
  BY <1>0 DEF Pages
<1> HIDE DEF p
<1>4. /\ records' = {x \in records : x.writer # r.writer} \cup {r}
      /\ page' = [page EXCEPT ![t] = p]
      /\ interrupted' = [interrupted EXCEPT ![t] = Nothing]
      /\ events' = events \cup (Listening \ {t})
      /\ \E l \in {"refresh", "check"} : pc' = [pc EXCEPT ![t] = l]
      /\ UNCHANGED <<after, typed>>
  BY DEF Write, Notify, Put, GoTo, ui, r, n, p
<1>5. page'[t] = p /\ pc'[t] \in {"refresh", "check"} /\ interrupted'[t] = Nothing
  BY <1>0, <1>4
<1>6. page[t].dirty /\ page[t].value \notin Oversized /\ typed[t] \in {NoText, page[t].value}
  BY <1>0 DEF Knows, PageKnowsBaseline, TextIsWithThePage
<1>7. typed'[t] # NoText => InStorage(t)'
  BY <1>1, <1>2, <1>4, <1>6 DEF InStorage
<1>8. TextIsWithThePage(t)'
  BY <1>3, <1>4, <1>5, <1>7 DEF TextIsWithThePage
<1>9. PageKnowsBaseline(t)'
  BY <1>1, <1>2, <1>3, <1>4, <1>5, <1>6 DEF PageKnowsBaseline
<1>10. SparesOthers(t)
  <2>1. \A x \in records : x.writer[1] # t => x \in records'
    BY <1>2, <1>4
  <2> QED BY <1>0, <1>4, <2>1 DEF SparesOthers
<1>11. \A x \in records' : x \in records \/ x.source = page[t].value
  BY <1>1, <1>4
<1> QED BY <1>6, <1>8, <1>9, <1>10, <1>11 DEF Knows

\* A tab drops its editor only with its text stored, remembered or given up.
LEMMA LeavingKnows ==
  ASSUME DraftInv, NEW t \in Tabs, Knows(t), Detach(t) \/ PageCloses(t)
  PROVE  Knows(t)' /\ SparesOthers(t)
<1> DEFINE m == [source |-> page[t].value, baseline |-> page[t].baseline]
<1>0. /\ page[t] \in Pages /\ page \in [Tabs -> Pages] /\ pc \in [Tabs -> Labels]
      /\ after \in [Tabs -> Callers] /\ pc[t] = "flushed" /\ interrupted \in [Tabs -> Memories]
  BY DEF DraftInv, TypeOK, Detach, PageCloses
<1>1. /\ page' = [page EXCEPT ![t] = NoPage] /\ pc' = [pc EXCEPT ![t] = "off"]
      /\ after' = [after EXCEPT ![t] = "none"] /\ events' = events \ {t}
      /\ UNCHANGED <<records, typed>>
      /\ \/ PageCloses(t) /\ interrupted' = [interrupted EXCEPT ![t] = Nothing]
         \/ page[t].dirty /\ interrupted' = [interrupted EXCEPT ![t] = m]
         \/ ~page[t].dirty /\ interrupted' = interrupted
  BY DEF Detach, PageCloses, Gone, Put, Return, GoTo, store
<1>2. /\ typed[t] = NoText \/ page[t].dirty \/ InStorage(t)
      /\ page[t].dirty => typed[t] \in {NoText, page[t].value}
      /\ ~page[t].dirty => interrupted[t] = Nothing
      /\ PageCloses(t) => typed[t] = NoText \/ ~page[t].dirty
  BY <1>0 DEF Knows, TextIsWithThePage, PageCloses
<1>3. m.source = page[t].value /\ (m.source # NoText => m # Nothing)
  BY DEF Nothing
<1> HIDE DEF m
<1>4. SparesOthers(t)
  BY <1>0, <1>1 DEF SparesOthers
<1>5. pc'[t] = "off" /\ after'[t] = "none" /\ (InStorage(t) => InStorage(t)')
  BY <1>0, <1>1 DEF InStorage
<1>6. \/ interrupted'[t] = Nothing /\ (typed[t] = NoText \/ InStorage(t))
      \/ interrupted'[t] = m /\ typed[t] \in {NoText, page[t].value}
  BY <1>0, <1>1, <1>2
<1>7. TextIsWithThePage(t)'
  BY <1>1, <1>3, <1>5, <1>6 DEF TextIsWithThePage
<1> QED BY <1>4, <1>5, <1>7 DEF Knows

\* A user's new text is in the editor, dirty and called unsaved.
LEMMA TypedKnows ==
  ASSUME DraftInv, NEW t \in Tabs, Knows(t), Awake(t), NEW s \in Texts, s # page[t].value,
         Put(t, setValue(page[t], s)), typed' = [typed EXCEPT ![t] = s],
         UNCHANGED <<records, pc, after, interrupted, events>>
  PROVE  Knows(t)' /\ SparesOthers(t)
<1> DEFINE q == setValue(page[t], s)
<1>0. /\ page[t] \in Pages /\ page \in [Tabs -> Pages] /\ typed \in [Tabs -> Texts]
      /\ pc[t] = "idle" /\ after[t] # "pagehide"
  BY DEF DraftInv, TypeOK, Awake
<1>1. /\ q.value = s /\ q.dirty /\ q.unsaved /\ q.status = "dirty"
  BY <1>0 DEF setValue, Pages
<1> HIDE DEF q
<1>2. page' = [page EXCEPT ![t] = q]
  BY DEF Put, q
<1>3. page'[t] = q /\ typed'[t] = s
  BY <1>0, <1>2
<1>4. TextIsWithThePage(t)'
  BY <1>0, <1>1, <1>3 DEF Knows, TextIsWithThePage
<1>5. PageKnowsBaseline(t)'
  BY <1>0, <1>1, <1>3 DEF PageKnowsBaseline
<1>6. SparesOthers(t)
  BY <1>0, <1>2 DEF SparesOthers
<1> QED BY <1>4, <1>5, <1>6 DEF Knows

\* A choice or a reset that goes on to write has text that can be written.
LEMMA JoinKnows ==
  ASSUME DraftInv, NEW t \in Tabs, Knows(t), Awake(t), NEW q \in Pages, NEW s \in Texts \ Oversized,
         q.dirty, q.value = s, q.status = page[t].status, Same(page[t], q),
         page' = [page EXCEPT ![t] = q], typed' = [typed EXCEPT ![t] = s],
         after' = [after EXCEPT ![t] = "join"], pc' = [pc EXCEPT ![t] = "write"],
         UNCHANGED <<records, interrupted>>, events \subseteq events', t \in events' => t \in events
  PROVE  Knows(t)' /\ SparesOthers(t)
<1>0. /\ page[t] \in Pages /\ page \in [Tabs -> Pages] /\ typed \in [Tabs -> Texts]
      /\ pc \in [Tabs -> Labels] /\ after \in [Tabs -> Callers] /\ pc[t] = "idle"
  BY DEF DraftInv, TypeOK, Awake
<1>1. page'[t] = q /\ typed'[t] = s /\ after'[t] = "join" /\ pc'[t] = "write"
  BY <1>0
<1>2. TextIsWithThePage(t)'
  BY <1>1 DEF TextIsWithThePage
<1>3. PageKnowsBaseline(t)'
  BY <1>0, <1>1 DEF Knows, PageKnowsBaseline, Same
<1>4. SparesOthers(t)
  BY <1>0 DEF SparesOthers
<1> QED BY <1>2, <1>3, <1>4 DEF Knows

\* The page a scan makes: the text of a stored copy, or the starter code.
FreshPage(p) ==
  /\ ~p.dirty /\ p.value \notin Oversized
  /\ \/ p.baseline = NoRecord /\ p.status # "saved"
     \/ p.baseline \in records /\ p.value = p.baseline.source

\* The constructor makes such a page before it looks into the memory of the tab.
LEMMA ScannedPage ==
  ASSUME TypeOK, \A r \in records : r.source \notin Oversized,
         NEW p \in Pages, FreshPage(p), p.baseline = NoRecord,
         NEW first, first \in Heads(records) \/ first = NoRecord
  PROVE  Scanned(p, first) \in Pages /\ FreshPage(Scanned(p, first))
<1> DEFINE shown == IF first = NoRecord THEN p ELSE adopt(p, first)
           told == IF Cardinality(Heads(records)) > 1
                   THEN showConflict(shown, Heads(records)) ELSE shown
<1>0. Heads(records) \in SUBSET DraftRecords /\ Heads(records) \subseteq records
  BY HeadsAreRecords DEF TypeOK
<1>1. shown \in Pages /\ FreshPage(shown)
  <2>1. CASE first = NoRecord
    BY <2>1
  <2>2. CASE first # NoRecord
    <3>1. first \in records /\ first \in DraftRecords
      BY <1>0, <2>2
    <3>2. /\ adopt(p, first) \in Pages /\ adopt(p, first).baseline = first
          /\ adopt(p, first).value = first.source /\ ~adopt(p, first).dirty
      BY <3>1, AdoptPage
    <3> QED BY <2>2, <3>1, <3>2 DEF FreshPage
  <2> QED BY <2>1, <2>2
<1> HIDE DEF shown
<1>2. told \in Pages /\ FreshPage(told)
  <2> DEFINE c == showConflict(shown, Heads(records))
  <2>1. /\ c \in Pages /\ c.baseline = shown.baseline /\ c.value = shown.value
        /\ c.dirty = shown.dirty /\ c.status = "conflict"
    BY <1>0, <1>1, ConflictPage DEF Same
  <2> HIDE DEF c
  <2>2. FreshPage(c)
    BY <1>1, <2>1 DEF FreshPage
  <2>3. told \in {c, shown}
    BY DEF c
  <2> QED BY <1>1, <2>1, <2>2, <2>3
<1> HIDE DEF told
<1>3. fail(told) \in Pages /\ FreshPage(fail(told))
  <2>1. /\ fail(told) \in Pages /\ fail(told).baseline = told.baseline /\ fail(told).value = told.value
        /\ fail(told).dirty = told.dirty /\ fail(told).status = "error"
    BY <1>2, FailPage DEF Same
  <2> QED BY <1>2, <2>1 DEF FreshPage
<1>4. Scanned(p, first) \in {told, fail(told)}
  BY DEF Scanned, told, shown
<1> QED BY <1>2, <1>3, <1>4

\* So a mount makes it, and puts the remembered text on top.
LEMMA MountText ==
  ASSUME TypeOK, \A r \in records : r.source \notin Oversized, NEW t \in Tabs, Mount(t)
  PROVE  \E p \in Pages : /\ FreshPage(p)
                          /\ page' = [page EXCEPT ![t] = Recovered(p, interrupted[t])]
<1> DEFINE p0 == [NoPage EXCEPT !.writer = <<t, mounted[t] + 1>>, !.value = Starter]
           p1 == [p0 EXCEPT !.readFailed = TRUE]
<1>1. /\ p0 \in Pages /\ p0.baseline = NoRecord /\ FreshPage(p0)
  <2>1. <<t, mounted[t] + 1>> \in Tabs \X Nat
    BY DEF TypeOK
  <2>2. NoPage \in Pages /\ NoPage.baseline = NoRecord /\ ~NoPage.dirty /\ NoPage.status = "clean"
    BY DEF NoPage, Pages, Texts
  <2>3. /\ p0 \in Pages /\ p0.baseline = NoRecord /\ ~p0.dirty /\ p0.status = "clean"
        /\ p0.value = Starter
    BY <2>1, <2>2, StarterAssumption DEF Pages, Texts
  <2> HIDE DEF p0
  <2> QED BY <2>3, StarterAssumption DEF FreshPage
<1> HIDE DEF p0
<1>2. fail(p1) \in Pages /\ FreshPage(fail(p1))
  <2>1. /\ p1 \in Pages /\ p1.baseline = NoRecord /\ p1.dirty = p0.dirty /\ p1.value = p0.value
    BY <1>1 DEF Pages
  <2> HIDE DEF p1
  <2>2. /\ fail(p1) \in Pages /\ fail(p1).baseline = NoRecord /\ fail(p1).dirty = p0.dirty
        /\ fail(p1).value = p0.value /\ fail(p1).status = "error"
    BY <2>1, FailPage DEF Same
  <2> QED BY <1>1, <2>2 DEF FreshPage
<1>3. ASSUME NEW first, first \in Heads(records) \/ first = NoRecord
      PROVE  Scanned(p0, first) \in Pages /\ FreshPage(Scanned(p0, first))
  BY <1>1, <1>3, ScannedPage
<1>4. \/ Put(t, Recovered(Scanned(p0, NoRecord), interrupted[t]))
      \/ \E first \in Heads(records) : Put(t, Recovered(Scanned(p0, first), interrupted[t]))
      \/ Put(t, Recovered(fail(p1), interrupted[t]))
  BY DEF Mount, p0, p1
<1> QED BY <1>2, <1>3, <1>4 DEF Put

\* A tab that mounts its editor shows the remembered text, or a stored copy of
\* another writer, or the starter code.
LEMMA MountKnows ==
  ASSUME DraftInv, \A r \in records : r.source \notin Oversized, NEW t \in Tabs, Knows(t), Mount(t)
  PROVE  Knows(t)' /\ SparesOthers(t)
<1>0. /\ page \in [Tabs -> Pages] /\ pc \in [Tabs -> Labels] /\ interrupted[t] \in Memories
      /\ mounted[t] \in Nat /\ pc[t] = "off"
  BY DEF DraftInv, TypeOK, Mount
<1>1. /\ pc' = [pc EXCEPT ![t] = "mounting"]
      /\ UNCHANGED <<records, after, interrupted, events, typed>>
  BY DEF Mount, GoTo, store, ui
<1>2. PICK p \in Pages : FreshPage(p) /\ page' = [page EXCEPT ![t] = Recovered(p, interrupted[t])]
  BY MountText DEF DraftInv
<1> DEFINE q == Recovered(p, interrupted[t])
<1>3. page'[t] = q /\ pc'[t] = "mounting"
  BY <1>0, <1>1, <1>2
<1>4. page'[t].writer = <<t, mounted[t] + 1>>
  <2>1. PICK x \in Pages : page' = [page EXCEPT ![t] = x] /\ x.writer = <<t, mounted[t] + 1>>
    BY MountPage DEF DraftInv
  <2> QED BY <1>0, <2>1
<1>5. SparesOthers(t)
  BY <1>0, <1>1, <1>2 DEF SparesOthers
<1>6. InStorage(t) => InStorage(t)'
  BY <1>1 DEF InStorage
<1>7. ASSUME NEW r \in Recs PROVE r.writer # <<t, mounted[t] + 1>>
  <2>1. Revision(r)[1] = r.writer
    BY DEF Revision
  <2>2. r.writer[1] = t => r.writer[2] <= mounted[t]
    BY <2>1 DEF DraftInv, RevisionsAreFresh
  <2> QED BY <1>0, <2>2
<1>8. \/ interrupted[t] = Nothing /\ q = p
      \/ /\ interrupted[t] # Nothing /\ q.baseline = interrupted[t].baseline
         /\ q.dirty /\ q.value = interrupted[t].source /\ q.status = "error" /\ q.unsaved
  BY <1>0 DEF Recovered, Pages
<1> HIDE DEF q
<1>9. q.baseline # NoRecord => q.baseline \in Recs
  BY <1>8, <1>2 DEF FreshPage, Recs, Remembered
<1>10. TextIsWithThePage(t)'
  <2>1. interrupted[t] = Nothing => ~q.dirty
    BY <1>2, <1>8 DEF FreshPage
  <2> QED BY <1>0, <1>1, <1>3, <1>6, <1>8, <2>1 DEF Knows, TextIsWithThePage
<1>11. PageKnowsBaseline(t)'
  <2>1. q.baseline # NoRecord => q.baseline.writer # q.writer
    BY <1>3, <1>4, <1>7, <1>9
  <2>2. CASE interrupted[t] = Nothing
    <3>1. FreshPage(q)
      BY <1>2, <1>8, <2>2
    <3>2. q.status = "saved" => q.baseline # NoRecord
      <4>1. NoRecord \notin records
        BY NoRecordAssumption DEF DraftInv, TypeOK
      <4> QED BY <3>1, <4>1 DEF FreshPage
    <3> QED BY <1>3, <2>1, <3>1, <3>2 DEF FreshPage, PageKnowsBaseline
  <2>3. CASE interrupted[t] # Nothing
    BY <1>3, <1>8, <2>1, <2>3 DEF PageKnowsBaseline
  <2> QED BY <2>2, <2>3
<1> QED BY <1>5, <1>10, <1>11 DEF Knows

\* Every handler leaves a tab knowing where its text is.
LEMMA HandlerKnows ==
  ASSUME DraftInv, NEW t \in Tabs, Knows(t), Handler(t), ~Write(t)
  PROVE  Knows(t)' /\ SparesOthers(t) /\ records' = records
<1> USE DEF store, ui, tabs, Put, GoTo, Return, Finish
<1>0. /\ page[t] \in Pages /\ page \in [Tabs -> Pages] /\ pc \in [Tabs -> Labels]
      /\ after \in [Tabs -> Callers] /\ typed \in [Tabs -> Texts] /\ interrupted \in [Tabs -> Memories]
      /\ Heads(records) \in SUBSET DraftRecords
  BY HeadsAreRecords DEF DraftInv, TypeOK
<1>1. CASE Listen(t) \/ Blocked(t) \/ StayOnPage(t) \/ LeavePage(t)
  <2>1. /\ UNCHANGED <<records, page, interrupted, events>>
        /\ \E l \in {"idle"} : pc' = [pc EXCEPT ![t] = l]
        /\ after' \in {after, [after EXCEPT ![t] = "none"], [after EXCEPT ![t] = "pagehide"]}
        /\ typed' = typed \/ \E y \in {typed[t], NoText} : typed' = [typed EXCEPT ![t] = y]
        /\ pc[t] \in {"mounting", "flushed"}
    <3>1. CASE Listen(t) \/ Blocked(t) \/ StayOnPage(t)
      BY <3>1 DEF Listen, Blocked, StayOnPage
    <3>2. CASE LeavePage(t)
      <4>1. typed' = [typed EXCEPT ![t] = IF page[t].unsaved THEN NoText ELSE typed[t]]
        BY <3>2 DEF LeavePage
      <4> QED BY <3>2, <4>1 DEF LeavePage
    <3> QED BY <1>1, <3>1, <3>2
  <2>2. /\ pc'[t] = "idle" /\ typed'[t] \in {typed[t], NoText}
        /\ after'[t] \in {after[t], "none", "pagehide"}
    BY <1>0, <2>1
  <2>3. KeepsText(t, page[t])
    BY <2>1 DEF Knows, PageKnowsBaseline, KeepsText
  <2>4. /\ after'[t] # "closed"
        /\ after'[t] = "pagehide" => typed'[t] = NoText \/ ~page[t].dirty
    <3>1. CASE Listen(t)
      BY <3>1 DEF Listen, Knows, TextIsWithThePage
    <3>2. CASE Blocked(t) \/ StayOnPage(t)
      BY <1>0, <3>2 DEF Blocked, StayOnPage
    <3>3. CASE LeavePage(t)
      <4>1. pc[t] = "flushed" /\ typed'[t] = (IF page[t].unsaved THEN NoText ELSE typed[t])
        BY <1>0, <3>3 DEF LeavePage
      <4>2. page[t].dirty => page[t].unsaved
        BY <4>1 DEF Knows, PageKnowsBaseline
      <4>3. after'[t] = "pagehide"
        BY <1>0, <3>3 DEF LeavePage
      <4> QED BY <4>1, <4>2, <4>3
    <3> QED BY <1>1, <3>1, <3>2, <3>3
  <2>5. Knows(t)'
    BY <1>0, <2>1, <2>2, <2>3, <2>4, PageStillKnows
  <2> QED BY <1>0, <2>1, <2>5 DEF SparesOthers
<1>2. CASE WriteThrows(t)
  <2> DEFINE n == page[t].seq + 1
             p == [page[t] EXCEPT !.seq = n]
  <2>1. n \in Nat
    BY <1>0 DEF Pages
  <2> HIDE DEF n
  <2>2. /\ p \in Pages /\ p.writer = page[t].writer /\ p.baseline = page[t].baseline
        /\ p.value = page[t].value /\ p.dirty = page[t].dirty
    BY <1>0, <2>1 DEF Pages
  <2>3. /\ fail(p) \in Pages /\ fail(p).writer = p.writer /\ fail(p).baseline = p.baseline
        /\ fail(p).value = p.value /\ fail(p).dirty = p.dirty
        /\ fail(p).status = "error" /\ fail(p).unsaved = p.dirty
    BY <2>2 DEF fail, Pages
  <2>4. page' = [page EXCEPT ![t] = fail(p)]
    BY <1>2 DEF WriteThrows, p, n
  <2> HIDE DEF p
  <2>5. KeepsText(t, fail(p))
    BY <2>2, <2>3 DEF KeepsText
  <2>6. /\ pc[t] = "write" /\ UNCHANGED <<records, interrupted, events, typed, after>>
        /\ pc' = [pc EXCEPT ![t] = IF after[t] \in {"none", "join"} THEN "idle" ELSE "flushed"]
    BY <1>2 DEF WriteThrows
  <2>7. page'[t] = fail(p) /\ pc'[t] \in {"idle", "flushed"} /\ (pc'[t] = "idle" => after'[t] # "closed")
    BY <1>0, <2>4, <2>6
  <2>8. after'[t] \in {"pagehide", "closed"} => typed'[t] = NoText \/ ~fail(p).dirty
    BY <2>2, <2>3, <2>6 DEF Knows, TextIsWithThePage
  <2>9. Knows(t)'
    BY <2>3, <2>5, <2>6, <2>7, <2>8, PageStillKnows
  <2> QED BY <1>0, <2>4, <2>6, <2>9 DEF SparesOthers
<1>3. CASE CheckFlush(t)
  <2> DEFINE p == [page[t] EXCEPT !.readFailed = FALSE]
             q == [p EXCEPT !.status = "saved", !.conflicts = {}, !.unsaved = FALSE]
             c == showConflict(p, Heads(records))
  <2>1. /\ p \in Pages /\ Same(page[t], p) /\ p.value = page[t].value /\ p.dirty = page[t].dirty
    BY <1>0 DEF Pages, Same
  <2> HIDE DEF p
  <2>2. q \in Pages /\ Same(p, q) /\ q.value = p.value /\ q.dirty = p.dirty
    BY <2>1 DEF Pages, Same
  <2>3. /\ KeepsText(t, fail(p)) /\ KeepsText(t, c) /\ fail(p) \in Pages /\ c \in Pages
    BY <1>0, <2>1, ReportKeepsText, FailPage, ConflictPage DEF DraftInv
  <2>4. /\ ~page[t].dirty /\ page[t].baseline # NoRecord
        /\ t \notin events /\ page[t].baseline.writer = page[t].writer => page[t].baseline \in records
    BY <1>3 DEF CheckFlush, Knows, PageKnowsBaseline
  <2>5. /\ pc[t] = "check" /\ UNCHANGED <<records, interrupted, events, typed, after>>
        /\ pc' = [pc EXCEPT ![t] = IF after[t] \in {"none", "join"} THEN "idle" ELSE "flushed"]
    BY <1>3 DEF CheckFlush
  <2>6. page' \in {[page EXCEPT ![t] = q], [page EXCEPT ![t] = fail(p)], [page EXCEPT ![t] = c]}
    BY <1>3 DEF CheckFlush, p
  <2> HIDE DEF q, c
  <2>7. KeepsText(t, q)
    BY <2>1, <2>2, <2>4, <2>5 DEF KeepsText, Same
  <2>8. PICK x \in {q, c, fail(p)} : page' = [page EXCEPT ![t] = x]
    BY <2>6
  <2>9. x \in Pages /\ KeepsText(t, x) /\ page'[t] = x /\ x.dirty = page[t].dirty
    <3>1. x \in Pages /\ KeepsText(t, x) /\ page'[t] = x
      BY <1>0, <2>2, <2>3, <2>7, <2>8
    <3>2. fail(p).dirty = p.dirty /\ c.dirty = p.dirty
      BY <1>0, <2>1, FailPage, ConflictPage DEF c
    <3> QED BY <2>1, <2>2, <2>8, <3>1, <3>2
  <2>10. /\ pc'[t] \in {"idle", "flushed"} /\ (pc'[t] = "idle" => after'[t] # "closed")
         /\ after'[t] \in {"pagehide", "closed"} => typed'[t] = NoText \/ ~x.dirty
    BY <1>0, <2>4, <2>5, <2>9
  <2>11. Knows(t)'
    BY <2>5, <2>9, <2>10, PageStillKnows
  <2> QED BY <1>0, <2>5, <2>8, <2>11 DEF SparesOthers
<1>4. CASE JoinRefresh(t)
  <2>1. /\ pc[t] = "refresh" /\ UNCHANGED <<records, interrupted, events, typed, after>>
        /\ pc' = [pc EXCEPT ![t] = IF after[t] \in {"none", "join"} THEN "idle" ELSE "flushed"]
    BY <1>4 DEF JoinRefresh
  <2>2. pc'[t] \in {"idle", "flushed"} /\ (pc'[t] = "idle" => after[t] # "closed")
    BY <1>0, <2>1
  <2>3. Knows(t)'
    BY <1>4, <2>1, <2>2, RefreshOrFailKnows DEF JoinRefresh
  <2>4. \E x \in {refresh(page[t]), fail(page[t])} : page' = [page EXCEPT ![t] = x]
    BY <1>4 DEF JoinRefresh
  <2> QED BY <1>0, <2>1, <2>3, <2>4 DEF SparesOthers
<1>5. CASE Detach(t) \/ PageCloses(t)
  BY <1>5, LeavingKnows DEF Detach, PageCloses
<1>6. CASE PageHide(t)
  <2>1. "closed" \in Callers
    BY DEF Callers
  <2>2. BeginFlush(t, "closed") /\ after[t] = "pagehide" /\ UNCHANGED ui
    BY <1>6 DEF PageHide
  <2>3. records' = records
    BY <2>2 DEF BeginFlush
  <2> QED BY <2>1, <2>2, <2>3, BeginFlushKnows
<1> QED BY <1>1, <1>2, <1>3, <1>4, <1>5, <1>6 DEF Handler

\* So does every action of a user.
LEMMA UserKnows ==
  ASSUME DraftInv, TextInv, NEW t \in Tabs, User(t)
  PROVE  Knows(t)' /\ SparesOthers(t) /\ records' = records
<1> USE DEF store, ui, tabs, Put, GoTo
<1>0. /\ page[t] \in Pages /\ page \in [Tabs -> Pages] /\ pc \in [Tabs -> Labels]
      /\ after \in [Tabs -> Callers] /\ typed \in [Tabs -> Texts] /\ interrupted \in [Tabs -> Memories]
      /\ Heads(records) \in SUBSET DraftRecords /\ Knows(t)
  BY HeadsAreRecords DEF DraftInv, TypeOK, TextInv, Knows
<1>1. CASE Mount(t)
  BY <1>0, <1>1, MountKnows DEF Mount, TextInv
<1>2. CASE Navigate(t) \/ Unmount(t) \/ Unload(t) \/ RetryFlush(t) \/ LeaveAnyway(t)
  <2>1. PICK then \in {"leave", "detach", "unload", "none"} : BeginFlush(t, then) /\ UNCHANGED ui
    BY <1>2 DEF Navigate, Unmount, Unload, RetryFlush, LeaveAnyway
  <2>2. then \in Callers /\ then \notin {"pagehide", "closed"}
    BY DEF Callers
  <2>3. records' = records
    BY <2>1 DEF BeginFlush
  <2> QED BY <1>0, <2>1, <2>2, <2>3, BeginFlushKnows
<1>3. CASE ClosedElsewhere(t)
  <2>1. /\ pc[t] = "off" /\ interrupted' = [interrupted EXCEPT ![t] = Nothing]
        /\ typed' = [typed EXCEPT ![t] = NoText] /\ UNCHANGED <<records, page, pc, after, events>>
    BY <1>3 DEF ClosedElsewhere
  <2>2. interrupted'[t] = Nothing /\ typed'[t] = NoText /\ pc'[t] = "off" /\ after'[t] = after[t]
    BY <1>0, <2>1
  <2>3. TextIsWithThePage(t)'
    BY <1>0, <2>1, <2>2 DEF Knows, TextIsWithThePage
  <2>4. SparesOthers(t)
    BY <1>0, <2>1 DEF SparesOthers
  <2> QED BY <2>1, <2>2, <2>3, <2>4 DEF Knows
<1>4. CASE RetryRefresh(t)
  <2>1. /\ pc[t] = "idle" /\ UNCHANGED <<records, pc, interrupted, events, typed, after>>
    BY <1>4 DEF RetryRefresh, Offers, Awake
  <2>2. after[t] # "closed"
    BY <1>0, <2>1 DEF Knows, TextIsWithThePage
  <2>3. Knows(t)'
    BY <1>0, <1>4, <2>1, <2>2, RefreshOrFailKnows DEF RetryRefresh
  <2>4. \E x \in {refresh(page[t]), fail(page[t])} : page' = [page EXCEPT ![t] = x]
    BY <1>4 DEF RetryRefresh
  <2> QED BY <1>0, <2>1, <2>3, <2>4 DEF SparesOthers
<1>5. CASE \/ OpenDialog(t) \/ CloseDialog(t) \/ CancelLoad(t) \/ SessionInDoubt(t)
           \/ SessionConfirmed(t) \/ \E s \in Sources : RequestLoad(t, s)
  <2>1. UNCHANGED <<records, page, pc, interrupted, events, typed, after>>
    BY <1>5 DEF OpenDialog, CloseDialog, CancelLoad, SessionInDoubt, SessionConfirmed, RequestLoad
  <2>2. Knows(t)'
    BY <1>0, <2>1, SparedTabKnows DEF DraftInv
  <2> QED BY <2>1, <2>2 DEF SparesOthers
<1>6. CASE ConfirmLoad(t)
  <2>1. load[t] \in Sources \X Texts /\ load[t][1] # page[t].value /\ Awake(t)
    BY <1>6 DEF ConfirmLoad, loadChanged, TextInv, DraftInv, TypeOK
  <2>2. load[t][1] \in Texts
    BY <2>1 DEF Texts
  <2> QED BY <1>0, <1>6, <2>1, <2>2, TypedKnows DEF ConfirmLoad
<1>7. CASE ChoiceRefused(t)
  <2> DEFINE p == [page[t] EXCEPT !.timer = FALSE]
             d == [p EXCEPT !.dirty = TRUE]
             c == showConflict(p, Heads(records))
  <2>0. /\ pc[t] = "idle" /\ UNCHANGED <<records, pc, interrupted, events, typed, after>>
    BY <1>7 DEF ChoiceRefused, Awake
  <2>1. /\ p \in Pages /\ Same(page[t], p) /\ p.value = page[t].value /\ p.dirty = page[t].dirty
    BY <1>0 DEF Pages, Same
  <2>2. \E x \in {fail(p), c} : page' = [page EXCEPT ![t] = x]
    <3>1. CASE p.value \in Oversized
      <4>1. page[t].dirty = TRUE
        BY <1>0, <2>0, <2>1, <3>1 DEF Knows, PageKnowsBaseline, Pages
      <4>2. d = p
        BY <2>1, <4>1 DEF Pages
      <4> HIDE DEF d
      <4> QED BY <1>7, <4>2 DEF ChoiceRefused, d
    <3>2. CASE p.value \notin Oversized
      BY <1>7, <3>2 DEF ChoiceRefused
    <3> QED BY <3>1, <3>2
  <2> HIDE DEF p
  <2>3. /\ KeepsText(t, fail(p)) /\ KeepsText(t, c) /\ fail(p) \in Pages /\ c \in Pages
        /\ fail(p).dirty = page[t].dirty /\ c.dirty = page[t].dirty
    BY <1>0, <2>1, ReportKeepsText, FailPage, ConflictPage DEF DraftInv
  <2> HIDE DEF c
  <2>4. PICK x \in {fail(p), c} : page' = [page EXCEPT ![t] = x]
    BY <2>2
  <2>5. x \in Pages /\ KeepsText(t, x) /\ page'[t] = x /\ x.dirty = page[t].dirty
    BY <1>0, <2>3, <2>4
  <2>6. /\ pc'[t] = "idle" /\ after'[t] # "closed"
        /\ after'[t] \in {"pagehide", "closed"} => typed'[t] = NoText \/ ~x.dirty
    BY <1>0, <2>0, <2>5 DEF Knows, TextIsWithThePage
  <2>7. Knows(t)'
    BY <1>0, <2>0, <2>5, <2>6, PageStillKnows
  <2> QED BY <1>0, <2>0, <2>4, <2>7 DEF SparesOthers
<1>8. CASE Reset(t)
  <2> DEFINE p == [page[t] EXCEPT !.timer = FALSE, !.dirty = TRUE, !.value = Starter, !.unsaved = TRUE]
  <2>1. /\ p \in Pages /\ fail(p) \in Pages /\ p.dirty /\ p.value = Starter /\ Same(page[t], p)
        /\ Same(p, fail(p)) /\ fail(p).dirty = p.dirty /\ fail(p).value = p.value
        /\ fail(p).status = "error"
    BY StarterAssumption, JoinPage, FailPage DEF DraftInv
  <2>2. p.status = page[t].status /\ fail(p).unsaved
    BY <1>0 DEF Pages, fail
  <2> HIDE DEF p
  <2>3. Starter \in Texts \ Oversized /\ Awake(t) /\ pc[t] = "idle"
    BY <1>8, StarterAssumption DEF Reset, Texts, Awake
  <2>4. /\ typed' = [typed EXCEPT ![t] = Starter] /\ UNCHANGED interrupted
        /\ \/ page' = [page EXCEPT ![t] = fail(p)] /\ UNCHANGED <<records, pc, after, events>>
           \/ /\ page' = [page EXCEPT ![t] = p]
              /\ records' = {r \in records : r.writer \notin corruptKeys}
              /\ after' = [after EXCEPT ![t] = "join"] /\ pc' = [pc EXCEPT ![t] = "write"]
              /\ events' = events \/ events' = events \cup (Listening \ {t})
    BY <1>8 DEF Reset, Notify, p
  <2>5. CASE page' = [page EXCEPT ![t] = fail(p)] /\ UNCHANGED <<records, pc, after, events>>
    <3>1. page'[t] = fail(p) /\ typed'[t] = Starter
      BY <1>0, <2>4, <2>5
    <3>2. after[t] \notin {"pagehide", "closed"}
      BY <1>0, <2>3 DEF Awake, Knows, TextIsWithThePage
    <3>3. TextIsWithThePage(t)'
      BY <2>1, <2>3, <2>5, <3>1, <3>2 DEF TextIsWithThePage
    <3>4. PageKnowsBaseline(t)'
      BY <2>1, <2>2, <2>3, <2>5, <3>1 DEF PageKnowsBaseline
    <3>5. SparesOthers(t)
      BY <1>0, <2>4, <2>5 DEF SparesOthers
    <3> QED BY <2>5, <3>3, <3>4, <3>5 DEF Knows
  <2>6. CASE /\ page' = [page EXCEPT ![t] = p]
             /\ records' = {r \in records : r.writer \notin corruptKeys}
             /\ after' = [after EXCEPT ![t] = "join"] /\ pc' = [pc EXCEPT ![t] = "write"]
             /\ events' = events \/ events' = events \cup (Listening \ {t})
    <3>1. records' = records
      BY <2>6, ResetKeepsRecords DEF DraftInv
    <3> QED BY <1>0, <2>1, <2>2, <2>3, <2>4, <2>6, <3>1, JoinKnows
  <2> QED BY <2>4, <2>5, <2>6
<1>9. ASSUME NEW s \in Sources, Type(t, s)
      PROVE  Knows(t)' /\ SparesOthers(t) /\ records' = records
  <2>1. s \in Texts /\ Awake(t)
    BY <1>9 DEF Texts, Type, Offers
  <2> QED BY <1>0, <1>9, <2>1, TypedKnows DEF Type
<1>10. ASSUME NEW s \in Sources, Choose(t, s)
       PROVE  Knows(t)' /\ SparesOthers(t) /\ records' = records
  <2> DEFINE q == [page[t] EXCEPT !.timer = FALSE, !.value = s, !.dirty = TRUE]
  <2>1. q \in Pages /\ Same(page[t], q) /\ q.dirty /\ q.value = s
    BY JoinPage DEF DraftInv
  <2>2. q.status = page[t].status
    BY <1>0 DEF Pages
  <2> HIDE DEF q
  <2>3. s \in Texts \ Oversized /\ Awake(t)
    BY <1>10 DEF Texts, Choose
  <2>4. /\ page' = [page EXCEPT ![t] = q] /\ typed' = [typed EXCEPT ![t] = s]
        /\ after' = [after EXCEPT ![t] = "join"] /\ pc' = [pc EXCEPT ![t] = "write"]
        /\ UNCHANGED <<records, interrupted, events>>
    BY <1>10 DEF Choose, q
  <2> QED BY <1>0, <2>1, <2>2, <2>3, <2>4, JoinKnows
<1> QED
  BY <1>1, <1>2, <1>3, <1>4, <1>5, <1>6, <1>7, <1>8, <1>9, <1>10 DEF User

\* A text to load always differs from the text it would replace.
LEMMA LoadStep ==
  ASSUME TypeOK, \A t \in Tabs : load[t] # <<>> => load[t][1] # load[t][2], [Next]_vars
  PROVE  \A t \in Tabs : load'[t] # <<>> => load'[t][1] # load'[t][2]
<1>0. load \in [Tabs -> {<<>>} \cup (Sources \X Texts)]
  BY DEF TypeOK
<1>1. \/ load' = load
      \/ \E t \in Tabs : \/ load' = [load EXCEPT ![t] = <<>>]
                         \/ \E s \in Sources : /\ s # page[t].value
                                               /\ load' = [load EXCEPT ![t] = <<s, page[t].value>>]
  <2> USE DEF ui
  <2>1. CASE ClearSite \/ ForeignWrite \/ UNCHANGED vars
    BY <2>1 DEF ClearSite, ForeignWrite, vars
  <2>2. ASSUME NEW t \in Tabs, Handler(t) \/ SaveTimer(t) \/ StorageEvent(t)
        PROVE  load' = load \/ load' = [load EXCEPT ![t] = <<>>]
    BY <2>2 DEF Handler, Listen, Write, WriteThrows, CheckFlush, JoinRefresh, Blocked, Detach,
                StayOnPage, LeavePage, PageHide, PageCloses, Gone, SaveTimer, StorageEvent
  <2>3. ASSUME NEW t \in Tabs, User(t)
        PROVE  \/ load' = load \/ load' = [load EXCEPT ![t] = <<>>]
               \/ \E s \in Sources : /\ s # page[t].value
                                     /\ load' = [load EXCEPT ![t] = <<s, page[t].value>>]
    BY <2>3 DEF User, Mount, Navigate, Unmount, Unload, ClosedElsewhere, RetryFlush, RetryRefresh,
                OpenDialog, CloseDialog, LeaveAnyway, ConfirmLoad, CancelLoad, ChoiceRefused, Reset,
                SessionInDoubt, SessionConfirmed, Type, RequestLoad, Choose
  <2> QED BY <2>1, <2>2, <2>3 DEF Next
<1> QED BY <1>0, <1>1

\* TextInv is inductive, given DraftInv.
LEMMA TextStep == DraftInv /\ TextInv /\ [Next]_vars => TextInv'
<1> SUFFICES ASSUME DraftInv, TextInv, [Next]_vars PROVE TextInv'
  OBVIOUS
<1>0. /\ \A u \in Tabs : Knows(u)
      /\ RevisionsAreFresh /\ TypeOK
      /\ \A r \in records : r.source \notin Oversized
      /\ \A t \in Tabs : load[t] # <<>> => load[t][1] # load[t][2]
  BY DEF TextInv, DraftInv, Knows
<1>1. \A t \in Tabs : load'[t] # <<>> => load'[t][1] # load'[t][2]
  BY <1>0, LoadStep
<1>2. SUFFICES (\A u \in Tabs : Knows(u)') /\ \A r \in records' : r.source \notin Oversized
  BY <1>1 DEF TextInv, Knows
<1>3. ASSUME NEW t \in Tabs, Write(t)
      PROVE  (\A u \in Tabs : Knows(u)') /\ \A r \in records' : r.source \notin Oversized
  <2>1. /\ Knows(t)' /\ SparesOthers(t)
        /\ \A r \in records' : r \in records \/ r.source = page[t].value
        /\ page[t].value \notin Oversized
    BY <1>0, <1>3, WriteKnows
  <2> QED BY <1>0, <2>1, OthersKnow
<1>4. ASSUME NEW t \in Tabs, Handler(t) \/ User(t), ~Write(t)
      PROVE  (\A u \in Tabs : Knows(u)') /\ \A r \in records' : r.source \notin Oversized
  <2>1. Knows(t)' /\ SparesOthers(t) /\ records' = records
    BY <1>0, <1>4, HandlerKnows, UserKnows
  <2> QED BY <1>0, <2>1, OthersKnow
<1>5. ASSUME NEW t \in Tabs, SaveTimer(t)
      PROVE  (\A u \in Tabs : Knows(u)') /\ \A r \in records' : r.source \notin Oversized
  <2>1. "none" \in Callers /\ BeginFlush(t, "none") /\ UNCHANGED ui /\ records' = records
    BY <1>5 DEF Callers, SaveTimer, BeginFlush, store
  <2>2. Knows(t)' /\ SparesOthers(t)
    BY <1>0, <2>1, BeginFlushKnows
  <2> QED BY <1>0, <2>1, <2>2, OthersKnow
<1>6. ASSUME NEW t \in Tabs, StorageEvent(t)
      PROVE  (\A u \in Tabs : Knows(u)') /\ \A r \in records' : r.source \notin Oversized
  <2>1. /\ pc[t] = "idle" /\ UNCHANGED <<records, pc, interrupted, typed, after>>
        /\ events' = events \ {t}
    BY <1>6 DEF StorageEvent, store, ui
  <2>2. after[t] # "closed"
    BY <1>0, <2>1 DEF Knows, TextIsWithThePage
  <2>3. Knows(t)'
    BY <1>0, <1>6, <2>1, <2>2, RefreshOrFailKnows DEF StorageEvent
  <2>4. \E x \in {refresh(page[t]), fail(page[t])} : page' = [page EXCEPT ![t] = x]
    BY <1>6 DEF StorageEvent, Put
  <2>5. SparesOthers(t)
    BY <1>0, <2>1, <2>4 DEF SparesOthers, TypeOK
  <2> QED BY <1>0, <2>1, <2>3, <2>5, OthersKnow
<1>7. CASE ForeignWrite \/ UNCHANGED vars
  <2>1. UNCHANGED <<records, page, pc, interrupted, typed, after>> /\ events \subseteq events'
    BY <1>7 DEF ForeignWrite, vars, store, tabs, ui
  <2>2. ASSUME NEW u \in Tabs PROVE Knows(u)'
    BY <1>0, <2>1, SparedTabKnows
  <2> QED BY <1>0, <2>1, <2>2
<1>8. CASE ClearSite
  <2>1. /\ UNCHANGED <<page, pc, interrupted, after>> /\ events' = events \cup Listening
        /\ records' = {}
        /\ typed' = [t \in Tabs |-> IF (InEditor(t) /\ page[t].dirty) \/ InMemory(t)
                                    THEN typed[t] ELSE NoText]
    BY <1>8 DEF ClearSite
  <2>2. ASSUME NEW u \in Tabs PROVE Knows(u)'
    <3>0. Knows(u)
      BY <1>0
    <3>1. \/ typed'[u] = NoText
          \/ typed'[u] = typed[u] /\ ((InEditor(u) /\ page[u].dirty) \/ interrupted[u].source = typed[u])
      BY <2>1 DEF InMemory
    <3>2. typed'[u] # NoText => \/ pc[u] # "off" /\ page[u].dirty
                                \/ pc[u] = "off" /\ interrupted[u] # Nothing
      <4>1. interrupted[u].source = typed[u] /\ typed[u] # NoText => interrupted[u] # Nothing
        BY DEF Nothing
      <4> QED BY <3>0, <3>1, <4>1 DEF InEditor, Knows, TextIsWithThePage
    <3>3. TextIsWithThePage(u)'
      BY <2>1, <3>0, <3>1, <3>2 DEF Knows, TextIsWithThePage
    <3>4. pc[u] # "off" => PageKnowsBaseline(u)'
      <4>1. u \notin events' => pc[u] \in {"off", "mounting"}
        BY <2>1 DEF Listening
      <4> QED BY <2>1, <3>0, <4>1 DEF Knows, PageKnowsBaseline
    <3> QED BY <2>1, <3>3, <3>4 DEF Knows
  <2> QED BY <2>1, <2>2
<1> QED BY <1>3, <1>4, <1>5, <1>6, <1>7, <1>8 DEF Next

\* It holds before the first mount.
LEMMA TextInit == Init => TextInv
  BY DEF Init, TextInv, TextIsWithThePage, PageKnowsBaseline, Nothing

\* The two invariants say where typed text is and what "saved" means.
LEMMA TextIsSafe == DraftInv /\ TextInv => TypedTextIsSafe
<1> SUFFICES ASSUME DraftInv, TextInv PROVE TypedTextIsSafe
  OBVIOUS
<1>1. TypedTextIsKept
  BY DEF TypedTextIsKept, TextInv, TextIsWithThePage, InEditor, InMemory
<1>2. SavedIsInStorage
  BY DEF SavedIsInStorage, TextInv, PageKnowsBaseline
<1> QED BY <1>1, <1>2 DEF TypedTextIsSafe

\* The text a user typed, loaded or chose is in the editor, in the memory of the
\* page or in storage until the user replaces it or accepts its loss, and what an
\* idle page calls saved is in storage, whatever the other tabs, the storage and
\* the sessions do (code-draft.ts, use-code-draft.ts).
THEOREM TypedText == Spec => []TypedTextIsSafe
<1>1. DraftInv /\ TextInv /\ [Next]_vars => (DraftInv /\ TextInv)'
  BY DraftStep, TextStep
<1>2. Init => DraftInv /\ TextInv
  BY DraftInit, TextInit
<1> QED BY <1>1, <1>2, TextIsSafe, PTL DEF Spec
=============================================================================
