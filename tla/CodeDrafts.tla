----------------------------- MODULE CodeDrafts -----------------------------
(***************************************************************************)
(* The code drafts of the web client (features/problems/lib/code-draft.ts, *)
(* the hook that mounts them and the editor around them).  The tabs of one *)
(* browser share localStorage; a mounted editor writes only the key of its *)
(* own writer, so a save is never a compare-and-swap: which copies are      *)
(* current is computed from what the records say they supersede.           *)
(*                                                                         *)
(* One step of a tab is one scan or one write: localStorage is not locked  *)
(* between them.  A tab runs one handler at a time.  The wall clock of      *)
(* updatedAt may step back, so any of several heads may be listed first;    *)
(* "at" is a history field, the position of the write among all writes.     *)
(***************************************************************************)
EXTENDS Integers, FiniteSets, FiniteSetsExt

CONSTANTS
    Tabs,           \* pages of one account, problem and language
    Mounts,         \* how many editors are mounted in all
    Sources,        \* texts
    Starter,        \* the starter code
    Oversized,      \* texts of more than codeDraftMaxBytes
    Foreign,        \* the writer of a record this version cannot read
    MaxEdits,       \* how often the users change or load a text
    MaxSeq,         \* how many revisions a writer makes
    MaxFaults,      \* how often the storage or a session is disturbed
    Attended,       \* tabs whose user does more than type and leave
    NoRecord, NoText

ASSUME MountsAssumption == Mounts \in Nat
\* The starter code fits into a draft: the service accepts up to 1 MiB, and
\* resetToStarter refuses a longer one (code-draft.ts:352-355).
ASSUME StarterAssumption == Starter \in Sources \ Oversized /\ NoText \notin Sources
ASSUME ForeignAssumption == Foreign \notin Tabs \X Nat

VARIABLES
    records,        \* the readable records under the prefix
    corrupt,        \* the writers whose key holds something unreadable
    writes,         \* history: how many records were written
    page,           \* the controller of each tab
    mounted,        \* how often each tab mounted the editor
    pc,             \* where the running handler of a tab is
    parents,        \* the records the pending write joins
    after,          \* what follows the flush
    interrupted,    \* interruptedDrafts: the page memory of each tab
    events,         \* tabs with an undelivered storage event
    open,           \* the dialogs a tab shows
    load,           \* pendingLoad: the text to load and the text it replaces
    readOnly,       \* tabs whose session is not confirmed
    faults,         \* how often that happened
    edits,          \* how often the users changed a text
    typed           \* history: the text the user of a tab wants kept

store == <<records, corrupt, writes>>
tabs == <<page, mounted, pc, parents, after, interrupted, events>>
ui == <<open, load, readOnly, edits, typed>>
vars == <<store, tabs, ui, faults>>

Revision(r) == <<r.writer, r.seq>>
Writer(t) == <<t, mounted[t]>>

\* compactRevisions: one revision, the latest, of every writer but this one.
compactRevisions(revisions, writer) ==
    {v \in revisions : v[1] # writer /\ \A u \in revisions : u[1] = v[1] => u[2] <= v[2]}

\* ancestry: what these records are and what they say they replace.
ancestry(recs, writer) ==
    compactRevisions(UNION {{Revision(r)} \cup r.supersedes \cup r.parent : r \in recs}, writer)

Superseded(recs) == UNION {ancestry({r}, r.writer) : r \in recs}

Heads(recs) == {r \in recs : Revision(r) \notin Superseded(recs)}

\* scanDrafts: the heads, and the keys that must not be written over; records
\* without a head are inconsistent and all of them count as corrupt.
corruptKeys == corrupt \cup (IF Heads(records) = {} THEN {r.writer : r \in records} ELSE {})

Nothing == [source |-> NoText, baseline |-> NoRecord]

NoPage ==
    [writer |-> Foreign, seq |-> 0, baseline |-> NoRecord, dirty |-> FALSE, value |-> NoText,
     status |-> "clean", unsaved |-> FALSE, conflicts |-> {}, timer |-> FALSE, readFailed |-> FALSE]

Init ==
    /\ records = {} /\ corrupt = {} /\ writes = 0
    /\ page = [t \in Tabs |-> NoPage] /\ mounted = [t \in Tabs |-> 0]
    /\ pc = [t \in Tabs |-> "off"] /\ after = [t \in Tabs |-> "none"]
    /\ parents = [t \in Tabs |-> {}]
    /\ interrupted = [t \in Tabs |-> Nothing] /\ events = {}
    /\ open = [t \in Tabs |-> {}] /\ load = [t \in Tabs |-> <<>>]
    /\ readOnly = {} /\ faults = 0 /\ edits = 0 /\ typed = [t \in Tabs |-> NoText]

-----------------------------------------------------------------------------
(* What a handler does to the snapshot of its controller. *)

adopt(p, r) ==
    [p EXCEPT !.baseline = r, !.dirty = FALSE, !.value = r.source,
              !.status = "saved", !.unsaved = FALSE, !.conflicts = {}]

fail(p) == [p EXCEPT !.status = "error", !.unsaved = p.dirty]

showConflict(p, heads) ==
    [p EXCEPT !.status = "conflict", !.conflicts = heads, !.unsaved = p.dirty]

setValue(p, s) ==
    IF s = p.value THEN p
    ELSE [p EXCEPT !.dirty = TRUE, !.value = s, !.status = "dirty", !.unsaved = TRUE, !.timer = TRUE]

\* The constructor after a scan that succeeded; first heads the list.
Scanned(p, first) ==
    LET shown == IF first = NoRecord THEN p ELSE adopt(p, first)
        told == IF Cardinality(Heads(records)) > 1 THEN showConflict(shown, Heads(records)) ELSE shown
    IN IF corruptKeys = {} THEN told ELSE fail(told)

\* The constructor's end: the text an earlier unmount left in the page's memory.
Recovered(p, memory) ==
    IF memory = Nothing THEN p
    ELSE [p EXCEPT !.baseline = memory.baseline, !.dirty = TRUE, !.value = memory.source,
                   !.status = "error", !.unsaved = TRUE]

IsBaseline(p, heads) == p.baseline # NoRecord /\ {Revision(r) : r \in heads} = {Revision(p.baseline)}

\* refresh: follow what is stored, and never what another tab made of it.
refresh(p) ==
    LET heads == Heads(records) IN
    IF corruptKeys # {} THEN fail(p)
    ELSE IF heads # {} /\ ~IsBaseline(p, heads) THEN showConflict(p, heads)
    ELSE IF p.dirty THEN p
    ELSE IF heads # {} THEN adopt(p, p.baseline)
    ELSE IF p.baseline # NoRecord THEN fail([p EXCEPT !.dirty = TRUE])
    ELSE IF p.readFailed THEN [p EXCEPT !.readFailed = FALSE, !.status = "clean"]
    ELSE p

\* Mutant: the sequence is not advanced.
RecordRepeats(p, recs) ==
    [writer |-> p.writer, seq |-> 1,
     parent |-> IF p.baseline = NoRecord THEN {} ELSE {Revision(p.baseline)},
     supersedes |-> ancestry(recs, p.writer), source |-> p.value, at |-> writes + 1]

\* persist: the record a write puts under the writer's key.
Record(p, recs) ==
    [writer |-> p.writer, seq |-> p.seq + 1,
     parent |-> IF p.baseline = NoRecord THEN {} ELSE {Revision(p.baseline)},
     supersedes |-> ancestry(recs, p.writer), source |-> p.value, at |-> writes + 1]

Baseline(p) == {p.baseline} \ {NoRecord}

Listening == {t \in Tabs : pc[t] \notin {"off", "mounting"}}

\* A storage event goes to every other page that listens.
Notify(t) == events' = events \cup (Listening \ {t})

Put(t, p) == page' = [page EXCEPT ![t] = p]

GoTo(t, label) == pc' = [pc EXCEPT ![t] = label]

\* An operation on the storage throws (blocked, or over its quota).
Disturbed == faults < MaxFaults /\ faults' = faults + 1

\* flush returns: to the event loop, or to the handler that called it.
Finish(t, caller) == GoTo(t, IF caller \in {"none", "join"} THEN "idle" ELSE "flushed")

\* The caller is over and nothing is to follow.
Return(t, label) == GoTo(t, label) /\ after' = [after EXCEPT ![t] = "none"]

-----------------------------------------------------------------------------
(* The hook: mounting, listening and unmounting. *)

\* How many editors the tabs mounted so far.
MountsSoFar == MapThenSumSet(LAMBDA u : mounted[u], Tabs)

Mount(t) ==
    /\ pc[t] = "off" /\ MountsSoFar < Mounts
    /\ mounted' = [mounted EXCEPT ![t] = @ + 1]
    /\ LET p == [NoPage EXCEPT !.writer = <<t, mounted[t] + 1>>, !.value = Starter] IN
       \/ /\ Heads(records) = {}
          /\ Put(t, Recovered(Scanned(p, NoRecord), interrupted[t])) /\ UNCHANGED faults
       \/ /\ \E first \in Heads(records) : Put(t, Recovered(Scanned(p, first), interrupted[t]))
          /\ UNCHANGED faults
       \/ Disturbed /\ Put(t, Recovered(fail([p EXCEPT !.readFailed = TRUE]), interrupted[t]))
    /\ GoTo(t, "mounting")
    /\ UNCHANGED <<store, parents, after, interrupted, events, ui>>

\* The effect of the hook: what was written since the scan is not announced.
Listen(t) ==
    /\ pc[t] = "mounting"
    /\ GoTo(t, "idle")
    /\ UNCHANGED <<store, page, mounted, parents, after, interrupted, events, ui, faults>>

\* onStorage; reading may throw.
StorageEvent(t) ==
    /\ t \in events /\ pc[t] = "idle"
    /\ \/ Put(t, refresh(page[t])) /\ UNCHANGED faults
       \/ Put(t, fail(page[t])) /\ Disturbed
    /\ events' = events \ {t}
    /\ UNCHANGED <<store, mounted, pc, parents, after, interrupted, ui>>

-----------------------------------------------------------------------------
(* flush, in three steps: look, write, look again. *)

BeginFlush(t, then) ==
    LET p == [page[t] EXCEPT !.timer = FALSE] IN
    /\ pc[t] = "idle"
    /\ after' = [after EXCEPT ![t] = then]
    /\ \/ /\ ~p.dirty
          /\ Put(t, p) /\ Finish(t, then) /\ UNCHANGED <<parents, faults>>
       \/ /\ p.dirty /\ (p.value \in Oversized \/ corruptKeys # {})
          /\ Put(t, fail(p)) /\ Finish(t, then) /\ UNCHANGED <<parents, faults>>
       \/ /\ p.dirty /\ p.value \notin Oversized /\ Disturbed
          /\ Put(t, fail(p)) /\ Finish(t, then) /\ UNCHANGED parents
       \/ /\ p.dirty /\ p.value \notin Oversized /\ corruptKeys = {} /\ p.seq < MaxSeq
          /\ Put(t, [p EXCEPT !.status = "saving"]) /\ GoTo(t, "write")
          /\ parents' = [parents EXCEPT ![t] = Baseline(p)] /\ UNCHANGED faults
    /\ UNCHANGED <<store, mounted, interrupted, events>>

\* Mutant: a save declares that it replaces whatever is stored.
WriteJoins(t) ==
    LET r == Record(page[t], parents[t] \cup records) IN
    /\ pc[t] = "write"
    /\ records' = {x \in records : x.writer # r.writer} \cup {r}
    /\ corrupt' = corrupt \ {r.writer} /\ writes' = writes + 1
    /\ Put(t, [page[t] EXCEPT !.seq = @ + 1, !.baseline = r, !.dirty = FALSE, !.unsaved = FALSE])
    /\ interrupted' = [interrupted EXCEPT ![t] = Nothing]
    /\ Notify(t)
    /\ GoTo(t, IF after[t] = "join" THEN "refresh" ELSE "check")
    /\ parents' = [parents EXCEPT ![t] = {}]
    /\ UNCHANGED <<mounted, after, ui, faults>>

\* persist: setItem, and what the controller knows once it returned.
Write(t) ==
    LET r == Record(page[t], parents[t]) IN
    /\ pc[t] = "write"
    /\ records' = {x \in records : x.writer # r.writer} \cup {r}
    /\ corrupt' = corrupt \ {r.writer} /\ writes' = writes + 1
    /\ Put(t, [page[t] EXCEPT !.seq = @ + 1, !.baseline = r, !.dirty = FALSE, !.unsaved = FALSE])
    /\ interrupted' = [interrupted EXCEPT ![t] = Nothing]
    /\ Notify(t)
    /\ GoTo(t, IF after[t] = "join" THEN "refresh" ELSE "check")
    /\ parents' = [parents EXCEPT ![t] = {}]
    /\ UNCHANGED <<mounted, after, ui, faults>>

\* setItem throws: the revision is spent, the text is still dirty.
WriteThrows(t) ==
    /\ pc[t] = "write" /\ Disturbed
    /\ Put(t, fail([page[t] EXCEPT !.seq = @ + 1]))
    /\ Finish(t, after[t])
    /\ parents' = [parents EXCEPT ![t] = {}]
    /\ UNCHANGED <<store, mounted, after, interrupted, events, ui>>

CheckFlush(t) ==
    LET p == [page[t] EXCEPT !.readFailed = FALSE]
        heads == Heads(records) IN
    /\ pc[t] = "check"
    /\ \/ Put(t, fail(p)) /\ Disturbed
       \/ /\ corruptKeys # {}
          /\ Put(t, fail(p)) /\ UNCHANGED faults
       \/ /\ corruptKeys = {} /\ Cardinality(heads) > 1
          /\ Put(t, showConflict(p, heads)) /\ UNCHANGED faults
       \/ /\ corruptKeys = {} /\ Cardinality(heads) <= 1
          /\ Put(t, [p EXCEPT !.status = "saved", !.conflicts = {}, !.unsaved = FALSE])
          /\ UNCHANGED faults
    /\ Finish(t, after[t])
    /\ UNCHANGED <<store, mounted, parents, after, interrupted, events, ui>>

\* The refresh that ends resolveConflict and resetToStarter.
JoinRefresh(t) ==
    /\ pc[t] = "refresh"
    /\ \/ Put(t, refresh(page[t])) /\ UNCHANGED faults
       \/ Put(t, fail(page[t])) /\ Disturbed
    /\ Finish(t, after[t])
    /\ UNCHANGED <<store, mounted, parents, after, interrupted, events, ui>>

-----------------------------------------------------------------------------
(* What follows a flush, and the ways out of the page. *)

\* shouldBlockFn: a text that could not be saved holds the navigation.
Blocked(t) ==
    /\ pc[t] = "flushed" /\ after[t] = "leave" /\ page[t].dirty
    /\ open' = [open EXCEPT ![t] = @ \cup {"leave"}]
    /\ Return(t, "idle")
    /\ UNCHANGED <<store, page, mounted, parents, interrupted, events, load, readOnly, edits, typed, faults>>

Gone(t) ==
    /\ Put(t, NoPage) /\ Return(t, "off")
    /\ events' = events \ {t}
    /\ open' = [open EXCEPT ![t] = {}] /\ load' = [load EXCEPT ![t] = <<>>]
    /\ readOnly' = readOnly \ {t}

\* Mutant: a flush that failed is forgotten with the controller.
DetachForgets(t) ==
    /\ pc[t] = "flushed" /\ \/ after[t] = "detach"
                            \/ after[t] = "leave" /\ ~page[t].dirty
    /\ Gone(t)
    /\ UNCHANGED <<store, mounted, parents, interrupted, edits, typed, faults>>

\* detach: what could not be saved stays in the memory of the page.
Detach(t) ==
    /\ pc[t] = "flushed" /\ \/ after[t] = "detach"
                            \/ after[t] = "leave" /\ ~page[t].dirty
    /\ interrupted' = IF page[t].dirty
                      THEN [interrupted EXCEPT ![t] = [source |-> page[t].value, baseline |-> page[t].baseline]]
                      ELSE interrupted
    /\ Gone(t)
    /\ UNCHANGED <<store, mounted, parents, edits, typed, faults>>

\* onBeforeUnload asks while the text is unsaved; the user stays, or leaves
\* and the pagehide handler tries once more.
StayOnPage(t) ==
    /\ pc[t] = "flushed" /\ after[t] = "unload" /\ page[t].unsaved
    /\ Return(t, "idle")
    /\ UNCHANGED <<store, page, mounted, parents, interrupted, events, ui, faults>>

LeavePage(t) ==
    /\ pc[t] = "flushed" /\ after[t] = "unload"
    /\ typed' = [typed EXCEPT ![t] = IF page[t].unsaved THEN NoText ELSE @]
    /\ after' = [after EXCEPT ![t] = "pagehide"]
    /\ GoTo(t, "idle")
    /\ UNCHANGED <<store, page, mounted, parents, interrupted, events, open, load, readOnly, edits, faults>>

PageHide(t) ==
    /\ after[t] = "pagehide" /\ BeginFlush(t, "closed")
    /\ UNCHANGED ui

PageCloses(t) ==
    /\ pc[t] = "flushed" /\ after[t] = "closed"
    /\ interrupted' = [interrupted EXCEPT ![t] = Nothing]
    /\ Gone(t)
    /\ UNCHANGED <<store, mounted, parents, edits, typed, faults>>

\* The tab is closed while it shows another page: nothing asks.
ClosedElsewhere(t) ==
    /\ pc[t] = "off" /\ interrupted[t] # Nothing
    /\ interrupted' = [interrupted EXCEPT ![t] = Nothing]
    /\ typed' = [typed EXCEPT ![t] = NoText]
    /\ UNCHANGED <<store, page, mounted, pc, parents, after, events, open, load, readOnly, edits, faults>>

Awake(t) == pc[t] = "idle" /\ after[t] # "pagehide"

\* The timer of setValue.
SaveTimer(t) ==
    /\ Awake(t) /\ page[t].timer
    /\ BeginFlush(t, "none")
    /\ UNCHANGED ui

\* A navigation to another path, a lost identity, a closing tab.
Navigate(t) ==
    /\ Awake(t) /\ t \in Attended /\ "leave" \notin open[t]
    /\ BeginFlush(t, "leave")
    /\ UNCHANGED ui

Unmount(t) ==
    /\ Awake(t)
    /\ BeginFlush(t, "detach")
    /\ UNCHANGED ui

Unload(t) ==
    /\ Awake(t) /\ t \in Attended
    /\ BeginFlush(t, "unload")
    /\ UNCHANGED ui

-----------------------------------------------------------------------------
(* The editor: its toolbar and its dialogs. *)

\* The toolbar above the source: what it offers follows the status.
ToolbarControls(t) ==
    {"copy", "download"}
        \cup (IF page[t].status = "error" THEN {"retry"} ELSE {})
        \cup (IF page[t].status = "conflict" THEN {"recover"} ELSE {})
        \cup (IF t \in readOnly THEN {} ELSE {"reset"})

\* The source itself.
SourceControls(t) == IF t \in readOnly THEN {} ELSE {"type"}

\* A modal dialog covers the editor.
Offers(t, control) ==
    Awake(t) /\ (control # "type" => t \in Attended) /\ open[t] = {} /\ load[t] = <<>> /\ control \in ToolbarControls(t) \cup SourceControls(t)

Changes == edits < MaxEdits /\ edits' = edits + 1

Type(t, s) ==
    /\ Offers(t, "type") /\ s # page[t].value
    /\ Put(t, setValue(page[t], s))
    /\ Changes
    /\ typed' = [typed EXCEPT ![t] = s]
    /\ UNCHANGED <<store, mounted, pc, parents, after, interrupted, events, open, load, readOnly, faults>>

\* retrySave: flush what is dirty, else look again.
RetryFlush(t) ==
    /\ Offers(t, "retry") /\ page[t].dirty
    /\ BeginFlush(t, "none")
    /\ UNCHANGED ui

RetryRefresh(t) ==
    /\ Offers(t, "retry") /\ ~page[t].dirty
    /\ \/ Put(t, refresh(page[t])) /\ UNCHANGED faults
       \/ Put(t, fail(page[t])) /\ Disturbed
    /\ UNCHANGED <<store, mounted, pc, parents, after, interrupted, events, ui>>

OpenDialog(t) ==
    /\ \/ Offers(t, "reset") /\ open' = [open EXCEPT ![t] = {"reset"}]
       \/ Offers(t, "recover") /\ open' = [open EXCEPT ![t] = {"conflict"}]
    /\ UNCHANGED <<store, tabs, load, readOnly, edits, typed, faults>>

CloseDialog(t) ==
    /\ Awake(t)
    /\ \E d \in open[t] : open' = [open EXCEPT ![t] = @ \ {d}]
    /\ UNCHANGED <<store, tabs, load, readOnly, edits, typed, faults>>

\* The dialog of a held navigation: leaving anyway unmounts the editor.
LeaveAnyway(t) ==
    /\ "leave" \in open[t] /\ Awake(t)
    /\ BeginFlush(t, "detach")
    /\ UNCHANGED ui

\* requestLoad: a submission of the history, for this identity; one that is
\* the current text changes nothing and is left out.
RequestLoad(t, s) ==
    /\ Awake(t) /\ t \in Attended /\ open[t] = {} /\ load[t] = <<>> /\ t \notin readOnly
    /\ s \notin Oversized \cup {page[t].value} /\ Changes
    /\ load' = [load EXCEPT ![t] = <<s, page[t].value>>]
    /\ UNCHANGED <<store, tabs, open, readOnly, typed, faults>>

loadChanged(t) == load[t][2] # page[t].value \/ page[t].status = "conflict"

ConfirmLoad(t) ==
    /\ Awake(t) /\ load[t] # <<>> /\ t \notin readOnly /\ ~loadChanged(t)
    /\ Put(t, setValue(page[t], load[t][1]))
    /\ typed' = [typed EXCEPT ![t] = load[t][1]]
    /\ load' = [load EXCEPT ![t] = <<>>]
    /\ UNCHANGED <<store, mounted, pc, parents, after, interrupted, events, open, readOnly, edits, faults>>

CancelLoad(t) ==
    /\ Awake(t) /\ load[t] # <<>>
    /\ load' = [load EXCEPT ![t] = <<>>]
    /\ UNCHANGED <<store, tabs, open, readOnly, edits, typed, faults>>

CloseConflict(t) == open' = [open EXCEPT ![t] = @ \ {"conflict"}]

\* resolveConflict of a listed copy that is no longer a head, or whose keys
\* cannot be read.
ChoiceRefused(t) ==
    /\ Awake(t) /\ "conflict" \in open[t] /\ t \notin readOnly
    /\ LET p == [page[t] EXCEPT !.timer = FALSE] IN
       \/ Put(t, fail(p)) /\ Disturbed
       \/ /\ corruptKeys # {}
          /\ Put(t, fail(p)) /\ UNCHANGED faults
       \/ /\ corruptKeys = {}
          /\ UNCHANGED faults
          /\ \E copy \in page[t].conflicts \ Heads(records) : Put(t, showConflict(p, Heads(records)))
       \/ /\ corruptKeys = {} /\ p.value \in Oversized
          /\ Put(t, fail([p EXCEPT !.dirty = TRUE])) /\ UNCHANGED faults
    /\ CloseConflict(t)
    /\ UNCHANGED <<store, mounted, pc, parents, after, interrupted, events, load, readOnly, edits, typed>>

\* resolveConflict: the choice joins every head the scan finds.
Choose(t, source) ==
    /\ Awake(t) /\ "conflict" \in open[t] /\ t \notin readOnly
    /\ corruptKeys = {} /\ source \notin Oversized
    /\ source = page[t].value \/ \E copy \in page[t].conflicts \cap Heads(records) : source = copy.source
    /\ Put(t, [page[t] EXCEPT !.timer = FALSE, !.value = source, !.dirty = TRUE])
    /\ parents' = [parents EXCEPT ![t] = Heads(records) \cup Baseline(page[t])]
    /\ after' = [after EXCEPT ![t] = "join"] /\ GoTo(t, "write")
    /\ typed' = [typed EXCEPT ![t] = source]
    /\ CloseConflict(t) /\ Changes /\ page[t].seq < MaxSeq
    /\ UNCHANGED <<store, mounted, interrupted, events, load, readOnly, faults>>

\* resetToStarter: confirmed, it also removes the keys that cannot be read.
Reset(t) ==
    LET p == [page[t] EXCEPT !.timer = FALSE, !.dirty = TRUE, !.value = Starter, !.unsaved = TRUE] IN
    /\ Awake(t) /\ "reset" \in open[t] /\ t \notin readOnly
    /\ typed' = [typed EXCEPT ![t] = Starter]
    /\ open' = [open EXCEPT ![t] = @ \ {"reset"}]
    /\ \/ /\ Put(t, fail(p)) /\ Disturbed
          /\ UNCHANGED <<store, pc, parents, after, events>>
       \/ /\ records' = {r \in records : r.writer \notin corruptKeys} /\ corrupt' = {}
          /\ IF corruptKeys = {} THEN UNCHANGED events ELSE Notify(t)
          /\ Put(t, p)
          /\ parents' = [parents EXCEPT ![t] = Heads(records) \cup Baseline(p)]
          /\ after' = [after EXCEPT ![t] = "join"] /\ GoTo(t, "write")
          /\ UNCHANGED <<writes, faults>>
    /\ Changes /\ page[t].seq < MaxSeq
    /\ UNCHANGED <<mounted, interrupted, load, readOnly>>

-----------------------------------------------------------------------------
(* The environment. *)

\* The session of a page is in doubt, and confirmed again for the same account.
SessionInDoubt(t) ==
    /\ readOnly' = readOnly \cup {t}
    /\ load' = [load EXCEPT ![t] = <<>>]
    /\ t \in Attended \ readOnly /\ pc[t] = "idle" /\ Disturbed
    /\ UNCHANGED <<store, tabs, open, edits, typed>>

SessionConfirmed(t) ==
    /\ t \in readOnly
    /\ readOnly' = readOnly \ {t}
    /\ UNCHANGED <<store, tabs, open, load, edits, typed, faults>>

\* A page of another version of the client writes what this one cannot read.
ForeignWrite ==
    /\ Foreign \notin corrupt /\ Disturbed
    /\ corrupt' = corrupt \cup {Foreign}
    /\ events' = events \cup Listening
    /\ UNCHANGED <<records, writes, page, mounted, pc, parents, after, interrupted, ui>>

\* Where the text a user wants kept can be.
InEditor(t) == pc[t] # "off" /\ page[t].value = typed[t]

InMemory(t) == interrupted[t].source = typed[t]

InStorage(t) == \E r \in records : r.source = typed[t] /\ r.writer[1] = t

\* The user clears the site's data; what was only there is given up.
ClearSite ==
    /\ records # {} /\ Disturbed
    /\ records' = {} /\ corrupt' = {}
    /\ events' = events \cup Listening
    /\ typed' = [t \in Tabs |-> IF (InEditor(t) /\ page[t].dirty) \/ InMemory(t) THEN typed[t] ELSE NoText]
    /\ UNCHANGED <<writes, page, mounted, pc, parents, after, interrupted, open, load, readOnly, edits>>

-----------------------------------------------------------------------------
Handler(t) ==
    \/ Listen(t) \/ Write(t) \/ WriteThrows(t) \/ CheckFlush(t) \/ JoinRefresh(t)
    \/ Blocked(t) \/ Detach(t) \/ StayOnPage(t) \/ LeavePage(t)
    \/ PageHide(t) \/ PageCloses(t)

User(t) ==
    \/ Mount(t) \/ Navigate(t) \/ Unmount(t) \/ Unload(t) \/ ClosedElsewhere(t)
    \/ RetryFlush(t) \/ RetryRefresh(t) \/ OpenDialog(t) \/ CloseDialog(t) \/ LeaveAnyway(t)
    \/ ConfirmLoad(t) \/ CancelLoad(t) \/ ChoiceRefused(t) \/ Reset(t)
    \/ SessionInDoubt(t) \/ SessionConfirmed(t)
    \/ \E s \in Sources : Type(t, s) \/ RequestLoad(t, s) \/ Choose(t, s)

Next == ClearSite \/ ForeignWrite \/ \E t \in Tabs : Handler(t) \/ SaveTimer(t) \/ StorageEvent(t) \/ User(t)

Spec == Init /\ [][Next]_vars

-----------------------------------------------------------------------------
(* Properties *)

\* Drafts that are readable are never taken for corrupt as a whole: whatever
\* the tabs wrote, in whatever order, some record is superseded by no other
\* (scanDrafts refuses to save when there is none).
NeverFalselyCorrupt == records # {} => Heads(records) # {}

\* A stored copy stops being current only because its own page saved again,
\* because a page that started from it saved, or because the user of a page
\* chose after that page's scan found it; and a copy that was replaced does not
\* come back ("even simultaneous writes retain both sources").
CopiesCompeteOpenly ==
    [][\/ records' = {}
       \/ /\ \A r \in Heads(records) \ Heads(records') :
                \E t \in Tabs : /\ pc[t] = "write" /\ pc'[t] # "write"
                                /\ \/ r.writer = page[t].writer
                                   \/ r = page[t].baseline
                                   \/ after[t] = "join" /\ r \in parents[t]
          /\ Heads(records') \cap records \subseteq Heads(records)]_vars

\* A page that says its own text is saved is right, unless the event that will
\* tell it otherwise is on its way.
SavedIsInStorage ==
    \A t \in Tabs \ events :
        pc[t] = "idle" /\ page[t].status = "saved" /\ page[t].baseline.writer = page[t].writer
            => page[t].baseline \in records /\ page[t].baseline.source = page[t].value

\* The text a user typed, loaded or chose is in the editor, in the memory of the
\* page or in storage until the user replaces it or accepts its loss: no event,
\* failed save, unmount or other tab makes it disappear.
TypedTextIsKept ==
    \A t \in Tabs : typed[t] # NoText => InEditor(t) \/ InMemory(t) \/ InStorage(t)

\* Text is safe with the page: what was typed is kept somewhere, and what the
\* page calls saved is in storage.
TypedTextIsSafe == TypedTextIsKept /\ SavedIsInStorage

-----------------------------------------------------------------------------
(* Types, and the invariant behind the properties. *)

Texts == Sources \cup {NoText}

Revisions == (Tabs \X Nat) \X Nat

DraftRecords ==
    [writer : Tabs \X Nat, seq : Nat, parent : SUBSET Revisions, supersedes : SUBSET Revisions,
     source : Texts, at : Nat]

ASSUME NoRecordAssumption == NoRecord \notin DraftRecords

Pages ==
    [writer : (Tabs \X Nat) \cup {Foreign}, seq : Nat, baseline : DraftRecords \cup {NoRecord},
     dirty : BOOLEAN, value : Texts,
     status : {"clean", "dirty", "saving", "saved", "conflict", "error"},
     unsaved : BOOLEAN, conflicts : SUBSET DraftRecords, timer : BOOLEAN, readFailed : BOOLEAN]

Memories == [source : Texts, baseline : DraftRecords \cup {NoRecord}]

Labels == {"off", "mounting", "idle", "write", "check", "refresh", "flushed"}

Callers == {"none", "join", "leave", "detach", "unload", "pagehide", "closed"}

\* Every variable has its type.
TypeOK ==
    /\ records \subseteq DraftRecords /\ corrupt \subseteq {Foreign} /\ writes \in Nat
    /\ page \in [Tabs -> Pages] /\ mounted \in [Tabs -> Nat]
    /\ pc \in [Tabs -> Labels] /\ after \in [Tabs -> Callers]
    /\ parents \in [Tabs -> SUBSET DraftRecords] /\ interrupted \in [Tabs -> Memories]
    /\ events \subseteq Tabs /\ open \in [Tabs -> SUBSET {"leave", "reset", "conflict"}]
    /\ load \in [Tabs -> {<<>>} \cup (Sources \X Texts)]
    /\ readOnly \subseteq Tabs /\ faults \in Nat /\ edits \in Nat /\ typed \in [Tabs -> Texts]

\* The records anyone can still save from: stored ones, and those a page or its
\* memory started from or is about to join.
Remembered(t) == parents[t] \cup Baseline(page[t]) \cup ({interrupted[t].baseline} \ {NoRecord})

Recs == records \cup UNION {Remembered(t) : t \in Tabs}

\* The revisions a record says it replaces.
Replaces(r) == r.parent \cup r.supersedes

\* No revision is used before its writer made it, and a writer makes it once.
RevisionsAreFresh ==
    /\ \A t \in Tabs : pc[t] # "off" => page[t].writer = Writer(t)
    /\ \A r \in Recs : \A v \in Replaces(r) \cup {Revision(r)} : \A t \in Tabs :
           v[1][1] = t => /\ v[1][2] <= mounted[t]
                          /\ pc[t] # "off" /\ v[1] = Writer(t) => v[2] <= page[t].seq
    /\ \A q, r \in Recs : Revision(q) = Revision(r) => q = r

\* A record replaces only what was written before it.
ReplacesOlder ==
    /\ \A r \in Recs : r.at <= writes
    /\ \A q, r \in Recs : Revision(q) \in Replaces(r) => q.at < r.at
    /\ \A r \in Recs : \A v \in Replaces(r) : v[1] = r.writer => v[2] < r.seq

\* A writer has one key, and what it holds is its latest record: the one its
\* page started from.
LatestIsStored ==
    /\ \A q, r \in records : q.writer = r.writer => q = r
    /\ \A r \in records, q \in Recs : \A v \in Replaces(q) \cup {Revision(q)} :
           v[1] = r.writer => v[2] <= r.seq
    /\ \A t \in Tabs, r \in records :
           pc[t] # "off" /\ r.writer = page[t].writer => page[t].baseline = r

\* What some record replaced stays replaced by a stored one, whoever wrote over
\* the record that did it.
ReplacedStays ==
    \A q \in Recs, r \in records :
        Revision(r) \in Replaces(q) => \E s \in records : s.writer # r.writer /\ Revision(r) \in Replaces(s)

\* A write under way joins the page's baseline, and more only for a user's choice.
WriteJoinsBaseline ==
    \A t \in Tabs : pc[t] = "write" =>
        /\ Baseline(page[t]) \subseteq parents[t]
        /\ after[t] # "join" => parents[t] \subseteq Baseline(page[t])

\* The inductive invariant behind NeverFalselyCorrupt and CopiesCompeteOpenly.
DraftInv ==
    /\ TypeOK /\ RevisionsAreFresh /\ ReplacesOlder /\ LatestIsStored /\ ReplacedStays
    /\ WriteJoinsBaseline

\* Where the typed text is: a page's dirty text is what its user wants kept, the
\* memory of a page is given back to the editor until a save succeeds, and a tab
\* is closed over unsaved text only when its user accepted the loss.
TextIsWithThePage(t) ==
    /\ pc[t] # "off" /\ page[t].dirty => typed[t] \in {NoText, page[t].value}
    /\ pc[t] # "off" /\ interrupted[t] # Nothing => page[t].dirty
    /\ pc[t] = "off" /\ interrupted[t] # Nothing => typed[t] \in {NoText, interrupted[t].source}
    /\ typed[t] # NoText => \/ pc[t] # "off" /\ page[t].dirty
                            \/ pc[t] = "off" /\ interrupted[t] # Nothing
                            \/ InStorage(t)
    /\ after[t] \in {"pagehide", "closed"} => typed[t] = NoText \/ ~page[t].dirty
    /\ pc[t] \in {"off", "mounting"} => after[t] = "none"
    /\ pc[t] = "idle" => after[t] # "closed"

\* What a page knows: text that is not dirty is its baseline's and can be saved,
\* dirty text is called unsaved and never saved, and a baseline of its own is
\* stored or about to be reported missing.
PageKnowsBaseline(t) ==
    /\ pc[t] = "write" => page[t].dirty
    /\ pc[t] \in {"check", "refresh"} => ~page[t].dirty /\ page[t].baseline # NoRecord
    /\ page[t].dirty => page[t].unsaved \/ pc[t] = "write"
    /\ ~page[t].dirty \/ pc[t] = "write" => page[t].value \notin Oversized
    /\ page[t].baseline # NoRecord /\ ~page[t].dirty => page[t].value = page[t].baseline.source
    /\ page[t].status = "saved" => page[t].baseline # NoRecord /\ (page[t].dirty => pc[t] = "write")
    /\ pc[t] = "mounting" /\ page[t].baseline # NoRecord => page[t].baseline.writer # page[t].writer
    /\ /\ page[t].status = "saved" \/ pc[t] \in {"check", "refresh"}
       /\ t \notin events /\ page[t].baseline.writer = page[t].writer
       => page[t].baseline \in records

\* The inductive invariant behind TypedTextIsSafe, together with DraftInv.
TextInv ==
    /\ \A t \in Tabs : TextIsWithThePage(t) /\ (pc[t] # "off" => PageKnowsBaseline(t))
    /\ \A r \in records : r.source \notin Oversized
    /\ \A t \in Tabs : load[t] # <<>> => load[t][1] # load[t][2]
=============================================================================
