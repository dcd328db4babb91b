--------------------------- MODULE ProblemWorkbench ---------------------------
(***************************************************************************)
(* The administrator's workbench of one problem (features/problems/         *)
(* components/admin-problem-workbench.tsx and its dialogs) with the problem *)
(* service behind it (AdminProblemService, ProblemPublicationService,       *)
(* TestDataService).                                                        *)
(*                                                                         *)
(* The page holds two copies of the problem: the cached row of the problem  *)
(* query, which every refetch replaces, and the form, which is filled once  *)
(* when the editor mounts.  A private problem is saved by a timer, a public *)
(* one on demand.  Uploads, calibrations, publishing, archiving and         *)
(* deleting are requests of their own; a request may fail before or after   *)
(* the service executed it, and outlives the editor that sent it.  Other    *)
(* administrators work on the same row.                                     *)
(***************************************************************************)
EXTENDS ProblemForm, FiniteSets

CONSTANTS
    None,           \* no row, no check, no editor
    First,          \* the values the problem has at first
    Digests,        \* what an upload may contain, as the content digest tells it
    FirstData,      \* the data the problem has at first, if it has any
    MaxActs,        \* how often the administrator acts
    MaxFaults       \* how often something unusual happens

ASSUME FirstAssumption == First \in Values /\ Titled(First)
ASSUME DigestsAssumption == 0 \notin Digests /\ FirstData \in Digests      \* 0: no test data

VARIABLES
    row,            \* the problem as the service stores it
    valid,          \* the test data of the latest valid calibration (0: none)
    vouched,        \* history: every test data that had a valid calibration
    held,           \* history: every value the row has had
    node,           \* a judge node is online
    wire,           \* the requests that have not ended
    cache,          \* the row in the problem query
    failed,         \* isError of the problem query
    mounted,        \* the workbench is the current route
    fetch,          \* the answer of the problem query's request, on its way
    check,          \* the publish check: the codes that fail, and the request that runs
    editor,         \* the state of WorkbenchEditor, None when unmounted
    acts, faults

serverVars == <<row, valid, vouched, held, node>>
queryVars == <<cache, failed, mounted, fetch, check>>
vars == <<serverVars, wire, queryVars, editor, acts, faults>>

Acted == acts < MaxActs /\ acts' = acts + 1 /\ UNCHANGED faults
Disturbed == faults < MaxFaults /\ faults' = faults + 1 /\ UNCHANGED acts
Unbounded == UNCHANGED <<acts, faults>>

-----------------------------------------------------------------------------
(* The service. *)

\* Test data does not move the row version.
Row(public, data) ==
    [here |-> TRUE, version |-> 0, values |-> First, public |-> public, active |-> TRUE,
     published |-> public, data |-> data, by |-> "other"]

\* localChecks: what the problem's own row lacks.
localChecks(r) ==
    {c \in {"CONTENT", "SAMPLES", "LANGUAGE", "TEST_DATA"} :
        \/ c = "CONTENT" /\ r.values.text \in Unfinished
        \/ c = "SAMPLES" /\ r.values.samples = <<>>
        \/ c = "LANGUAGE" /\ IsCore /\ r.values.driver = NoDriver
        \/ c = "TEST_DATA" /\ r.data = 0}

\* What the judging service lacks for this test data.
readiness(data) ==
    {c \in {"ONLINE_JUDGE_NODE", "LANGUAGE", "CALIBRATION"} :
        \/ c \in {"ONLINE_JUDGE_NODE", "LANGUAGE"} /\ ~node
        \/ c = "CALIBRATION" /\ valid # data}

\* What the check would find now; the judging service is only asked about existing test data.
publishCheck == localChecks(row) \union IF row.data = 0 THEN {"CALIBRATION"} ELSE readiness(row.data)

Written(r, v, by) == [r EXCEPT !.version = @ + 1, !.values = v, !.by = by]

-----------------------------------------------------------------------------
(* What the editor derives from its state. *)

\* AdminProblemWorkbench: which page the problem query shows.
Page ==
    IF ~mounted THEN "away"
    ELSE IF failed THEN "error"
    ELSE IF cache = None THEN "loading"
    ELSE "editor"

\* The state of an editor that mounts; later rows never touch its form.
Mounted(r) ==
    [form |-> r.values, saved |-> r.values, lastSaved |-> FALSE, saveError |-> "none",
     savedDriver |-> r.values.driver, driverChanged |-> FALSE, reference |-> FALSE,
     limits |-> "valid", confirming |-> "none"]

InEditor == editor # None
editable == cache.active
isPublic == cache.public
autosave == editable /\ ~isPublic
isDirty == editor.form # editor.saved
titleMissing == ~Titled(editor.form)
hasUnsavedContent == isDirty \/ editor.reference
Pending(kind) == \E r \in wire : r.kind = kind /\ r.heard = "editor"

unsavedReason == ~editable \/ isDirty
nodeUnavailable == check.codes # None /\ "ONLINE_JUDGE_NODE" \in check.codes
calibrationBlocked == unsavedReason \/ cache.data = 0 \/ nodeUnavailable

\* No confirmation covers the page; the other dialogs can be closed at any time and are not kept.
Uncovered == editor.confirming = "none"

-----------------------------------------------------------------------------
(* What the page offers. *)

Offered(c) == {x \in DOMAIN c : c[x]}

HeaderControls == Offered([
    save |-> ~autosave /\ editable /\ isDirty /\ ~titleMissing /\ ~Pending("save"),
    archive |-> ~hasUnsavedContent /\ editable /\ ~isPublic,
    delete |-> ~hasUnsavedContent /\ ~cache.published])

\* The notice of a failed save.
ErrorControls ==
    IF editor.saveError = "none" THEN {} ELSE
    {"loadLatest", IF editor.saveError = "conflict" THEN "copy" ELSE "retry"}

\* Every field of the form and of the property column is disabled alike.
FormControls == IF editable THEN Edits(editor.form) ELSE {}

\* A saved driver that changed asks for a new calibration.
DriverControls ==
    IF IsCore /\ ~(editable /\ editor.form.driver = NoDriver) /\ editor.driverChanged
    THEN {"calibration"} ELSE {}

\* The property column opens the dialogs; its fields are the form's.
PropertyControls ==
    {"test-data", "calibration", "publish"} \union (IF editable THEN {"difficulty", "tags"} ELSE {})

TestDataControls == Offered([
    upload |-> ~unsavedReason /\ ~Pending("upload"),
    cancelUpload |-> Pending("upload")])

CalibrationControls == Offered([
    limits |-> editable,
    reference |-> editable,
    run |-> ~calibrationBlocked /\ editor.reference /\ ~Pending("calibrate")])

PublishControls ==
    LET acting == Pending("publish") \/ Pending("unpublish")
    IN Offered([
        cancel |-> ~acting,
        unpublish |-> isPublic /\ ~unsavedReason /\ ~acting,
        publish |-> ~isPublic /\ ~unsavedReason /\ check.codes = {} /\ ~acting])

\* The confirmation cannot be closed, nor repeated, while its request runs.
ConfirmControls ==
    IF editor.confirming # "none" /\ ~Pending(editor.confirming) THEN {"cancel", "confirm"} ELSE {}

\* What the status line says of the form.
SaveStatus ==
    IF Pending("save") THEN "saving"
    ELSE IF editor.saveError # "none" THEN "failed"
    ELSE IF isDirty THEN IF titleMissing THEN "untitled" ELSE IF autosave THEN "saving" ELSE "unsaved"
    ELSE IF editor.lastSaved THEN "saved"
    ELSE IF autosave THEN "automatic" ELSE ""

-----------------------------------------------------------------------------
Init ==
    /\ \E public \in BOOLEAN, data \in {0, FirstData} :
        /\ public => data # 0
        /\ row = Row(public, data)
        /\ valid \in IF public THEN {data} ELSE {0, data}
    /\ vouched = {valid} \ {0}
    /\ held = {First}
    /\ node = TRUE
    /\ wire = {}
    /\ cache = None /\ failed = FALSE /\ mounted = TRUE /\ fetch = None
    /\ check = [codes |-> None, asking |-> None]
    /\ editor = None
    /\ acts = 0 /\ faults = 0

-----------------------------------------------------------------------------
(* Requests. *)

Requested == [kind |-> "", version |-> 0, values |-> None, by |-> "admin",
              data |-> 0, asked |-> 0, stage |-> "sent", answer |-> None, heard |-> "editor"]

\* What changes the row carries the cached row version; `by' is history.
Request(kind, by) ==
    CASE kind = "save" -> [Requested EXCEPT !.kind = kind, !.version = cache.version, !.by = by,
                                            !.values = editor.form]
      [] kind \in {"upload", "calibrate", "reload"} -> [Requested EXCEPT !.kind = kind]
      [] OTHER -> [Requested EXCEPT !.kind = kind, !.version = cache.version]

Send(kind, by) == wire' = wire \union {Request(kind, by)}

\* The uploads are aborted; other requests go on, but nobody sees their outcome.
Orphaned ==
    {[r EXCEPT !.heard = IF r.heard # "editor" THEN r.heard
                         ELSE IF r.kind = "upload" THEN "nobody" ELSE "page"] : r \in wire}

\* The service's answer to a request; `ok' may carry a row.
Answer(r, stage, answer) ==
    wire' = (wire \ {r}) \union
            IF r.heard = "nobody" THEN {}
            ELSE {[r EXCEPT !.stage = stage, !.answer = answer]}

Refuse(r, stage) == Answer(r, stage, None) /\ UNCHANGED serverVars

\* The row is locked: version, state and then the content are checked.
update(r) ==
    LET next == Stored(r.values, row.values)
    IN IF ~row.here THEN Refuse(r, "refused")
       ELSE IF row.version # r.version \/ ~row.active THEN Refuse(r, "conflict")
       ELSE IF row.public /\ ~Whole(next) THEN Refuse(r, "refused")
       ELSE /\ row' = Written(row, next, r.by)
            /\ held' = held \union {next}
            /\ Answer(r, "ok", row')
            /\ UNCHANGED <<valid, vouched, node>>

archive(r) ==
    IF ~row.here THEN Refuse(r, "refused")
    ELSE IF row.version # r.version \/ ~row.active THEN Refuse(r, "conflict")
    ELSE /\ row' = [row EXCEPT !.version = @ + 1, !.active = FALSE]
         /\ Answer(r, "ok", None)
         /\ UNCHANGED <<valid, vouched, held, node>>

\* Only a problem that was never public can be deleted.
delete(r) ==
    IF ~row.here THEN Refuse(r, "refused")
    ELSE IF row.version # r.version \/ row.published THEN Refuse(r, "conflict")
    ELSE /\ row' = [row EXCEPT !.here = FALSE]
         /\ Answer(r, "ok", None)
         /\ UNCHANGED <<valid, vouched, held, node>>

\* The same data may be uploaded again.
upload(r) ==
    IF ~row.here \/ ~row.active THEN Refuse(r, "refused") ELSE
    /\ \E d \in Digests : row' = [row EXCEPT !.data = d]
    /\ Answer(r, "ok", None)
    /\ UNCHANGED <<valid, vouched, held, node>>

\* A calibration or a publication goes on after a transaction, with the snapshot it read: the
\* digest its last transaction compares and the one the judging service is asked about.
GoesOn(r, stage, data, asked) ==
    /\ wire' = (wire \ {r}) \union {[r EXCEPT !.stage = stage, !.data = data, !.asked = asked]}
    /\ UNCHANGED serverVars

calibrate(r) ==
    IF r.stage = "sent"
    THEN IF ~row.here \/ ~row.active \/ localChecks(row) # {} THEN Refuse(r, "refused")
         ELSE GoesOn(r, "checked", row.data, 0)
    ELSE \/ ~node /\ Refuse(r, "refused")
         \/ node /\ Refuse(r, "FAILED")
         \/ /\ node
            /\ valid' = r.data
            /\ vouched' = vouched \union {r.data}
            /\ Answer(r, "ok", None)
            /\ UNCHANGED <<row, held, node>>

\* publish reads a first snapshot.
publishBefore(r) ==
    /\ r.stage = "sent"
    /\ \/ (~row.here \/ ~row.active) /\ Refuse(r, "conflict")
       \/ row.here /\ row.active /\ row.public /\ Refuse(r, "ok")
       \/ row.here /\ row.active /\ ~row.public /\ row.version # r.version /\ Refuse(r, "conflict")
       \/ row.here /\ row.active /\ ~row.public /\ row.version = r.version
          /\ GoesOn(r, "before", row.data, 0)

\* publishCheck reads a snapshot of its own: the row's own checks, and the digest to ask about.
publishLocal(r) ==
    /\ r.stage = "before"
    /\ IF row.here /\ localChecks(row) = {} THEN GoesOn(r, "asking", r.data, row.data)
       ELSE Refuse(r, "conflict")

\* The judging service answers, outside of any transaction.
publishRemote(r) ==
    /\ r.stage = "asking"
    /\ IF readiness(r.asked) = {} THEN GoesOn(r, "checked", r.data, r.asked) ELSE Refuse(r, "conflict")

\* A mutant: the locked transaction does not compare the test data.
publishUncompared(r) ==
    /\ r.stage = "checked"
    /\ IF row.here /\ row.active /\ row.version = r.version /\ localChecks(row) = {}
       THEN /\ row' = [row EXCEPT !.version = @ + 1, !.public = TRUE, !.published = TRUE]
            /\ Answer(r, "ok", None)
            /\ UNCHANGED <<valid, vouched, held, node>>
       ELSE Refuse(r, "conflict")

\* The row is locked and its own checks are repeated; the digest is compared with the first
\* snapshot's, which may have had none (the null dereference is an error answer like the others).
publishLocked(r) ==
    /\ r.stage = "checked"
    /\ IF row.here /\ row.active /\ row.version = r.version /\ localChecks(row) = {} /\ row.data = r.data
       THEN /\ row' = [row EXCEPT !.version = @ + 1, !.public = TRUE, !.published = TRUE]
            /\ Answer(r, "ok", None)
            /\ UNCHANGED <<valid, vouched, held, node>>
       ELSE Refuse(r, "conflict")

publish(r) == publishBefore(r) \/ publishLocal(r) \/ publishRemote(r) \/ publishLocked(r)

unpublish(r) ==
    IF ~row.here \/ ~row.active THEN Refuse(r, "conflict")
    ELSE IF ~row.public THEN Refuse(r, "ok")
    ELSE IF row.version # r.version THEN Refuse(r, "conflict")
    ELSE /\ row' = [row EXCEPT !.version = @ + 1, !.public = FALSE]
         /\ Answer(r, "ok", None)
         /\ UNCHANGED <<valid, vouched, held, node>>

\* reloadLatest reads the problem.
getProblem(r) ==
    IF row.here THEN Answer(r, "ok", row) /\ UNCHANGED serverVars ELSE Refuse(r, "refused")

\* The service still works on the request.
Running == {"sent", "before", "asking", "checked"}

Serve(r) ==
    /\ r.stage \in Running
    /\ \/ r.kind = "save" /\ update(r)
       \/ r.kind = "archive" /\ archive(r)
       \/ r.kind = "delete" /\ delete(r)
       \/ r.kind = "upload" /\ upload(r)
       \/ r.kind = "calibrate" /\ calibrate(r)
       \/ r.kind = "publish" /\ publish(r)
       \/ r.kind = "unpublish" /\ unpublish(r)
       \/ r.kind = "reload" /\ getProblem(r)
    /\ UNCHANGED <<queryVars, editor>>
    /\ Unbounded

-----------------------------------------------------------------------------
(* The problem query. *)

\* The query's data is set: an error page gives way to an editor, a mounted editor stays.
SetProblem(r) ==
    /\ cache' = r
    /\ failed' = FALSE
    /\ editor' = IF mounted /\ ~InEditor THEN Mounted(r) ELSE editor

\* The query of the check loses its only observer: its request is aborted, what it knows stays.
Unmount ==
    /\ editor' = None
    /\ wire' = IF InEditor THEN Orphaned ELSE wire
    /\ check' = [check EXCEPT !.asking = None]

\* The first load, a focus, an invalidation, "reload" on the error page.  An answer equal to
\* what the page has would change nothing.
RefetchReads ==
    /\ mounted /\ fetch = None
    /\ row # cache \/ failed
    /\ fetch' = row
    /\ UNCHANGED <<serverVars, wire, cache, failed, mounted, check, editor>> /\ Unbounded

RefetchArrives ==
    /\ fetch # None /\ fetch.here
    /\ SetProblem(fetch)
    /\ fetch' = None
    /\ UNCHANGED <<serverVars, wire, mounted, check>> /\ Unbounded

\* A failed refetch shows the error page: the editor unmounts with what was not saved.
RefetchFails ==
    /\ mounted
    /\ IF fetch # None /\ ~fetch.here THEN Unbounded ELSE Disturbed
    /\ fetch' = None
    /\ failed' = TRUE
    /\ Unmount
    /\ UNCHANGED <<serverVars, cache, mounted>>

-----------------------------------------------------------------------------
(* The query of the publish check. *)

\* An invalidation throws the running request away, unless there is no answer yet.
CheckInvalidated == check' = IF check.codes = None THEN check ELSE [check EXCEPT !.asking = None]

\* A success refreshes the queries: an answer on its way is thrown away.
refresh == fetch' = None /\ CheckInvalidated

Asking(a) ==
    /\ check' = [check EXCEPT !.asking = a]
    /\ UNCHANGED <<serverVars, wire, cache, failed, mounted, fetch, editor>>

\* A mutant: the check is asked for once.
AskCheckOnce ==
    /\ InEditor /\ check.asking = None /\ check.codes = None
    /\ Asking([stage |-> "sent", codes |-> {}, data |-> 0]) /\ Unbounded

\* Every ten seconds, after an invalidation, and on "check again".  An answer equal to what the
\* page has would change nothing.
AskCheck ==
    /\ InEditor /\ check.asking = None /\ check.codes # publishCheck
    /\ Asking([stage |-> "sent", codes |-> {}, data |-> 0]) /\ Unbounded

\* publishCheck, called by the page: its snapshot ...
CheckReads ==
    LET a == check.asking IN
    /\ a # None /\ a.stage = "sent" /\ row.here
    /\ Asking([stage |-> IF row.data = 0 THEN "answered" ELSE "asking", data |-> row.data,
               codes |-> localChecks(row) \union IF row.data = 0 THEN {"CALIBRATION"} ELSE {}])
    /\ Unbounded

\* ... and the answer of the judging service about the digest in it.
CheckAsks ==
    LET a == check.asking IN
    /\ a # None /\ a.stage = "asking"
    /\ Asking([a EXCEPT !.stage = "answered", !.codes = @ \union readiness(a.data)])
    /\ Unbounded

CheckArrives ==
    LET a == check.asking IN
    /\ a # None /\ a.stage = "answered"
    /\ check' = [codes |-> a.codes, asking |-> None]
    /\ UNCHANGED <<serverVars, wire, cache, failed, mounted, fetch, editor>> /\ Unbounded

\* An error is shown beside the last answer, which stays.
CheckFails ==
    LET a == check.asking IN
    /\ a # None
    /\ IF a.stage = "sent" /\ ~row.here THEN Unbounded ELSE Disturbed
    /\ Asking(None)

-----------------------------------------------------------------------------
(* Coming and going. *)

\* A cached problem is shown at once, however old.
Enter ==
    /\ ~mounted
    /\ Acted
    /\ mounted' = TRUE
    /\ editor' = IF cache # None /\ ~failed THEN Mounted(cache) ELSE None
    /\ UNCHANGED <<serverVars, wire, cache, failed, fetch, check>>

Gone ==
    /\ Unmount
    /\ mounted' = FALSE
    /\ fetch' = None

\* The blocker asks first when something would be lost; staying changes nothing.
LeaveControls == IF InEditor /\ hasUnsavedContent THEN {"stay", "discard"} ELSE {"leave"}

Leave ==
    /\ mounted /\ (InEditor => Uncovered)
    /\ "leave" \in LeaveControls \/ "discard" \in LeaveControls
    /\ Gone
    /\ UNCHANGED <<serverVars, cache, failed>> /\ Unbounded

-----------------------------------------------------------------------------
(* Editing and saving. *)

\* markChanged: a failed save is forgotten, which lets the timer run again.
Edit ==
    /\ InEditor /\ Uncovered
    /\ \E v \in FormControls :
        editor' = [editor EXCEPT !.form = v, !.saveError = IF Pending("save") THEN @ ELSE "none"]
    /\ Acted
    /\ UNCHANGED <<serverVars, wire, queryVars>>

\* onSubmit; a new attempt forgets the last one's error.
Submit(by) ==
    /\ ~titleMissing
    /\ Send("save", by)
    /\ editor' = [editor EXCEPT !.saveError = "none"]
    /\ UNCHANGED <<serverVars, queryVars>>

\* A mutant: a public problem is saved by the timer too.
AutosaveAlways ==
    /\ InEditor /\ editable /\ isDirty /\ ~titleMissing /\ ~Pending("save")
    /\ editor.saveError = "none"
    /\ Submit("timer") /\ Unbounded

\* A mutant: the timer is not set again after a save that came too early.
AutosaveOnce ==
    /\ InEditor /\ autosave /\ isDirty /\ ~titleMissing /\ ~Pending("save")
    /\ editor.saveError = "none" /\ ~editor.lastSaved
    /\ Submit("timer") /\ Unbounded

AutosaveDue ==
    InEditor /\ autosave /\ isDirty /\ ~titleMissing /\ ~Pending("save") /\ editor.saveError = "none"

AutosaveTimer ==
    /\ AutosaveDue
    /\ Submit("timer") /\ Unbounded

\* The button, or the shortcut, which needs neither a public problem nor an uncovered page.
Save ==
    /\ InEditor /\ editable /\ isDirty /\ ~Pending("save")
    /\ Submit("admin") /\ Acted

RetrySave ==
    /\ InEditor /\ Uncovered /\ "retry" \in ErrorControls
    /\ Submit("admin") /\ Acted

\* A mutant: what the form holds by now counts as saved.
SaveSucceedsForm(r) ==
    /\ cache' = r.answer
    /\ failed' = FALSE
    /\ refresh
    /\ editor' = [editor EXCEPT !.saved = editor.form, !.lastSaved = TRUE]

\* onSuccess records what was sent, not what the form holds by now.
SaveSucceeds(r) ==
    /\ cache' = r.answer
    /\ failed' = FALSE
    /\ refresh
    /\ editor' = [editor EXCEPT
                    !.saved = r.values,
                    !.lastSaved = TRUE,
                    !.savedDriver = r.values.driver,
                    !.driverChanged = @ \/ ( /\ IsCore /\ r.values.driver # NoDriver
                                             /\ r.values.driver # editor.savedDriver )]

SaveRejected(r) ==
    /\ editor' = [editor EXCEPT !.saveError = IF r.stage = "conflict" THEN "conflict" ELSE "failed"]
    /\ UNCHANGED <<cache, failed, fetch, check>>

\* The editor is gone, but onSuccess still sets the query's data.
SaveOrphaned(r) ==
    /\ SetProblem(r.answer)
    /\ refresh

\* The unsaved form is replaced by the service's values.
ReloadLatest ==
    /\ InEditor /\ Uncovered /\ "loadLatest" \in ErrorControls
    /\ Send("reload", "admin") /\ Acted
    /\ UNCHANGED <<serverVars, queryVars, editor>>

Reloaded(r) ==
    /\ cache' = r.answer /\ failed' = FALSE
    /\ editor' = [editor EXCEPT !.form = r.answer.values, !.saved = r.answer.values, !.saveError = "none"]
    /\ UNCHANGED <<fetch, check>>

-----------------------------------------------------------------------------
(* The dialogs. *)

Upload ==
    /\ InEditor /\ "test-data" \in PropertyControls /\ "upload" \in TestDataControls
    /\ Send("upload", "admin") /\ Acted
    /\ UNCHANGED <<serverVars, queryVars, editor>>

\* An aborted upload may have been executed all the same.
CancelUpload ==
    /\ InEditor /\ "cancelUpload" \in TestDataControls
    /\ \E r \in wire :
        /\ r.kind = "upload" /\ r.heard = "editor"
        /\ wire' = (wire \ {r}) \union
                   IF r.stage \in Running THEN {[r EXCEPT !.heard = "nobody"]} ELSE {}
    /\ UNCHANGED <<serverVars, queryVars, editor>> /\ Unbounded

TypeReference ==
    /\ InEditor /\ "reference" \in CalibrationControls
    /\ Acted
    /\ editor' = [editor EXCEPT !.reference = ~@]
    /\ UNCHANGED <<serverVars, wire, queryVars>>

EditLimits ==
    /\ InEditor /\ "limits" \in CalibrationControls
    /\ Acted
    /\ \E l \in {"valid", "invalid"} \ {editor.limits} : editor' = [editor EXCEPT !.limits = l]
    /\ UNCHANGED <<serverVars, wire, queryVars>>

\* Limits that do not convert to positive safe integers throw before anything is sent.
Calibrate ==
    /\ InEditor /\ "calibration" \in PropertyControls \union DriverControls
    /\ "run" \in CalibrationControls
    /\ editor.limits = "valid"
    /\ Send("calibrate", "admin") /\ Acted
    /\ UNCHANGED <<serverVars, queryVars, editor>>

ChangeVisibility ==
    /\ InEditor /\ Uncovered /\ "publish" \in PropertyControls
    /\ \E kind \in {"publish", "unpublish"} \intersect PublishControls : Send(kind, "admin")
    /\ Acted
    /\ UNCHANGED <<serverVars, queryVars, editor>>

\* The menu item is disabled by what the page knows when the dialog opens.
AskConfirmation ==
    /\ InEditor /\ Uncovered
    /\ \E what \in {"archive", "delete"} \intersect HeaderControls :
        editor' = [editor EXCEPT !.confirming = what]
    /\ UNCHANGED <<serverVars, wire, queryVars>> /\ Unbounded

CancelConfirmation ==
    /\ InEditor /\ "cancel" \in ConfirmControls
    /\ editor' = [editor EXCEPT !.confirming = "none"]
    /\ UNCHANGED <<serverVars, wire, queryVars>> /\ Unbounded

Confirm ==
    /\ InEditor /\ "confirm" \in ConfirmControls
    /\ Send(editor.confirming, "admin") /\ Acted
    /\ UNCHANGED <<serverVars, queryVars, editor>>


\* The reference is cleared, whatever the verdict; a valid one answers the changed driver.
Calibrated(r) ==
    [editor EXCEPT !.reference = FALSE, !.limits = "valid", !.driverChanged = @ /\ r.stage = "FAILED"]

JobSucceeds(r) ==
    /\ refresh
    /\ editor' = CASE r.kind = "calibrate" -> Calibrated(r)
                   [] r.kind = "archive" -> [editor EXCEPT !.confirming = "none"]
                   [] OTHER -> editor
    /\ UNCHANGED <<cache, failed>>

-----------------------------------------------------------------------------
(* What comes back. *)

Heard(r) == wire' = wire \ {r}

HearSave(r) ==
    /\ r.kind = "save"
    /\ Heard(r)
    /\ \/ r.heard = "editor" /\ r.stage = "ok" /\ SaveSucceeds(r)
       \/ r.heard = "editor" /\ r.stage # "ok" /\ SaveRejected(r)
       \/ r.heard = "page" /\ r.stage = "ok" /\ SaveOrphaned(r)
       \/ r.heard = "page" /\ r.stage # "ok" /\ UNCHANGED <<cache, failed, fetch, check, editor>>
    /\ UNCHANGED mounted

HearReload(r) ==
    /\ r.kind = "reload"
    /\ Heard(r)
    /\ \/ r.stage = "ok" /\ r.heard = "editor" /\ Reloaded(r)
       \/ r.stage = "ok" /\ r.heard = "page" /\ SetProblem(r.answer) /\ UNCHANGED <<fetch, check>>
       \/ r.stage # "ok" /\ UNCHANGED <<cache, failed, fetch, check, editor>>
    /\ UNCHANGED mounted

\* The refetch that follows a deletion finds nothing; the page goes to the list.
HearDeleted(r) ==
    /\ r.kind = "delete" /\ r.stage = "ok" /\ r.heard = "editor"
    /\ editor' = None
    /\ wire' = Orphaned \ {[r EXCEPT !.heard = "page"]}
    /\ failed' = TRUE /\ mounted' = FALSE /\ fetch' = None
    /\ check' = [check EXCEPT !.asking = None]
    /\ UNCHANGED cache

\* A refused request only shows its reason.
HearJob(r) ==
    /\ r.kind \notin {"save", "reload"}
    /\ Heard(r)
    /\ \/ r.stage \in {"ok", "FAILED"} /\ r.kind # "delete" /\ r.heard = "editor" /\ JobSucceeds(r)
       \/ r.stage \in {"ok", "FAILED"} /\ r.heard = "page"
          /\ refresh /\ UNCHANGED <<cache, failed, editor>>
       \/ r.stage \in {"conflict", "refused"} /\ UNCHANGED <<cache, failed, fetch, check, editor>>
    /\ UNCHANGED mounted

Hear(r) ==
    /\ r.stage \notin Running
    /\ HearSave(r) \/ HearReload(r) \/ HearDeleted(r) \/ HearJob(r)
    /\ UNCHANGED serverVars /\ Unbounded

\* The request or its answer is lost; one that was sent may be executed later.
Lost(r) ==
    /\ r.heard # "nobody"
    /\ Disturbed
    /\ wire' = (wire \ {r}) \union
               IF r.stage \in Running THEN {[r EXCEPT !.heard = "nobody"]} ELSE {}
    /\ editor' = IF r.kind = "save" /\ r.heard = "editor"
                 THEN [editor EXCEPT !.saveError = "failed"] ELSE editor
    /\ UNCHANGED <<serverVars, queryVars>>

\* Another administrator, on the latest row.
OtherAdministrator ==
    /\ Disturbed /\ row.here /\ row.active
    /\ \/ \E t \in Texts \ {row.values.text} :
            LET v == [row.values EXCEPT !.text = t]
            IN /\ row.public => Whole(v)
               /\ row' = Written(row, v, "other") /\ held' = held \union {v}
       \/ ~row.public /\ publishCheck = {} /\ UNCHANGED held
          /\ row' = [row EXCEPT !.version = @ + 1, !.public = TRUE, !.published = TRUE]
       \/ row.public /\ UNCHANGED held /\ row' = [row EXCEPT !.version = @ + 1, !.public = FALSE]
       \/ UNCHANGED held /\ \E d \in Digests \ {row.data} : row' = [row EXCEPT !.data = d]
    /\ UNCHANGED <<valid, vouched, node, wire, queryVars, editor>>

NodeChanges ==
    /\ Disturbed
    /\ node' = ~node
    /\ UNCHANGED <<row, valid, vouched, held, wire, queryVars, editor>>

Query == RefetchReads \/ RefetchArrives \/ RefetchFails
CheckAnswered == CheckReads \/ CheckAsks
Check == AskCheck \/ CheckAnswered \/ CheckArrives \/ CheckFails
Visit == Enter \/ Leave
Writing == Edit \/ AutosaveTimer \/ Save \/ RetrySave \/ ReloadLatest
Dialogs ==
    \/ Upload \/ CancelUpload \/ TypeReference \/ EditLimits \/ Calibrate \/ ChangeVisibility
    \/ AskConfirmation \/ CancelConfirmation \/ Confirm
Served == \E r \in wire : Serve(r)
Heeded == \E r \in wire : Hear(r)
Around == OtherAdministrator \/ NodeChanges \/ \E r \in wire : Lost(r)

Next == Query \/ Check \/ Visit \/ Writing \/ Dialogs \/ Served \/ Heeded \/ Around

Spec == Init /\ [][Next]_vars

\* The timers of the page run, and requests are served and answered (or time out).
Fairness ==
    /\ WF_vars(AutosaveTimer) /\ WF_vars(AskCheck) /\ WF_vars(CheckAnswered) /\ WF_vars(CheckArrives)
    /\ WF_vars(Served) /\ WF_vars(Heeded)

FairSpec == Spec /\ Fairness

-----------------------------------------------------------------------------
(* Properties. *)

Same(v, stored) == Stored(v, stored) = stored

\* What the page calls saved was stored by the service: text typed while a save was on its way,
\* a save whose answer was lost and a save that was refused are never taken for saved (the
\* comment of setSavedValues).  A blank driver is the exception: it is not sent.
SavedWasStored ==
    InEditor /\ SaveStatus \in {"saved", "automatic"} => \E v \in held : Same(editor.form, v)

\* The text of a public problem never changes because of the timer: students only see what an
\* administrator saved on purpose, even when the problem was published by somebody else while a
\* timed save was on its way (the comment above WorkbenchEditor).
PublicTextIsConfirmed == [][row.public /\ row'.values # row.values => row'.by # "timer"]_vars

\* A publication whose first snapshot had the row's data asked the judging service about other
\* data: it was replaced and put back in between.
PutBack ==
    \E r \in wire :
        r.kind = "publish" /\ r.stage = "checked" /\ r.data = row.data /\ r.asked # row.data

\* A problem becomes public only with test data that a valid calibration vouches for, although
\* the judging service is asked outside the transactions and the data may be replaced before,
\* between and after its answer.  The exception is data that was replaced and put back while the
\* publication ran, which the code does publish: it compares the locked digest with its first
\* snapshot's (ProblemPublicationService.java:218), not with the one it asked about.
PublicDataWasCalibrated == [][~row.public /\ row'.public => row.data \in vouched \/ PutBack]_vars

\* An edit of a private problem reaches the service, or the page says why not: while it stays open
\* it is never for good between the two, whatever is edited while a save runs, whoever else
\* changes the row and whichever answer is lost.
EditsAreSaved ==
    []<>(InEditor /\ autosave =>
            SaveStatus \in {"failed", "untitled"} \/ (~isDirty /\ \E v \in held : Same(editor.form, v)))

\* The publish check catches up with what the service would answer, also when its answer was
\* overtaken by an upload or a calibration, failed, or was thrown away by an invalidation: an open
\* dialog does not stay with an outdated verdict.
CheckCatchesUp == []<>(InEditor /\ row.here => check.codes = publishCheck)

-----------------------------------------------------------------------------
(* Types, and the invariant behind the properties. *)

Rows ==
    [here : BOOLEAN, version : Nat, values : Values, public : BOOLEAN, active : BOOLEAN,
     published : BOOLEAN, data : Digests \union {0}, by : {"admin", "timer", "other"}]

Editors ==
    [form : Values, saved : Values, lastSaved : BOOLEAN, saveError : {"none", "conflict", "failed"},
     savedDriver : Drivers \union {NoDriver}, driverChanged : BOOLEAN, reference : BOOLEAN,
     limits : {"valid", "invalid"}, confirming : {"none", "archive", "delete"}]

Kinds == {"save", "reload", "upload", "calibrate", "publish", "unpublish", "archive", "delete"}

Requests ==
    [kind : Kinds, version : Nat, values : Values \union {None}, by : {"admin", "timer"},
     data : Digests \union {0}, asked : Digests \union {0},
     stage : Running \union {"ok", "FAILED", "conflict", "refused"}, answer : Rows \union {None},
     heard : {"editor", "page", "nobody"}]

Codes == {"CONTENT", "SAMPLES", "LANGUAGE", "TEST_DATA", "ONLINE_JUDGE_NODE", "CALIBRATION"}

Askings == [stage : {"sent", "asking", "answered"}, codes : SUBSET Codes, data : Digests \union {0}]

Checks == [codes : (SUBSET Codes) \union {None}, asking : Askings \union {None}]

ASSUME NoneAssumption == None \notin Rows /\ None \notin Editors /\ None \notin Askings

TypeOK ==
    /\ row \in Rows /\ valid \in Digests \union {0} /\ vouched \subseteq Digests \union {0}
    /\ held \subseteq Values /\ node \in BOOLEAN
    /\ wire \subseteq Requests
    /\ cache \in Rows \union {None} /\ fetch \in Rows \union {None}
    /\ failed \in BOOLEAN /\ mounted \in BOOLEAN /\ check \in Checks
    /\ editor \in Editors \union {None}
    /\ acts \in Nat /\ faults \in Nat

\* A copy of the row: what it said was stored, and whether the problem is public
\* can only have changed with the version.
WasRow(s) ==
    /\ s.values \in held
    /\ s.version <= row.version
    /\ s.version = row.version => s.public = row.public

\* The service held these values when it answered.
WasHeld(v) == \E w \in held : Same(v, w)

\* What a request carries: the copy of the row in its answer, the values of a save,
\* the version of a private row in one by the timer, and the data a publication
\* asked about is vouched for once the judging service has answered.
RequestFits(r) ==
    /\ r.kind \in {"save", "reload"} /\ r.stage = "ok" => r.answer # None /\ WasRow(r.answer)
    /\ r.kind = "save" => r.values \in Values /\ (r.stage = "ok" => WasHeld(r.values))
    /\ r.kind = "save" /\ r.by = "timer" =>
           r.version <= row.version /\ (r.version = row.version => ~row.public)
    /\ r.kind = "publish" /\ r.stage = "asking" => r.asked # 0
    /\ r.kind = "publish" /\ r.stage = "checked" => r.asked \in vouched

\* The inductive invariant of the workbench.
WorkbenchInv ==
    /\ TypeOK
    /\ row.values \in held /\ valid \in vouched \union {0}
    /\ \A s \in {cache, fetch} : s # None => WasRow(s)
    /\ \A r \in wire : RequestFits(r) /\ (r.heard = "editor" => InEditor)
    /\ InEditor => mounted /\ cache # None /\ WasHeld(editor.saved)
=============================================================================
