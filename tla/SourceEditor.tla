---------------------------- MODULE SourceEditor ----------------------------
(***************************************************************************)
(* The editors of the web client and the page that owns their text: the     *)
(* code editor (components/ui/code-editor.tsx over Monaco), the text editor *)
(* that replaces it on touch screens (text-editor.tsx over CodeMirror), and *)
(* the editor of statements (rich-markdown-editor.tsx over Tiptap).         *)
(*                                                                         *)
(* The page renders an editor with a value and its settings (here: the      *)
(* colour scheme, which stands for all of them).  React commits what was    *)
(* rendered and runs the effects of the commit later, but before the next   *)
(* one.  The user types, composes with an input method, and the page        *)
(* replaces the value on its own, all at any time in between.  Every text   *)
(* is a number of its own; a negative number is Markdown that the editor of *)
(* statements writes in another way, as the positive one.                   *)
(***************************************************************************)
EXTENDS ThemeRuntime

CONSTANT Here       \* the tab of the editor

ASSUME HereAssumption == Here \in Tabs

VARIABLES
    value,          \* the text the page holds
    origin,         \* history, where it is from: "page", "user", "composed" or "echo"
    kind,           \* the editor the page wants: "code", "text", "rich"
    attempt,        \* how often the code editor was asked to load again
    props,          \* what was committed: value, scheme, kind, attempt
    due,            \* the effects of the commit that have yet to run
    latest,         \* latest.current of the code editor
    loads,          \* the loads of the code editor under way
    run,            \* the load whose effect is active, 0 for none
    runs,           \* how many loads were started
    status,         \* "loading", "ready", "error"
    views,          \* the Monaco views that are not disposed
    view,           \* the view that is shown
    typed,          \* history: the view holds an edit of the user it has not reported
    skipped,        \* history: a value from outside met a composition
    fresh           \* the last text used

codeVars == <<latest, loads, run, runs, status, views>>
historyVars == <<typed, skipped>>
editorVars == <<value, origin, kind, attempt, props, due, codeVars, view, historyVars, fresh>>
vars == <<themeVars, editorVars, acts, faults>>

scheme == theme[Here]

NoView == [is |-> "none", doc |-> 0, reported |-> 0, scheme |-> "none",
           ime |-> FALSE, composing |-> FALSE, frame |-> FALSE]

Markdown(text) == IF text < 0 THEN -text ELSE text

\* How an editor shows a text.
Shown(k, text) == IF k = "rich" THEN Markdown(text) ELSE text

Wanted == [value |-> value, scheme |-> scheme, kind |-> kind, attempt |-> attempt]

-----------------------------------------------------------------------------
(* What the page does. *)

\* onChange of the page, called by an editor.
onChange(text, from) == value' = text /\ origin' = from

Silent == UNCHANGED <<value, origin>>

\* A draft of another tab, the version of the server, a reset.
Replace ==
    /\ Disturbed
    /\ fresh' = fresh + 1 /\ value' = (IF kind = "rich" THEN -fresh' ELSE fresh') /\ origin' = "page"
    /\ UNCHANGED <<themeVars, kind, attempt, props, due, codeVars, view, historyVars, acts>>

\* The pointer of the device changes: the page wants the other editor.
SwitchKind ==
    /\ Acted /\ kind \in {"code", "text"}
    /\ kind' = (IF kind = "code" THEN "text" ELSE "code")
    /\ UNCHANGED <<themeVars, value, origin, attempt, props, due, codeVars, view, historyVars, fresh, faults>>

\* The button under the message that the editor could not be loaded.
LoadAgain ==
    /\ Acted /\ props.kind = "code" /\ status = "error"
    /\ status' = "loading" /\ attempt' = attempt + 1
    /\ UNCHANGED <<themeVars, value, origin, kind, props, due, latest, loads, run, runs, views, view,
                   historyVars, fresh, faults>>

Commit ==
    /\ due = {} /\ props # Wanted
    /\ props' = Wanted
    /\ due' = IF kind # props.kind THEN {"mount"}
              ELSE {e \in {"value", "scheme", "attempt"} : props[e] # Wanted[e]}
    /\ UNCHANGED <<themeVars, value, origin, kind, attempt, codeVars, view, historyVars, fresh, acts, faults>>

-----------------------------------------------------------------------------
(* The effects of a commit. *)

\* A new view of Monaco, of CodeMirror, of Tiptap.
createCodeEditor(text, s) == [NoView EXCEPT !.is = "code", !.doc = text, !.reported = text, !.scheme = s]
EditorView(text, s) == [NoView EXCEPT !.is = "text", !.doc = text, !.reported = text, !.scheme = s]
useEditor(text, s) == [NoView EXCEPT !.is = "rich", !.doc = Markdown(text), !.reported = text, !.scheme = s]

\* The value of the page goes into the view, unless the user composes.
setValue(v, text) == IF v.composing \/ v.doc = text THEN v ELSE [v EXCEPT !.doc = text, !.reported = text]

ValueEffect(v, text) ==
    IF v.composing \/ v.ime \/ v.doc = text THEN v ELSE [v EXCEPT !.doc = text, !.reported = text]

\* The editor of statements compares with what it last reported instead.
setContent(v, text) ==
    IF v.reported = text THEN v ELSE [v EXCEPT !.doc = Markdown(text), !.reported = text]

Given(v, text) ==
    CASE v.is = "none" -> v
      [] v.is = "code" -> setValue(v, text)
      [] v.is = "text" -> ValueEffect(v, text)
      [] v.is = "rich" -> setContent(v, text)

\* The settings of a view.
updateSettings(v, s) == [v EXCEPT !.scheme = s]
reconfigure(v, s) == [v EXCEPT !.scheme = s]
setEditable(v, s) == [v EXCEPT !.scheme = s]

Configured(v, s) ==
    CASE v.is = "none" -> v
      [] v.is = "code" -> updateSettings(v, s)
      [] v.is = "text" -> reconfigure(v, s)
      [] v.is = "rich" -> setEditable(v, s)

\* Mutant: the view of an attempt that is over stays.
KeepsView == views

\* The clean-up of an attempt disposes the view it owns.
dispose == IF view.is = "code" THEN views \ {run} ELSE views

\* Mutant: a text from outside is reported like one the user typed.
HeardFromOutside(v, external) == v.is = "rich" \/ ~(v.composing \/ v.ime)

\* Does the listener for changes of the document report v?  external is
\* applyingExternalValue of the code and the text editor, and the reverse of
\* emitUpdate of the editor of statements.
Heard(v, external) == ~external /\ (v.is = "rich" \/ ~(v.composing \/ v.ime))

\* A new component, or another attempt of the code editor.
MountEffects ==
    /\ views' = dispose
    /\ IF props.kind = "code"
       THEN /\ runs' = runs + 1 /\ run' = runs'
            /\ loads' = loads \cup {[run |-> runs', at |-> "import", from |-> latest']}
            /\ view' = NoView
       ELSE /\ run' = 0
            /\ view' = IF props.kind = "text" THEN EditorView(props.value, props.scheme)
                       ELSE useEditor(props.value, props.scheme)
            /\ UNCHANGED <<runs, loads>>
    /\ status' = IF "mount" \in due THEN "loading" ELSE status
    /\ typed' = FALSE /\ skipped' = FALSE
    /\ Silent

\* Another value or other settings for a component that is there.
UpdateEffects ==
    /\ LET given == IF "value" \in due THEN Given(view, props.value) ELSE view IN
       /\ view' = IF "scheme" \in due THEN Configured(given, props.scheme) ELSE given
       /\ typed' = typed
       /\ skipped' = IF given.doc # view.doc THEN FALSE
                     ELSE skipped \/ ("value" \in due /\ (view.ime \/ view.composing) /\ view.reported # props.value)
       /\ IF given.doc # view.doc /\ Heard(given, TRUE) THEN onChange(given.doc, "echo") ELSE Silent
    /\ UNCHANGED <<loads, run, runs, status, views>>

Effects ==
    /\ due # {}
    /\ due' = {}
    /\ latest' = [value |-> props.value, scheme |-> props.scheme]
    /\ IF due \cap {"mount", "attempt"} # {} THEN MountEffects ELSE UpdateEffects
    /\ UNCHANGED <<themeVars, kind, attempt, props, fresh, acts, faults>>

-----------------------------------------------------------------------------
(* The code editor loads. *)

active(l) == l.run = run

loadVars == <<themeVars, kind, attempt, props, due, latest, run, runs, value, origin, fresh, acts>>

\* The chunk of the editor was fetched.
Imported(l) ==
    /\ l.at = "import"
    /\ loads' = (loads \ {l}) \cup (IF active(l) THEN {[l EXCEPT !.at = "colorize", !.from = latest]} ELSE {})
    /\ UNCHANGED <<loadVars, status, views, view, historyVars, faults>>

\* createCodeEditor has a view on the host.
Created(l) ==
    /\ l.at = "colorize"
    /\ loads' = (loads \ {l}) \cup {[l EXCEPT !.at = "created"]}
    /\ views' = views \cup {l.run}
    /\ UNCHANGED <<loadVars, status, view, historyVars, faults>>

\* Mutant: the view keeps the value the load began with.
AttachedAsCreated(l) == createCodeEditor(l.from.value, l.from.scheme)

\* The view as it is when the editor is ready.
AttachedView(l) ==
    updateSettings(setValue(createCodeEditor(l.from.value, l.from.scheme), latest.value), latest.scheme)

\* The component uses the view, or disposes it when it is gone meanwhile.
Attached(l) ==
    /\ l.at = "created"
    /\ loads' = loads \ {l}
    /\ IF active(l)
       THEN view' = AttachedView(l) /\ status' = "ready" /\ typed' = FALSE /\ UNCHANGED <<views, skipped>>
       ELSE views' = views \ {l.run} /\ UNCHANGED <<view, status, historyVars>>
    /\ UNCHANGED <<loadVars, faults>>

\* The chunk or its creation fails; the model is disposed on the way.
LoadFails(l) ==
    /\ l.at \in {"import", "colorize"} /\ Disturbed
    /\ loads' = loads \ {l}
    /\ status' = IF active(l) THEN "error" ELSE status
    /\ UNCHANGED <<loadVars, views, view, historyVars>>

-----------------------------------------------------------------------------
(* What the user does in the view. *)

inputVars == <<themeVars, kind, attempt, props, due, codeVars>>

Usable == view.is = props.kind

\* The view reports its text.
Report(v, from) ==
    /\ view' = [v EXCEPT !.reported = v.doc]
    /\ typed' = FALSE /\ skipped' = FALSE
    /\ onChange(v.doc, from)

Unreported(v, edited) ==
    /\ view' = v
    /\ typed' = edited /\ skipped' = skipped
    /\ Silent

\* The text editor reports nothing twice.
notifyChange(v, from) == IF v.doc = v.reported THEN Unreported(v, FALSE) ELSE Report(v, from)

\* A change of the document, reported at once unless it is being composed.
Type ==
    /\ Usable /\ Acted
    /\ fresh' = fresh + 1
    /\ LET v == [view EXCEPT !.doc = fresh'] IN
       IF ~Heard(v, FALSE) THEN Unreported(v, TRUE)
       ELSE IF view.is = "text" THEN notifyChange(v, "user") ELSE Report(v, "user")
    /\ UNCHANGED <<inputVars, faults>>

beginComposition ==
    /\ Usable /\ view.is # "rich" /\ ~view.ime /\ Acted
    /\ view' = [view EXCEPT !.ime = TRUE, !.composing = TRUE, !.frame = FALSE]
    /\ UNCHANGED <<inputVars, value, origin, historyVars, fresh, faults>>

\* The text editor waits for a frame; the code editor reports at once, whether
\* or not the composition changed anything.
finishComposition(v) == Unreported([v EXCEPT !.ime = FALSE, !.frame = TRUE], typed)
compositionEnd(v) ==
    Report([v EXCEPT !.ime = FALSE, !.composing = FALSE], IF typed THEN "user" ELSE "composed")

EndComposition ==
    /\ view.ime
    /\ IF view.is = "text" THEN finishComposition(view) ELSE compositionEnd(view)
    /\ UNCHANGED <<inputVars, fresh, acts, faults>>

\* Mutant: the frame ends the composition and reports nothing.
FrameIsSilent(v) == Unreported(v, typed)

FrameReports(v) == notifyChange(v, IF typed THEN "user" ELSE "echo")

compositionFrame ==
    /\ view.frame
    /\ FrameReports([view EXCEPT !.frame = FALSE, !.composing = FALSE])
    /\ UNCHANGED <<inputVars, fresh, acts, faults>>

-----------------------------------------------------------------------------
ThemeStep ==
    /\ \/ \E t \in Tabs : switchTheme(t) \/ handleStorage(t)
       \/ \E t \in Tabs \ {Here} : initializeTheme(t) \/ createThemeController(t) \/ Reload(t)
       \/ Foreign
    /\ UNCHANGED editorVars

Init ==
    /\ ThemeInit
    /\ value = 0 /\ origin = "page" /\ kind \in {"code", "text", "rich"} /\ attempt = 0
    /\ props = Wanted /\ due = {"mount"}
    /\ latest = [value |-> 0, scheme |-> scheme]
    /\ loads = {} /\ run = 0 /\ runs = 0 /\ status = "loading" /\ views = {} /\ view = NoView
    /\ typed = FALSE /\ skipped = FALSE /\ fresh = 0

Next ==
    \/ ThemeStep
    \/ Replace \/ SwitchKind \/ LoadAgain \/ Commit \/ Effects
    \/ \E l \in loads : Imported(l) \/ Created(l) \/ Attached(l) \/ LoadFails(l)
    \/ Type \/ beginComposition \/ EndComposition \/ compositionFrame

Spec == Init /\ [][Next]_vars

-----------------------------------------------------------------------------
(* Properties. *)

\* Nothing of the editor is under way.
Settled == due = {} /\ props = Wanted /\ view.is # "none" /\ ~view.ime /\ ~view.frame

\* At rest an editor shows the text the page holds, in the theme of the tab:
\* neither a value that came while it was loading, composing or being replaced
\* by another editor, nor a text the user typed then, is lost between them.
\* Two texts are lost in the code: a value that meets a composition (skipped),
\* and, which the page cannot see, one that is being composed when its editor
\* is replaced (the clean-up at text-editor.tsx:243-250 reports nothing).
EditorShowsTheValue ==
    Settled => view.scheme = scheme /\ (skipped \/ view.doc = Shown(view.is, value))

\* The text of the page is only replaced by the page itself, or by an edit the
\* user made in the view after it got its text: what an editor is given is
\* never reported back (applyingExternalValue, emitUpdate and
\* lastReportedValueRef), so that it cannot replace a newer value, and opening a
\* statement does not rewrite it.  One report is excepted, which does replace a
\* newer value: the code editor's at the end of a composition that changed
\* nothing (code-editor-runtime.ts:117-120).
NoEcho == origin # "echo"

\* Every Monaco view that is not disposed is the one shown, or belongs to a
\* load that will decide its fate: loads that end after their component is
\* gone, or after they were tried again, leave nothing behind.
NoViewIsLeaked ==
    views = (IF view.is = "code" THEN {run} ELSE {}) \cup {l.run : l \in {m \in loads : m.at = "created"}}

\* A choice of theme that was stored and that no other one crosses reaches
\* every tab, and is what the next visit shows.  Not reached is a tab that has
\* its theme from theme-init.js but no listener yet when the choice is made:
\* the controller reads the storage and keeps the theme that is there
\* (theme-runtime.ts:126-128), until the next choice or visit.
SwitchReachesEveryTab ==
    apart \/ \A t \in Tabs \ unheard :
                 theme[t] # "none" /\ events[t] = <<>> => theme[t] = resolveTheme(stored)

-----------------------------------------------------------------------------
(* The invariant behind the properties. *)

Schemes == Themes \cup {"none"}
Editors == {"code", "text", "rich"}
Values == [value : Int, scheme : Schemes]

Views == [is : Editors \cup {"none"}, doc : Int, reported : Int, scheme : Schemes,
          ime : BOOLEAN, composing : BOOLEAN, frame : BOOLEAN]

Loads == [run : Nat \ {0}, at : {"import", "colorize", "created"}, from : Values]

PageTypes ==
    /\ value \in Int /\ origin \in {"page", "user", "composed", "echo"} /\ kind \in Editors /\ attempt \in Nat
    /\ props \in [value : Int, scheme : Schemes, kind : Editors, attempt : Nat]
    /\ due \subseteq {"mount", "value", "scheme", "attempt"} /\ fresh \in Nat

ViewTypes ==
    /\ latest \in Values /\ view \in Views
    /\ typed \in BOOLEAN /\ skipped \in BOOLEAN

LoadTypes ==
    /\ loads \subseteq Loads /\ run \in Nat /\ runs \in Nat /\ views \subseteq Nat
    /\ status \in {"loading", "ready", "error"}

\* A text somebody has seen.
Old(text) == -fresh <= text /\ text <= fresh

TextsAreOld == Old(value) /\ Old(props.value) /\ Old(latest.value) /\ Old(view.doc)

\* The user composes, or a frame ago composed, what was not reported; only then
\* does a view show something else than it reported.
CompositionIsTheUsers ==
    /\ view.composing <=> (view.ime \/ view.frame)
    /\ view.frame => view.is = "text" /\ ~view.ime
    /\ view.composing => view.is \in {"code", "text"}
    /\ typed => view.composing
    /\ typed \/ view.doc = Shown(view.is, view.reported)

\* The effects that are due neither mount a component nor load it again.
Stays == due \cap {"mount", "attempt"} = {}

\* What no effect has yet to bring to the view has been brought to it.
EffectsBring ==
    Stays => /\ "value" \in due \/ latest.value = props.value
             /\ "scheme" \in due \/ latest.scheme = props.scheme
             /\ view.is = "none" \/ "scheme" \in due \/ view.scheme = props.scheme
             /\ \/ view.is = "none" \/ "value" \in due \/ skipped
                \/ value # props.value \/ view.reported = value

\* Loads are numbered in the order they start, and the one that is over has
\* its view shown.
LoadsAreNumbered ==
    /\ run <= runs
    /\ \A l \in loads : l.run <= runs /\ (view.is = "code" => l.run # run)
    /\ \A l, m \in loads : l.run = m.run => l = m

EditorInv ==
    /\ PageTypes /\ ViewTypes /\ LoadTypes /\ TextsAreOld /\ CompositionIsTheUsers /\ EffectsBring
    /\ LoadsAreNumbered /\ NoEcho /\ NoViewIsLeaked
=============================================================================
