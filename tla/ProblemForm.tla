----------------------------- MODULE ProblemForm -----------------------------
(***************************************************************************)
(* The values of the problem workbench's form and the edits its controls    *)
(* make: the title and the prose, the tags (problem-tag-property.tsx), the  *)
(* samples (problem-sample-list.tsx) and the driver code.  The Markdown     *)
(* sections, the difficulty and the starter code are edited alike and are   *)
(* one field, `text', with the title.                                      *)
(***************************************************************************)
EXTENDS Naturals, Sequences, SequencesExt

CONSTANTS
    Texts,          \* what the administrator may write
    Untitled,       \* a text whose title is blank
    Unfinished,     \* the texts without a section that a public problem needs
    Tags,           \* what may be typed as a tag
    TooLong,        \* those over 32 characters
    TagLimit,       \* how many tags a problem may have (20)
    Filled,         \* a sample with an input and an output
    Drivers,        \* driver codes
    NoDriver,       \* an empty driver field
    IsCore          \* the problem's code mode is CORE

ASSUME FormAssumption ==
    /\ TagLimit \in Nat
    /\ TooLong \subseteq Tags
    /\ IsCore \in BOOLEAN
    /\ Untitled \notin Texts
    /\ NoDriver \notin Drivers
    /\ Filled # "emptySample"

Values ==
    [text: Texts \union {Untitled}, tags: Seq(Tags \ TooLong),
     samples: Seq({Filled, "emptySample"}), driver: Drivers \union {NoDriver}]

\* The values that have a title; the others are never sent.
Titled(v) == v.text # Untitled

-----------------------------------------------------------------------------
(* The samples. *)

updateSample(s) == {ReplaceAt(s, i, Filled) : i \in {j \in 1..Len(s) : s[j] # Filled}}

\* The buttons are disabled at the ends, where there is no neighbour.
move(s) == {[s EXCEPT ![i] = s[i + 1], ![i + 1] = s[i]] : i \in 1..(Len(s) - 1)}

duplicate(s) == {InsertAt(s, i + 1, s[i]) : i \in 1..Len(s)}

remove(s) == {RemoveAt(s, i) : i \in 1..Len(s)}

SampleEdits(s) ==
    updateSample(s) \union move(s) \union duplicate(s) \union remove(s) \union {Append(s, "emptySample")}

-----------------------------------------------------------------------------
(* The tags. *)

\* Enter, a comma, or closing the popover; a refused tag stays in the input.
addDraft(t) ==
    {Append(t, tag) : tag \in {x \in Tags \ TooLong : ~Contains(t, x) /\ Len(t) < TagLimit}}

\* The cross of a tag; backspace in the empty input removes the last one.
dropTag(t) == {RemoveAt(t, i) : i \in 1..Len(t)}

-----------------------------------------------------------------------------
\* "Fill in the skeleton" is offered while the driver field is blank.
DriverEdits(d) == IF IsCore THEN (Drivers \union {NoDriver}) \ {d} ELSE {}

\* One edit of the form.
Edits(v) ==
    {[v EXCEPT !.text = t] : t \in (Texts \union {Untitled}) \ {v.text}}
    \union {[v EXCEPT !.tags = t] : t \in addDraft(v.tags) \union dropTag(v.tags)}
    \union {[v EXCEPT !.samples = s] : s \in SampleEdits(v.samples) \ {v.samples}}
    \union {[v EXCEPT !.driver = d] : d \in DriverEdits(v.driver)}

\* The body of a save says nothing of a blank driver, and the service then keeps its own.
Stored(v, old) ==
    [v EXCEPT !.driver = IF IsCore /\ v.driver # NoDriver THEN v.driver ELSE old.driver]

\* The sections and the samples a public problem must keep.
Whole(v) == v.text \notin Unfinished \union {Untitled} /\ v.samples # <<>>
=============================================================================
