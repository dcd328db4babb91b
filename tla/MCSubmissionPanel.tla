------------------------- MODULE MCSubmissionPanel -------------------------
(* Model checking of SubmissionPanel. *)
EXTENDS SubmissionPanel
=============================================================================
