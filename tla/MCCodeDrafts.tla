---------------------------- MODULE MCCodeDrafts ----------------------------
(* Two tabs over one localStorage. *)
EXTENDS CodeDrafts
=============================================================================
