--------------------------- MODULE MCSourceEditor ---------------------------
(***************************************************************************)
(* One editor in one of two tabs, for TLC.                                 *)
(***************************************************************************)
EXTENDS SourceEditor

MCRegistry == <<"cherry-black", "pure-white">>
=============================================================================
