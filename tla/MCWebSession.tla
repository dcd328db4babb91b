------------------------------ MODULE MCWebSession ------------------------------
(* The web session for TLC: an administrator and a user who must change the  *)
(* password.                                                                *)
EXTENDS AdminPages
=============================================================================
