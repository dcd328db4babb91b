---------------------------- MODULE MCSolvePage ----------------------------
(* Model checking of SolvePage. *)
EXTENDS SolvePage

CONSTANT MaxTogether        \* bound: acts and faults together

MCNext == Next /\ acts' + faults' <= MaxTogether

MCSpec == Init /\ [][MCNext]_vars /\ Fairness
=============================================================================
