------------------------- MODULE MCProblemWorkbench -------------------------
(***************************************************************************)
(* Model checking of ProblemWorkbench.  A problem that is calibrated at     *)
(* first goes further than one without data or without a calibration.       *)
(***************************************************************************)
EXTENDS ProblemWorkbench

CONSTANTS t1, t2, s1, d1

VARIABLE budget     \* bound: acts and faults together

MCFirst == [text |-> t1, tags |-> <<>>, samples |-> <<s1>>, driver |-> d1]

MCInit == Init /\ budget = IF valid = 0 THEN MaxActs ELSE MaxActs + MaxFaults

MCNext == Next /\ acts' + faults' <= budget /\ UNCHANGED budget

MCSpec == MCInit /\ [][MCNext]_<<vars, budget>> /\ Fairness
=============================================================================
