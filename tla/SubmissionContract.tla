------------------------- MODULE SubmissionContract -------------------------
(***************************************************************************)
(* What a formal submission promises its author, without messages, leases  *)
(* or attempts: it is created once, it is judged, its verdict is decided   *)
(* once, and the verdict it shows is the one that was decided.             *)
(***************************************************************************)
CONSTANTS Submissions, Verdicts, Undecided

VARIABLES
  shown,    \* the status a user reads
  verdict,  \* the verdict a user reads
  decided   \* the verdict the platform has settled on, or Undecided

contractVars == <<shown, verdict, decided>>

Init ==
  /\ shown = [s \in Submissions |-> "NONE"]
  /\ verdict = [s \in Submissions |-> Undecided]
  /\ decided = [s \in Submissions |-> Undecided]

Create(s) ==
  /\ shown[s] = "NONE"
  /\ shown' = [shown EXCEPT ![s] = "PENDING"]
  /\ UNCHANGED <<verdict, decided>>

\* Judging becomes visible, possibly after the verdict has been decided.
Begin(s) ==
  /\ shown[s] = "PENDING"
  /\ shown' = [shown EXCEPT ![s] = "JUDGING"]
  /\ UNCHANGED <<verdict, decided>>

Decide(s, v) ==
  /\ shown[s] \in {"PENDING", "JUDGING"}
  /\ decided[s] = Undecided
  /\ decided' = [decided EXCEPT ![s] = v]
  /\ UNCHANGED <<shown, verdict>>

Announce(s) ==
  /\ shown[s] \in {"PENDING", "JUDGING"}
  /\ decided[s] # Undecided
  /\ shown' = [shown EXCEPT ![s] = "DONE"]
  /\ verdict' = [verdict EXCEPT ![s] = decided[s]]
  /\ UNCHANGED decided

Next ==
  \E s \in Submissions :
    \/ Create(s) \/ Begin(s) \/ Announce(s)
    \/ \E v \in Verdicts : Decide(s, v)

Spec == Init /\ [][Next]_contractVars
=============================================================================
