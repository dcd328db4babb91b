------------------------ MODULE MCSubmissionPipeline ------------------------
(***************************************************************************)
(* The whole pipeline for two create calls with one Idempotency-Key.       *)
(***************************************************************************)
EXTENDS SubmissionPipeline

CONSTANTS s1, s2, t1, t2, k1, d1, i1

MCTaskOf == [s \in Submissions |-> IF s = s1 THEN t1 ELSE t2]
OneKeyOf == [s \in Submissions |-> k1]
MCDigestOf == [s \in Submissions |-> d1]

Accepted == [verdict |-> "AC", message |-> "none"]
CutCompileError == [verdict |-> "CE", message |-> "cut"]

CutDiagnostics == {Accepted, CutCompileError}
=============================================================================
