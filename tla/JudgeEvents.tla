---------------------------- MODULE JudgeEvents ----------------------------
(***************************************************************************)
(* The messages that submission-service and judging-service exchange over  *)
(* the two Kafka topics judge.requests.v1 and judge.lifecycle.v1, and the  *)
(* judge results they carry.                                               *)
(*                                                                         *)
(* An event's id (a fresh UUIDv7) is not a field of its own: the services  *)
(* write one JudgeRequested per submission, one JudgeStarted per attempt   *)
(* and one terminal event per finished task, so the record is its own id.  *)
(***************************************************************************)
EXTENDS Naturals

CONSTANTS
  Submissions,  \* submission ids, one per call of SubmissionService.create
  Tasks,        \* judge_task ids
  TaskOf        \* the id the judge_task row of a submission is given

ASSUME TaskOfAssumption == TaskOf \in [Submissions -> Tasks]

\* The verdicts of a finished judgement.  "AC" stands for every verdict whose
\* result carries no message (AC, WA, PE, TLE, MLE, OLE, RE): neither service
\* treats them differently.
Verdicts == {"AC", "CE", "SE"}

\* The diagnostic of a result: absent, some text, or a text that is blank.
Messages == {"none", "text", "blank"}

Results == [verdict : {"AC", "CE"}, message : Messages]

NoResult == [verdict |-> "SE", message |-> "none"]

\* FormalTaskStore.emit: the three lifecycle events.
JudgeStarted(s, n) ==
  [type |-> "JudgeStarted", sub |-> s, task |-> TaskOf[s], attempt |-> n,
   result |-> NoResult]

JudgeCompleted(s, n, r) ==
  [type |-> "JudgeCompleted", sub |-> s, task |-> TaskOf[s], attempt |-> n,
   result |-> r]

JudgeFailed(s, n) ==
  [type |-> "JudgeFailed", sub |-> s, task |-> TaskOf[s], attempt |-> n,
   result |-> NoResult]

LifecycleEvents ==
  [type : {"JudgeStarted", "JudgeCompleted", "JudgeFailed"},
   sub : Submissions, task : Tasks, attempt : Nat \ {0},
   result : Results \cup {NoResult}]

IsTerminal(e) == e.type # "JudgeStarted"

\* What a terminal event makes of the submission: JudgeFailed is DONE + SE.
VerdictOf(e) == IF e.type = "JudgeFailed" THEN "SE" ELSE e.result.verdict
=============================================================================
