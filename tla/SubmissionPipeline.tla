------------------------ MODULE SubmissionPipeline ------------------------
(***************************************************************************)
(* submission-service and judging-service joined by the two Kafka topics.  *)
(*                                                                         *)
(* A topic is the set of records the broker has stored, and a consumer may *)
(* be handed any of them at any time and again.  Nothing less is promised: *)
(* a relay skips a row whose send failed and goes on with later rows, so   *)
(* rows reach the topic in any order; an unacknowledged send is repeated;  *)
(* and a consumer restarts from its last committed offset.                 *)
(***************************************************************************)
EXTENDS SubmissionService, FormalJudging

pipelineVars == <<submissionVars, judgingVars>>

PipelineInit == SubmissionInit /\ JudgingInit

\* A JudgeRequested record reaches an instance of judging-service.
DeliverRequest(i, s) ==
  /\ s \in requestSent
  /\ Receive(i, s)
  /\ UNCHANGED submissionVars

\* A lifecycle record reaches submission-service.
DeliverEvent(e) ==
  /\ e \in sent
  /\ DeliverLifecycle(e)
  /\ UNCHANGED judgingVars

SubmissionStep ==
  /\ \E s \in Submissions : CreateStep(s) \/ Publish(s)
  /\ UNCHANGED judgingVars

JudgingStep == JudgingInternal /\ UNCHANGED submissionVars

PipelineNext ==
  \/ SubmissionStep
  \/ JudgingStep
  \/ \E i \in Instances, s \in Submissions : DeliverRequest(i, s)
  \/ \E e \in sent : DeliverEvent(e)

PipelineSpec == PipelineInit /\ [][PipelineNext]_pipelineVars

(***************************************************************************)
(* Fairness: that of judging-service, the relay of submission-service, and *)
(* Kafka handing every stored record to its consumer (the error handler    *)
(* retries without limit).  create is a user's call and is not fair.       *)
(***************************************************************************)
PipelineFairness ==
  /\ \A s \in Submissions :
       /\ WF_pipelineVars(PublishRequest(s) /\ UNCHANGED judgingVars)
       /\ WF_pipelineVars(\E i \in Instances :
            s \notin requestInbox /\ DeliverRequest(i, s))
       /\ WF_pipelineVars(\E i \in Instances :
            Claim(i, s) /\ UNCHANGED submissionVars)
       /\ WF_pipelineVars(\E x \in execs :
            x.sub = s /\ EndsAttempt(x) /\ UNCHANGED submissionVars)
       /\ \A i \in Instances :
            /\ WF_pipelineVars(AbandonedLease(i, s) /\ UNCHANGED submissionVars)
            /\ WF_pipelineVars(BecomesDue(i, s) /\ UNCHANGED submissionVars)
       /\ WF_pipelineVars(\E e \in sent :
            /\ e.sub = s
            /\ e \notin lifecycleInbox \cup deadLetters
            /\ DeliverEvent(e))
  /\ WF_pipelineVars(\E e \in outbox :
       PublishEvent(e) /\ UNCHANGED submissionVars)

PipelineFairSpec == PipelineSpec /\ PipelineFairness

-----------------------------------------------------------------------------
(***************************************************************************)
(* Properties                                                              *)
(***************************************************************************)

\* The verdict a submission shows is the one judging-service committed for
\* its task, whatever duplicates, late events of lapsed attempts and
\* reorderings reached the lifecycle listener.
ShownVerdictWasDecided ==
  \A s \in Submissions :
    row[s].status = "DONE" =>
      /\ task[s].status = "DONE"
      /\ \E e \in outbox : /\ e.sub = s
                           /\ IsTerminal(e)
                           /\ VerdictOf(e) = row[s].verdict
                           /\ e.attempt = row[s].attempt

\* No terminal event is swallowed: once the listener has taken it into its
\* inbox the submission is DONE with its verdict.  The attempt guard of apply
\* may drop a terminal event only if a newer attempt was started, and the
\* lease fencing of judging-service rules that out.
TerminalEventTakesEffect ==
  \A e \in lifecycleInbox : IsTerminal(e) =>
    row[e.sub].status = "DONE" /\ row[e.sub].verdict = VerdictOf(e)

\* What submission-service shows never runs ahead of judging-service: JUDGING
\* only after a claim, and never a later attempt than the task's.
NeverAheadOfJudging ==
  \A s \in Submissions :
    /\ row[s].attempt <= task[s].attempt
    /\ row[s].status = "JUDGING" => row[s].attempt > 0
    /\ task[s].status # "NONE" => row[s].status # "NONE"

\* The inductive invariant of the composition.  Every message in flight is an
\* outbox row, a lifecycle event names the task of its submission, and a row
\* never shows an attempt that judging-service has not started: together with
\* fencing that is why the attempt guard of apply never drops a verdict.
RequestsComeFromOutbox == requestSent \subseteq requestOutbox

EventsComeFromOutbox ==
  /\ sent \subseteq outbox
  /\ lifecycleInbox \subseteq sent
  /\ \A e \in outbox : e.task = TaskOf[e.sub]

RowShape ==
  \A s \in Submissions :
    /\ row[s].task \in {NoTask, TaskOf[s]}
    /\ row[s].status # "DONE" => row[s].verdict = "none"

RowInv ==
  /\ OneSubmissionPerKey
  /\ SubmissionHasRequest
  /\ NeverAheadOfJudging
  /\ RowShape
  /\ ShownVerdictWasDecided
  /\ TerminalEventTakesEffect

PipelineInv ==
  /\ SubmissionTypeOK
  /\ JudgingInv
  /\ RequestsComeFromOutbox
  /\ EventsComeFromOutbox
  /\ RowInv

\* The verdict that a set of lifecycle events settles for s.
DecidedBy(events, s) ==
  IF \E e \in events : e.sub = s /\ IsTerminal(e)
  THEN VerdictOf(CHOOSE e \in events : e.sub = s /\ IsTerminal(e))
  ELSE "none"

Contract == INSTANCE SubmissionContract WITH
  Undecided <- "none",
  shown     <- [s \in Submissions |-> row[s].status],
  verdict   <- [s \in Submissions |-> row[s].verdict],
  decided   <- [s \in Submissions |-> DecidedBy(outbox, s)]

\* The pipeline implements the contract of a submission: created once, decided
\* once, announced as decided.
ImplementsContract == Contract!Spec

\* A created submission is finished, or its terminal event was refused by the
\* lifecycle listener and reported to the dead letter topic.
CreatedIsFinished ==
  \A s \in Submissions :
    row[s].status = "PENDING" ~>
      \/ row[s].status = "DONE"
      \/ \E e \in deadLetters : e.sub = s /\ IsTerminal(e)
=============================================================================
