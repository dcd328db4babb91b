------------------------- MODULE SubmissionService -------------------------
(***************************************************************************)
(* submission-service: the idempotent creation of formal submissions, the  *)
(* outbox of JudgeRequested events, and the lifecycle listener that turns  *)
(* judging events into the status a user sees.                             *)
(*                                                                         *)
(* Each element s of Submissions is one HTTP call of create; s is also the *)
(* id the call generates for the row it would insert, so a call that       *)
(* replays an earlier request returns another call's id.                   *)
(***************************************************************************)
EXTENDS JudgeEvents

CONSTANTS
  Keys,      \* (user, Idempotency-Key) pairs
  Digests,   \* SHA-256 of the request body
  KeyOf,     \* the key a call carries
  DigestOf,  \* the digest of the body a call carries
  NoSubmission, NoTask  \* a missing row, a NULL task_id

ASSUME CallAssumption == /\ KeyOf \in [Submissions -> Keys]
                         /\ DigestOf \in [Submissions -> Digests]
ASSUME NullAssumption == /\ NoSubmission \notin Submissions
                         /\ NoTask \notin Tasks

VARIABLES
  row,             \* the submission table
  request,         \* submission_request: key -> the id it created, or none
  requestOutbox,   \* outbox_event: submissions with a JudgeRequested row
  requestSent,     \* the topic judge.requests.v1
  requestMarked,   \* outbox rows with published = TRUE
  lifecycleInbox,  \* inbox_event: the lifecycle events applied
  deadLetters,     \* lifecycle events reported to judge.lifecycle.dlt
  call             \* the progress of each create call

submissionVars == <<row, request, requestOutbox, requestSent, requestMarked,
                    lifecycleInbox, deadLetters, call>>

Rows == [status : {"NONE", "PENDING", "JUDGING", "DONE"},
         task : Tasks \cup {NoTask}, attempt : Nat,
         verdict : Verdicts \cup {"none"}]

NoRow == [status |-> "NONE", task |-> NoTask, attempt |-> 0,
          verdict |-> "none"]

Calls == [pc : {"start", "prepared", "returned", "conflict", "rejected"},
          answer : Submissions \cup {NoSubmission}]

SubmissionTypeOK ==
  /\ row \in [Submissions -> Rows]
  /\ request \in [Keys -> Submissions \cup {NoSubmission}]
  /\ requestOutbox \subseteq Submissions
  /\ requestSent \subseteq Submissions
  /\ requestMarked \subseteq Submissions
  /\ lifecycleInbox \subseteq LifecycleEvents
  /\ deadLetters \subseteq LifecycleEvents
  /\ call \in [Submissions -> Calls]

SubmissionInit ==
  /\ row = [s \in Submissions |-> NoRow]
  /\ request = [k \in Keys |-> NoSubmission]
  /\ requestOutbox = {}
  /\ requestSent = {}
  /\ requestMarked = {}
  /\ lifecycleInbox = {}
  /\ deadLetters = {}
  /\ call = [s \in Submissions |-> [pc |-> "start", answer |-> NoSubmission]]

-----------------------------------------------------------------------------
(* SubmissionService.create *)

\* replay: the key was used before.  The same body gets the row it created,
\* another body is refused with IDEMPOTENCY_CONFLICT.
Replay(s) ==
  LET first == request[KeyOf[s]]
  IN  /\ first # NoSubmission
      /\ call' = [call EXCEPT ![s] =
           IF DigestOf[first] = DigestOf[s]
           THEN [pc |-> "returned", answer |-> first]
           ELSE [pc |-> "conflict", answer |-> NoSubmission]]

\* The replay that create tries before anything else.
CreateReplays(s) ==
  /\ call[s].pc = "start"
  /\ Replay(s)
  /\ UNCHANGED <<row, request, requestOutbox, requestSent, requestMarked,
                 lifecycleInbox, deadLetters>>

\* The key is unused when it is read; the snapshot and the execution profile
\* are then fetched over HTTP and validated, outside any transaction.
CreatePrepares(s) ==
  /\ call[s].pc = "start"
  /\ request[KeyOf[s]] = NoSubmission
  /\ call' = [call EXCEPT ![s].pc = "prepared"]
  /\ UNCHANGED <<row, request, requestOutbox, requestSent, requestMarked,
                 lifecycleInbox, deadLetters>>

\* SUBMISSIONS_PAUSED, or a prerequisite that is missing, invalid or down.
CreateRejected(s) ==
  /\ call[s].pc = "start"
  /\ request[KeyOf[s]] = NoSubmission
  /\ call' = [call EXCEPT ![s].pc = "rejected"]
  /\ UNCHANGED <<row, request, requestOutbox, requestSent, requestMarked,
                 lifecycleInbox, deadLetters>>

\* Mutant: submission_request has no unique key.
CreateCommitsUnkeyed(s) ==
  /\ call[s].pc = "prepared"
  /\ row' = [row EXCEPT ![s] = [NoRow EXCEPT !.status = "PENDING"]]
  /\ request' = [request EXCEPT ![KeyOf[s]] = s]
  /\ requestOutbox' = requestOutbox \cup {s}
  /\ call' = [call EXCEPT ![s] = [pc |-> "returned", answer |-> s]]
  /\ UNCHANGED <<requestSent, requestMarked, lifecycleInbox, deadLetters>>

\* The one transaction: submission, judge_input, submission_request and
\* outbox_event.  The primary key of submission_request admits one insert
\* per key.
CreateCommits(s) ==
  /\ call[s].pc = "prepared"
  /\ request[KeyOf[s]] = NoSubmission
  /\ row' = [row EXCEPT ![s] = [NoRow EXCEPT !.status = "PENDING"]]
  /\ request' = [request EXCEPT ![KeyOf[s]] = s]
  /\ requestOutbox' = requestOutbox \cup {s}
  /\ call' = [call EXCEPT ![s] = [pc |-> "returned", answer |-> s]]
  /\ UNCHANGED <<requestSent, requestMarked, lifecycleInbox, deadLetters>>

\* DuplicateKeyException: the transaction is rolled back and the winner's
\* request is replayed.
CreateDuplicate(s) ==
  /\ call[s].pc = "prepared"
  /\ Replay(s)
  /\ UNCHANGED <<row, request, requestOutbox, requestSent, requestMarked,
                 lifecycleInbox, deadLetters>>

-----------------------------------------------------------------------------
(* SubmissionMessaging.publish *)

\* The broker stores the record but the send fails, times out, or the
\* process dies before the row is marked: the row stays pending.
SendRequest(s) ==
  /\ s \in requestOutbox \ requestMarked
  /\ requestSent' = requestSent \cup {s}
  /\ UNCHANGED <<row, request, requestOutbox, requestMarked, lifecycleInbox,
                 deadLetters, call>>

\* Mutant: the row is marked before the send, which then fails.
PublishRequestEarly(s) ==
  /\ s \in requestOutbox \ requestMarked
  /\ requestMarked' = requestMarked \cup {s}
  /\ UNCHANGED <<row, request, requestOutbox, requestSent, lifecycleInbox,
                 deadLetters, call>>

\* The send is acknowledged and the row is marked published.
PublishRequest(s) ==
  /\ s \in requestOutbox \ requestMarked
  /\ requestSent' = requestSent \cup {s}
  /\ requestMarked' = requestMarked \cup {s}
  /\ UNCHANGED <<row, request, requestOutbox, lifecycleInbox, deadLetters,
                 call>>

-----------------------------------------------------------------------------
(* SubmissionMessaging.receive and SubmissionLifecycle.apply *)

\* What apply refuses with IllegalArgumentException: a result with a message
\* that is blank, or with a message on a verdict that takes none, or an event
\* for a submission that is not there.
Invalid(e) ==
  \/ e.type = "JudgeCompleted" /\ e.result.message = "blank"
  \/ e.type = "JudgeCompleted" /\ e.result.message # "none"
                               /\ e.result.verdict # "CE"
  \/ row[e.sub].status = "NONE"

\* Mutant: only an event of a later attempt than the row's changes it.
AcceptsLaterOnly(e) ==
  /\ e \notin lifecycleInbox
  /\ row[e.sub].status # "DONE"
  /\ row[e.sub].task \in {NoTask, e.task}
  /\ row[e.sub].attempt < e.attempt

\* Mutant: no early return for a DONE row.
AcceptsAfterDone(e) ==
  /\ e \notin lifecycleInbox
  /\ row[e.sub].task \in {NoTask, e.task}
  /\ row[e.sub].attempt <= e.attempt

\* An event that changes the row: not seen before, the row is not DONE, the
\* task is the row's, and the attempt is not older than the row's.
Accepts(e) ==
  /\ e \notin lifecycleInbox
  /\ row[e.sub].status # "DONE"
  /\ row[e.sub].task \in {NoTask, e.task}
  /\ row[e.sub].attempt <= e.attempt

\* The row apply writes: a started attempt shows JUDGING and no verdict, a
\* terminal event DONE and its verdict.
Applied(e) ==
  [status  |-> IF IsTerminal(e) THEN "DONE" ELSE "JUDGING",
   task    |-> e.task,
   attempt |-> e.attempt,
   verdict |-> IF IsTerminal(e) THEN VerdictOf(e) ELSE "none"]

\* One delivery of e, in one transaction that inserts into the inbox first.
ApplyEvent(e) ==
  /\ ~Invalid(e)
  /\ lifecycleInbox' = lifecycleInbox \cup {e}
  /\ row' = IF Accepts(e) THEN [row EXCEPT ![e.sub] = Applied(e)] ELSE row
  /\ UNCHANGED <<request, requestOutbox, requestSent, requestMarked,
                 deadLetters, call>>

\* An invalid event rolls its transaction back; a summary of it goes to the
\* dead letter topic and the offset is committed.
DeadLetter(e) ==
  /\ Invalid(e)
  /\ deadLetters' = deadLetters \cup {e}
  /\ UNCHANGED <<row, request, requestOutbox, requestSent, requestMarked,
                 lifecycleInbox, call>>

-----------------------------------------------------------------------------
CreateStep(s) == \/ CreateReplays(s) \/ CreatePrepares(s) \/ CreateRejected(s)
                 \/ CreateCommits(s) \/ CreateDuplicate(s)

Publish(s) == SendRequest(s) \/ PublishRequest(s)

DeliverLifecycle(e) == ApplyEvent(e) \/ DeadLetter(e)
-----------------------------------------------------------------------------
(***************************************************************************)
(* Properties of submission-service alone, whatever lifecycle events reach *)
(* it and in whatever order.                                               *)
(***************************************************************************)

\* PRD-RULE-009, creation: however the calls with one Idempotency-Key
\* interleave, at most one of them inserts a submission, and it is the one
\* submission_request names (SubmissionService.create, the unique key).
OneSubmissionPerKey ==
  \A s \in Submissions :
    row[s].status # "NONE" => request[KeyOf[s]] = s

\* The outbox row is committed with the submission: no submission is left
\* without a JudgeRequested event and no event is without its submission.
SubmissionHasRequest ==
  requestOutbox = {s \in Submissions : row[s].status # "NONE"}
=============================================================================
