# A TLA+ verification of cherry-oj

cherry-oj is an online judge: Spring services (gateway, user, problem,
submission, judging) in `apps/server`, a Go judge engine in `apps/judge-engine`,
a C sandbox in `apps/sandbox` and a web client in `apps/web`. This project models
the parts whose correctness depends on interleavings, failures and time, checks
them with TLC on small instances and proves the central results with TLAPS.

## 1. Inventory

| part | state it keeps | operations | hard behaviour | what makes it correct |
|---|---|---|---|---|
| submission-service | `submission`, `submission_request`, `outbox_event`, `inbox_event` | `create` (idempotent), outbox relay, lifecycle listener | racing calls with one key; repeated and reordered events | one submission per key; the shown verdict is final and never goes back |
| judging-service, formal | `judge_task`, `judge_attempt`, outbox, inbox; per process `active` and the semaphore `slots` | receive, claim, renew, execute, finish, relay | several processes on one table, leases, clocks that differ, crashes, answers that are lost | one terminal event per task; every task is decided |
| problem-service, test data | the row's `test_data_location`, a symbolic link, content-addressed directories | upload, prune, discard, remove; nodes load through the link | file system and database have no common transaction; files deleted one by one under readers | a node accepts one whole content; the address leads to complete data |
| judge-engine, execution pool | `closed`, the cancelled context, two channels, a wait group, joined errors | `Run`, `poison`, `Close` | asynchronous cancellation, poison against queued runs, `Close` against admission | nothing runs after a poison or a `Close` that returned |
| judge-engine, blob store | entries, `used`, files, readers | `Put`, `Get`, `Delete`, `Sweep`, `Close`, `load` | writes outside the lock, deletion under readers, restarts | the accounts agree with the disk; a restart is always possible |
| judging-service, calibration | `judge_calibration` | start, judge, finish | a crash during the call, two calibrations at once, data replaced meanwhile | one valid calibration, of the data it ran on |
| problem-service, administration | `problem` with `row_version` | create, update, publish, unpublish, archive, delete | a remote check between two transactions | what is published is what was checked |
| judging-service, trial runs | one slot | `run` | a deadline against a thread that is about to start | the slot comes back once |
| node registry | registry rows with sessions and leases; the node's retry loop | register, heartbeat | a slow old process and its successor | the successor keeps the name |
| judge-engine, judge flow | the references of one judgement | compile, testcases, close | any step may fail | worst verdict, every reference released |
| sandbox | one supervised process group | supervise, stop, reclaim | several events in one poll | event priorities, reclamation confirmed |
| user-service | accounts, sessions | login, validate, revoke, change password, administration | administration against logins | no session outlives what revoked it |
| gateway-service | the browser session, shared validations, rate windows | login, current, logout | a validation that answers late | a late answer is not written back |
| web, code drafts | draft records in localStorage, one key per mounted editor; the page's copy; a copy in memory | load, save, join, discard, leave | tabs share a storage without locks that may throw or be cleared | typed text is never lost; copies of two tabs compete openly |
| web, submission panel | the recovery record, the mutation, the lookup and the poll | submit, retry, look up, poll, reload | requests and answers get lost; another tab changes the account | one body per key; the fate of a request can be learned; waiting ends |
| web, solving page | session and problem queries, the loop of custom runs, history list and detail | run, cancel, page through the history, load a source | invalidated loops go on; the cached session is stale | results belong to the attempt and to the account shown |
| web, problem workbench | the cached row, the form, the saved values, timers and pending requests | edit, timed and explicit save, upload, calibrate, publish, archive, delete, leave | refetches under an open form, lost answers, other administrators | what is called saved was stored; what is public was meant to be |
| web, session and administration | CSRF token and its load, cached session, route, mutations, queries | login, logout, password change, guards, account and language pages | stale tokens, sessions that end under a page, guards that redirect to one another | one fresh retry; no unseen overwrite; pages of signed-out users are left |
| web, API client | none; schemas and the generated contract | read an answer, decide to try again | an answer the schema refuses though the contract promises it | every schema accepts what the contract promises |
| web, problem lists | search, cursor, the query cache, the creation dialog | filter, sort, next batch, page, create | cursors over a list that changes; cached lists of other filters | a walk neither repeats nor skips; no list hides what was created |
| web, editors and theme | the view with its text, loads, composition; the stored theme | type, compose, replace, load, retry, switch | commit and effect are apart; loads that end late; storage events | the editor shows the page's text; nothing is echoed or leaked |

Services talk HTTP to one another; submission-service and judging-service also
exchange `JudgeRequested` and `judge.lifecycle.v1` events through Kafka, each
from an outbox table. judging-service calls a judge node over HTTP, the node
runs the judge flow over its execution engine (pool, blob store, backend), and
reads test data through the address problem-service switches. The web client
talks only to the gateway, which forwards to the services; its tabs share
localStorage and the gateway's session cookie, and inside a page the components
share TanStack Query's cache. Identity tokens, logging, contracts, scripts and
deployment keep no state another part depends on and are not modelled.
`PROJECT.json` lists every part with its sources, and under `hazards` the lines
where things can go wrong.

## 2. Modules

| module | models |
|---|---|
| `JudgeEvents` | the lifecycle events both services exchange |
| `SubmissionService` | `SubmissionService.create`/`replay`, `SubmissionMessaging.publish`, `SubmissionLifecycle.apply` |
| `FormalJudging` | `FormalTaskStore`, `FormalWorker`, `FormalMessaging` in several processes |
| `SubmissionPipeline` | the two services joined by their topics |
| `SubmissionContract` | abstract: created once, decided once, shown as decided |
| `TestDataStore` | `TestDataService.upload`, `FileTestDataStore`, deletion of the problem, `judge/testcase` `Load` |
| `ExecutionPool` | `execution/pool/pool.go` |
| `BlobStore` | `execution/store/disk.go` |
| `CodeDrafts` | `lib/code-draft.ts`, `use-code-draft.ts`, `problem-source-editor.tsx` in several tabs |
| `SubmissionPanel` | `submission-panel.tsx`, `submission-recovery.ts`, `submissions-api.ts` and the server behind them |
| `SolvePage` | `problem-detail-page.tsx`, `custom-run-workbench.tsx`, `submission-history-panel.tsx` |
| `ProblemForm`, `ProblemWorkbench` | the form and its controls; `admin-problem-workbench.tsx` with its dialogs, `AdminProblemService`, `ProblemPublicationService` |
| `WebContract`, `ApiClient` | the generated contract `types.gen.ts`; `api-client.ts`, the schemas and API functions, the retry rules |
| `WebSession`, `AdminPages` | `csrf.ts`, session query, guards, login, logout, password; the account and language pages and the shells |
| `ProblemLists` | catalogue, administrator's list, overview, creation dialog, over the lists of problem-service |
| `ThemeRuntime`, `SourceEditor` | theme in several tabs; the three editors and the page that owns their text |
| `SubmissionPipelineProofs` | theorems about `FormalJudging` and `SubmissionPipeline` |
| `ServiceProofs` | theorems about `TestDataStore`, `ProblemLists`, `BlobStore` and `ExecutionPool`, one part for each |
| `AdminPagesProofs` | theorems about `AdminPages` over `WebSession` |
| `CodeDraftsProofs`, `SubmissionPanelProofs`, `SolvePageProofs`, `ProblemWorkbenchProofs`, `SourceEditorProofs` | theorems about the module of that name, the last with `ThemeRuntime` |
| `MC...` | instances for TLC |

**Granularity.** One database transaction is one action, as is what happens
under a mutex. Everything else that another actor can observe between two
statements is two actions: the HTTP calls of `create` between the first lookup
and the transaction; `claim` with the hand-over to the executor, the call to the
node and the two ways into `finish`; a record stored by the broker and its row
marked published; each file that `deleteTree` visits and each file a node
copies; the two locked sections of `Put`; every statement of `Run`.

**SubmissionService.** `call[s]` is one call of `create`; a submission is named
after the call that would insert it. `CreatePrepares` stands for the
prerequisites fetched over HTTP, `CreateCommits` and `CreateDuplicate` for the
transaction and its `DuplicateKeyException`. `SendRequest` stores the record
without marking the row: a crash or a lost acknowledgement. `ApplyEvent` is one
delivery with its inbox insert, guards and update; `DeadLetter` one whose
transaction rolls back because the event is invalid.

**FormalJudging.** Time is not a number. `expired[s]`, `due[s]` and `late[s]` are
the processes by whose clock the lease, the next attempt and the deadline have
passed, so clocks may disagree without bound. A lease that passes under a live
execution is a pause and is counted against `MaxPauses`. `...Throws` actions are
commits whose answer is lost. `execs` are the running calls of `execute`; a crash
removes those of one process and its memory, and leaves every table.
The judge node's answer is a verdict and the shape of its diagnostic
(none, whole lines, one line cut before its newline), because that is all that
`FormalWorker.safe` and `JudgeDiagnostics.forUser` look at.

**SubmissionPipeline.** A topic is the set of records stored; a consumer may be
given any of them at any time, again and in any order. That is what the code
has to live with: a relay skips a row whose send failed and goes on, sends again
what was not acknowledged, and a consumer restarts from its committed offset.

**TestDataStore.** One problem. A content is a digest; its directory holds
`DataFiles` and `testdata.json`. Temporary directories are reached by no address
and are left out: what is built in one appears with its rename. Deletion walks a
directory file by file; a file that somebody else has deleted is passed over
(`deleteIfExists`) or ends the walk of that directory with an exception that is
swallowed. `prune` goes by modification time, `remove` in whatever order
`Files.list` gives. Uploads may overlap: the row lock covers only the switch of the
address. A node opens the files one after the other
through the link, so it may see two contents; the digest check decides.

**ExecutionPool.** `stage[r]` is where a call of `Run` stands, and the channels and
the wait group are the sets of calls inside them. `cancelled` lags behind
`stopped`, as a derived context does. The executor is external: it returns with
its clean-up confirmed or not, and only has to return when it is cancelled.

**BlobStore.** `outdated` replaces the clock. `PutFailsLeaking` is a pending file
that could not be deleted. `ProcessEnds` and `Load` are a restart at any moment.

**The web client.** A page runs one event handler at a time, so a handler up to
its next `await` is one action; what happens at an `await` (a request served, an
answer heard) is an action of its own, as is every effect React runs after a
commit where it can be observed. React, TanStack Query, the router and the
editors' libraries are external and are modelled as the code uses them: a query
has data, an error and a fetch; an invalidation starts the fetch of a shown query
again, unless it is the first one: a query without data keeps the fetch it has,
whose answer then counts as current. A mutation outlives the component that started
it, but the callbacks given to `mutate` do not; an unmounted component hears
nothing. `acts` and `faults` bound what the user and the world do and are the
only counters in guards.

**CodeDrafts.** localStorage is not locked: one step is one scan or one write.
`at` is a history field, the place of a write among all writes; the wall clock
orders nothing. A tab's handler is a program counter (`pc`) and what follows it
(`after`), since scans and writes of another tab may fall between. The starter is
assumed to fit a draft (`StarterAssumption`): problem-service accepts longer ones, which
`resetToStarter` refuses with a message (`code-draft.ts:352`).

**SubmissionPanel.** A POST is on the `wire` until the server takes it, also after
the page gave up; an id is the number of its key. `account` is whom the cookie
stands for, which another tab changes. The submission of a link may belong to another
problem, which the page finds out when it reads it.

**SolvePage.** `loops` are the running calls of the case loop, with the sequence
number they started under; the live one is that of the page. Queries and their
refetches follow the session the page believes in. `reader` is the user the history
is rendered for, which lags behind the session until React renders
(`RenderHistory`). A request of the history remembers every account the cookie has
stood for since it was sent (`asked`), as any of them may be the one it is served
for; `check` is asked before it is sent and again before its answer is taken, as in
`withHistoryIdentity`.

**ProblemWorkbench.** `row` is the service's row, `cache` the copy of the query,
`editor` the mounted form with the values it calls saved, `wire` the requests with
who still hears them: the editor, the page or nobody. A publication goes through the
steps of `ProblemPublicationService.publish`: the first snapshot, the snapshot of
`publishCheck`, the answer of the judging service, and the comparison under the lock
with the digest of the *first* snapshot. A digest names a content, so data may be
replaced and put back. The publish check is sent, served and heard in steps of its
own, any of which may fail. `held` and `vouched` are histories.

**WebSession and AdminPages.** `container` is the gateway's session container; a
token is the number of the container it was made for. `ops` are the mutations
with both tries. `page` and `going` are where the router is and where it is being
sent. `ApiClient` ends with an assumption, `ClientMeetsContract`, that TLC
evaluates in `web_session`: for every operation the method's reader, the body
sent and the schema fit what the contract says.

**ProblemLists.** Batches and pages are computed from the rows as the SQL of
problem-service does, ties broken by id. `walk` is the history of the batches
shown to the user, and what the catalogue held when the walk began; `overtaken` marks
a list whose first answer was computed before the creation and heard after it.

**SourceEditor.** A text is an identity. `props` is what was committed, `due` the
effects of the commit still to run, `view` the one editor on screen, `views` the
Monaco views not disposed. A negative text is Markdown that the statement editor
would write otherwise. The flags that keep an editor from reporting what it was given
are those of the code; `typed` and `origin` are histories: whether the user changed the
view since it reported, and who last changed the page's text (the page, the
user, a composition that ended, or an echo).

**ThemeRuntime.** Storage events queue up in each tab that listens. `apart` says
that two choices crossed, `unheard` which tabs showed a theme without listening yet
when another one was stored.

**Abstractions of the web modules.** Trailing-newline normalisation of the
statement editor, key bindings, fonts and wording are left out; the editor's
settings are represented by the colour scheme; the values a page puts into an
editor are always new texts; the user reloads only a broken page and follows no
link to the page already shown; the gateway validates a session on every request
(a window in which it trusts an earlier validation is a later revocation).
Closable dialogs of the workbench are not kept: what they offer is offered.

## 3. Runs

A run is passed when TLC explores the whole bounded state space without an
error. Two runs expect a violation: the property is what a comment of the code
says, and TLC shows what the code does instead.

| run | bounds | what it shows |
|---|---|---|
| `pipeline` | 2 create calls with one key, 1 process with 1 slot, 2 attempts, 1 crash; accepted, or a compile error cut to nothing | one submission per key; what users see is what was decided; no verdict is dropped; refinement of `SubmissionContract`; every created submission ends, or its event is refused and in the dead letter topic |
| `judging` | the workers: 1 task, 2 processes × 2 slots, 2 attempts, 1 crash, 1 pause; a compile error or a system error. The pool: 3 requests, 1 slot, 1 waiting place, 2 closers. The blob store: 3 uploads, blobs ≤ 2 of 3 bytes, 2 entries, 2 readers, 1 restart. A behaviour is of one of the three | lease fencing, history of attempts, `WorkerInv` (renewal, slots, retry budget); what `Close` and poison promise, `Close` returns; `BlobInv`: the accounts, restarts, quiet after `Close` |
| `testdata_store` | 3 uploads one after the other or 2 that overlap, 3 contents, a data file and `testdata.json`, failures, 1 crash, deletion, 1 load | `StoreInv`: what is loaded is one content; before a crash and until uploads overlap the address is whole, one replacement fails no load, two generations are kept. A deleted problem is never served again |
| `testdata_overlap` | 3 uploads, 2 at a time, 3 contents, no failure, crash, deletion or load | a *violation*: the address leads to a directory that is being deleted (section 6) |
| `code_drafts` | 2 tabs, 2 mounts, 3 texts (one too long), 3 edits, 1 fault | drafts are never refused as corrupt by mistake, typed text and saved text are safe, copies compete openly |
| `submission_panel` | 2 keys, 3 texts (one empty), 2 faults | one body per key, the fate of a request can be learned, waiting ends |
| `panel_link` | 1 key, 2 texts, 1 fault | a *violation*: "not accepted" is said of a request whose key nobody looked up (section 6) |
| `solve_page` | 2 accounts, 2 samples and the user's input, answers right, wrong or not compiled, 3 acts, 2 faults, 4 together | reports, history and account are the right ones; runs end |
| `problem_workbench` | 1 CORE problem, 2 texts, 2 contents of its data, tag, sample, driver, 2 acts, 1 fault (2 together where nothing is calibrated at first) | saved means stored, public text is confirmed, public data is calibrated unless it was put back meanwhile; edits get saved, the check catches up |
| `web_session` | an administrator and a user who must change the password, 2 acts, 1 fault | the CSRF retry, unseen overwrites, guards, signed-out pages; the contract |
| `problem_lists` | 3 problems and 1 to create, batches of 1, 3 acts, 1 fault | cursor walks; created problems in cached lists, but for a first answer overtaken by the creation |
| `source_editor` | 3 editors in one of 2 tabs, 2 themes, 3 acts, 2 faults | text and theme arrive, no echo, no leaked view, theme in every tab that listened |

A *fault* is whatever the user of the page does not do: a request, an answer or a
session lost, a storage that throws or is cleared, another tab, another
administrator.

**Why the bounds are enough to be interesting.** Two processes with two slots let
one process claim a task again while its own older execution is still leaving,
and another process take over. Two attempts with one crash and one pause reach
an attempt beyond `maxAttempts`, which only lapsed leases produce. Submissions
share nothing but slots, so one task suffices for everything but the slots,
which attempts of the same task contend for. Three uploads of three
contents make `prune` delete a generation a reader still holds and let a content
come back. In the pool three requests fill the slot and the waiting place and
leave one to be refused. In the blob store three blobs of up to two bytes
exceed both the entry and the byte budget. Two digests let data be replaced and put
back while a publication runs. Two tabs with three edits make both
scan before either writes and then join; a second mount meets the drafts of the
first. Two keys let a retried request overlap the next one. Two acts suffice in
the workbench and the session for an edit during a save, or a second mutation
during a retry; the mutants show that each case is reached. Batches of one make
equal titles and times meet at every boundary. Symmetry is used only in the runs of the
test data, which have no liveness property, over uploads and contents, which the
module never tells apart; their view leaves out what a thread no longer reads.

Deadlock is checked in `judging`, for the workers, whose requests may always be
delivered again; the other systems may stop: no calls, uploads or acts are left.

**Fairness.** Weak fairness only, and only of what the code drives: the
`@Scheduled` polls and relays, an execution (each of its calls has a timeout),
Kafka's redelivery (the error handler retries without limit), a lease or a retry
time that nobody moves, goroutines and cancellations. In the web client: timers
(autosave, polling and refetch intervals), a request that is served or times out,
an answer that is heard, the redirects of the router. None for users, crashes,
pauses, lost answers, failing disks, an executor nobody cancelled, or uploads.
Crashes and faults are finite in number, which the liveness properties
need: endless crashes can keep any task from ending.

Every property of a run has a mutant in `PROJECT.json`: an operator beside
the definition it replaces (its comment says "Mutant") that changes it as a
plausible mistake in the code would, under which TLC finds the run violated.

## 4. Proofs

The theorems hold for every value of the constants that satisfies the `ASSUME`s
of the modules, which TLC evaluates in the runs: any number of submissions,
processes, slots, attempts, crashes and pauses; of requests, closers and places;
of tabs, mounts, texts, keys, accounts, samples and themes; of acts and faults.
Each safety property has an inductive invariant, stated beside it in the
component's module as a conjunction of named parts and checked by TLC on the run's
instance before it was proved. A proof has one lemma per action, or per group
of actions that disturb the same parts.

**FormalJudging** (`SubmissionPipelineProofs`). `OneTerminalEvent` is not inductive: that `finish` writes
no second terminal event follows from the token it compares. `JudgingInv` adds
that the token is set exactly while the task runs and equals the attempt
(`LeaseShape`), that a task without a row has no attempt, and that every event
belongs to an attempt already claimed (`EventsAreOfAttempts`). One lemma per
action shows that it keeps the types, then the store part; `Fencing`, `History`,
`JudgingTypeCorrect` and `DoneFinal` follow. `Workers` proves `WorkerInv`, the part in
the memory of a process: renewal, slots and the retry budget. It needs in addition
that a claim starts at most one execution and that no execution is of a later
attempt than its task (`OneExecutionPerClaim`): otherwise a process could take
one execution's slot back for another.

**SubmissionPipeline** (`SubmissionPipelineProofs`). `PipelineInv` joins the types of both sides,
`JudgingInv`, that all that is in flight is an outbox row, and `RowInv`: a row never
shows an attempt that judging-service has not claimed. With fencing that is the
reason why the attempt guard of `apply`, which drops an event for good because
its id is already in the inbox, never drops a terminal one
(`TerminalEventsTakeEffect`): there is no newer attempt. `Refinement` proves
`PipelineSpec => Contract!Spec` with `shown` and `verdict` read from the row and
`decided` from the terminal event in the outbox.

**ExecutionPool** (`ServiceProofs`). `PoolInv` says that channels and wait group hold exactly
the calls between the statements that enter and leave them, that a closed pool
is cancelled, that who took a slot too late was turned back, and that a `Close`
that returned saw an empty wait group. `StoppedPool`, `CloseWaits` and
`CloseReports` follow from it.

**BlobStore** (`ServiceProofs`). `BlobStoreIsSafe` proves all of `BlobInv`. `RefOK` says what the
entry, the file and the handles of one reference tell of each other; `BlobAccount` adds
that `used` is the sum of the entries' sizes and that there are no more entries than
allowed. `RestartFits` has to be kept for its own sake: between the end of a
process and the next `load` there is no account. The sum is a fold over a set,
about which the library has no theorem. Its laws (adding or removing one
element, changing one value, monotonicity) are proved from the definition: a fold
exists for every finite set because a least set without one cannot exist
(`MinimalSubset`). References are assumed to be finitely many; their
number, the budgets and the bounds on readers and restarts are arbitrary.

**TestDataStore** (`ServiceProofs`). `LoadsAreWhole` and `DeletedStaysUnreachable` hold for any number
of overlapping uploads and crashes: the store's listing has each directory once
(`DiskOK`), inside its transaction an upload holds the row and the row is ACTIVE
(`ThreadsOK`), and what a load has copied so far is of the digest it will report
(`LoadsOK`). `StoreIsSafe` proves `StoreInv` for all behaviours, without a hypothesis: its part
about the address holds until an upload begins beside another one or the
service crashes, and the code prevents neither (section 6). Until then one upload at
most is under way (`OneUpload`, a part of the invariant) and, while the problem
exists, only it deletes. So a directory is whole unless the
upload is inside it (`UploadOK`), the address is not among what is deleted
(`AddressOK`), a load has lived through as many switches as it has tried (`TriesOK`),
and after a successful upload there are the address, one more directory and what
`prune` has still to delete (`GenerationsOK`). Of a deleted problem nothing is claimed but
that its address does not come back: `prune` and `remove` may each give up a directory in
which they meet.

**ProblemLists** (`ServiceProofs`). `CacheOK` says of every cached batch that it is an interval of the
catalogue it was read from: the rows behind the cursor it was asked with and not
behind the cursor it names (`BatchOK`). `WalkOK` then follows a walk: a problem
that was the same in every batch shown is in exactly one of them, or is behind the
cursor and in none. `WalksAreSound` follows. That the rows can be brought into the
order of the query, which the batch is cut from, is proved by counting: the place of
a row is the number of rows before it (`InOrder`). For `CreatedIsNeverHidden` a list
that owes the created problem, once the creation is known, is stale or has it, and so
has the answer on its way (`Current`); a refetch begun before the creation was
acknowledged is started again by the invalidation. A first load is not: its list is
the exception of the theorem (`overtaken`).

**CodeDraftsProofs.** `DraftInv` quantifies over all records anybody remembers, the
ones no longer stored included. A revision is made once (`RevisionsAreFresh`); a
record replaces only records written before it (`ReplacesOlder`), so the stored
record with the greatest `at` is replaced by none and readable drafts are never
refused as corrupt (`NeverCorrupt`); a writer's one key holds its latest record
(`LatestIsStored`), and the revisions a write joins include its page's baseline
(`WriteJoinsBaseline`), from which `OpenCompetition` follows: a copy stops being current
only by its own page, by one that started from it, or by a user who was shown it.
`TextInv` follows the typed text through the editor, the memory of an interrupted
page and the storage, and gives `TypedText`.

**SubmissionPanelProofs.** `PanelInv`: records and running mutations are of requests
that were sent, no key is sent before it is made (`RequestsWereSent`), and while
the fate of the last request is open, it is the one the component and the storage
know (`LastIsKnown`). `OneBody` and `Fate` follow.

**SolvePageProofs.** `ReportIsOfLiveRun` is inductive only with the numbers: no loop has
a number beyond the page's, and the one with the page's number fills the attempt
shown (`RunInv`). `OwnHistory`: an answer is taken only if the cached session names the
reader (`check`) and the server found the reader's cookie, so it is the
reader's under the reader's session (`AnswerIsOwn`); a change of reader drops all of it.
It needs no more than the types (`PageInv`).

**ProblemWorkbenchProofs.** `WorkbenchInv` says what the requests on the wire may rely
on (`RequestFits`): an answered save carries values that were stored, a timed save
a version that was private, and of a checked publication the data it *asked about* were
calibrated; and the cached row was a row of the service (`WasRow`), with the same publication state
if the version is the same. That last clause is what protects a public text from
the timer: the version in a timed save is compared by the service, and publishing
changes it. `SavedStored`, `ConfirmedText` and `CalibratedData` follow, the last two
as action properties. `CalibratedData` excepts data that were replaced and put back
between the publication's snapshots (`PutBack`): the code compares the row with its first
snapshot, and the calibrated data are those of its second.

**SourceEditorProofs.** `ThemeInv`: unless choices crossed, each tab shows what is stored,
or the last event on its way says it, or it missed what was stored before it listened
(`Informed`). `EditorInv`: what no effect of the
last commit has yet to bring to the view has been brought to it (`EffectsBring`); a
view shows something unreported only while the user composes and has typed
(`CompositionIsTheUsers`), so that what is reported otherwise is an edit made in the view; a value the page sets is newer than every text seen
(`TextsAreOld`), without which an old value could pass for one already
reported; loads have numbers of their own (`LoadsAreNumbered`). `ShowsTheValue`, `Echo`,
`ViewsDisposed` and `OneTheme` follow. `OneTheme` rests on the manifest, in which the
fallback theme is the default (`ThemeAssumption`): with two different ones, a tab
that removes an unknown choice would show the fallback and the next visit the
default.

**AdminPagesProofs.** `AdminIInv`: a token the client knows is of a container the gateway has
had (`TokensOK`), and for every mutation on its way (`OpOK`) the token of its second try is not
older than the rejection of the first, a rejection that stands was served by a
later container than the one rejected before, what was carried out has an answer
that does not refuse it, and a language is saved from the version shown
(`EditorOK`: the draft of an open editor was made from the row in the cache, because
an editor whose row is replaced is mounted anew). `RetriesAreFresh`, `RefusalsAreNotApplied` and
`SavesReplaceWhatWasSeen` follow. The table of API functions in `ApiClient` is joined with
TLC's `@@`, of which the prover knows nothing; the one fact the proofs need of it,
that every mutation is read as JSON, nothing or multipart, is an assumption
(`ReadersAssumption`) that TLC evaluates in `web_session`.

**Only model-checked.** Liveness (fairness and `ENABLED` are out of the prover's
reach): `CreatedIsFinished`, `CloseReturns`, `NeverWaitsForever`, `RunEnds`,
`AccountIsNoticed`, `EditsAreSaved`, `CheckCatchesUp`, `GuardsSettle`,
`SignedOutPageIsLeft`. Every other property of the passing runs is stated by a theorem, with
the exceptions its definition names. `ClientMeetsContract` and `ReadersAssumption` are
about one fixed table, which TLC evaluates completely.

## 5. Plan

Done: the formal submission pipeline with its contract, test data, execution
pool, blob store; the web client's drafts, submission panel, solving page,
workbench, session, administration, lists, editors and theme, with proofs of all
their safety properties. Next:

1. `Calibration`: calibration rows that end together or never end, over the data
   that uploads replace; `ProblemWorkbench` sees them as one answer.
2. `JudgeFlow`: one judgement over the pool and the blob store: verdict priority
   against a reference definition, references released on every path.
3. `NodeRegistry`: sessions and leases, with the retry loop of the node;
   `TrialRun`: the slot between the request and the virtual thread; `Sessions`:
   user-service accounts with the gateway's cache of a validated login;
   `Supervise`: the event loop of the sandbox.

What is hard there, for these modules: a calibration that a crash leaves RUNNING
(`JudgingReadinessService.java:85`) and two that end together (`:187`); the budget read
before the node loads replaced data (`FormalWorker.java:92`); the deadline of a trial
against its starting thread (`TrialController.java:134`); a replaced node that
registers again (`JudgeNodeRegistry.java:43`); references of a half-failed judgement
(`flow.go:53`); several events in one poll (`supervise.c:206`); two bootstrap calls
(`UserAdministrationService.java:60`); a validation that answers after a logout
(`GatewayAuthenticationService.java:109`).

## 6. Observations

What came up while modelling; two of them are runs that expect a violation, and
the other runs' properties are stated so that these cases are named exceptions.

Services:

- **A finished judgement that is never shown.** `FormalWorker.safe` (`:223`) tests
  the judge's message for blanks before `JudgeDiagnostics.forUser` shortens it. For a
  core-mode submission a compile error of one unterminated line becomes an empty
  message, which `SubmissionLifecycle` refuses; the event goes to the dead letter
  topic, the task is DONE and the submission stays JUDGING. `CreatedIsFinished`
  shows that this is the only way a submission fails to end.
- **Overlapping uploads can delete what is served** (`FileTestDataStore.java:176`, run
  `testdata_overlap`): `prune` reads the address once and outside the row lock, and deletes
  what another upload has switched to since; `discard` (`:166`) does the same. The
  comment in `activate` (`:147`) says that readers find complete data at any moment. Until
  uploads overlap it is safe (`StoreInv`).
- **Data put back can be published uncalibrated** (`ProblemPublicationService.java:218`): the
  locked digest is compared with that of the first snapshot, while the judging service was
  asked about the second (`:107`). Data replaced before the second snapshot and put back after
  it pass, whatever their calibration. If the first snapshot found no data, the
  comparison dereferences null: data uploaded meanwhile end in an internal error instead
  of the message about changed data.
- **A crash inside `deleteTree` can leave a directory that passes for complete**
  (`:252`, `:260`): `testdata.json` without its data, which a later upload of the same
  content reuses. A node refuses it, so every judgement fails until other data are
  uploaded. `StoreInv` claims `AddressIsWhole` only before a crash.
- **Left-over directories of a deleted problem stay** (`:235`); the comment in
  `remove` says that later cleaning handles them.

Workbench (`admin-problem-workbench.tsx`) and lists:

- A save sends the *refetched* `rowVersion` with the old form's values (`:326`), so an
  edit of another administrator can be overwritten without the conflict that
  `:640` promises ("不会自动覆盖").
- The archive confirmation stays open while somebody else publishes (`:989`), and
  archives a public problem. A failed background refetch shows the error page and
  drops unsaved edits (`:212`); the prefix editor does the same. A blanked driver is
  called saved and never sent. A valid calibration started before a driver save
  clears `driverChanged`.
- "下一批加载失败，当前结果已保留" (`problem-list-page.tsx:301`) never shows for a next batch:
  the page is keyed by its search, so a new batch is a new page. A page beyond the
  last one, and a later batch that became empty, offer no way back.
- The creation dialog can be used while the list loads (`admin-problem-list-page.tsx:64`).
  A first answer computed before the creation and heard after it is taken as current,
  without the new problem, as TanStack Query does not start a first fetch again.

Session, accounts, submissions:

- A wrong current password answers 401 `AUTHENTICATION_FAILED`
  (`AuthenticationService.java:142`), which `_site.account.password.tsx:40` takes for a lost
  session. `auth-error-message` expects `USERNAME_CONFLICT` where user-service sends
  `USERNAME_ALREADY_EXISTS`. On the administrator's problem list, the overview,
  problem creation and the language save a 401 does not lead to the login
  (`docs/frontend.md:203`); a 401 kept in the query cache expels the user again on the
  next visit.
- **"Not accepted" for a request nobody looked up** (`submission-panel.tsx:158`, run
  `panel_link`): any 404 of the lookup counts, and the lookup prefers the submission
  in the address to the key of the request (`:78`). The comment above it (`:156`) says
  that the request was looked up by its idempotency key. With a link to an older
  submission opened while a request is on its way, the button is unlocked and changed
  code goes out under a new key beside a request that may yet be accepted.
- A link to a submission of another problem is polled for ever: its error
  (`submission-panel.tsx:126`) is none of those on which `refetchInterval` (`:132`) stops.
  The message is shown between the requests, which is what `NeverWaitsForever` claims.
- The automatic CSRF retry runs under whatever account another tab has logged in.
  `findSubmission` (`submissions-api.ts:59`) and the history's detail
  (`submission-history-api.ts:40`) name no expected account: a 404 for another
  account's cookie is taken as "not accepted".
- On the users page, creating an account while a reset is pending can replace the first
  temporary password before it was closed, and after a lost answer the listed
  `rowVersion` stays stale.

Editors and theme:

- A value from outside that meets a composition which is then cancelled is never
  shown by the text editor (`text-editor.tsx:292`, `skipped` in the model); the code editor
  reports the old text over it (`code-editor-runtime.ts:117`, origin "composed"). Replacing
  the editor during a composition, or in the frame after it, drops the composed text
  (`text-editor.tsx:243`). If React runs a commit's
  effects after the user typed again, the older value is shown until the next commit.
- Two tabs that switch the theme at the same moment can end swapped (`apart`), and
  handling an event with an unknown theme removes whatever is stored now. A tab that has
  its theme from `theme-init.js` but no listener yet misses a choice made then and keeps the
  old theme until it is loaded again (`theme-runtime.ts:126`, `unheard`).

## 7. Not modelled

Within the modelled parts: request validation and the HTTP layer, reads that
change nothing, the wording of errors, audit rows, the choice of a node among
those online, and the number of testcases, whose budget is a choice of the
test data service in `FormalJudging`. In `BlobStore` the checks of owner and type
of files that are not the store's. In the web client rendering and layout, the
comparison of tokens in custom runs, copy buttons, and the parts of the abstractions
in section 2.

The parts of section 5 are not modelled yet. The web client's presentational
components, the tools and checks of its design system, stories and browser tests are
programs without state over time or do not run in the product; tokens, logging,
contracts and deployment neither. They will not be modelled.
