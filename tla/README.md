# A verification development of Qaneris

Qaneris answers business questions about databases. A question becomes a *Run*:
a durable row that a pool of threads drives through an *Ask*, that can pause for
its user, fail, be retried, be cancelled, and survive a restart of the process.
Around it are the datasources (a catalog, a graph and their scans), credentials,
Excel imports, diagnostic and federated runs, and the Ask itself.

This directory holds TLA+ modules of that system, the configurations TLC checks
them with, and proofs TLAPS checks. Line numbers are those of this repository.

## 1. The system

| component | state | operations | hard behaviour |
|---|---|---|---|
| **Run runtime** `runtime/` | `run` rows (status, `current_stage`, revision, cancel request, response), `run_event` log, thread pool and its in-memory queue | create, claim, drive, handler, clarify, cancel, retry, repairs, restart | every store call is its own transaction, so workers, API calls and restarts interleave; crashes between any two; compare-and-swap losers |
| **Conversation store** `conversation/` | conversation, messages, semantic memory with a revision | add message (idempotent ids), read memory, read its revision, put memory, delete | memory is read by two queries; deletion races workers that still publish |
| **Conversation API** `interfaces/api/conversations.py` | none; an event stream keeps a cursor | routes; `stream_run` polls events and status | a stream that ends by grace rather than by event |
| **Diagnostic runs** `diagnostics/` | checkpoint, tasks | plan a round, execute tasks, synthesise, record memory | resume in the middle of a round, bounded rounds |
| **Federated runs** `federation/` | plan with a deadline, source tasks, join mappings | route, plan, execute tasks, merge, confirm mappings | deadline fixed at planning, resume, mappings bound to scan versions |
| **Datasource lifecycle** `application/`, `catalog/`, `initialization/` | datasources, scan snapshots, initialization jobs | create, update, delete, scan, regenerate documents | a scan spans three stores; updates and deletions race it |
| **Structure graph** `graph/` | nodes of one active snapshot per datasource | replace, delete, read | replaced before the catalog commits |
| **Scan runs** `scanning/` | one result per source, a report on disk | batch scan | a source fails at any step and must not take the others with it |
| **Managed credentials** `connections/` | encrypted documents, references from datasources, temporary files | create (two files for an identity), use, delete, collect | counting references and deleting are two steps; roll-backs fail |
| **TLS** `connections/tls_*` | none | what a driver can do, what it is given | a requirement dropped on the way to a driver |
| **Excel ingestion** `ingestion/excel/` | a directory per file (source, database, manifest), a datasource | check, convert, import, resume, reuse | publication, datasource and scan are separate commits; imports overlap |
| **Ask pipeline** `querying/`, `semantic/`, `application/service.py` | governed assets; else none | ground, plan, generate, validate, execute, answer | planned over several reads of a graph that changes, executed on another connection |
| **Conversation context** `conversation/memory.py`, `context.py` | none | remember an answer, choose what a model is shown, resolve a follow-up | a model rewrites what the user said |
| **Web frontend** `src/web/frontend/` | workspace, view, listings, selection, an import; a conversation with its runs, a subscription and a timeline; charts | navigate, import, ask, answer, retry, cancel, delete; observe, reconnect, reload | replies are late or lost, after the user has gone elsewhere; reconnects while the server still writes |
| **Installer** `tools/environment_setup.py` | `.env`, the credential store, Neo4j's volume, tools, services | thirteen checks that repair | stops anywhere, is run again, beside what runs already |
| adapters, model gateway, CLI, MCP, profiling, acceptance scripts | | | I/O and presentation |

The parts interact as follows. API calls and pool threads share the SQLite
store, nothing else; a thread is started by `scheduler.submit(run_id, execute)`
and finds everything it needs in the row. The orchestrator's constructor is the
restart: it fails the runs a crash left active, repairs the completions and
questions a crash left unannounced, and submits the runs that were queued by a
reply or a retry (`orchestrator.py` 85-89). The Ask is a generator of records;
between two of them the worker looks for a cancel request and may advance the
status. The event log is what clients see.

What makes each part correct, in short: a run is driven by one worker, one Ask
is executed per request of the user, cancel requests are not overtaken, what is
announced is durable, what is durable is announced after a restart, and whoever
waits for a worker gets one. A page shows the run's
events once and in order. For datasources: graph and
active snapshot belong to the current connection, survive failed scans and vanish
with the datasource. For credentials: no secret is gone that a profile needs, none
stays that nothing needs, and nothing that protects a connection is dropped. For
diagnostic and federated runs: what was answered is not asked again, the budget is
paid once, and an answer rests on evidence that belongs together. For a question:
what its text states reaches the database. For imports and setups: they can be
repeated. For the page: what the user sends reaches the server once, and what is shown is
what there is.

## 2. Plan

Everything the first plan listed is modelled:

| part | modules | section |
|---|---|---|
| run runtime and its abstract lifecycle | `RunStore`, `RunRuntime`, `RunLifecycle`, `RunProperties`, `RunProofs` | 3 |
| event stream and page, composed with the runtime | `RunStream`, `RunProofs` | 3 |
| datasource lifecycle | `DatasourceLifecycle`, `DatasourceProofs` | 4 |
| diagnostic runs | `DiagnosticRun`, `DiagnosticProperties`, `DiagnosticProofs` | 5 |
| federated runs and join mappings | `FederatedRun`, `FederatedProperties`, `FederatedProofs`; `FederatedPlan` and `FederatedMerge` | 6, 10 |
| a question | `AskPipeline` over `AskIntent`, `AskSemantics`, `AskPlanning`, `AskContracts` and `Places`; the abstract `AskProtocol`; `AskProperties`, `AskProofs`, `MCAsk` | 7 |
| secrets, profiles and their files | `Credentials`, `CredentialsProofs` | 8 |
| Excel imports | `ExcelImport`, `ExcelProofs` | 9 |
| pure decisions over their small inputs | `Decisions` over `AskTime`, `FederatedPlan`, `FederatedMerge`, `Tls`, `SecretMaterial`, `ExcelSheet`, `ScanBatch`, `AssetLoading`, `SetupTools`, `ReadOnlySql`, `FollowUps`, `Charts` | 10 |
| the installer | `Installer`, `InstallerProofs` | 11 |
| the web client around its conversations, and the conversations | `WebPage`, `WebConversation`, composed in `WebClient` | 12 |

An abstract specification of the datasources (one that shows the snapshot of its
connection or none) was considered and given up: the code keeps it only while
nothing races, which the invariants say. `RunLifecycle` and `AskProtocol` are the
two that are implemented.

Theorems still worth proving: the part `CompletionAnnouncedOnce` of `RepairsAreExact` for
a single worker, and what section 7 only model-checks.

Conventions. A definition that is called a slip of the one below it
(`CheckCancelSkipped`, `QueuedRunsReplied`...) is a plausible mistake in the code;
putting it in place of the other makes one property fail, and nothing else uses it.
A run checks at least one property per question that is asked of it; properties that
the code does *not* keep, although a comment or a document says so, are defined
beside the others and listed in section 13.

## 3. The run runtime

### Modules

`RunStore` has the row and its rules: `Allowed` and `CanTransition` are
`state_machine.py`, `Saved` is the successful half of `save()`. `RunRuntime` is
the process: durable variables `run`, `log`, `messages`, `memory`,
`conversation`; process variables `worker` (a program counter and the local
variables of every thread), `queue` (the pool's submissions), `calls` (API calls
between two of their transactions); and counters that bound the model.

One action is one transaction on the store, with the computation around it:

| actions | code |
|---|---|
| `Pick`, `Claim`, `Started` | `execute` 214-247 |
| `Begin`, `Context`, `ContextChecked`, `Discover` | `_drive` 328-425 |
| `AskStarted`, `Ask`, `Advance` | the record loop 426-463 |
| `SettleFault`, `SettleBlock`, `SettleQuestion`, `SettleAnswer` | 464-519 |
| `CheckCancel` (operator), `CancelRun` | `_cancel_if_requested` 204-212 |
| `PostMessage`, `ReadMemory`, `ReadMemoryRevision`, `PutMemory`, `Publish` | 500-507, 520-529, shared with the repairs 91-157 |
| `LoseSave`, `Except`, `FailureChecked`, `FailRun` | a refused `save()`, and the handler 250-326 |
| `ListCompletions`, `ListClarifications`, `RepairNext`, `RepairDone` | `_recover_*` 91-157, run by the constructor or by a handler |
| `Interrupt`, `Resubmit` | the constructor 85-89, `repository.py` 201-240 |
| `CreateRun`, `InsertRun`, `PostQuestion`, `Submit` | `create` 159-191 |
| `Clarify`, `PostReply`; `CancelWaiting`, `PublishCancel`, `RequestCancel`; `Retry` | 531-562 |
| `DeleteConversation` | `conversation/repository.py` 100-132, one `BEGIN IMMEDIATE` transaction |
| `Crash` | threads, queue and calls are gone; the store stays |

A client's read and save are one action: when its compare-and-swap loses, the
caller gets an error and nothing changes. A worker's are not: what it holds in
between is the point.

Abstractions. A row's `current_stage` is a flag (`queued`), its response a kind
(a question, an answer with a business query, one without), its completion time
a rank. Progress events are coalesced. The Ask is external: it may end at any
stage with any outcome. The drives are those of normal runs; a diagnostic drive does
other things to its row (it reads it again before its last save and after it has
parked it), which is the subject of section 5. The idempotent second `create` with the
same client request id returns the row and changes nothing, so it is no action.

`RunLifecycle` is the abstract specification: a run waits, runs, and pauses,
fails or is done; an answer or a retry lets it wait again; every request of the
user allows one Ask. It has no workers, no revisions, no cancels and no restart.

`RunProperties` states the properties, the inductive invariant and the symmetry for TLC.

### Runs

| run | instance | shows |
|---|---|---|
| `RunPool` | 2 runs, 2 workers, 2 cancels, 1 crash, deletion; symmetric | `TypeOK`, `SnapshotCurrent`, `CancelWins`, `OnlyCompletedSpeaks` (365k states) |
| `RunRestart` | 1 run, 1 worker, 1 reply, 1 retry, 2 cancels, 2 crashes, deletion, fair | `NoRunIsForgotten`, `RepairsAreExact`, `ImplementsLifecycle`, `EveryRunComesToRest` (898k states) |
| `RunStream` | 1 run, 1 worker, 1 reply, 1 crash, deletion, a page and a connection that breaks, fair | `TimelinesFollowTheRun` (1.3M states) |

`NoRunIsForgotten` joins `OnlyCancelLosesARun` (nothing but a cancel request takes a
run away from its thread) and `RunnableIsScheduled` (what waits for a worker is on
its way to one). `RepairsAreExact` joins `RestartRepairs` (that is `CompletionsRepaired`
and `QuestionsRepaired`), `CompletionAnnouncedOnce` and `AnswerBeforeResume`. `EveryRunComesToRest` has a part for runs that are created,
which a crash may lose, and one for runs that are claimed or queued, which no crash
may.

Bounds. Two workers and two runs are what it takes for one worker to repair
another's run, for one to lose the other's memory write, and for a submission to
wait. Two cancels reach a run before and after its claim, or both runs. Two
crashes let the second one hit a repair of the first. One reply and one retry
give three drives of one run, so an earlier drive's question, memory and events
are all there while a later one is interrupted. `RunPool` leaves replies and
retries out and `RunRestart` the second worker: together they are beyond a few
minutes; the proofs have no bounds.

Every run sets `CHECK_DEADLOCK FALSE`: the bounds on client requests make the
model stop when all runs have come to rest, which the system may do as well.

### What the code does not keep

* `NeverLoseARun` ("persist worker failure; never lose a run", line 250): the
  handler's save is itself a compare-and-swap. A cancel request accepted between
  its check (258) and its save (312) makes the save raise out of the thread; the
  run stays active, with nobody driving it, until the process restarts.
* `CancelEndsTheRun` (`conversations.py` 102 tells the user to cancel the run and
  then delete): a cancel request between a worker's read and its claim looks like
  a claim by another worker. The run stays `CREATED`, which no repair submits.
* `CompletionAnnouncedOnce` with two workers: a worker whose memory write
  conflicts repairs *all* completed runs without an event (253), one of which may
  belong to a worker that is about to append it. `RunRestart` has one worker.

With two workers `QuestionsRepaired` fails too: a worker that is
slow to append `CLARIFICATION_REQUIRED` may append it after the user has answered
and another worker has begun the next drive; when that drive asks again and the
process dies, the log already ends with the right event type and the second
question is never posted. With one worker the pool orders the two.

### The event stream

`RunStream` puts one page that watches one run beside `RunRuntime`. `stream` is the
generator of `stream_run` (`conversations.py` 155-215): it reads the events after its
cursor (`SendEvents`), then the status (`ReadStatus`), then the last event
(`ReadLast`), and ends when the last event is that of the status, or five seconds
after it first was not. `wire` is what is on its way. `page` is the subscription
(`runStream.js`), its cursor and the timeline it fills. Connections break (`Drop`),
pages are opened anew (`Reload`), the server dies (`CrashWatched`), and the page acts
and subscribes again (`Act`, `Observe`). While the server is down, a page that came from it
fails to fetch and tries again; one that comes through the development proxy of Vite is
answered 500, and any answer that is not ok ends a subscription (`ProxyRefuses`,
`runStream.js` 27-30). The user has to reconnect (`Reload`).

`TimelineIsWhole` says that the timeline is the log from its first event on,
`EndsAreEarned` that a subscription ends with an event that settles the run, with the
run itself, or is refused after a crash; both are part of `Following`. `EventsReachThePage`
says that everything announced is shown in the end, until the subscription is over. Fairness is that of the runtime, of the server's loop, and of the
page, which reconnects without limit. `SubscriptionsEnd` is not kept: a subscription
opened after the last event, by the observer of an action that settled the run or by a
reconnect, receives nothing that could settle it and reconnects for ever.

The page's copy of the row, which it fetches on some events and shows beside the timeline,
and what of its actions leads to a new subscription, are in section 12. The timelines of
older runs are left out.

### Fairness

`FairSpec` has weak fairness of every worker's steps, of the constructor and of
API calls in flight: pool threads and request handlers keep running, and a call
to the store or to a model returns (the clients have timeouts). Clients are not
fair: nobody has to answer, retry, cancel or delete. `EveryRunComesToRest` exempts
runs that are cancelled, because of the two ways of losing a run above, and for new
runs everything after a crash, because they are not resubmitted after a restart
(`queued_run_ids`, `repository.py` 232-240).

### Proofs

`RunProofs` proves, for every set of runs and workers and every bound:

* `InductiveInvariant`: `Spec => []Inductive`,
* `TypesHold`, `SnapshotsAreCurrent`, `RunsHaveOneDriver`, `CancelRequestsWin`,
* `OnlyTheCompletedSpeak`, `NoRunForgotten`,
* `RuntimeImplementsLifecycle`: `Spec => ImplementsLifecycle`,
* `AnswersComeFirst`: `Spec => AnswerBeforeResume`,
* `RestartRepairsCompletions`: `Spec => CompletionsRepaired`.

The assumptions are those of `RunRuntime`: finitely many runs, `NoRun` is not one
of them, and the constructor's thread is not a worker.

The argument. `CancelWins` alone is not inductive: a worker with a stale copy
could save `COMPLETED` over a cancel request. What forbids it is that a copy whose
revision is current *is* the row (`HoldsRow`), and that copies past a check have
no request (`Checked`). That in turn needs every writer to move the revision, and
the copy of a second worker on the same run to be behind, which needs one driver
per run (`OneWorker`): the claim starts from a row no driver can have, since
drivers' rows are active. `OneWorker` counts a worker until it has written the
memory of its completion, because a conflict there leads to the handler, which
reads the row again. Finally a run's row must not appear or vanish under a
worker: `OnlyBornRuns` says that the process only knows of inserted runs and
`QuietRestart` that the constructor runs alone. `Inductive` is the conjunction.

The proof has one lemma per action. Steps of a thread reduce to its new record and
at most one new row (`LocalStep`, `WriteStep`, and `ThreadStep`, `SaveStep`,
`RaiseStep`, `CheckStep` on top of them); clients to `ClientWrite` and
`CallBooks`. TLC found `Inductive` to hold on the instance of `RunPool` before it was
proved.

`Attended` (`AttendedInvariant`) is a second invariant beside `Inductive`; the theorems
`OnlyTheCompletedSpeak` and `NoRunForgotten` follow from it. Its first half is about who
speaks. `OnlyCompletedSpeaks` needs that a thread on the way to an answer, a memory or an
event, and every item in a list of repairs, has a completed run (`AnswersAreEarned`), and
that it still has one when the thread gets there: a completed run is never saved again,
and is deleted only with its conversation. `NobodyAnswersTheDeleted` says that a drive
that began before the deletion does not get beyond the reading of the conversation, and
`RestartGetsThrough` that the constructor, being alone, neither loses a write of the memory
nor leaves an active run behind. The second half is about who is on the way.
`OnlyCancelLosesARun` needs that a save succeeds unless a cancel request came in between
(`DriversAttend`: a driver's copy without one is the row) and that what a drive raises has
the handler to go to. `RunnableIsScheduled` needs more than it says: the submission must
be one whose claim will succeed (`RunsAwaited`: in the queue, in a call, or in the hands of
a worker whose copy *is* the row; `RetriesAllowed`: a queued failure may be claimed).

`RuntimeImplementsLifecycle` is the refinement. Under the mapping a row's phase is read off
its status and its queued flag (`PhaseOf`), the allowance is the number of the user's
requests and the executed Asks are counted. `PhaseFacts` reads phases off rows, `OneMove`
turns a step that saves one row into `Accept`, `Start`, `Stop` or `Withdraw`, or into a
stutter; claims and saves give the phases by `CanTransition`. The step that needs an
argument is the Ask: `RunLifecycle` executes one only while the allowance is not used up,
which is `AsksArePaid` (`PaidInvariant`): a run that waits for a worker has a request
that no Ask has used, and a drive keeps it until its own Ask. One driver per run
(`OneWorker`) is what keeps two drives from spending the same request.

TLC found `Attended` and `AsksArePaid` to hold on the instances of `RunPool` and
`RunRestart` before they were proved.

`AnswersComeFirst` needs to know that the drive which begins is the one the last answer
was given to. `SubmittedAnswered` says it: until the process dies, a run is on its way to
the pool at most once, in a call or in the queue and never in both (`OneSubmission`), a
worker that holds a claim of a run on its way has a copy the row has left behind, so the
claim fails, and every answer is stored but the one whose call is still to store it
(`AnswersStored`). An answer puts the run on its way by such a call, and no drive can begin
before the call has gone through. A crash between the two transactions of clarify() loses
the answer and leaves the run queued, hence `crashes = 0`.

`RestartRepairsCompletions` rests on `Repaired`. Its first part is the order of the
publishing: whatever announces a completion, the drive or a repair, has posted the answer
before (`AnnouncedAreAnswered`), so a missing answer shows as a missing event and the list
of completions without an event is the list of all that is to be repaired. Its second part
follows that list through the constructor: once it is made, a completion without an event
is in it or in the constructor's hands (`RepairsKnown`), no run completes meanwhile because
no worker acts (`OnlyBootActs`), and an empty list therefore leaves none. The constructor
returns by its last step only (`ReturnsResubmitting`): no write of the memory fails while
it is alone, which is `RestartGetsThrough`. A second crash begins the list anew.

TLC found `SubmittedAnswered` and `Repaired` to hold on small instances with two workers,
replies, crashes and the deletion before they were proved.

`RunProofs` also proves of the composition with the event stream, for every set of runs
and workers and any number of breaks, that `Following` is an invariant
(`TimelinesAreWhole`), and with it that subscriptions earn their end
(`SubscriptionsEarnTheirEnd`). `TimelineIsWhole` rests on what is on the wire: its events
follow on the page's cursor, and the generator's cursor on them, never beyond the log
(`WireFollows`). `EndsAreEarned` rests on the page's flag being about the last event it
took (`SettledByEvent`), and for a refused one on the server being down after a crash only.
What the runtime must do for this is `RunsGoOn`: the log of a run
that is still there only grows (`LogsGrow`), and a run that was inserted is never inserted
again, which would start a second log under the cursor of an open page; that is
`OnlyBornRuns` of the runtime's invariant. Every step of the composition is one of the
runtime or invisible to it (`StreamStep`), so `Inductive` and `Attended` carry over. The
run `RunStream` checks `Following` too, as part of `TimelinesFollowTheRun`.

Only model-checked: the parts `CompletionAnnouncedOnce` and `QuestionsRepaired` of
`RepairsAreExact`, which are false for two workers (above) and so are no theorems of every
instance, and liveness (`EventsReachThePage` among it), which is out of the prover's reach.

## 4. The datasource lifecycle

### Modules

`DatasourceLifecycle` has two stores: the SQLite catalog (`source`, `versions`,
`active`, `jobs`) and the Neo4j graph (`graph`), and the threads of the facade
(`call`). A thread is idle or at the next transaction of one scan, update,
deletion or question. Nothing in the code orders two calls on one datasource, and
nothing does here.

| actions | code |
|---|---|
| `Create` | `catalog/sqlite.py` 143-180, after a test of the candidate |
| `StartScan`, `InsertJob` | `application/service.py` 620-624, `catalog/sqlite.py` 397-428 |
| `OpenConnection` | `connections/provider.py` 38-52 |
| `Verify`, `TestConnection`, `BeginScan`, `ReadSource` | `initialization/service.py` 64-93; each `Reports` one status through `update_initialization_job` |
| `TakeVersion`, `ReplaceGraph`, `Commit`, `FinishScan` | 93-133, `commit_scan_snapshot`, `graph/neo4j.py` 70-127 |
| `Abandon` | what raises out of `_run`: its handlers report a failure, which is itself refused when the job is gone or the transition illegal |
| `Update`, `Delete`, then `Unpublish` | `application/service.py` 349-364, 390-398 |
| `SwitchProfile`, `Invalidate` | `catalog/sqlite.py` 188-260 |
| `Remove` | `catalog/sqlite.py` 262-295 |
| `Plan`, `Fence`, `Execute` | retrieval reads the graph's version; `execute_grounded_plan` 780-805, `ExecutionRevisionValidator`, `querying/execution.py` |
| `Crash` | the calls are gone, both stores stay |

Each transaction may fail, as the handlers of the code expect: an update or a
deletion ends there, a scan reports a failure when its job may still move to one,
and is abandoned otherwise.

Abstractions. What a store holds about a scan is a record of its version, the
connection it read through and its job. Datasets, relations, samples and mappings
change in the transactions that change the active snapshot and are represented by
it. Connection tests, the building of profiles and graphs, and profile documents
(whose failure is caught) change nothing. Secrets are not modelled, so opening a
connection fails by choice. The catalog does not switch SQLite's foreign keys on,
hence no cascade. Statements before the first write are outside the transaction
(Python's `sqlite3` opens one at the first write), so a job may be inserted for a
datasource just deleted. In `Fence` the reads of the datasource and of the graph
are one step; `Execute` is where the connection is opened.

`raced` is a history variable: a datasource is put there when a thread that holds a
connection to it (`Attached`) coexists with an update or a deletion of it. Such an
overlap is not prevented by anything, and what it leads to is the first entry of the
list below; the invariants that it breaks exempt these datasources and no others.

The properties, the inductive invariant and the symmetry are at the end of the module.

### Runs

| run | instance | shows |
|---|---|---|
| `DatasourceRaces` | 1 datasource, 2 profiles, 2 threads, 3 scans, 2 changes, 1 crash; symmetric | `DatasourceTypeOK`, `GraphFollowsConnection`, `ReadyDescribesConnection`, `DeletedLeavesNothing`, `VersionsGrow` (1.3M states) |

Bounds. Datasources share no state here (secrets, which they may share, are left
out), so one is enough. Every race is between two calls on it. Three scans make
three versions possible, and two that took the same one before a third; two
changes are an update and a deletion, or two updates with a scan between. The
proofs have no bounds. `CHECK_DEADLOCK FALSE`: when all scans and changes of an
instance are used up and the datasource is deleted, nothing is left to do.

### What the code does not keep

* `NoMixedQuery` ("so no query can pair the new connection with the old scan",
  `application/service.py` 342): the version check and the opening of the
  connection are two steps; an update between them switches the profile. A second
  way needs no such timing: a scan that opened the old connection before the update
  publishes its structure after it, and questions are then planned on the old
  database and run on the new one. The same with a deletion leaves a ghost in the
  graph, which the order of `delete_datasource` is meant to exclude (382-385).
* `StalePlansAreRefused` (767): a scan that replaced the graph and failed to commit
  leaves its version free for the next scan, so two different structures are
  published under one number, and that number is all the check compares.
* `FailedScansKeepTheGraph` (architecture plan, 319 and 765): the graph is replaced
  before the catalog commits. The test of a failing commit
  (`tests/integration/test_scan_failure_safety.py` 118-142) asserts the job's status
  and the catalog, and that the graph *was* written. No outside failure is needed:
  of two scans that took the same version, the loser of the commit fails after it
  has replaced the graph.

One more disagreement is in the model without a property: when the report of READY fails
after the commit, the handler marks the job `profile_failed` though its snapshot is
active and its graph published.

### Proofs

`DatasourceProofs` proves, for every set of datasources, profiles, jobs and threads
and every bound, `DatasourceInvariant` (`Spec => []DatasourceInductive`) and from it
`DatasourceTypes`, `GraphIsFaithful`, `ReadyIsFaithful`, `DeletionIsComplete` and
the action property `SnapshotsGrow`. The assumptions are those of
`DatasourceLifecycle`: the null values are no members of the sets they complete, and
the bounds are natural numbers.

The argument. `ReadyDescribesConnection` needs that whoever commits read through
the current connection. `SeesItsSource` says so of every attached scan that did not
race, and it survives an update because `ReadersExcludeChangers`: an update that
coexists with an attached scan has raced. The same part says that the graph stays
unpublished between the steps of a change, since only an attached scan could publish.
`VersionsGrow` needs that a scan's version is not *below* a recorded one, although
it was computed long before: versions have no gaps (`VersionsHaveNoGaps`) and a
scan's version leaves none (`CarriesItsScan`), so a version smaller than a recorded
one is itself recorded and the unique index refuses it (`CommitFacts`). A deletion
clears the versions under a running scan; its commit is then refused because the row
is gone, which `CarriesItsScan` accounts for. Jobs are used by one scan
(`JobsHaveOneScan`), so a report moves the job its scan knows (`KnowsItsJob`).

The proof has one lemma per action. Steps that change only a call reduce to
`CallStep` (`LeaveStep` when it ends, `GotoStep` when it goes on), reports to
`JobStep`, steps that leave a datasource created to `SourceStep`.

Everything the passing run checks is proved as well; there is no liveness to state,
as no part of the code retries or repairs a scan.

## 5. Diagnostic runs

A diagnostic run answers a "why" by a few Asks. `DiagnosticCoordinator.drive`
plans rounds of evidence questions under a budget, executes an Ask for each, and
writes an answer over the verified results and a *finding* into the memory of the
conversation. It can stop anywhere: at a question to the user, a failure, a cancel
request, the death of the process. Whoever resumes the run finds a checkpoint and
tasks that different transactions wrote.

### Modules

`DiagnosticRun` extends `RunStore` (the rows and their rules). Its durable variables
are the rows, `task` (the table `diagnostic_task`), `checkpoint`, `memory` (the runs
whose findings a conversation holds) and `announced` (runs with a RUN_COMPLETED
event); `worker` has the local variables of every thread: its copies of row,
checkpoint and tasks, each with the revision its compare-and-swap will compare.
`DiagnosticProperties` states what has to hold, the inductive invariant and the symmetry.

| actions | code |
|---|---|
| `Claim` | `execute` 225-247 and `_drive` 328-366, in one step |
| `Compare`, `Repair`, `Begin` | `drive` 409-447: completed tasks win over the checkpoint |
| `CheckRound`, `ReadRound`, `Plan`, `PlanRound`, `ReadPlanned` | 460-557, `plan_round` |
| `TakeTurn` | 558-570 |
| `StartTask`, `SetPending`, `Ask`, `Advance`, `AskEnded` | `_execute_task` 155-245 |
| `SkipTask`, `FailTask`, `CompleteTask`, `CountTask` | what a task ends in, 196-226, 245-406 |
| `ParkTask`, `ReadWait`, `Wait`, `AfterTask` | a question to the user, 288-312, 75-99, 571-572 |
| `CancelRun` | `_cancel_if_requested`, from any of the checks |
| `Synthesize`, `Reread`, `Finish`, `Record`, `PutMemory`, `Publish` | 575-655 |
| `Except`, `CheckFailure`, `FailRun`, `RepairNext` | the handler 250-326 and the repair of completions |
| `Create`, `Cancel`, `Clarify`, `Retry` | the calls of a client |
| `Restart` | a crash and the constructor: `recover_running`, `recover_interrupted`, `_recover_completions` |

What section 3 models in detail is coarse here: a claim is one step and wins or does
not happen, idle threads take any runnable run, a restart is one step (its repairs
are idempotent), messages and events other than RUN_COMPLETED are left out. A driven
row is DISCOVERING or ANSWERING. Questions are their places in the plan; duplicates,
which are stored as SKIPPED and never touched, have none. What a user replies is left
out. `Plan` is the model's decision, any number of questions the budget allows; the
question about the period to compare with is one of its questions to the user, so it
may be asked more often than in the code.

### Runs

| run | instance | shows |
|---|---|---|
| `DiagnosticDrive` | 1 run, 2 threads, 2 sources, 2 questions in up to 2 rounds of up to 2, 2 events | `DiagnosticTypeOK`, `DiagnosesAreSound`, `TasksAreSettled` (2.0M states) |

Two rounds and two questions are the least with a task after a parked one, a round
after a finished one and an exhausted budget; two sources the least with a mismatch.
Events are replies, retries, cancel requests and crashes together; two suffice for a
crash or a question and what follows it. Two threads meet when a reply overtakes the
drive that asked. A stopped run is at rest, so deadlock is not checked.

`TasksAreSettled` joins two properties:

- `CompletedTasksAreFinal`: whatever copies two drives hold, a completed task is never
  written again, which is the documented "never queried again".
- no task is left running in a run that is `Unattended`: whoever may resume it finds no
  task that seems to run.

`DiagnosesAreSound` joins four:

- `BudgetIsPaid`: at every moment the questions in the table and the remaining budget
  add up to the budget: no resumed drive plans a round twice or pays twice.
- `EvidenceFromOneSource`: also when a crash separates the first evidence from the
  checkpoint that pins its source.
- `CompletedRunsAreWhole`: a completed run has finished every question it planned and
  its checkpoint counts them.
- `FindingsAreGrounded`: findings belong to completed runs with verified evidence.

Two behaviours deserve a reader's attention.

*Lost findings* (`AnnouncedFindingsAreKept` is not kept). A drive reads the memory when
it is claimed and writes it when it is done, with the revision it reads just before the
write. Two diagnostic runs of one conversation that overlap both pass the
compare-and-swap, and the finding of the first is gone, although the documentation says
that a completed run writes one.

*Drives that overrun.* After a task `drive` looks at the row to learn whether the task
parked the run (571). If the user replies and another thread claims the run before that
look, or cancels the waiting run, the status is no longer WAITING_USER: the old drive
goes on with its next task, beside the new one or on a run that is over. The revisions
keep tasks and budget consistent (`CompletedTasksAreFinal` and `BudgetIsPaid` hold
throughout), but the two drives may pin different sources. `overrun` records such runs
and the other invariants of evidence exempt them. The theorems `RunsHaveOneDriver` and
`CancelRequestsWin` of section 3 are about normal runs, whose drives return when they
have parked their run and save the row they last checked. A diagnostic run can complete
or wait although a cancel request reached it: `drive` reads its row again (605, 296)
after the last check, and the request is saved back with the new status.

### Proofs

`DiagnosticProofs` proves, for every set of runs, workers and sources and every budget,
`DiagnosticInvariant` (`Spec => []DiagnosticInductive`) and from it `DiagnosesAreTyped`,
`SoundDiagnoses` and `SettledTasks`: all that the run checks. The assumptions are those of
`DiagnosticRun`: finitely many runs, budgets above zero, and the null values are no members
of the sets they complete.

The argument. What a resumed drive may do rests on what its copies are worth. For any
thread, also one that overruns, a copy whose revision is current *is* what is stored
(`HoldsCopies`: of the row, the checkpoint and each task), so a compare-and-swap that wins
overwrites what the thread has seen; `CompletedTasksAreFinal` and `BudgetIsPaid` (`Paid`)
need no more. The properties of evidence do: a run that did not overrun has one drive
(`OneDrive`), since it is claimed only in a status in which no drive is left, and this one
knows the current checkpoint and tasks (`DriveInOrder`). A task is saved before it is
counted, so the tally is one behind at exactly one point (`count`), and after a crash
there it is `repair` that catches up (`Tallied`). A task may be left RUNNING only by a
drive that dies as a permanent failure or is cancelled, whose run nobody resumes
(`Resumable`); the restart, and the drive that fails for a while, put theirs back.
`DiagnosticInductive` is the conjunction; TLC checked it on `DiagnosticDrive` first.

The proof has one lemma per action. Steps of a thread reduce to what they store:
nothing, a row, a task, or a checkpoint.

## 6. Federated runs

A federated run asks several sources and merges their answers. `FederatedRun` is
`FederatedQuestionCapability.drive` over the rows, the source tasks and one join mapping
under `JoinMappingGovernance`, beside rescans of the sources; it follows `DiagnosticRun`
in what it leaves coarse (claim, restart, messages, progress events).

| actions | code |
|---|---|
| `Claim`, `Route`, `SetKind`, `MakePlan`, `CreatePlan` | `drive` up to the plan, the router, the planner and its validator |
| `Resume`, `Advance`, `ReadTasks`, `TakeTurn` | what is left to ask, 118-139 |
| `StartTask`, `Ask`, `SkipTask`, `FailTask`, `CheckTotals`, `CompleteTask`, `ParkTask`, `ReadWait`, `Wait`, `AfterTask` | `_execute_task` |
| `Collect`, `ReadMapping`, `ReadVersions`, `MarkStale`, `Merge`, `Answer`, `Finish`, `Record`, `Publish` | 139 to the end, `executable()` of the mapping before a join |
| `Propose`, `BeginConfirm`, `SaveConfirm`, `FoundStale`, `Reject` | the keepers of a mapping |
| `Rescan`, `Expire` | a new version of a source, the deadline of the plan |
| `Except`, `CheckFailure`, `FailRun`, `RepairNext`, `Restart`, `Create`, `Cancel`, `Clarify`, `Retry` | as in section 5 |

`FederatedDrive` (1 run, 2 workers, 2 sources with 2 versions each, 2 events; symmetric,
3.2M states) checks

- `CompletedRunsAreSound`: a completed run has an answer of every source within the
  budget, also when two drives of it asked side by side, and what a join merged was never
  read at a *newer* version than its mapping is confirmed for;
- `DecisionsAreFinal`: an answered task is never asked again, a rejected mapping never
  confirmed;
- `FederatedRunsAreDriven`: a run in progress has a thread, but for a lost save to a
  cancel request and for a task whose question a crash kept from the user.

The second exception is one the code does not mean to have (`NoFederatedRunIsLost`), and
an *older* version than the mapping's is joined without a word (`JoinsMatchTheirMapping`):
`drive` compares the mapping with the versions active at the merge.

One run is enough: runs share the mapping only, which its keepers change anyway. Two
sources are the least for a join, for a budget that is exceeded together and for an
answered task beside a waiting one. There is no liveness property: a run whose deadline
has passed, or that lost its save, rests by design.

### Proofs

`FederatedProofs` proves, for every set of runs and workers, any number of sources from two
on, and every bound, `FederatedInvariant` (`Spec => []FederatedInductive`) and from it
`FederatedRunsAreTyped`, `SoundFederatedRuns`, `DrivenFederatedRuns` and the action
properties in `FinalDecisions`: all that the run checks. The assumptions are those of
`FederatedRun`: `NoRun` is not a run, there are two sources at least, and a version exists.

The argument. A reply may overtake the drive that parked its run, so there may be two
drives, and copies are worth what their revision says (`HoldsCopies`, as in section 5).
`replied` records the runs this can have happened to; for any other there is one drive
(`OneDrive`), which knows the tasks as they are (`DriveInOrder`). A reply leaves a trace a
drive cannot miss unless it knows of it (`RepliesAreKnown`): it moves the row's revision.
The budget holds with two drives because the totals are added up again over the stored
tasks when all have been collected, and those are final then (`Merging`, `Whole`); this is
why `CompletedWithinBudget` follows from the last check and not from those of each task. Versions of
sources only grow, so what was read is at most the current version, and a mapping that
matches the current versions before the merge bounds what is merged (`KnowsSources`).
`FederatedRunsAreDriven` needs the thread that will *succeed* in its next save: `RunsKept`
says who keeps an active run without a cancel request, and whoever overtakes that thread's
save keeps the run from then on. A mapping's keeper saves over the one it has read
(`ConfirmsOpen`), so no confirmation starts from a rejected one. TLC checked
`FederatedInductive` on `FederatedDrive` first.

The proof has one lemma per action, over `ThreadStep`, which says what a thread's new
record and what it stores must satisfy, and its special cases for a thread that only goes
on, saves a row or saves a task. A sum over the sources is a fold of the community modules;
the proof uses only that equal tasks have equal sums.

## 7. A question

`AskPipeline` is `ask_stream()` of the facade for one question: a generator that reads
the catalog, the governed assets, the published graph (twice) and the database, while
`World` scans, activates, deletes and governs. `pc` is where the generator is, `work`
what it has computed, `stream` the events it has yielded, `ran` what the database was
given. The computations are operators:

| module | code |
|---|---|
| `AskIntent` | what the rules find in a text, the merge with the model's reading, clarifications (`semantic/intent.py`, `merge.py`, `clarification.py`) |
| `AskSemantics` | materials, retrieval, recall of candidates, binding, ambiguity (`semantic/retrieval.py`, `grounding.py`, `graph/reading.py`) |
| `AskPlanning` | context, plan and its validator (`querying/context.py`, `planning/grounded_planner.py`, `validation/plans.py`); the SQL, MongoDB and Redis compilers, and the validator of what they make (`querying/generation/`, `validation/native.py`) |
| `AskContracts` | what the validators of the contracts refuse; what a text, a reading, an asset and a revision of the graph are |
| `Places` | the order of a finite set, and the part of a sequence at some places |
| `AskTime` | the calendar (checked in `Decisions`) |

A text is the record of what the patterns find in it: filters with a symbol, a value and a
subject, dates or a relative time, a ranking. A filter keeps the spelling it came with until
`Filter` maps it to one of nine operators (`Spellings`; the Chinese spellings are left out, the
rules find symbols only) or refuses it, and each language has a word of its own for it
(`SqlOperator`, `MongoOperator`, `KeyArgument`). The phrases of a retrieval are those of the
whole query, filter values and the time included, and a reading that names something physical
anywhere is refused (`ParseOK`). A range is two days until a compiler writes its bounds:
SQL the days as they are (`SqlBounds`), MongoDB the midnight of the first and the end of the
last (`MongoBounds`). Words are compared by equality and containment, a score by the three levels that order candidates. The reading of the
intent model is any of `Readings`, including ones that contradict the text. Every
outside call may fail, and the reader of the stream may leave at any event.

`AskPipeline` (68k states; two sources, one of them scanned twice more: its date becomes a
column with times, then its table is created anew; the requests and readings of `MCAsk`, two
changes beside the question) checks

- `AskTypeOK`: no stage hands on what the contract of the next refuses, whatever the model
  reads and the assets say, and only trusted definitions are read;
- `QuestionsReachTheDatabase`, in four parts. `StatedFiltersAreRun`: a filter the text
  states is run with its sense in the language of the source (`Means`) and its value, on a field
  its subject is bound to, and any other is the model's, on a subject the text states none for.
  `StatedTimeIsRun`: a time in the text restricts a date of an object that is read, the field of
  the governed axis unless a metric of the question has its name; of the moments a column
  can hold (`Moments`) none outside the range passes the comparison the database makes
  (`Passes`), and all inside it do but those of the last day of a SQL column with times. `DefinitionsKeepTheirIdentity`: a definition governed for one object
  is never read from another of its name. `MetricsAreRun`: metrics, derivations and the
  metric of the ranking are aggregates of what ran, over their own fields, by the function
  derived for a term of the field or the one governed for it;
- `AnswersAreOfOneRevision`: what ran is of the revision its plan carries;
- `StreamsTellTheOutcome`: the events refine `AskProtocol` (stages in order, one verdict,
  `done` after it and nothing else), and a question that has run is answered with its
  rows. Fairness is of the generator only: its reader pulls, or leaves.

The bounds are in `MCAsk`: each request is there for one path (a metric and a dimension,
a ranking, a derivation, filters with a contradicting model or in another spelling, a time range
on a date, on a column with times and on a document source, a join, an inventory of the
structure, SQL given by the user). A day has two moments, its midnight and a later one.

One field has one aggregate: of two metrics over one column the planner keeps the first, and
of two derivations of one metric the last, without a word (`grounded_planner.py` 187-219).
`MetricsAreRun` says which function runs only where neither is the case.

`NoMetricIsGuessed` is not kept: a metric whose phrase recalled a candidate by another
word of it is bound to that candidate. Nor is `LastDayIsRun`: SQL compares a column with times
by `<=` with the last day (`grounded_sql.py` 89-96, 181-183), which is its midnight, or as
text in SQLite not even that, so the rest of the last day is missing, where MongoDB has all of
it; no document says which is meant. Left out: the older path over profiles
(`querying/pipeline.py`, `simple_planner.py`), wording, the values of scores.

### Proofs

`AskProofs` proves, for all requests, assets, revisions, readings of the model and drivers,
and any number of changes beside the question, every invariant the run checks and the
protocol of the stream:

| theorem | property |
|---|---|
| `AskStays` | `AskInductive`, the inductive invariant |
| `AskTypes` | `AskTypeOK` |
| `QuestionsArrive` | `QuestionsReachTheDatabase` |
| `AnswersOfOneRevision` | `AnswersAreOfOneRevision` |
| `StreamIsThePromised` | `StreamKeepsItsPromise`: the stream is a behaviour of `AskProtocol` |

The assumptions are those of `AskPipeline`. An asset and an object have an id of their own,
and an id is of one source (`GovernanceAssumption`, `RevisionsAssumption`: the scanner makes
ids from those of the source and the object, and a graph with an id twice is refused,
`scan/contracts.py` 52-57, so a path of an object is one field). What is put in order are
strings, each with a place of its own (`NamesAssumption`). A text and a reading are what the
patterns and the contract of the model's answer allow (`RequestsAssumption`). The two ends of
a range are days, and every relative time has an entry in `Ranges`, which may say that it is
none (`RangesAssumption`). Scores, limits
and which expression contains which are arbitrary.

The argument. What a question carries in `work` is what its stages computed from what they
were given, and stays so while the graph, the registry and the catalog move on:
`Understood`, `Retrieved`, `Grounded`, `Planned` and `Compiled` say it stage by stage, each
on top of the one before, and `AskInductive` says which of them holds where. The read a
retrieval was given is one revision of every source it has (`IsRead`), whatever is published
by now. Everything else follows from what the operators compute, in the order of the
pipeline:

- a candidate is `Sound` for its read: its object and its field are there, with its type,
  and a governed definition with an identity is on that object (`PhysicalSound`,
  `MaterialSound`, `RetrievalFacts`);
- a grounding binds only sound candidates of its scope, a metric by its term once, and the
  axis on one field (`Grounds`, `GroundFacts`);
- a context has the filters, the time and the derivations of its query on such bindings
  (`Contexts`, `ContextFacts`), and is what its contract asks (`ContextIsOne`);
- a plan aggregates every metric that is bound, by its function, and is ordered by the
  aggregate of its ranking (`AggregatesFacts`, `FunctionFacts`, `RankingFacts`), and is what
  its contract asks if its validator takes it (`PlanIsOne`);
- a filter keeps its subject, its sense and its value from the text to the words of a language
  (`Said`, `KeepsFilters`, `SymbolFacts`);
- a compiled query keeps the parts of its plan, and one for Redis, which drops its time, has
  none (`NativeFacts`); what passes its bounds is inside the range, and what is inside passes
  but for the last day of SQL (`RangeFacts`, `BoundsFacts`).

`QuestionsArrive` puts these together; that no contract fails, so that no internal error is
told for a question the planner takes, is `AskTypes`. In `AnswersOfOneRevision` the version
of a plan that passes the check is not 0, so its read had one source and the version is
that source's (`ScanVersionFacts`); its fields are of bindings, and these of the read.
`StreamIsThePromised` needs only what was yielded last at each place of the generator
(`StreamFits`). TLC found `AskInductive` and `StreamFits` to hold on the instance of the run
before they were proved.

Only model-checked: that a question that has run is answered (`ExecutedQuestionsAnswer`, the
other half of `StreamsTellTheOutcome`), which is liveness.

## 8. Secrets, profiles and their files

`Credentials` has the files of the store, the profiles of the catalog and the temporary
files of connections; threads create identities (two files with a roll-back), test,
create, update and delete datasources, and delete secrets. One action is one access to
the store or the catalog, or one count of references; each may fail, and a crash comes
at any point. `raced` holds secrets that were being deleted when a profile naming them
was written, `left` those whose clean-up or roll-back failed: nothing in the code
prevents either, and the invariants exempt these and no others.

The run `Credentials` (2 threads, 3 secrets, 2 datasources with a password and a
certificate, 3 calls, 1 crash; symmetric) checks `SecretsFollowProfiles`: a secret that a
profile names is there, one that was named and is not any more is collected, and no
file is left of an identity that nobody was told of. Three secrets are two of an identity
and one that is shared. `NoProfileLosesItsSecret`, without the exemption, is what the
docstring of `delete_secret()` says and the code does not keep.

`CredentialsProofs` proves it for every set of threads, secrets, datasources and fields
and every bound: `CredentialsInvariant` (`Spec => []CredentialsInductive`) and from it
`SecretsAreKept`. The assumptions are those of `Credentials`: finitely many datasources and
fields, and the null values are no secrets and no profiles. The argument: a secret that a
count found unused stays unused until its file goes, or a profile that names it has been
written in between and the secret is in `raced` (`UnlinkedAreUnused`); nobody can name a
secret he was not told of (`Knows`, `NamedAreKnown`), so the two files of an import under
way are nobody's (`ImportsAreApart`) and its roll-back deletes nothing that is used; and a
secret that a profile ceases to name is, from that very step, on the list of the call that
replaced it (`GarbageIsCollected`), which takes that the list is computed from the profile
that was replaced (`Fits`).

What is *in* the files is `SecretMaterial` and what a driver is given `Tls`; both are
operators that `Decisions` checks (section 10). The public metadata of a secret and its
inspection change nothing and are left out.

## 9. Excel imports

`ExcelImport` has a directory per file (its source, its database, its manifest), the
datasources that read them with their snapshots, and the graph. Threads import over HTTP
(with an upload that is removed) or from the command line, scan and delete. A state
counts how often a database was written, and `doubled` holds the files whose imports
overlapped.

The run `ExcelImport` (2 threads, 2 files, 2 datasources, 4 calls, 1 crash; symmetric)
checks `ImportsAreRepeatable`: an import that is alone succeeds whatever was broken off
before; the database is written and the datasource created once, unless imports
overlapped; a READY manifest has its datasource, and that its snapshot. Four calls are two
imports, a scan or deletion, and a retry. `NothingIsImportedTwice`, without the
exemption, is what `docs/excel-ingestion.md` (318) says and the code does not keep.

`ExcelProofs` proves it for every set of threads, files and datasources and every bound:
`ExcelInvariant` (`Spec => []Repeatable`) and from it `ImportsCanBeRepeated`. The
assumptions are those of `ExcelImport`: no datasource or file is the null value, and the
marks for rows and manifests that are not there are neither.

The argument. Files and databases are never taken away, a datasource keeps its file and
its versions until it is deleted, and a deleted one is not created again (`Grows`); so what
a call has seen stays so, or its datasource is gone, whatever other calls do behind its
back (`CallHolds`, `OthersHold`). A database is written twice, or a second datasource
created, only by a call that looked before another one wrote; that call stood at the same
step, which is what `doubled` records (`KeepsSight`). The version a scan commits is the
next one: it was read when all before it were there (`KeptByCommitScan`). That an import
which is alone succeeds takes more: it is called clean as long as nobody joins it and
nothing fails, and then everything it has read is still so (`CleanCall`, `CleanIsAlone`):
the manifest that made it a retry, the publication it compares with. A clean import may
begin after any crash except one between the graph and the catalog of a snapshot that it
would trust (`Torn`). The proof has one lemma per action; they reduce to what a step
changes: a call (`QuietStep`), the graph, a directory, or the catalog.

## 10. Decisions

`Decisions` has one variable, `input`, which ranges over all small inputs of the pure
parts of the system; each property compares what the code computes with what it should
mean. 626k inputs.

| property | compares |
|---|---|
| `QuestionsKeepTheirMeaning` | `AskTime` with the calendar: ranges that follow each other, lengths, numerals, on every day of three years with a leap year among them; `FollowUps`: dates, numbers, filters and the source the user named survive the model's rewriting, a date of a clarification replaces the relative time of the question, a question that leans on nothing is asked as it stands, and what a model is shown fits and is the newest |
| `StatementsAreRead` | `ReadOnlySql` with a reader that goes through a statement mark by mark: what is accepted is one statement that starts with a reading word and has no word of the list in its code, whatever quotes and comments are in it |
| `FederatedAnswersAreSound` | the router with coverage, the validator with what the merger accepts, joins and series (`FederatedMerge`) with their relational meaning: a series has a row for every text of a time that occurs, so a day two sources write in different forms has two |
| `TlsIsNeverWeakened` | what is asked of TLS with what every one of 16 drivers is given; identities accepted with identities usable; documents of the store with what they were sealed as |
| `WorkbooksAreTakenWhole` | `ExcelSheet`: refused exactly when something cannot be kept, else every row and every value's meaning kept |
| `ScanReportsAreWhole` | the reports of `ScanBatch` with what happened to each source |
| `GovernedAssetsAreKept` | the bindings of `AssetLoading` with the graph, wherever the saving of a file breaks off and when it is loaded again; a registry before and after its move |
| `DownloadsAreWhole` | `SetupTools`: what is on disk with the artifact, through three attempts |
| `ChartsShowTheAnswer` | `Charts`: what is drawn with the rows of the answer; nothing is offered that cannot be drawn |

Not kept: `NamedMonthsAreWhole` (a named month is read as its first day),
`RegistriesSurviveCrashes` (the move of a registry is several commits),
`MetricsHaveIdentity` (a metric bound by the id of its profile gets none in the graph),
`FollowUpsKeepEverything` (a rewriting may drop relative times, rankings and comparisons) and
`AcceptedStatementsOnlyRead` (`INTO`, `MERGE` and others are not in the list of words).
Two more limits show in the reference definitions: a quotient over three sources passes
the validator and fails in the merger (`ValidPlansMerge`), and a source with more objects
than a bounded read returns (2,000) never passes a batch (`Whole`).

The assets of a file are saved one by one, each in a commit of its own; `LoadUpTo` is a load
that stops before a given one. An alias may then point nowhere until the file is loaded
again. Left out: the mismatch of a workspace, which refuses a file, and the other forms in
which a text may write a day (`20240101`).

## 11. The installer

`Installer` runs the thirteen checks of `run_checks` in order, each with what it may
repair, again and again (three setups, dry or not) over one checkout: `.env`, the
credential store the machine's checkouts share, Neo4j's volume, tools, backend and
frontend. A setup stops between any two checks, the backend stores secrets, and the
operator stops services, edits or removes the file, or removes the volume.

A Node.js is on `PATH` (`"node"`) or was put into `.tools/node` by a setup (`"vendored"`): the
setup that downloaded it uses it, but no later one finds it, since `ensure_node` looks on
`PATH` only (830) and `discover` for a file `.tools/node`, which is a directory (1930-1943).

`InstallerSetup` (5.2M states) checks `StoredSecretsStayReadable` (no setup ever replaces
the key that stored secrets need) and `SetupsKeepTheirWord`: a setup that exits with 0
leaves a workspace that works, which the next one finds in order but for a Node that is
not on `PATH`, and `--check` changes nothing. `ReadyBackendIsCurrent` is not kept: a backend
that answers is reused though it was started with an older file. Nor is
`RepairedNodeIsFound`: a Node reported as repaired is downloaded again by every later setup, or
blocks it. Three setups are one that is broken off, one that repairs, and one that has to
find nothing but such a Node.

### Proofs

`InstallerProofs` proves, for every set of keys and every bound, `InstallerInvariant`
(`Spec => []Consistent`) and from it both properties of the run, `SecretsStayReadable` and
`SetupsKeepTheirPromise`. Of a Node they say what the code keeps: the setup that downloads it
has it (`HasNode`), the next one does not.

The argument. That stored secrets stay readable does not follow from the step that makes
a key: it takes that a backend which has a key has that of the file
(`BackendHasTheKey`), that all the documents of this checkout were sealed with one key
(`OneKey`), and that a key is made only for a store without documents of it and never
replaced. That ready means ready takes that the reports of a setup come in the order of
its checks (`ReportsInOrder`) and that what a check has vouched for, no later check of the
same setup undoes (`ReportsStayTrue`; the operator acts between setups, which ends the
promise of the one before); the file is there from its check on (`FileIsWritten`), and where
the graph answers its container runs (`DockerRuns`). A dry run is by cases: no check of one changes anything but its report.

### Left out

A check that raises (`ensure_uv` when its download fails) ends the setup, which is the
action `Stop`; it may fall between the removal of an older `.tools/node` and the move of the
new one. A Node on `PATH` that is too old for Vite counts as none. Left out: variables an operator exports over the file, switches other than
`--check`, the graph store `null`, a missing compose plugin, what an operator does while a
setup runs, and two setups of one checkout at once.

## 12. The web client

`WebPage` is the page around the conversations, `WebConversation` the conversation it
mounts while the user asks. `WebClient` composes them; they share the workspace and whether
a conversation is mounted, and a change of either is a step of each, so a behaviour is
about one of the two, or about a user who asks once, answers what is asked back and looks
elsewhere in between (`part`).

| state | code |
|---|---|
| `page` | `App.jsx` 18-19: view, workspace, datasources shown, selection, phase and result of the import |
| `listings`, `upload` | requests for datasources on their way, the import on its way |
| `tab` | `ConversationWorkspace.jsx` 28-43 with its reducer: what is selected, shown, known of runs, followed, typed, pending |
| `calls` | requests of the conversation on their way, each with what follows its reply |
| `catalog`; `rooms`, `runs` | what the server has: ready datasources; conversations, and runs with a stage and a revision |
| `seen`, `heard` | history for the properties |

| actions | code |
|---|---|
| `SelectWorkspace`, `SelectView`, `GoAsk` | `App.jsx` 23-26, 60, 75; each asks for a listing (38-43) |
| `AnswerListing`, `ListingArrives`, `ListingFails` | 28-31, 38-43, `datasourceScope.js` |
| `Submit`, `BytesSent`, `ImportSucceeds`, `ImportFails` | 55-59, `importState.js`, `upload.js` |
| `Connect`, `Delete` | `DatasourceManager.jsx`, which has a list of its own |
| `ServeRead`, `ServeCreate`, `ServeAct`, `ServeRooms`, `Advance` | the routes, and a run that goes on |
| `ListArrives`, `DetailArrives`, `RunArrives`, `RowArrives`, `CreateArrives`, `ActArrives`, `OpenArrives`, `DeleteArrives` | what follows each `await` in 46-175 |
| `Hear`, `StreamBreaks` | the subscription, 85-103, and its end when the proxy refuses it; the connection itself is `RunStream` (section 3) |
| `FailCall` | a refusal, or a request or reply that is lost; a lost request may still be served |
| `Select`, `NewConversation`, `Remove`, `Send`, `Act`, `Refresh` | 105-175, 199 |
| `Leave`, `Mount` | the conversation is unmounted and mounted anew, with `App`'s key for it |

The run `WebClient` (1.4M states) checks

- `PagesShowTheirSources`: when nothing is on its way, the selection is among the sources
  shown, these are the workspace's if the listing asked for last came last, and the source
  that was imported or that the user went to ask is selected; an import ends for the user;
- `ConversationsAreShown`: a question is asked once, however often it is sent because its
  reply was lost; an answer reaches the question it was typed for, unless the page may have been
  behind (`heard.behind`): a request was lost, an answer was on its way when its page was
  left, or a conversation was opened anew while older reads were on their way; what is shown is of the conversation selected; when nothing is on its way and
  nothing went astray, it is all of it, and a run that goes on is followed; and the input
  comes back whatever happens to what was sent.

Bounds. Two workspaces, sources and listings are what it takes for a listing of the one to
arrive in the other, or after a later one. Four moves are an import, a change of workspace
or view, and two more. Two conversations and two runs let a reply arrive in the other
conversation and a run follow another. What the user does while a request is on its way
counts twice (`MayAct`): three in all are a question, an answer or retry after it, and
another, or one of them and something that overtakes it. One loss (`MaxLost`) is a resent
question. The user who only answers has six (`MaxAnswers`) and loses nothing: ask, answer,
leave, come back, answer again, which is what an answer needs to meet a later question.
Fairness: a request is answered or breaks, as the browser ends it, and streams go
on, which is the subject of `RunStream`; users do what they like. It sets `CHECK_DEADLOCK
FALSE` as users may stop.

Not kept: `ImportedIsSelected` and `ShownBelong` (listings are applied as they arrive),
`LatestIsFollowed` (selecting the selected conversation again ends the following of its
run, as does a late reply about another), and `AnswersReachTheCurrentQuestion` (an answer
names the run, not the question: sent again after a lost reply, it answers the next; so does
an older answer that arrives after its page was left and the question was answered anew).
`seen` and `heard` hold when one of these has happened, and only then the properties above
exempt the page.

Left out: the sidebar's list, the runs before the latest, the scope chosen for a new
conversation, reads of a run on an event that fail, the scan before a retry of
`rescan-retry` (a request of its own, and a retry), the wizard, the page of join mappings,
and how anything looks.

## 13. What the code does not keep

Properties that a comment, a docstring or a document states (for `LastDayIsRun` only MongoDB's
bounds do), with the section that says how the code breaks them. They are defined beside the others, in the module named.

| property | module | section |
|---|---|---|
| `NeverLoseARun`, `CancelEndsTheRun`, `CompletionAnnouncedOnce` (two workers) | `RunProperties` | 3 |
| `SubscriptionsEnd` | `RunStream` | 3 |
| `NoMixedQuery`, `StalePlansAreRefused`, `FailedScansKeepTheGraph` | `DatasourceLifecycle` | 4 |
| `AnnouncedFindingsAreKept` | `DiagnosticProperties` | 5 |
| `NoFederatedRunIsLost`, `JoinsMatchTheirMapping` | `FederatedProperties` | 6 |
| `NoMetricIsGuessed`, `LastDayIsRun` | `AskProperties` | 7 |
| `NoProfileLosesItsSecret` | `Credentials` | 8 |
| `NothingIsImportedTwice` | `ExcelImport` | 9 |
| `NamedMonthsAreWhole`, `RegistriesSurviveCrashes`, `MetricsHaveIdentity`, `FollowUpsKeepEverything`, `AcceptedStatementsOnlyRead` | `Decisions` | 10 |
| `ReadyBackendIsCurrent`, `RepairedNodeIsFound` | `Installer` | 11 |
| `ImportedIsSelected`, `ShownBelong` | `WebPage` | 12 |
| `LatestIsFollowed`, `AnswersReachTheCurrentQuestion` | `WebConversation` | 12 |

To see a counterexample, add the property to the configuration of its module's run
(`CompletionAnnouncedOnce` to `RunPool`, `CancelEndsTheRun` to `RunRestart`).

## 14. Not modelled

Adapters, the model gateway and the embedding of texts are I/O: a call returns one of the
results the code handles, or fails. The command line, MCP, the agent interface and the
remaining routes are stateless wrappers of the facade. The documents of a profile are
rendered from it; redaction, errors and rendering are formatting. The acceptance scripts
drive the system from outside. What the web client keeps no protocol about is listed in
section 12. A second orchestrator on one database, which would fail the first one's live
runs, is outside the shipped deployment. Datasources stored with a raw connection document
cannot be updated and are otherwise the same. The call of a model that resolves a follow-up
lies between two transactions of the runtime and is one of its outcomes; its guards are in
`FollowUps`.

Proved are the theorems of sections 3 to 9 and 11. Only model-checked, on the instances
above, are the rest of section 3, the liveness of section 7, and sections 10 and 12.
Liveness, and what recursive definitions over data compute, are out of the prover's reach.
