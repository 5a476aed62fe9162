----------------------------- MODULE RunRuntime -----------------------------
(***************************************************************************)
(* The durable Run runtime: RunOrchestrator over SQLiteRunRepository,      *)
(* SQLiteConversationRepository and a ThreadRunScheduler, for the Runs of  *)
(* one conversation.                                                       *)
(*                                                                         *)
(* Every action is one transaction on the store (the stores open one       *)
(* connection per call), so that the steps of the pool's workers, of the   *)
(* API calls and of a restart interleave as they do in the process.  A     *)
(* client call that reads a row and saves it back is one action: when its  *)
(* compare-and-swap loses, the caller gets an error and nothing changes.   *)
(*                                                                         *)
(* The Ask itself is external: it yields stage records and ends with one   *)
(* of Outcome.  Records that only append ASK_PROGRESS are not told apart   *)
(* from the ones that do, and a run of progress events is one PROGRESS.    *)
(***************************************************************************)
EXTENDS RunStore, Sequences, FiniteSets

CONSTANTS
    Runs,        \* the runs clients may create in the conversation
    Workers,     \* threads of the pool (max_workers)
    Boot,        \* the thread that constructs the orchestrator
    NoRun,       \* no run
    MaxReplies,  \* bound: clarification answers accepted per run
    MaxRetries,  \* bound: retries accepted per run
    MaxCancels,  \* bound: cancel requests accepted
    MaxCrashes,  \* bound: process crashes
    MayDelete    \* whether a client may delete the conversation

ASSUME RunsAssumption == NoRun \notin Runs /\ IsFiniteSet(Runs)
ASSUME ThreadsAssumption == Boot \notin Workers
ASSUME BoundsAssumption ==
    {MaxReplies, MaxRetries, MaxCancels, MaxCrashes} \subseteq Nat /\ MayDelete \in BOOLEAN

VARIABLES
    \* durable
    run,           \* the run table
    log,           \* run_event: the event types of each run in sequence order
    messages,      \* conversation_message, per run
    memory,        \* conversation_memory
    conversation,  \* "active" or "deleted"
    \* in the process
    worker,        \* the local state of every thread
    queue,         \* the pool's pending submissions
    calls,         \* API calls between two of their transactions
    \* history and bounds
    clock,         \* completions so far, the time that orders them
    asked,         \* Ask executions started, per run
    replied,       \* clarification answers accepted, per run
    retried,       \* retries accepted, per run
    cancels,       \* cancel requests accepted
    crashes        \* process crashes

store == <<run, log, messages, memory, conversation, clock>>
process == <<worker, queue, calls>>
history == <<asked, replied, retried, cancels, crashes>>
vars == <<store, process, history>>

-----------------------------------------------------------------------------
(* Types *)

Threads == Workers \cup {Boot}

Fault == {"blocked", "transient", "permanent"}

Reply == {"question", "query", "listing"}

Outcome == Fault \cup Reply \cup {"block"}

EventType == {"RUN_STARTED", "PROGRESS", "CLARIFICATION_REQUIRED", "RUN_COMPLETED",
              "RUN_FAILED", "RUN_BLOCKED", "RUN_CANCELLED"}

PC == {"idle", "claim", "started", "begin", "context", "check_context", "discover",
       "check_ask", "ask", "advance", "settle", "cancel", "message", "memory", "revision",
       "put", "publish", "except", "check_failure", "fail", "repair_completions",
       "repair_clarifications", "repair", "interrupt", "resubmit"}

\* Which code a thread is in: execute() catches what _drive raises; an exception
\* raised by its handler, by a repair or by the constructor escapes.
Mode == {"drive", "handle", "completions", "clarifications", "interrupted"}

Worker == [pc: PC, mode: Mode, job: Runs \cup {NoRun}, snap: Row,
           outcome: Outcome \cup {"none", "cancel"}, stamp: Nat, expected: Nat,
           todo: SUBSET [job: Runs, snap: Row]]

Idle == [pc |-> "idle", mode |-> "drive", job |-> NoRun, snap |-> NoRow,
         outcome |-> "none", stamp |-> 0, expected |-> 0, todo |-> {}]

Thread == [question: BOOLEAN, prompts: SUBSET Nat, replies: Nat, answer: BOOLEAN]

NoThread == [question |-> FALSE, prompts |-> {}, replies |-> 0, answer |-> FALSE]

NewMemory == [last |-> NoRun, revision |-> 0, stamp |-> 0]

Call == [op: {"insert", "post", "reply", "submit", "event"}, run: Runs]

TypeOK ==
    /\ run \in [Runs -> Row]
    /\ log \in [Runs -> Seq(EventType)]
    /\ messages \in [Runs -> Thread]
    /\ memory \in [last: Runs \cup {NoRun}, revision: Nat, stamp: Nat]
    /\ conversation \in {"active", "deleted"}
    /\ worker \in [Threads -> Worker]
    /\ queue \in Seq(Runs)
    /\ calls \subseteq Call
    /\ asked \in [Runs -> Nat] /\ replied \in [Runs -> Nat] /\ retried \in [Runs -> Nat]
    /\ clock \in Nat /\ cancels \in Nat /\ crashes \in Nat

Init ==
    /\ run = [r \in Runs |-> NoRow]
    /\ log = [r \in Runs |-> <<>>]
    /\ messages = [r \in Runs |-> NoThread]
    /\ memory = NewMemory
    /\ conversation = "active"
    /\ worker = [t \in Threads |-> Idle]
    /\ queue = <<>>
    /\ calls = {}
    /\ asked = [r \in Runs |-> 0]
    /\ replied = [r \in Runs |-> 0]
    /\ retried = [r \in Runs |-> 0]
    /\ clock = 0 /\ cancels = 0 /\ crashes = 0

-----------------------------------------------------------------------------
(* Steps of a thread on the store *)

Job(t) == worker[t].job
Snap(t) == worker[t].snap
At(t, label) == worker[t].pc = label

\* The API answers and the pool exists once the constructor has returned.
Up == At(Boot, "idle")

\* SQLiteRunRepository.save: UPDATE ... WHERE id=? AND revision=?
Fresh(t) == Present(run[Job(t)]) /\ run[Job(t)].revision = Snap(t).revision

\* Where the outcome of a drive leads: an answer passes the stages it skipped.
SettleTarget(t) ==
    IF worker[t].outcome = "block" THEN "BLOCKED"
    ELSE IF worker[t].outcome = "question" THEN "WAITING_USER"
    ELSE IF Snap(t).status = "ANSWERING" THEN "COMPLETED"
    ELSE NextStage[Snap(t).status]

\* The status the transition at this place asks for.
Target(t) ==
    CASE At(t, "claim")    -> "CONTEXTUALIZING"
      [] At(t, "discover") -> "DISCOVERING"
      [] At(t, "advance")  -> NextStage[Snap(t).status]
      [] At(t, "cancel")   -> "CANCELLED"
      [] At(t, "fail")     -> IF worker[t].outcome = "blocked" THEN "BLOCKED" ELSE "FAILED"
      [] At(t, "settle")   -> SettleTarget(t)

Moved(t) == Transition(Snap(t), Target(t))

\* transition() and save() both accept.
MaySave(t) == CanTransition(Snap(t), Target(t)) /\ Fresh(t)

Becomes(t, w) == worker' = [worker EXCEPT ![t] = w]

Goto(t, label) == Becomes(t, [worker[t] EXCEPT !.pc = label])

Release(t) == Becomes(t, Idle)

SaveRow(t, row) == run' = [run EXCEPT ![Job(t)] = Saved(row)]

Write(t, row, label) ==
    /\ SaveRow(t, row)
    /\ Becomes(t, [worker[t] EXCEPT !.snap = Saved(row), !.pc = label])

\* An exception: the handler of execute() sees it only when _drive raised it.
Raise(t, fault) ==
    Becomes(t, IF worker[t].mode = "drive"
               THEN [worker[t] EXCEPT !.pc = "except", !.outcome = fault]
               ELSE Idle)

LastEvent(r) == IF log[r] = <<>> THEN "none" ELSE log[r][Len(log[r])]

Published(r, event) == \E i \in 1..Len(log[r]) : log[r][i] = event

AppendEvent(r, event) ==
    log' = [log EXCEPT ![r] =
        IF event = "PROGRESS" /\ LastEvent(r) = "PROGRESS" THEN @ ELSE Append(@, event)]

\* A slip of EventOf: a question is announced by the name of its status.
EventOfByStatus == [
    question |-> "WAITING_USER", query |-> "RUN_COMPLETED", listing |-> "RUN_COMPLETED",
    block |-> "RUN_BLOCKED", blocked |-> "RUN_BLOCKED", transient |-> "RUN_FAILED",
    permanent |-> "RUN_FAILED", cancel |-> "RUN_CANCELLED"]

EventOf == [
    question |-> "CLARIFICATION_REQUIRED", query |-> "RUN_COMPLETED",
    listing |-> "RUN_COMPLETED", block |-> "RUN_BLOCKED", blocked |-> "RUN_BLOCKED",
    transient |-> "RUN_FAILED", permanent |-> "RUN_FAILED", cancel |-> "RUN_CANCELLED"]

-----------------------------------------------------------------------------
(* execute(): claim a run *)

\* A pool thread takes the oldest submission and reads its row.
Pick(t) ==
    /\ At(t, "idle") /\ queue # <<>>
    /\ queue' = Tail(queue)
    /\ LET r == Head(queue) IN
       IF Runnable(run[r])
       THEN Becomes(t, [Idle EXCEPT !.pc = "claim", !.job = r, !.snap = run[r]])
       ELSE UNCHANGED worker
    /\ UNCHANGED <<store, calls, history>>

\* Either another writer was first, or the row now belongs to this thread.
Claim(t) ==
    /\ At(t, "claim")
    /\ IF MaySave(t)
       THEN Write(t, [Moved(t) EXCEPT !.retryable = FALSE, !.response = "none"], "started")
       ELSE Release(t) /\ UNCHANGED run
    /\ UNCHANGED <<log, messages, memory, conversation, clock, queue, calls, history>>

Started(t) ==
    /\ At(t, "started")
    /\ AppendEvent(Job(t), "RUN_STARTED")
    /\ Goto(t, "begin")
    /\ UNCHANGED <<run, messages, memory, conversation, clock, queue, calls, history>>

-----------------------------------------------------------------------------
(* _drive(): from the context to an outcome.  What runs outside the store    *)
(* between two transactions (the model, the router, the Ask) is part of the  *)
(* action of the transaction before or after it.                             *)

\* A slip of CheckCancel: the request is not looked for.
CheckCancelSkipped(t, next) == Becomes(t, next)

\* _cancel_if_requested reads the row again; a request found is saved as a
\* cancellation by a later step.  Otherwise the thread goes on as `next'.
CheckCancel(t, next) ==
    LET latest == run[Job(t)] IN
    Becomes(t, IF ~latest.cancel THEN next
               ELSE IF latest.status \in Terminal THEN Idle
               ELSE [worker[t] EXCEPT !.pc = "cancel", !.snap = latest])

CancelRun(t) ==
    /\ At(t, "cancel") /\ MaySave(t)
    /\ SaveRow(t, Moved(t))
    /\ Becomes(t, [worker[t] EXCEPT !.snap = Saved(Moved(t)), !.pc = "publish",
                                    !.outcome = "cancel"])
    /\ UNCHANGED <<log, messages, memory, conversation, clock, queue, calls, history>>

\* The first check, then the conversation and its messages.  A conversation
\* deleted while the run was being created is a KeyError.
Begin(t) ==
    /\ At(t, "begin")
    /\ IF run[Job(t)].cancel \/ (conversation = "active" /\ messages[Job(t)].question)
       THEN CheckCancel(t, [worker[t] EXCEPT !.pc = "context"])
       ELSE Raise(t, "permanent")
    /\ UNCHANGED <<store, queue, calls, history>>

\* The resolved question is saved and CONTEXT_READY appended, or the resolver fails.
Context(t) ==
    /\ At(t, "context")
    /\ \/ /\ \E fault \in Fault : Raise(t, fault)
          /\ UNCHANGED <<run, log>>
       \/ /\ Fresh(t)
          /\ Write(t, Snap(t), "check_context")
          /\ AppendEvent(Job(t), "PROGRESS")
    /\ UNCHANGED <<messages, memory, conversation, clock, queue, calls, history>>

ContextChecked(t) ==
    /\ At(t, "check_context")
    /\ CheckCancel(t, [worker[t] EXCEPT !.pc = "discover"])
    /\ UNCHANGED <<store, queue, calls, history>>

\* The save, then the scope check and the federation router: a failure, a
\* question which source is meant, or one Ask.
Discover(t) ==
    /\ At(t, "discover") /\ MaySave(t)
    /\ SaveRow(t, Moved(t))
    /\ \/ Becomes(t, [worker[t] EXCEPT !.snap = Saved(Moved(t)), !.pc = "check_ask"])
       \/ \E outcome \in Fault \cup {"question"} :
            Becomes(t, [worker[t] EXCEPT
                !.snap = Saved(Moved(t)), !.outcome = outcome,
                !.pc = IF outcome = "question" THEN "settle" ELSE "except"])
    /\ UNCHANGED <<log, messages, memory, conversation, clock, queue, calls, history>>

\* The check before the first next() of the generator, which starts the Ask.
AskStarted(t) ==
    /\ At(t, "check_ask")
    /\ CheckCancel(t, [worker[t] EXCEPT !.pc = "ask"])
    /\ asked' = IF run[Job(t)].cancel THEN asked ELSE [asked EXCEPT ![Job(t)] = @ + 1]
    /\ UNCHANGED <<store, queue, calls, replied, retried, cancels, crashes>>

\* next(records), then the check: the record of the next stage, or the end of
\* the Ask with its outcome.
Ask(t) ==
    /\ At(t, "ask")
    /\ \/ /\ Snap(t).status \in DOMAIN NextStage
          /\ CheckCancel(t, [worker[t] EXCEPT !.pc = "advance"])
       \/ \E outcome \in Outcome :
            CheckCancel(t, [worker[t] EXCEPT !.pc = "settle", !.outcome = outcome])
    /\ UNCHANGED <<store, queue, calls, history>>

\* _advance and the ASK_PROGRESS event of the record.
Advance(t) ==
    /\ At(t, "advance") /\ MaySave(t)
    /\ Write(t, Moved(t), "ask")
    /\ AppendEvent(Job(t), "PROGRESS")
    /\ UNCHANGED <<messages, memory, conversation, clock, queue, calls, history>>

-----------------------------------------------------------------------------
(* The outcome of a drive *)

SettleFault(t) ==
    /\ At(t, "settle") /\ worker[t].outcome \in Fault
    /\ Raise(t, worker[t].outcome)
    /\ UNCHANGED <<store, queue, calls, history>>

\* A clarification nobody can answer, or one the last answer did not resolve.
SettleBlock(t) ==
    /\ At(t, "settle") /\ worker[t].outcome = "block" /\ MaySave(t)
    /\ Write(t, Moved(t), "publish")
    /\ UNCHANGED <<log, messages, memory, conversation, clock, queue, calls, history>>

SettleQuestion(t) ==
    /\ At(t, "settle") /\ worker[t].outcome = "question" /\ MaySave(t)
    /\ Write(t, [Moved(t) EXCEPT !.response = "question"], "message")
    /\ UNCHANGED <<log, messages, memory, conversation, clock, queue, calls, history>>

\* A slip of AfterAnswer: ANSWERING is not saved.
AfterAnswerEarly(t) == IF Snap(t).status = "EXECUTING" THEN "message" ELSE "settle"

\* _advance to ANSWERING, one save per stage, then COMPLETED.
AfterAnswer(t) == IF Target(t) = "COMPLETED" THEN "message" ELSE "settle"

SettleAnswer(t) ==
    /\ At(t, "settle") /\ worker[t].outcome \in {"query", "listing"} /\ MaySave(t)
    /\ IF Target(t) = "COMPLETED"
       THEN /\ Write(t, [Moved(t) EXCEPT !.response = worker[t].outcome,
                                         !.completed = clock + 1], AfterAnswer(t))
            /\ clock' = clock + 1
       ELSE /\ Write(t, Moved(t), AfterAnswer(t))
            /\ UNCHANGED clock
    /\ UNCHANGED <<log, messages, memory, conversation, queue, calls, history>>

\* A save that is refused or loses the compare-and-swap: "run revision
\* conflict".  The worker's claim has its own handler.
LoseSave(t) ==
    /\ \/ At(t, "context") /\ ~Fresh(t)
       \/ worker[t].pc \in {"discover", "advance", "cancel"} /\ ~MaySave(t)
       \/ At(t, "settle") /\ worker[t].outcome \notin Fault /\ ~MaySave(t)
       \/ At(t, "fail") /\ Snap(t).status \notin Terminal /\ ~MaySave(t)
    /\ Raise(t, "permanent")
    /\ UNCHANGED <<store, queue, calls, history>>

\* assistant_message: a deterministic id and INSERT OR IGNORE.  Nothing ties
\* the message to an existing conversation or run.
PostMessage(t) ==
    /\ At(t, "message")
    /\ messages' = IF worker[t].outcome = "question"
                   THEN [messages EXCEPT ![Job(t)].prompts = @ \cup {Snap(t).revision}]
                   ELSE [messages EXCEPT ![Job(t)].answer = TRUE]
    /\ Goto(t, IF worker[t].outcome = "query" THEN "memory" ELSE "publish")
    /\ UNCHANGED <<run, log, memory, conversation, clock, queue, calls, history>>

\* A repair leaves newer memory alone; the drive itself always writes.
WantsMemory(t) ==
    worker[t].mode = "completions" =>
        memory.last # Job(t) /\ memory.stamp < Snap(t).completed

ReadMemory(t) ==
    /\ At(t, "memory")
    /\ IF conversation = "deleted"
       THEN Raise(t, "permanent")
       ELSE IF WantsMemory(t)
            THEN Becomes(t, [worker[t] EXCEPT !.pc = "revision", !.stamp = clock])
            ELSE Goto(t, "publish")
    /\ UNCHANGED <<store, queue, calls, history>>

ReadMemoryRevision(t) ==
    /\ At(t, "revision")
    /\ IF conversation = "deleted"
       THEN Raise(t, "permanent")
       ELSE Becomes(t, [worker[t] EXCEPT !.pc = "put", !.expected = memory.revision])
    /\ UNCHANGED <<store, queue, calls, history>>

\* put_memory: compare-and-swap on the memory's own revision.
PutMemory(t) ==
    /\ At(t, "put")
    /\ IF conversation = "active" /\ memory.revision = worker[t].expected
       THEN /\ memory' = [last |-> Job(t), revision |-> memory.revision + 1,
                          stamp |-> worker[t].stamp]
            /\ Goto(t, "publish")
       ELSE /\ Raise(t, "permanent")
            /\ UNCHANGED memory
    /\ UNCHANGED <<run, log, messages, conversation, clock, queue, calls, history>>

\* The event that announces the outcome; a repair goes on with its list.
Publish(t) ==
    /\ At(t, "publish")
    /\ AppendEvent(Job(t), EventOf[worker[t].outcome])
    /\ CASE worker[t].mode \in {"completions", "clarifications"} -> Goto(t, "repair")
         [] worker[t].mode = "interrupted" -> Goto(t, "interrupt")
         [] OTHER -> Release(t)
    /\ UNCHANGED <<run, messages, memory, conversation, clock, queue, calls, history>>

-----------------------------------------------------------------------------
(* The exception handler of execute() *)

\* A row that is gone raises KeyError out of the handler.
Except(t) ==
    /\ At(t, "except")
    /\ LET current == run[Job(t)] IN
       Becomes(t, IF ~Present(current) THEN Idle
                  ELSE [worker[t] EXCEPT !.mode = "handle", !.snap = current, !.pc =
                    CASE current.status = "COMPLETED"    -> "repair_completions"
                      [] current.status = "WAITING_USER" -> "repair_clarifications"
                      [] OTHER                           -> "check_failure"])
    /\ UNCHANGED <<store, queue, calls, history>>

FailureChecked(t) ==
    /\ At(t, "check_failure")
    /\ CheckCancel(t, [worker[t] EXCEPT !.pc = "fail"])
    /\ UNCHANGED <<store, queue, calls, history>>

\* A run already terminal is left as it is; a conflict here escapes.
FailRun(t) ==
    /\ At(t, "fail")
    /\ IF Snap(t).status \in Terminal
       THEN Release(t) /\ UNCHANGED run
       ELSE /\ MaySave(t)
            /\ Write(t, [Moved(t) EXCEPT !.retryable = (worker[t].outcome = "transient")],
                     "publish")
    /\ UNCHANGED <<log, messages, memory, conversation, clock, queue, calls, history>>

-----------------------------------------------------------------------------
(* Repairing what a crash or an exception left unpublished *)

IncompleteCompletions ==
    {r \in Runs : run[r].status = "COMPLETED" /\ ~Published(r, "RUN_COMPLETED")}

\* A slip of IncompleteClarifications: any earlier question counts.
IncompleteClarificationsNever ==
    {r \in Runs : /\ run[r].status = "WAITING_USER" /\ ~run[r].queued
                  /\ ~Published(r, "CLARIFICATION_REQUIRED")}

\* A run without any event has no last event type to differ from.
IncompleteClarifications ==
    {r \in Runs : /\ run[r].status = "WAITING_USER" /\ ~run[r].queued
                  /\ LastEvent(r) \notin {"CLARIFICATION_REQUIRED", "none"}}

ListRepairs(t, mode, rs) ==
    Becomes(t, [worker[t] EXCEPT !.pc = "repair", !.mode = mode,
                                 !.todo = {[job |-> r, snap |-> run[r]] : r \in rs}])

ListCompletions(t) ==
    /\ At(t, "repair_completions")
    /\ ListRepairs(t, "completions", IncompleteCompletions)
    /\ UNCHANGED <<store, queue, calls, history>>

ListClarifications(t) ==
    /\ At(t, "repair_clarifications")
    /\ ListRepairs(t, "clarifications", IncompleteClarifications)
    /\ UNCHANGED <<store, queue, calls, history>>

\* Completions are repaired in the order they completed.
RepairNext(t) ==
    /\ At(t, "repair") /\ worker[t].todo # {}
    /\ \E item \in worker[t].todo :
        /\ \A other \in worker[t].todo : item.snap.completed <= other.snap.completed
        /\ Becomes(t, [worker[t] EXCEPT !.pc = "message", !.job = item.job,
                !.snap = item.snap, !.outcome = item.snap.response, !.todo = @ \ {item}])
    /\ UNCHANGED <<store, queue, calls, history>>

\* A worker is done after its repairs; the constructor goes on.
RepairDone(t) ==
    /\ At(t, "repair") /\ worker[t].todo = {}
    /\ IF t = Boot
       THEN Becomes(t, [Idle EXCEPT !.pc =
                IF worker[t].mode = "completions" THEN "repair_clarifications" ELSE "resubmit"])
       ELSE Release(t)
    /\ UNCHANGED <<store, queue, calls, history>>

-----------------------------------------------------------------------------
(* The constructor of RunOrchestrator, after a restart *)

\* A slip of Interrupted: the run is queued again at once.
InterruptedRequeued(row) ==
    [Transition(row, "FAILED") EXCEPT !.retryable = TRUE, !.queued = TRUE]

Interrupted(row) == [Transition(row, "FAILED") EXCEPT !.retryable = TRUE]

\* recover_interrupted: one save and one event per active run.
Interrupt ==
    /\ At(Boot, "interrupt")
    /\ \/ \E r \in Runs :
            /\ run[r].status \in Active
            /\ LET failed == Saved(Interrupted(run[r])) IN
               /\ run' = [run EXCEPT ![r] = failed]
               /\ Becomes(Boot, [Idle EXCEPT !.pc = "publish", !.mode = "interrupted",
                                   !.job = r, !.snap = failed, !.outcome = "transient"])
       \/ /\ \A r \in Runs : run[r].status \notin Active
          /\ Becomes(Boot, [Idle EXCEPT !.pc = "repair_completions"])
          /\ UNCHANGED run
    /\ UNCHANGED <<log, messages, memory, conversation, clock, queue, calls, history>>

\* A slip of QueuedRuns: retries are forgotten.
QueuedRunsReplied == {r \in Runs : run[r].status = "WAITING_USER" /\ run[r].queued}

QueuedRuns ==
    {r \in Runs : run[r].status \in {"WAITING_USER", "FAILED"} /\ run[r].queued}

\* Every order of a finite set; created_at orders them in the code.
Orders(S) ==
    {q \in [1..Cardinality(S) -> S] : \A i, j \in DOMAIN q : q[i] = q[j] => i = j}

Resubmit ==
    /\ At(Boot, "resubmit")
    /\ queue' \in Orders(QueuedRuns)
    /\ Release(Boot)
    /\ UNCHANGED <<store, calls, history>>

\* The process dies: threads, submissions and calls in flight are gone.
Crash ==
    /\ crashes < MaxCrashes
    /\ crashes' = crashes + 1
    /\ worker' = [t \in Threads |-> IF t = Boot THEN [Idle EXCEPT !.pc = "interrupt"] ELSE Idle]
    /\ queue' = <<>>
    /\ calls' = {}
    /\ UNCHANGED <<store, asked, replied, retried, cancels>>

-----------------------------------------------------------------------------
(* API calls.  A call continues, transaction by transaction, in `calls'. *)

Continue(call, op) == calls' = (calls \ {call}) \cup {[call EXCEPT !.op = op]}

\* create(): the conversation is read first, the row is inserted later.
CreateRun(r) ==
    /\ Up /\ conversation = "active"
    /\ ~Present(run[r]) /\ \A call \in calls : call.run # r
    /\ calls' = calls \cup {[op |-> "insert", run |-> r]}
    /\ UNCHANGED <<store, worker, queue, history>>

InsertRun(call) ==
    /\ call.op = "insert"
    /\ run' = [run EXCEPT ![call.run] = NewRow]
    /\ Continue(call, "post")
    /\ UNCHANGED <<log, messages, memory, conversation, clock, worker, queue, history>>

PostQuestion(call) ==
    /\ call.op = "post"
    /\ messages' = [messages EXCEPT ![call.run].question = TRUE]
    /\ Continue(call, "submit")
    /\ UNCHANGED <<run, log, memory, conversation, clock, worker, queue, history>>

\* A slip of Submit: nothing is submitted.
SubmitLost(call) ==
    /\ call.op = "submit"
    /\ calls' = calls \ {call}
    /\ UNCHANGED <<store, worker, queue, history>>

Submit(call) ==
    /\ call.op = "submit"
    /\ queue' = Append(queue, call.run)
    /\ calls' = calls \ {call}
    /\ UNCHANGED <<store, worker, history>>

\* cancel() of a run that waits for its user ends it here; of a run that is
\* not terminal it leaves a request for the worker.
CancelWaiting(r) ==
    /\ Up /\ cancels < MaxCancels
    /\ run[r].status = "WAITING_USER"
    /\ run' = [run EXCEPT ![r] = Saved(Transition(@, "CANCELLED"))]
    /\ calls' = calls \cup {[op |-> "event", run |-> r]}
    /\ cancels' = cancels + 1
    /\ UNCHANGED <<log, messages, memory, conversation, clock, worker, queue,
                   asked, replied, retried, crashes>>

RequestCancel(r) ==
    /\ Up /\ cancels < MaxCancels
    /\ Present(run[r]) /\ run[r].status \notin Terminal
    /\ run' = [run EXCEPT ![r] = Saved([@ EXCEPT !.cancel = TRUE])]
    /\ cancels' = cancels + 1
    /\ UNCHANGED <<log, messages, memory, conversation, clock, process,
                   asked, replied, retried, crashes>>

PublishCancel(call) ==
    /\ call.op = "event"
    /\ AppendEvent(call.run, "RUN_CANCELLED")
    /\ calls' = calls \ {call}
    /\ UNCHANGED <<run, messages, memory, conversation, clock, worker, queue, history>>

\* clarify(): resume_queued, then the answer, then the submission.
Clarify(r) ==
    /\ Up /\ replied[r] < MaxReplies
    /\ run[r].status = "WAITING_USER" /\ ~run[r].queued
    /\ run' = [run EXCEPT ![r] = Saved([@ EXCEPT !.queued = TRUE])]
    /\ calls' = calls \cup {[op |-> "reply", run |-> r]}
    /\ replied' = [replied EXCEPT ![r] = @ + 1]
    /\ UNCHANGED <<log, messages, memory, conversation, clock, worker, queue,
                   asked, retried, cancels, crashes>>

PostReply(call) ==
    /\ call.op = "reply"
    /\ messages' = [messages EXCEPT ![call.run].replies = @ + 1]
    /\ Continue(call, "submit")
    /\ UNCHANGED <<run, log, memory, conversation, clock, worker, queue, history>>

Retry(r) ==
    /\ Up /\ retried[r] < MaxRetries
    /\ run[r].status = "FAILED" /\ run[r].retryable /\ ~run[r].queued
    /\ run' = [run EXCEPT ![r] = Saved([@ EXCEPT !.queued = TRUE])]
    /\ calls' = calls \cup {[op |-> "submit", run |-> r]}
    /\ retried' = [retried EXCEPT ![r] = @ + 1]
    /\ UNCHANGED <<log, messages, memory, conversation, clock, worker, queue,
                   asked, replied, cancels, crashes>>

\* One transaction: refused while a run's status is not settled.
DeleteConversation ==
    /\ Up /\ MayDelete /\ conversation = "active"
    /\ \A r \in Runs : Present(run[r]) => run[r].status \in Settled
    /\ conversation' = "deleted"
    /\ run' = [r \in Runs |-> NoRow]
    /\ log' = [r \in Runs |-> <<>>]
    /\ messages' = [r \in Runs |-> NoThread]
    /\ memory' = NewMemory
    /\ UNCHANGED <<clock, process, history>>

-----------------------------------------------------------------------------
(* The specification *)

Drive(t) ==
    \/ Claim(t) \/ Started(t) \/ Begin(t) \/ Context(t) \/ ContextChecked(t) \/ Discover(t)
    \/ AskStarted(t) \/ Ask(t) \/ Advance(t)
    \/ SettleFault(t) \/ SettleBlock(t) \/ SettleQuestion(t) \/ SettleAnswer(t)
    \/ CancelRun(t) \/ LoseSave(t) \/ Except(t) \/ FailureChecked(t) \/ FailRun(t)

\* What a worker's handler and the constructor both run.
Publishing(t) ==
    \/ PostMessage(t) \/ ReadMemory(t) \/ ReadMemoryRevision(t) \/ PutMemory(t)
    \/ Publish(t)
    \/ ListCompletions(t) \/ ListClarifications(t) \/ RepairNext(t) \/ RepairDone(t)

WorkerStep(t) == Pick(t) \/ Drive(t) \/ Publishing(t)

BootStep == Interrupt \/ Resubmit \/ Publishing(Boot)

CallStep ==
    \E call \in calls :
        \/ InsertRun(call) \/ PostQuestion(call) \/ PostReply(call)
        \/ Submit(call) \/ PublishCancel(call)

ClientStep ==
    \/ \E r \in Runs :
        CreateRun(r) \/ CancelWaiting(r) \/ RequestCancel(r) \/ Clarify(r) \/ Retry(r)
    \/ DeleteConversation

Next == (\E t \in Workers : WorkerStep(t)) \/ BootStep \/ CallStep \/ ClientStep \/ Crash

Spec == Init /\ [][Next]_vars

=============================================================================
