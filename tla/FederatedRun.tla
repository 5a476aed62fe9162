----------------------------- MODULE FederatedRun -----------------------------
(***************************************************************************)
(* Federated runs: FederatedQuestionCapability.drive over the run rows,    *)
(* the source tasks of SQLiteFederationRepository and one join mapping     *)
(* under JoinMappingGovernance, beside rescans of the sources.             *)
(*                                                                         *)
(* A drive routes the question, has a plan made and validated, asks every  *)
(* source, and merges the answers.  It can stop at a question to the user, *)
(* a failure, a cancel request or the death of the process, and is resumed *)
(* from tasks that were answered at different versions of their sources.   *)
(*                                                                         *)
(* One action is one transaction or one read.  As in DiagnosticRun, what   *)
(* RunRuntime models in detail is one step here: the way from a claim to   *)
(* the routing (Claim), a reply (Clarify), the constructor (Restart).      *)
(*                                                                         *)
(* Abstractions.  A task is its ordinal, which also names its source:      *)
(* validate() refuses a plan that asks a source twice (FederatedPlan).     *)
(* What a task keeps of its response is the version of the source that it  *)
(* was read at and its size.  A driven row is DISCOVERING, EXECUTING or    *)
(* ANSWERING.  The memory is the run it was last written by.               *)
(***************************************************************************)
EXTENDS RunStore, FiniteSets, FiniteSetsExt

CONSTANTS
    Runs,        \* federated runs of one conversation
    Workers,     \* threads of the pool
    NoRun,       \* no run
    N,           \* tasks of a plan
    MaxBytes,    \* max_intermediate_bytes
    MaxSize,     \* bound: size of a response
    MaxVersion,  \* bound: scans of a source
    MaxEvents    \* bound: replies, retries, cancel requests, crashes, deadlines, rescans

ASSUME RunsAssumption == NoRun \notin Runs
ASSUME TasksAssumption == N \in Nat \ {0, 1}
ASSUME BoundsAssumption ==
    {MaxBytes, MaxSize, MaxVersion, MaxEvents} \subseteq Nat /\ MaxVersion # 0

VARIABLES
    \* durable
    row,        \* the run table
    plan,       \* federated_plan: what a run's plan does, "none" before there is one
    task,       \* federated_source_task, by run and ordinal
    mapping,    \* join_mapping: the mapping of the sources' keys
    version,    \* the version of the active scan of every source
    replied,    \* runs the user has replied to
    memory,     \* conversation_memory.last_run_id
    announced,  \* runs with a RUN_COMPLETED event
    \* passing time
    late,       \* runs whose deadline is over
    \* in the process
    worker,     \* the local state of every thread
    confirming, \* the mapping that a call of confirm() holds
    \* history and bounds
    joined,     \* the versions that a completed join was allowed on
    events      \* what of these there was so far

governance == <<mapping, version, confirming>>
store == <<row, plan, task, replied, memory, announced>>
vars == <<store, governance, late, worker, joined, events>>

-----------------------------------------------------------------------------
(* Types *)

Tasks == 1..N
Versions == [Tasks -> 0..MaxVersion]
Unbound == [i \in Tasks |-> 0]

SourceTaskStatus == {"PLANNED", "RUNNING", "COMPLETED", "FAILED", "WAITING_USER", "SKIPPED"}

SourceTask == [status: SourceTaskStatus \cup {"ABSENT"}, version: 0..MaxVersion,
               size: 0..MaxSize, retryable: BOOLEAN, revision: Nat]

NoTask == [status |-> "ABSENT", version |-> 0, size |-> 0, retryable |-> FALSE, revision |-> 0]

\* A plan joins its sources on the mapping, or merges them in a way that needs none.
PlanKind == {"join", "merge"}

JoinMapping == [status: {"ABSENT", "CANDIDATE", "CONFIRMED", "STALE", "REJECTED"},
                bound: Versions]

NoMapping == [status |-> "ABSENT", bound |-> Unbound]

Fault == {"blocked", "transient", "permanent"}

PC == {"idle", "route", "kind", "plan", "create", "resume", "advance", "tasks", "turn", "start",
       "ask", "totals", "complete", "cancel", "skip", "fail", "park", "wait", "waiting",
       "after", "collect", "mapping", "versions", "stale", "merge", "answer", "finish",
       "record", "publish", "except", "check_failure", "fail_run", "repairs"}

\* `then' is where a thread goes after a cancellation or an accepted mapping.
Worker == [pc: PC, run: Runs \cup {NoRun}, snap: Row, tasks: [Tasks -> SourceTask],
           place: 0..(N + 1), heard: BOOLEAN, kind: PlanKind, mapping: JoinMapping,
           found: SourceTask, outcome: Fault \cup {"none"}, then: PC, repairs: SUBSET Runs,
           repairing: BOOLEAN]

Idle == [pc |-> "idle", run |-> NoRun, snap |-> NoRow, tasks |-> [i \in Tasks |-> NoTask],
         place |-> 0, heard |-> FALSE, kind |-> "merge", mapping |-> NoMapping,
         found |-> NoTask, outcome |-> "none", then |-> "idle", repairs |-> {},
         repairing |-> FALSE]

FederatedTypeOK ==
    /\ row \in [Runs -> Row]
    /\ plan \in [Runs -> PlanKind \cup {"none"}]
    /\ task \in [Runs -> [Tasks -> SourceTask]]
    /\ mapping \in JoinMapping
    /\ version \in Versions
    /\ memory \in Runs \cup {NoRun}
    /\ replied \subseteq Runs /\ announced \subseteq Runs /\ late \subseteq Runs
    /\ worker \in [Workers -> Worker]
    /\ confirming \in JoinMapping
    /\ joined \in [Runs -> Versions]
    /\ events \in Nat

Init ==
    /\ row = [r \in Runs |-> NoRow]
    /\ plan = [r \in Runs |-> "none"]
    /\ task = [r \in Runs |-> [i \in Tasks |-> NoTask]]
    /\ mapping = NoMapping
    /\ version = [i \in Tasks |-> 1]
    /\ replied = {} /\ announced = {} /\ late = {}
    /\ memory = NoRun
    /\ worker = [t \in Workers |-> Idle]
    /\ confirming = NoMapping
    /\ joined = [r \in Runs |-> Unbound]
    /\ events = 0

-----------------------------------------------------------------------------
(* Steps of a thread *)

At(t, label) == worker[t].pc = label
Job(t) == worker[t].run
Snap(t) == worker[t].snap

\* The thread's copy of the task it executes.
Held(t) == worker[t].tasks[worker[t].place]

\* The record `w' at a label; a thread that is done keeps nothing.
Step(w, label) == IF label = "idle" THEN Idle ELSE [w EXCEPT !.pc = label]

Becomes(t, w) == worker' = [worker EXCEPT ![t] = w]
Goto(t, label) == Becomes(t, Step(worker[t], label))

Raised(r, fault) == [Idle EXCEPT !.pc = "except", !.run = r, !.outcome = fault]

\* An exception of the drive reaches the handler of execute(); one of the
\* handler's repairs ends the thread's work.
Raise(t, fault) ==
    Becomes(t, IF worker[t].repairing THEN Idle ELSE Raised(Job(t), fault))

\* save(), the compare-and-swap of the row; a conflict is an exception.
MaySave(t, target) ==
    /\ CanTransition(Snap(t), target)
    /\ row[Job(t)].revision = Snap(t).revision

SaveRow(t, new) == row' = [row EXCEPT ![Job(t)] = Saved(new)]

\* A slip of MaySaveTask: the last writer wins.
MaySaveTaskAnyway(t) == TRUE

MaySaveTask(t) == task[Job(t)][worker[t].place].revision = Held(t).revision

\* save_task(), the compare-and-swap of a task.
SaveTask(t, new, label) ==
    LET saved == [new EXCEPT !.revision = @ + 1] IN
    IF MaySaveTask(t)
    THEN /\ task' = [task EXCEPT ![Job(t)][worker[t].place] = saved]
         /\ Becomes(t, Step([worker[t] EXCEPT !.tasks[worker[t].place] = saved], label))
    ELSE /\ Raise(t, "permanent")
         /\ UNCHANGED task

\* _cancel_if_requested(): a request found is saved as a cancellation by the
\* next step, and the drive ends there or skips its task first.
CheckCancel(t, then, next) ==
    LET latest == row[Job(t)] IN
    Becomes(t, IF ~latest.cancel THEN next
               ELSE IF latest.status \in Terminal THEN Step(worker[t], then)
               ELSE [worker[t] EXCEPT !.pc = "cancel", !.snap = latest, !.then = then])

CancelRun(t) ==
    /\ At(t, "cancel")
    /\ IF MaySave(t, "CANCELLED")
       THEN /\ SaveRow(t, Transition(Snap(t), "CANCELLED"))
            /\ Goto(t, worker[t].then)
       ELSE Raise(t, "permanent") /\ UNCHANGED row
    /\ UNCHANGED <<plan, task, replied, memory, announced, governance, late, joined, events>>

Completed(tasks) == {i \in Tasks : tasks[i].status = "COMPLETED"}

\* What some of the tasks hold together.
Sizes(tasks, S) == MapThenSumSet(LAMBDA i : tasks[i].size, S)

\* A slip of Bytes: completed tasks are the ones passed over.
BytesOfOthers(tasks) == Sizes(tasks, Tasks \ Completed(tasks))

\* The intermediate result: what the completed tasks hold together.
Bytes(tasks) == Sizes(tasks, Completed(tasks))

-----------------------------------------------------------------------------
(* Routing and planning *)

\* execute() and the first part of _drive(): claim, context, DISCOVERING.  The
\* user's replies are read here.
Claim(t) ==
    /\ At(t, "idle")
    /\ \E r \in Runs :
        /\ Runnable(row[r])
        /\ LET claimed == [Transition(row[r], "CONTEXTUALIZING") EXCEPT !.retryable = FALSE]
               cancelled == Saved(Saved([claimed EXCEPT !.status = "CANCELLED"]))
               driven == Saved(Saved(Saved([claimed EXCEPT !.status = "DISCOVERING"])))
           IN \/ /\ row[r].cancel
                 /\ row' = [row EXCEPT ![r] = cancelled]
                 /\ UNCHANGED worker
              \/ /\ ~row[r].cancel
                 /\ row' = [row EXCEPT ![r] = driven]
                 /\ \/ Becomes(t, [Idle EXCEPT !.pc = "route", !.run = r, !.snap = driven,
                                               !.heard = (r \in replied)])
                    \/ \E fault \in Fault : Becomes(t, Raised(r, fault))
    /\ UNCHANGED <<plan, task, replied, memory, announced, governance, late, joined, events>>

\* A run that has a plan is not routed again.  One that has none may be asked
\* which source is meant, or be refused; a single source is a normal run.
Route(t) ==
    /\ At(t, "route")
    /\ \/ Goto(t, "kind")
       \/ /\ plan[Job(t)] = "none"
          /\ \/ Becomes(t, [worker[t] EXCEPT !.pc = "waiting"])
             \/ \E fault \in {"blocked", "transient"} : Raise(t, fault)
    /\ UNCHANGED <<store, governance, late, joined, events>>

\* run_kind becomes "federated".
SetKind(t) ==
    /\ At(t, "kind")
    /\ IF row[Job(t)].revision = Snap(t).revision
       THEN /\ SaveRow(t, Snap(t))
            /\ Becomes(t, [worker[t] EXCEPT !.snap = Saved(Snap(t)),
                   !.pc = IF plan[Job(t)] = "none" THEN "plan" ELSE "resume"])
       ELSE Raise(t, "permanent") /\ UNCHANGED row
    /\ UNCHANGED <<plan, task, replied, memory, announced, governance, late, joined, events>>

\* A join goes on only after governance.executable().
CheckedFor(kind, then) == IF kind = "join" THEN "mapping" ELSE then

\* The scope, whose deadline starts now, the model's draft and its validation
\* (FederatedPlan has the rules).
MakePlan(t) ==
    /\ At(t, "plan")
    /\ \/ \E fault \in {"blocked", "permanent"} : Raise(t, fault)
       \/ \E kind \in PlanKind :
            Becomes(t, [worker[t] EXCEPT !.kind = kind, !.then = "create",
                                         !.pc = CheckedFor(kind, "create")])
    /\ late' = late \ {Job(t)}
    /\ UNCHANGED <<store, governance, joined, events>>

\* create_plan(): the plan and its tasks in one transaction, unless there is one.
CreatePlan(t) ==
    /\ At(t, "create")
    /\ IF plan[Job(t)] = "none"
       THEN /\ plan' = [plan EXCEPT ![Job(t)] = worker[t].kind]
            /\ task' = [task EXCEPT ![Job(t)] = [i \in Tasks |->
                                                    [NoTask EXCEPT !.status = "PLANNED"]]]
            /\ Goto(t, "advance")
       ELSE /\ Becomes(t, [worker[t] EXCEPT !.pc = "advance", !.kind = plan[Job(t)]])
            /\ UNCHANGED <<plan, task>>
    /\ UNCHANGED <<row, replied, memory, announced, governance, late, joined, events>>

\* A plan that was made before: its sources have to be in the scope still.
Resume(t) ==
    /\ At(t, "resume")
    /\ \/ Raise(t, "blocked")
       \/ Becomes(t, [worker[t] EXCEPT !.kind = plan[Job(t)], !.then = "advance",
                                       !.pc = CheckedFor(plan[Job(t)], "advance")])
    /\ UNCHANGED <<store, governance, late, joined, events>>

\* _advance() to PLANNING and EXECUTING.
Executing(held) == Saved([held EXCEPT !.status = "EXECUTING"])

Advance(t) ==
    /\ At(t, "advance")
    /\ IF row[Job(t)].revision = Snap(t).revision
       THEN /\ SaveRow(t, Executing(Snap(t)))
            /\ Becomes(t, [worker[t] EXCEPT !.pc = "tasks", !.then = "idle",
                                         !.snap = Saved(Executing(Snap(t)))])
       ELSE Raise(t, "permanent") /\ UNCHANGED row
    /\ UNCHANGED <<plan, task, replied, memory, announced, governance, late, joined, events>>

-----------------------------------------------------------------------------
(* The sources, one after the other *)

\* The list of tasks is read once for the whole loop.
ReadTasks(t) ==
    /\ At(t, "tasks")
    /\ Becomes(t, [worker[t] EXCEPT !.pc = "turn", !.tasks = task[Job(t)], !.place = 1])
    /\ UNCHANGED <<store, governance, late, joined, events>>

\* A slip of Refused: a failure that may not be repeated ends the drive silently.
RefusedSilently(t, held) == Idle

\* A task that failed for good fails the run.
Refused(t, held) == Raised(Job(t), "permanent")

\* What the loop does with the next task: the deadline first, then by status.  A
\* task that waits although no reply is there ends the drive.
Turn(t) ==
    LET held == Held(t) IN
    CASE Job(t) \in late -> Raised(Job(t), "permanent")
      [] Job(t) \notin late /\ held.status = "COMPLETED" -> [worker[t] EXCEPT !.place = @ + 1]
      [] Job(t) \notin late /\ held.status = "WAITING_USER" /\ ~worker[t].heard -> Idle
      [] Job(t) \notin late /\ held.status = "FAILED" /\ ~held.retryable -> Refused(t, held)
      [] OTHER -> [worker[t] EXCEPT !.pc = "start"]

TakeTurn(t) ==
    /\ At(t, "turn")
    /\ CheckCancel(t, "idle", IF worker[t].place > N
                              THEN [worker[t] EXCEPT !.pc = "collect"] ELSE Turn(t))
    /\ UNCHANGED <<store, governance, late, joined, events>>

StartTask(t) ==
    /\ At(t, "start")
    /\ SaveTask(t, [Held(t) EXCEPT !.status = "RUNNING", !.retryable = FALSE], "ask")
    /\ UNCHANGED <<row, plan, replied, memory, announced, governance, late, joined, events>>

Failing(t, fault) == [worker[t] EXCEPT !.pc = "fail", !.outcome = fault]

\* The Ask, with a look for a cancel request before every record and at the end:
\* an error, a question to the user, a response without a verified result (an
\* error of its own or for good), or a result read at the source's version.
Ask(t) ==
    /\ At(t, "ask")
    /\ \/ \E fault \in {"transient", "permanent"} : CheckCancel(t, "skip", Failing(t, fault))
       \/ CheckCancel(t, "skip", [worker[t] EXCEPT !.pc = "park"])
       \/ \E size \in 0..MaxSize :
            CheckCancel(t, "skip",
                IF size > MaxBytes THEN Failing(t, "permanent")
                ELSE [worker[t] EXCEPT !.pc = "totals",
                        !.found = [NoTask EXCEPT !.version = version[worker[t].place],
                                                 !.size = size]])
    /\ UNCHANGED <<store, governance, late, joined, events>>

SkipTask(t) ==
    /\ At(t, "skip")
    /\ SaveTask(t, [Held(t) EXCEPT !.status = "SKIPPED"], "idle")
    /\ UNCHANGED <<row, plan, replied, memory, announced, governance, late, joined, events>>

\* _fail_task(): the task is saved, then FederationFailure is raised.
FailTask(t) ==
    /\ At(t, "fail")
    /\ SaveTask(t, [Held(t) EXCEPT !.status = "FAILED",
                                   !.retryable = (worker[t].outcome = "transient")], "except")
    /\ UNCHANGED <<row, plan, replied, memory, announced, governance, late, joined, events>>

\* What the completed tasks hold already, read before this one is saved.
CheckTotals(t) ==
    /\ At(t, "totals")
    /\ Becomes(t, IF Bytes(task[Job(t)]) + worker[t].found.size > MaxBytes
                  THEN Failing(t, "permanent")
                  ELSE [worker[t] EXCEPT !.pc = "complete"])
    /\ UNCHANGED <<store, governance, late, joined, events>>

CompleteTask(t) ==
    /\ At(t, "complete")
    /\ SaveTask(t, [Held(t) EXCEPT !.status = "COMPLETED", !.version = worker[t].found.version,
                                   !.size = worker[t].found.size], "after")
    /\ UNCHANGED <<row, plan, replied, memory, announced, governance, late, joined, events>>

\* A question of a source: the task waits first, then the run, then the user sees it.
ParkTask(t) ==
    /\ At(t, "park")
    /\ SaveTask(t, [Held(t) EXCEPT !.status = "WAITING_USER"], "wait")
    /\ UNCHANGED <<row, plan, replied, memory, announced, governance, late, joined, events>>

ReadWait(t) ==
    /\ At(t, "wait")
    /\ Becomes(t, [worker[t] EXCEPT !.pc = "waiting", !.snap = row[Job(t)]])
    /\ UNCHANGED <<store, governance, late, joined, events>>

Wait(t) ==
    /\ At(t, "waiting")
    /\ IF MaySave(t, "WAITING_USER")
       THEN /\ SaveRow(t, Transition(Snap(t), "WAITING_USER"))
            /\ Goto(t, IF worker[t].place = 0 THEN "idle" ELSE "after")
       ELSE Raise(t, "permanent") /\ UNCHANGED row
    /\ UNCHANGED <<plan, task, replied, memory, announced, governance, late, joined, events>>

\* The row is read to see whether the task parked the run.  A reply, or a cancel
\* of the waiting run, before this look lets the loop go on.
AfterTask(t) ==
    /\ At(t, "after")
    /\ Becomes(t, IF row[Job(t)].status = "WAITING_USER" THEN Idle
                  ELSE [worker[t] EXCEPT !.pc = "turn", !.place = @ + 1, !.found = NoTask])
    /\ UNCHANGED <<store, governance, late, joined, events>>

-----------------------------------------------------------------------------
(* The merge *)

Whole(tasks) == Completed(tasks) = Tasks

\* The tasks are read again, and have to be completed.
Collect(t) ==
    /\ At(t, "collect")
    /\ LET tasks == task[Job(t)] IN
       IF Whole(tasks)
       THEN Becomes(t, [worker[t] EXCEPT !.tasks = tasks, !.place = 0, !.then = "merge",
                                         !.heard = FALSE,
                                         !.pc = CheckedFor(worker[t].kind, "merge")])
       ELSE Raise(t, "permanent")
    /\ UNCHANGED <<store, governance, late, joined, events>>

\* The merger's own limits, checked before it starts.
Acceptable(t) == Job(t) \notin late /\ Bytes(worker[t].tasks) <= MaxBytes

\* ControlledMerger.merge(): it may refuse what it is given (FederatedMerge).
Merge(t) ==
    /\ At(t, "merge")
    /\ \/ Raise(t, "permanent")
       \/ Raise(t, "blocked")
       \/ Acceptable(t) /\ Goto(t, "answer")
    /\ UNCHANGED <<store, governance, late, joined, events>>

\* _advance() to ANSWERING; the answer is composed from the merged result.
Answer(t) ==
    /\ At(t, "answer")
    /\ LET answering == Transition(Snap(t), "ANSWERING") IN
       IF MaySave(t, "ANSWERING")
       THEN /\ SaveRow(t, answering)
            /\ Becomes(t, [worker[t] EXCEPT !.pc = "finish", !.snap = Saved(answering)])
       ELSE Raise(t, "permanent") /\ UNCHANGED row
    /\ UNCHANGED <<plan, task, replied, memory, announced, governance, late, joined, events>>

Finish(t) ==
    /\ At(t, "finish")
    /\ IF MaySave(t, "COMPLETED")
       THEN /\ SaveRow(t, Transition(Snap(t), "COMPLETED"))
            /\ joined' = [joined EXCEPT ![Job(t)] = worker[t].mapping.bound]
            /\ Becomes(t, [Idle EXCEPT !.pc = "record", !.run = Job(t)])
       ELSE Raise(t, "permanent") /\ UNCHANGED <<row, joined>>
    /\ UNCHANGED <<plan, task, replied, memory, announced, governance, late, events>>

\* _record_memory(): another run may write between the read of the revision and
\* the write.  The repair leaves out what is recorded.
Record(t) ==
    /\ At(t, "record")
    /\ \/ /\ memory' = Job(t)
          /\ Goto(t, "publish")
       \/ Raise(t, "permanent") /\ UNCHANGED memory
    /\ UNCHANGED <<row, plan, task, replied, announced, governance, late, joined, events>>

Publish(t) ==
    /\ At(t, "publish")
    /\ announced' = announced \cup {Job(t)}
    /\ Goto(t, IF worker[t].repairing THEN "repairs" ELSE "idle")
    /\ UNCHANGED <<row, plan, task, replied, memory, governance, late, joined, events>>

-----------------------------------------------------------------------------
(* executable(): may the sources of a plan be joined? *)

ReadMapping(t) ==
    /\ At(t, "mapping")
    /\ IF mapping.status = "CONFIRMED"
       THEN Becomes(t, [worker[t] EXCEPT !.pc = "versions", !.mapping = mapping])
       ELSE Raise(t, "blocked")
    /\ UNCHANGED <<store, governance, late, joined, events>>

\* The versions that are active now; reading them one by one can only find an
\* older one, which is refused all the same.
ReadVersions(t) ==
    /\ At(t, "versions")
    /\ Becomes(t, IF worker[t].mapping.bound # version THEN Step(worker[t], "stale")
                  ELSE IF worker[t].then = "merge" THEN Step(worker[t], "merge")
                  ELSE [worker[t] EXCEPT !.pc = worker[t].then, !.mapping = NoMapping])
    /\ UNCHANGED <<store, governance, late, joined, events>>

\* save_mapping() compares the status, and nothing else, with the expected one.
MaySaveMapping(expected) == mapping.status = expected

MarkStale(t) ==
    /\ At(t, "stale")
    /\ IF MaySaveMapping("CONFIRMED")
       THEN /\ mapping' = [worker[t].mapping EXCEPT !.status = "STALE"]
            /\ Raise(t, "blocked")
       ELSE Raise(t, "permanent") /\ UNCHANGED mapping
    /\ UNCHANGED <<store, version, confirming, late, joined, events>>

-----------------------------------------------------------------------------
(* The keepers of the mapping *)

\* create(): always a candidate.
Propose ==
    /\ mapping.status = "ABSENT"
    /\ mapping' = [NoMapping EXCEPT !.status = "CANDIDATE"]
    /\ UNCHANGED <<store, version, confirming, late, worker, joined, events>>

\* confirm() reads the mapping and the version of the left source,
BeginConfirm ==
    /\ confirming = NoMapping
    /\ mapping.status \in {"CANDIDATE", "STALE"}
    /\ confirming' = [mapping EXCEPT !.bound = version]
    /\ UNCHANGED <<store, mapping, version, late, worker, joined, events>>

\* then that of the right one, and saves both as confirmed, or fails: a source is
\* not ready, or its graph is that of another version.  A rescan of the right
\* source before the save is the same as one after it.
SaveConfirm ==
    /\ confirming # NoMapping
    /\ LET read == [i \in Tasks |-> IF i = 1 THEN confirming.bound[i] ELSE version[i]] IN
       \/ /\ MaySaveMapping(confirming.status)
          /\ mapping' = [status |-> "CONFIRMED", bound |-> read]
       \/ UNCHANGED mapping
    /\ confirming' = NoMapping
    /\ UNCHANGED <<store, version, late, worker, joined, events>>

\* Another run of the workspace comes upon the mapping after a rescan.
FoundStale ==
    /\ mapping.status = "CONFIRMED" /\ mapping.bound # version
    /\ mapping' = [mapping EXCEPT !.status = "STALE"]
    /\ UNCHANGED <<store, version, confirming, late, worker, joined, events>>

\* reject(), in any status; its read and its write can only conflict.
Reject ==
    /\ mapping.status # "ABSENT"
    /\ mapping' = [mapping EXCEPT !.status = "REJECTED"]
    /\ UNCHANGED <<store, version, confirming, late, worker, joined, events>>

-----------------------------------------------------------------------------
(* The handler of execute() *)

IncompleteCompletions == {r \in Runs : row[r].status = "COMPLETED"} \ announced

\* A completed run is left to the repair of completions, a waiting one to the
\* repair of questions, which changes nothing that is modelled here.
Except(t) ==
    /\ At(t, "except")
    /\ LET current == row[Job(t)] IN
       CASE current.status = "COMPLETED" ->
                Becomes(t, [Idle EXCEPT !.pc = "repairs", !.repairing = TRUE,
                                        !.repairs = IncompleteCompletions])
         [] current.status = "WAITING_USER" -> Becomes(t, Idle)
         [] OTHER -> Becomes(t, [worker[t] EXCEPT !.pc = "check_failure", !.snap = current])
    /\ UNCHANGED <<store, governance, late, joined, events>>

CheckFailure(t) ==
    /\ At(t, "check_failure")
    /\ CheckCancel(t, "idle", IF Snap(t).status \in Terminal THEN Idle
                              ELSE [worker[t] EXCEPT !.pc = "fail_run"])
    /\ UNCHANGED <<store, governance, late, joined, events>>

\* A conflict here escapes from the thread.
FailRun(t) ==
    /\ At(t, "fail_run")
    /\ LET target == IF worker[t].outcome = "blocked" THEN "BLOCKED" ELSE "FAILED" IN
       IF MaySave(t, target)
       THEN SaveRow(t, [Transition(Snap(t), target) EXCEPT
                            !.retryable = (worker[t].outcome = "transient")])
       ELSE UNCHANGED row
    /\ Becomes(t, Idle)
    /\ UNCHANGED <<plan, task, replied, memory, announced, governance, late, joined, events>>

\* _recover_completions() with the memory as it is now.
RepairNext(t) ==
    /\ At(t, "repairs")
    /\ IF worker[t].repairs = {}
       THEN Becomes(t, Idle)
       ELSE \E r \in worker[t].repairs :
                Becomes(t, [worker[t] EXCEPT !.run = r, !.repairs = @ \ {r},
                                !.pc = IF memory = r THEN "publish" ELSE "record"])
    /\ UNCHANGED <<store, governance, late, joined, events>>

-----------------------------------------------------------------------------
(* Clients, time, crash and restart *)

Happens == events < MaxEvents /\ events' = events + 1

Create(r) ==
    /\ ~Present(row[r])
    /\ row' = [row EXCEPT ![r] = NewRow]
    /\ UNCHANGED <<plan, task, replied, memory, announced, governance, late, worker, joined,
                   events>>

\* A run at rest is left alone, except a waiting one.
Cancel(r) ==
    /\ Present(row[r]) /\ Happens
    /\ \/ /\ row[r].status = "WAITING_USER"
          /\ row' = [row EXCEPT ![r] = Saved(Transition(@, "CANCELLED"))]
       \/ /\ row[r].status \notin Terminal
          /\ row' = [row EXCEPT ![r] = Saved([@ EXCEPT !.cancel = TRUE])]
    /\ UNCHANGED <<plan, task, replied, memory, announced, governance, late, worker, joined>>

\* A reply to the question the run waits for, whichever task asked it.
Clarify(r) ==
    /\ Happens
    /\ row[r].status = "WAITING_USER" /\ ~row[r].queued
    /\ row' = [row EXCEPT ![r] = Saved([@ EXCEPT !.queued = TRUE])]
    /\ replied' = replied \cup {r}
    /\ UNCHANGED <<plan, task, memory, announced, governance, late, worker, joined>>

Retry(r) ==
    /\ Happens
    /\ row[r].status = "FAILED" /\ row[r].retryable /\ ~row[r].queued
    /\ row' = [row EXCEPT ![r] = Saved([@ EXCEPT !.queued = TRUE])]
    /\ UNCHANGED <<plan, task, replied, memory, announced, governance, late, worker, joined>>

\* The deadline that a plan's scope was given when it was made passes.
Expire(r) ==
    /\ plan[r] # "none" /\ r \notin late /\ Happens
    /\ late' = late \cup {r}
    /\ UNCHANGED <<store, governance, worker, joined>>

\* A scan of a source is committed (DatasourceLifecycle).
Rescan(i) ==
    /\ version[i] < MaxVersion /\ Happens
    /\ version' = [version EXCEPT ![i] = @ + 1]
    /\ UNCHANGED <<store, mapping, confirming, late, worker, joined>>

\* A slip of Recovered: the failure code is saved as the status.
RecoveredByCode(held) ==
    IF held.status = "RUNNING" THEN [held EXCEPT !.status = "task_interrupted"] ELSE held

\* recover_running(): an interrupted task may be asked again.
Recovered(held) ==
    IF held.status = "RUNNING"
    THEN [held EXCEPT !.status = "FAILED", !.retryable = TRUE, !.revision = @ + 1]
    ELSE held

\* recover_interrupted()
Interrupted(held) ==
    IF held.status \in Active
    THEN Saved([Transition(held, "FAILED") EXCEPT !.retryable = TRUE])
    ELSE held

\* The process dies, and the constructor of the next one repairs what it left
\* before it serves anybody.  Each repair is idempotent, so dying again in the
\* middle of them is the same as dying afterwards.
Restart ==
    /\ Happens
    /\ worker' = [t \in Workers |-> Idle]
    /\ confirming' = NoMapping
    /\ task' = [r \in Runs |-> [i \in Tasks |-> Recovered(task[r][i])]]
    /\ row' = [r \in Runs |-> Interrupted(row[r])]
    /\ memory' \in IF IncompleteCompletions \ {memory} = {} THEN {memory}
                   ELSE IncompleteCompletions
    /\ announced' = announced \cup IncompleteCompletions
    /\ UNCHANGED <<plan, replied, mapping, version, late, joined>>

-----------------------------------------------------------------------------

Thread(t) ==
    \/ Claim(t) \/ Route(t) \/ SetKind(t) \/ MakePlan(t) \/ CreatePlan(t) \/ Resume(t)
    \/ Advance(t) \/ ReadTasks(t) \/ TakeTurn(t) \/ StartTask(t) \/ Ask(t) \/ CheckTotals(t)
    \/ SkipTask(t) \/ FailTask(t) \/ CompleteTask(t) \/ ParkTask(t) \/ ReadWait(t) \/ Wait(t)
    \/ AfterTask(t) \/ CancelRun(t) \/ Collect(t) \/ Merge(t) \/ Answer(t) \/ Finish(t)
    \/ Record(t) \/ Publish(t) \/ ReadMapping(t) \/ ReadVersions(t) \/ MarkStale(t)
    \/ Except(t) \/ CheckFailure(t) \/ FailRun(t) \/ RepairNext(t)

Client(r) == Create(r) \/ Cancel(r) \/ Clarify(r) \/ Retry(r) \/ Expire(r)

Keeper == Propose \/ BeginConfirm \/ SaveConfirm \/ FoundStale \/ Reject

Next ==
    \/ \E t \in Workers : Thread(t)
    \/ \E r \in Runs : Client(r)
    \/ \E i \in Tasks : Rescan(i)
    \/ Keeper
    \/ Restart

Spec == Init /\ [][Next]_vars

=============================================================================
