---------------------------- MODULE DiagnosticRun ----------------------------
(***************************************************************************)
(* Diagnostic runs: DiagnosticCoordinator.drive over the run rows, the     *)
(* checkpoints and tasks of SQLiteDiagnosticRepository and the memory of   *)
(* one conversation.                                                       *)
(*                                                                         *)
(* A drive plans rounds of evidence questions under a budget, executes an  *)
(* Ask for each, and can stop anywhere: at a question to the user, a       *)
(* failure, a cancel request or the death of the process.  Whoever resumes *)
(* the run finds a checkpoint and tasks that two different transactions    *)
(* wrote.                                                                  *)
(*                                                                         *)
(* One action is one transaction.  What RunRuntime models in detail is one *)
(* step here: the way from a claim to the drive (Claim), the publication   *)
(* of messages and events (part of the step before it), the constructor    *)
(* (Restart), and which idle thread takes a run (any).                     *)
(*                                                                         *)
(* Abstractions.  A driven row is DISCOVERING or ANSWERING: the stages that *)
(* _advance() saves on the way are one save.  A task is its place, a round *)
(* and an ordinal.  Duplicates of earlier questions are stored as SKIPPED  *)
(* after the selected ones and change nothing, so only selected questions  *)
(* have a task here.  A row's response and completion time are not used,   *)
(* and what a user replies is left out.                                    *)
(***************************************************************************)
EXTENDS RunStore, FiniteSets

CONSTANTS
    Runs,          \* diagnostic runs of one conversation
    Workers,       \* threads of the pool
    Sources,       \* datasources a question may be answered from
    NoRun,         \* no run
    NoSource,      \* no datasource
    Scope,         \* the only datasource the conversation allows, or NoSource
    MaxQuestions,  \* max_evidence_questions
    MaxRounds,     \* max_adaptive_rounds
    PerRound,      \* max_questions_per_round
    MaxEvents      \* bound: replies, retries, cancel requests and crashes together

ASSUME RunsAssumption == NoRun \notin Runs /\ IsFiniteSet(Runs)
ASSUME SourcesAssumption == NoSource \notin Sources /\ Scope \in Sources \cup {NoSource}
ASSUME BudgetAssumption == {MaxQuestions, MaxRounds, PerRound} \subseteq Nat \ {0}
ASSUME BoundsAssumption == MaxEvents \in Nat

VARIABLES
    \* durable
    row,         \* the run table
    task,        \* diagnostic_task, by run and place
    checkpoint,  \* diagnostic_checkpoint
    memory,      \* conversation_memory: the runs whose findings it holds
    announced,   \* runs with a RUN_COMPLETED event
    \* in the process
    worker,      \* the local state of every thread
    \* history and bounds
    overrun,     \* runs whose drive went on after it had parked them
    events       \* replies, retries, cancel requests and crashes so far

store == <<row, task, checkpoint, memory, announced>>
history == <<overrun, events>>
vars == <<store, worker, history>>

-----------------------------------------------------------------------------
(* Types *)

Places == (1..MaxRounds) \X (1..PerRound)

NoPlace == <<0, 0>>
Planner == <<0, 1>>   \* a question of the planner, not of a task

Subject == Places \cup {NoPlace, Planner}

TaskStatus == {"PLANNED", "RUNNING", "COMPLETED", "WAITING_USER", "FAILED", "SKIPPED"}

\* A task's evidence is the source it came from.
Task == [status: TaskStatus \cup {"ABSENT"}, source: Sources \cup {NoSource},
         retryable: BOOLEAN, revision: Nat]

NoTask == [status |-> "ABSENT", source |-> NoSource, retryable |-> FALSE, revision |-> 0]
NewTask == [NoTask EXCEPT !.status = "PLANNED"]

Checkpoint == [round: 0..MaxRounds, remaining: 0..MaxQuestions, completed: Nat,
               source: Sources \cup {NoSource}, refs: SUBSET Places, revision: Nat]

NewCheckpoint == [round |-> 0, remaining |-> 0, completed |-> 0, source |-> NoSource,
                  refs |-> {}, revision |-> 0]

Fault == {"blocked", "transient", "permanent"}

PC == {"idle", "compare", "repair", "begin", "round", "tasks", "plan", "plan_round",
       "planned", "next", "start", "pend", "ask", "advance", "ended", "cancel", "skip",
       "fail", "complete", "count", "wait", "park", "waiting", "after", "synthesize",
       "reread", "finish", "record", "put", "publish", "except", "check_failure",
       "fail_run", "repairs"}

Worker == [pc: PC, run: Runs \cup {NoRun}, snap: Row, ck: Checkpoint,
           tasks: [1..PerRound -> Task], todo: SUBSET (1..PerRound), place: Subject,
           seen: SUBSET Runs, found: Sources \cup {NoSource},
           outcome: Fault \cup {"none"}, then: {"idle", "skip"}, expected: Nat,
           repairs: SUBSET Runs, repairing: BOOLEAN]

Idle == [pc |-> "idle", run |-> NoRun, snap |-> NoRow, ck |-> NewCheckpoint,
         tasks |-> [o \in 1..PerRound |-> NoTask], todo |-> {}, place |-> NoPlace,
         seen |-> {}, found |-> NoSource,
         outcome |-> "none", then |-> "idle", expected |-> 0, repairs |-> {},
         repairing |-> FALSE]

DiagnosticTypeOK ==
    /\ row \in [Runs -> Row]
    /\ task \in [Runs -> [Places -> Task]]
    /\ checkpoint \in [Runs -> Checkpoint]
    /\ memory \in [findings: SUBSET Runs, revision: Nat]
    /\ announced \subseteq Runs
    /\ worker \in [Workers -> Worker]
    /\ overrun \subseteq Runs
    /\ events \in Nat

Init ==
    /\ row = [r \in Runs |-> NoRow]
    /\ task = [r \in Runs |-> [p \in Places |-> NoTask]]
    /\ checkpoint = [r \in Runs |-> NewCheckpoint]
    /\ memory = [findings |-> {}, revision |-> 0]
    /\ announced = {}
    /\ worker = [t \in Workers |-> Idle]
    /\ overrun = {}
    /\ events = 0

-----------------------------------------------------------------------------
(* Steps of a thread *)

At(t, label) == worker[t].pc = label
Job(t) == worker[t].run
Snap(t) == worker[t].snap
Ck(t) == worker[t].ck

\* The record `w' at a label; a thread that is done keeps nothing.
Step(w, label) == IF label = "idle" THEN Idle ELSE [w EXCEPT !.pc = label]

Becomes(t, w) == worker' = [worker EXCEPT ![t] = w]
Goto(t, label) == Becomes(t, Step(worker[t], label))

Raised(r, fault) == [Idle EXCEPT !.pc = "except", !.run = r, !.outcome = fault]

\* An exception of the drive reaches the handler of execute(); one of the
\* handler's repairs ends the thread's work.
Raise(t, fault) ==
    Becomes(t, IF worker[t].repairing THEN Idle
               ELSE Raised(Job(t), fault))

\* save(): the row a thread holds is still the current one.
Fresh(t) == row[Job(t)].revision = Snap(t).revision

MaySave(t, target) == CanTransition(Snap(t), target) /\ Fresh(t)

SaveRow(t, new) == row' = [row EXCEPT ![Job(t)] = Saved(new)]

\* save_checkpoint(): compare-and-swap, then the thread goes on with what it saved.
SaveCheckpoint(t, new, label) ==
    IF checkpoint[Job(t)].revision = new.revision
    THEN /\ checkpoint' = [checkpoint EXCEPT ![Job(t)] = [new EXCEPT !.revision = @ + 1]]
         /\ Becomes(t, [worker[t] EXCEPT !.pc = label, !.ck = [new EXCEPT !.revision = @ + 1]])
    ELSE /\ Raise(t, "permanent")
         /\ UNCHANGED checkpoint

\* The thread's copy of the task it executes, and where it is stored.
Held(t) == worker[t].tasks[worker[t].place[2]]

MaySaveTask(t) == task[Job(t)][worker[t].place].revision = Held(t).revision

\* save_task(): compare-and-swap, likewise.
SaveTask(t, new, label) ==
    LET saved == [new EXCEPT !.revision = @ + 1] IN
    IF MaySaveTask(t)
    THEN /\ task' = [task EXCEPT ![Job(t)][worker[t].place] = saved]
         /\ Becomes(t, Step([worker[t] EXCEPT !.tasks[worker[t].place[2]] = saved], label))
    ELSE /\ Raise(t, "permanent")
         /\ UNCHANGED task

\* _cancelled(): reads the row; a request found is saved as a cancellation by
\* the next step, and the drive ends there or skips its task first.
CheckCancel(t, then, next) ==
    LET latest == row[Job(t)] IN
    Becomes(t, IF ~latest.cancel THEN next
               ELSE IF latest.status \in Terminal THEN Step(worker[t], then)
               ELSE [worker[t] EXCEPT !.pc = "cancel", !.snap = latest, !.then = then])

CancelRun(t) ==
    /\ At(t, "cancel")
    /\ IF MaySave(t, "CANCELLED")
       THEN /\ SaveRow(t, Transition(Snap(t), "CANCELLED"))
            /\ Goto(t, worker[t].then)
       ELSE Raise(t, "permanent") /\ UNCHANGED row
    /\ UNCHANGED <<task, checkpoint, memory, announced, history>>

\* Places in the order of (round, ordinal).
Before(p, q) == p[1] < q[1] \/ (p[1] = q[1] /\ p[2] < q[2])
First(ps) == CHOOSE p \in ps : \A q \in ps : ~Before(q, p)

Done(tasks) == {p \in Places : tasks[p].status = "COMPLETED"}
Verified(tasks) == {p \in Done(tasks) : tasks[p].source # NoSource}

\* _observations(): what is missing from the data is no evidence.
Conclusive(tasks) == Verified(tasks) # {}

\* A round is finished when all its tasks are completed or skipped.
Unfinished(tasks) ==
    \E o \in DOMAIN tasks : tasks[o].status \notin {"ABSENT", "COMPLETED", "SKIPPED"}

Stored(tasks) == {o \in DOMAIN tasks : tasks[o].status # "ABSENT"}

-----------------------------------------------------------------------------
(* Starting and resuming a drive *)

\* execute() and _drive(): claim, context, DISCOVERING.  The memory that the
\* drive works with is read here.
Claim(t) ==
    /\ At(t, "idle")
    /\ \E r \in Runs :
        /\ Runnable(row[r])
        /\ LET claimed == [Transition(row[r], "CONTEXTUALIZING") EXCEPT !.retryable = FALSE]
               cancelled == Saved(Saved([claimed EXCEPT !.status = "CANCELLED"]))
               driven == Saved(Saved(Saved([claimed EXCEPT !.status = "DISCOVERING"])))
               drive == [Idle EXCEPT !.pc = "compare", !.run = r, !.snap = driven,
                            !.ck = checkpoint[r], !.seen = memory.findings]
           IN \/ /\ row[r].cancel
                 /\ row' = [row EXCEPT ![r] = cancelled]
                 /\ UNCHANGED worker
              \/ /\ ~row[r].cancel
                 /\ row' = [row EXCEPT ![r] = driven]
                 /\ \/ Becomes(t, drive)
                    \/ \E fault \in Fault : Becomes(t, Raised(r, fault))
    /\ UNCHANGED <<task, checkpoint, memory, announced, history>>

\* Completed tasks win over the checkpoint that a crash kept from counting them.
RepairedSource(ck, tasks) ==
    IF Verified(tasks) # {} /\ ck.source = NoSource
    THEN tasks[First(Verified(tasks))].source
    ELSE ck.source

Repaired(ck, tasks) ==
    [ck EXCEPT !.completed = Cardinality(Done(tasks)), !.refs = Verified(tasks),
               !.source = RepairedSource(ck, tasks)]

\* The checkpoint was read before the tasks.
Compare(t) ==
    /\ At(t, "compare")
    /\ LET tasks == task[Job(t)] IN
       IF Ck(t).completed # Cardinality(Done(tasks)) \/ Ck(t).refs # Verified(tasks)
       THEN Becomes(t, [worker[t] EXCEPT !.pc = "repair", !.ck = Repaired(Ck(t), tasks)])
       ELSE Goto(t, "begin")
    /\ UNCHANGED <<store, history>>

Repair(t) ==
    /\ At(t, "repair")
    /\ SaveCheckpoint(t, Ck(t), "begin")
    /\ UNCHANGED <<row, task, memory, announced, history>>

\* A new diagnosis gets its budget.
Begin(t) ==
    /\ At(t, "begin")
    /\ IF Ck(t).round = 0 /\ Ck(t).remaining = 0
       THEN SaveCheckpoint(t, [Ck(t) EXCEPT !.remaining = MaxQuestions, !.source = Scope],
                           "round")
       ELSE Goto(t, "round") /\ UNCHANGED checkpoint
    /\ UNCHANGED <<row, task, memory, announced, history>>

-----------------------------------------------------------------------------
(* Rounds *)

CheckRound(t) ==
    /\ At(t, "round")
    /\ CheckCancel(t, "idle", [worker[t] EXCEPT !.pc = "tasks"])
    /\ UNCHANGED <<store, history>>

TasksOfRound(r, round) ==
    [o \in 1..PerRound |-> IF round = 0 THEN NoTask ELSE task[r][<<round, o>>]]

\* The loop is left: of what the thread knows, the memory it read is still used.
Concluding(t) == [Idle EXCEPT !.pc = "synthesize", !.run = Job(t), !.seen = worker[t].seen]

\* Go on with an unfinished round, plan another, or conclude.
ReadRound(t) ==
    /\ At(t, "tasks")
    /\ LET tasks == TasksOfRound(Job(t), Ck(t).round) IN
       Becomes(t, IF Unfinished(tasks)
                  THEN [worker[t] EXCEPT !.pc = "next", !.tasks = tasks, !.todo = Stored(tasks)]
                  ELSE IF Ck(t).round >= MaxRounds \/ Ck(t).remaining = 0
                  THEN Concluding(t)
                  ELSE [worker[t] EXCEPT !.pc = "plan"])
    /\ UNCHANGED <<store, history>>

\* A slip of Selectable: the remaining budget is not looked at.
SelectableUnpaid(ck) == 0..PerRound

\* select_questions(): how many questions a round may get.
Selectable(ck) == {n \in 0..PerRound : n <= ck.remaining}

\* The model's decision, on the observations made so far: up to PerRound new
\* questions (none for "stop"), a question to the user, or an error, which
\* ends the planning if something is verified.  The question which period to
\* compare with, asked before the first round, is a case of the second.
Plan(t) ==
    /\ At(t, "plan")
    /\ \/ \E n \in Selectable(Ck(t)) :
            Becomes(t, [worker[t] EXCEPT !.pc = "plan_round", !.todo = 1..n])
       \/ Becomes(t, [Idle EXCEPT !.pc = "wait", !.run = Job(t), !.place = Planner])
       \/ IF Conclusive(task[Job(t)]) THEN Becomes(t, Concluding(t)) ELSE Raise(t, "blocked")
    /\ UNCHANGED <<store, history>>

\* A slip of Planned: the round is counted, its questions are not.
PlannedUnpaid(ck, n) == [ck EXCEPT !.round = @ + 1]

\* plan_round(): the checkpoint and the tasks of the round in one transaction.
Planned(ck, n) == [ck EXCEPT !.round = @ + 1, !.remaining = @ - n]

PlanRound(t) ==
    /\ At(t, "plan_round")
    /\ LET new == Planned(Ck(t), Cardinality(worker[t].todo)) IN
       /\ SaveCheckpoint(t, new, "planned")
       /\ task' = IF checkpoint[Job(t)].revision = new.revision
                  THEN [task EXCEPT ![Job(t)] = [p \in Places |->
                        IF p[1] = new.round /\ p[2] \in worker[t].todo THEN NewTask ELSE @[p]]]
                  ELSE task
    /\ UNCHANGED <<row, memory, announced, history>>

ReadPlanned(t) ==
    /\ At(t, "planned")
    /\ LET tasks == TasksOfRound(Job(t), Ck(t).round) IN
       Becomes(t, IF worker[t].todo = {} THEN Concluding(t)
                  ELSE [worker[t] EXCEPT !.pc = "next", !.tasks = tasks, !.todo = Stored(tasks)])
    /\ UNCHANGED <<store, history>>

\* The next task of the list, after the check.
Turn(t, o) ==
    LET held == worker[t].tasks[o] IN
    IF held.status \in {"COMPLETED", "SKIPPED"}
    THEN [worker[t] EXCEPT !.todo = @ \ {o}]
    ELSE IF held.status = "FAILED" /\ ~held.retryable
    THEN Raised(Job(t), "permanent")
    ELSE [worker[t] EXCEPT !.pc = "start", !.place = <<Ck(t).round, o>>, !.snap = row[Job(t)]]

TakeTurn(t) ==
    /\ At(t, "next")
    /\ IF worker[t].todo = {}
       THEN Becomes(t, IF Ck(t).round >= MaxRounds THEN Concluding(t)
                       ELSE [worker[t] EXCEPT !.pc = "round", !.tasks = Idle.tasks,
                                              !.place = NoPlace])
       ELSE \E o \in worker[t].todo :
                /\ \A other \in worker[t].todo : o <= other
                /\ CheckCancel(t, "idle", Turn(t, o))
    /\ UNCHANGED <<store, history>>

-----------------------------------------------------------------------------
(* _execute_task() *)

StartTask(t) ==
    /\ At(t, "start")
    /\ SaveTask(t, [Held(t) EXCEPT !.status = "RUNNING", !.retryable = FALSE],
                "pend")
    /\ UNCHANGED <<row, checkpoint, memory, announced, history>>

\* pending_task_id, which nothing reads.
SetPending(t) ==
    /\ At(t, "pend")
    /\ SaveCheckpoint(t, Ck(t), "ask")
    /\ UNCHANGED <<row, task, memory, announced, history>>

\* The check, then the next record of the Ask: it reaches a stage, raises, or
\* is over.
Ask(t) ==
    /\ At(t, "ask")
    /\ \/ /\ Snap(t).status = "DISCOVERING"
          /\ CheckCancel(t, "skip", [worker[t] EXCEPT !.pc = "advance"])
       \/ \E fault \in {"transient", "permanent"} :
            CheckCancel(t, "skip", [worker[t] EXCEPT !.pc = "fail", !.outcome = fault])
       \/ CheckCancel(t, "skip", [worker[t] EXCEPT !.pc = "ended"])
    /\ UNCHANGED <<store, history>>

\* _advance(), which no handler of the task surrounds: a conflict leaves it RUNNING.
Answering(held) == [held EXCEPT !.status = "ANSWERING"]

Advance(t) ==
    /\ At(t, "advance")
    /\ IF Fresh(t)
       THEN /\ SaveRow(t, Answering(Snap(t)))
            /\ Becomes(t, [worker[t] EXCEPT !.pc = "ask", !.snap = Saved(Answering(Snap(t)))])
       ELSE Raise(t, "permanent") /\ UNCHANGED row
    /\ UNCHANGED <<task, checkpoint, memory, announced, history>>

\* What the response says: a question to the user, data that is missing, an
\* error, or a result with evidence from a source, which has to be the pinned one.
Mismatch(ck, source) == ck.source # NoSource /\ source # ck.source

AskEnded(t) ==
    /\ At(t, "ended")
    /\ \/ CheckCancel(t, "skip", [worker[t] EXCEPT !.pc = "park"])
       \/ CheckCancel(t, "skip", [worker[t] EXCEPT !.pc = "complete", !.found = NoSource])
       \/ \E fault \in {"transient", "permanent"} :
            CheckCancel(t, "skip", [worker[t] EXCEPT !.pc = "fail", !.outcome = fault])
       \/ \E source \in Sources :
            CheckCancel(t, "skip",
                IF Mismatch(Ck(t), source)
                THEN [worker[t] EXCEPT !.pc = "fail", !.outcome = "blocked"]
                ELSE [worker[t] EXCEPT !.pc = "complete", !.found = source])
    /\ UNCHANGED <<store, history>>

SkipTask(t) ==
    /\ At(t, "skip")
    /\ SaveTask(t, [Held(t) EXCEPT !.status = "SKIPPED"], "idle")
    /\ UNCHANGED <<row, checkpoint, memory, announced, history>>

\* The task is saved, then DiagnosticFailure is raised.
FailTask(t) ==
    /\ At(t, "fail")
    /\ SaveTask(t, [Held(t) EXCEPT !.status = "FAILED",
                                   !.retryable = (worker[t].outcome = "transient")],
                "except")
    /\ UNCHANGED <<row, checkpoint, memory, announced, history>>

CompleteTask(t) ==
    /\ At(t, "complete")
    /\ SaveTask(t, [Held(t) EXCEPT !.status = "COMPLETED", !.source = worker[t].found],
                "count")
    /\ UNCHANGED <<row, checkpoint, memory, announced, history>>

\* The second transaction of a completion: the checkpoint counts it and pins
\* the source.
Counted(t) ==
    IF worker[t].found = NoSource
    THEN [Ck(t) EXCEPT !.completed = @ + 1]
    ELSE [Ck(t) EXCEPT !.completed = @ + 1, !.source = worker[t].found,
                       !.refs = @ \cup {worker[t].place}]

CountTask(t) ==
    /\ At(t, "count")
    /\ SaveCheckpoint(t, Counted(t), "after")
    /\ UNCHANGED <<row, task, memory, announced, history>>

\* The task waits first, then the run.
ParkTask(t) ==
    /\ At(t, "park")
    /\ SaveTask(t, [Held(t) EXCEPT !.status = "WAITING_USER"], "wait")
    /\ UNCHANGED <<row, checkpoint, memory, announced, history>>

ReadWait(t) ==
    /\ At(t, "wait")
    /\ Becomes(t, [worker[t] EXCEPT !.pc = "waiting", !.snap = row[Job(t)]])
    /\ UNCHANGED <<store, history>>

\* The row waits, and the user sees the question.
Wait(t) ==
    /\ At(t, "waiting")
    /\ IF MaySave(t, "WAITING_USER")
       THEN /\ SaveRow(t, Transition(Snap(t), "WAITING_USER"))
            /\ Goto(t, IF worker[t].place = Planner THEN "idle" ELSE "after")
       ELSE Raise(t, "permanent") /\ UNCHANGED row
    /\ UNCHANGED <<task, checkpoint, memory, announced, history>>

\* drive() looks at the row to see whether its task waits: a user who replies
\* before that, or cancels, lets it go on: beside the drive of the
\* reply, or with a run that is over.
AfterTask(t) ==
    /\ At(t, "after")
    /\ Becomes(t, IF row[Job(t)].status = "WAITING_USER" THEN Idle
                  ELSE [worker[t] EXCEPT !.pc = "next", !.todo = @ \ {worker[t].place[2]},
                            !.found = NoSource])
    /\ overrun' = IF row[Job(t)].status # "WAITING_USER" /\ Held(t).status = "WAITING_USER"
                  THEN overrun \cup {Job(t)} ELSE overrun
    /\ UNCHANGED <<store, events>>

-----------------------------------------------------------------------------
(* Synthesis and the memory of the conversation *)

\* The observations, then the model writes the answer, then the check.
Synthesize(t) ==
    /\ At(t, "synthesize")
    /\ IF Conclusive(task[Job(t)])
       THEN CheckCancel(t, "idle", [worker[t] EXCEPT !.pc = "reread"])
       ELSE Raise(t, "blocked")
    /\ UNCHANGED <<store, history>>

\* The row is read after the check: a cancel request in between is saved back.
Reread(t) ==
    /\ At(t, "reread")
    /\ Becomes(t, [worker[t] EXCEPT !.pc = "finish", !.snap = row[Job(t)]])
    /\ UNCHANGED <<store, history>>

\* _advance() to ANSWERING, which leaves a run that is not driven as it is, and
\* COMPLETED.
Finished(held) == IF held.status = "DISCOVERING" THEN Answering(held) ELSE held

Finish(t) ==
    /\ At(t, "finish")
    /\ IF CanTransition(Finished(Snap(t)), "COMPLETED") /\ Fresh(t)
       THEN /\ SaveRow(t, Transition(Finished(Snap(t)), "COMPLETED"))
            /\ Goto(t, "record")
       ELSE Raise(t, "permanent") /\ UNCHANGED row
    /\ UNCHANGED <<task, checkpoint, memory, announced, history>>

\* record_memory(): nothing for a run whose finding the thread has seen, else
\* the revision of the memory is read now, its content was read long ago.
Record(t) ==
    /\ At(t, "record")
    /\ IF Job(t) \in worker[t].seen
       THEN Goto(t, "publish")
       ELSE Becomes(t, [worker[t] EXCEPT !.pc = "put", !.expected = memory.revision])
    /\ UNCHANGED <<store, history>>

PutMemory(t) ==
    /\ At(t, "put")
    /\ IF memory.revision = worker[t].expected
       THEN /\ memory' = [findings |-> worker[t].seen \cup {Job(t)},
                          revision |-> memory.revision + 1]
            /\ Goto(t, "publish")
       ELSE Raise(t, "permanent") /\ UNCHANGED memory
    /\ UNCHANGED <<row, task, checkpoint, announced, history>>

Publish(t) ==
    /\ At(t, "publish")
    /\ announced' = announced \cup {Job(t)}
    /\ Goto(t, IF worker[t].repairing THEN "repairs" ELSE "idle")
    /\ UNCHANGED <<row, task, checkpoint, memory, history>>

-----------------------------------------------------------------------------
(* The handler of execute() *)

IncompleteCompletions == {r \in Runs : row[r].status = "COMPLETED"} \ announced

\* A completed run is left to the repair of completions, a waiting one to the
\* repair of questions, which changes nothing that is modelled here.
Except(t) ==
    /\ At(t, "except")
    /\ LET current == row[Job(t)] IN
       CASE current.status = "COMPLETED" ->
                Becomes(t, [Idle EXCEPT !.pc = "repairs", !.repairing = TRUE,
                                        !.repairs = IncompleteCompletions])
         [] current.status = "WAITING_USER" -> Becomes(t, Idle)
         [] OTHER -> Becomes(t, [worker[t] EXCEPT !.pc = "check_failure", !.snap = current])
    /\ UNCHANGED <<store, history>>

CheckFailure(t) ==
    /\ At(t, "check_failure")
    /\ CheckCancel(t, "idle", Step(worker[t],
            IF Snap(t).status \in Terminal THEN "idle" ELSE "fail_run"))
    /\ UNCHANGED <<store, history>>

\* A conflict here escapes from the thread.
FailRun(t) ==
    /\ At(t, "fail_run")
    /\ LET target == IF worker[t].outcome = "blocked" THEN "BLOCKED" ELSE "FAILED" IN
       IF MaySave(t, target)
       THEN SaveRow(t, [Transition(Snap(t), target) EXCEPT
                            !.retryable = (worker[t].outcome = "transient")])
       ELSE UNCHANGED row
    /\ Becomes(t, Idle)
    /\ UNCHANGED <<task, checkpoint, memory, announced, history>>

\* _recover_completions(), with the memory as it is now.
RepairNext(t) ==
    /\ At(t, "repairs")
    /\ IF worker[t].repairs = {}
       THEN Becomes(t, Idle)
       ELSE \E r \in worker[t].repairs :
                Becomes(t, [worker[t] EXCEPT !.run = r, !.repairs = @ \ {r},
                    !.seen = memory.findings, !.pc =
                    IF Conclusive(task[r]) THEN "record" ELSE "publish"])
    /\ UNCHANGED <<store, history>>

-----------------------------------------------------------------------------
(* Clients, crash and restart *)

Happens == events < MaxEvents /\ events' = events + 1

Create(r) ==
    /\ ~Present(row[r])
    /\ row' = [row EXCEPT ![r] = NewRow]
    /\ UNCHANGED <<task, checkpoint, memory, announced, worker, history>>

\* A run at rest is left alone, except a waiting one.
Cancel(r) ==
    /\ Present(row[r]) /\ Happens
    /\ \/ /\ row[r].status = "WAITING_USER"
          /\ row' = [row EXCEPT ![r] = Saved(Transition(@, "CANCELLED"))]
       \/ /\ row[r].status \notin Terminal
          /\ row' = [row EXCEPT ![r] = Saved([@ EXCEPT !.cancel = TRUE])]
    /\ UNCHANGED <<task, checkpoint, memory, announced, worker, overrun>>

Clarify(r) ==
    /\ Happens
    /\ row[r].status = "WAITING_USER" /\ ~row[r].queued
    /\ row' = [row EXCEPT ![r] = Saved([@ EXCEPT !.queued = TRUE])]
    /\ UNCHANGED <<task, checkpoint, memory, announced, worker, overrun>>

Retry(r) ==
    /\ Happens
    /\ row[r].status = "FAILED" /\ row[r].retryable /\ ~row[r].queued
    /\ row' = [row EXCEPT ![r] = Saved([@ EXCEPT !.queued = TRUE])]
    /\ UNCHANGED <<task, checkpoint, memory, announced, worker, overrun>>

\* A slip of Recovered: tasks stay as the crash left them.
RecoveredNever(held) == held

\* recover_running(): an interrupted task may be asked again.
Recovered(held) ==
    IF held.status = "RUNNING"
    THEN [held EXCEPT !.status = "FAILED", !.retryable = TRUE, !.revision = @ + 1]
    ELSE held

\* recover_interrupted()
Interrupted(held) ==
    IF held.status \in Active
    THEN Saved([Transition(held, "FAILED") EXCEPT !.retryable = TRUE])
    ELSE held

\* The process dies, and the constructor of the next one repairs what it left
\* before it serves anybody.  Each repair is idempotent, so dying again in the
\* middle of them is the same as dying afterwards.
Restart ==
    /\ Happens
    /\ worker' = [t \in Workers |-> Idle]
    /\ task' = [r \in Runs |-> [p \in Places |-> Recovered(task[r][p])]]
    /\ row' = [r \in Runs |-> Interrupted(row[r])]
    /\ LET found == {r \in IncompleteCompletions : Conclusive(task[r])} \ memory.findings IN
       memory' = [findings |-> memory.findings \cup found,
                  revision |-> memory.revision + Cardinality(found)]
    /\ announced' = announced \cup IncompleteCompletions
    /\ UNCHANGED <<checkpoint, overrun>>

-----------------------------------------------------------------------------

Thread(t) ==
    \/ Claim(t) \/ Compare(t) \/ Repair(t) \/ Begin(t)
    \/ CheckRound(t) \/ ReadRound(t) \/ Plan(t) \/ PlanRound(t) \/ ReadPlanned(t)
    \/ TakeTurn(t) \/ StartTask(t) \/ SetPending(t) \/ Ask(t) \/ Advance(t) \/ AskEnded(t)
    \/ SkipTask(t) \/ FailTask(t) \/ CompleteTask(t) \/ CountTask(t)
    \/ ParkTask(t) \/ ReadWait(t) \/ Wait(t) \/ AfterTask(t) \/ CancelRun(t)
    \/ Synthesize(t) \/ Reread(t) \/ Finish(t) \/ Record(t) \/ PutMemory(t) \/ Publish(t)
    \/ Except(t) \/ CheckFailure(t) \/ FailRun(t) \/ RepairNext(t)

Client(r) == Create(r) \/ Cancel(r) \/ Clarify(r) \/ Retry(r)

Next ==
    \/ \E t \in Workers : Thread(t)
    \/ \E r \in Runs : Client(r)
    \/ Restart

Spec == Init /\ [][Next]_vars

=============================================================================
