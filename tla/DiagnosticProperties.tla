------------------------ MODULE DiagnosticProperties ------------------------
(***************************************************************************)
(* What has to be true of diagnostic runs.                                 *)
(***************************************************************************)
EXTENDS DiagnosticRun, TLC

DiagnosticSymmetry == Permutations(Runs) \cup Permutations(Workers) \cup Permutations(Sources)

Driven(r) == \E t \in Workers : Job(t) = r

\* Completed tasks are read from the store and never asked again
\* (repository.py's compare-and-swap, whatever threads hold of an older copy).
CompletedTasksAreFinal ==
    [][\A r \in Runs, p \in Places :
         task[r][p].status = "COMPLETED" => task'[r][p] = task[r][p]]_vars

\* Tasks and budget agree at every moment, although drives stop between any two
\* transactions: every question in the table was paid for, no round has more
\* than the plan allows, and no task is of a round not yet counted.
BudgetIsPaid ==
    \A r \in Runs :
        LET ck == checkpoint[r]
            planned == {p \in Places : task[r][p].status # "ABSENT"}
        IN /\ ck.remaining = 0 /\ planned = {} => ck.round = 0
           /\ ck.round > 0 => Cardinality(planned) + ck.remaining = MaxQuestions
           /\ \A p \in planned : p[1] <= ck.round

\* All evidence of a run comes from one source, the one its checkpoint pins,
\* if no drive of it went on after parking it.
EvidenceFromOneSource ==
    \A r \in Runs \ overrun :
        \A p, q \in Verified(task[r]) : task[r][p].source = task[r][q].source

\* A completed run has completed every question it planned and counted it: its
\* answer stands on all the evidence.
CompletedRunsAreWhole ==
    \A r \in Runs \ overrun : row[r].status = "COMPLETED" =>
        /\ ~\E p \in Places : task[r][p].status \notin {"ABSENT", "COMPLETED", "SKIPPED"}
        /\ checkpoint[r].refs = Verified(task[r])
        /\ checkpoint[r].completed = Cardinality(Done(task[r]))

Unattended(r) ==
    /\ ~Driven(r)
    /\ Runnable(row[r]) \/ row[r].status = "WAITING_USER" \/ (row[r].status = "FAILED" /\ row[r].retryable)

\* Nothing a drive does to a task is lost or done twice: a run that somebody may resume, and
\* nobody drives, has no task left running, and no task that has completed changes
\* (_recover_tasks(), save_task()).
TasksAreSettled ==
    /\ [](\A r \in Runs \ overrun : Unattended(r) => \A p \in Places : task[r][p].status # "RUNNING")
    /\ CompletedTasksAreFinal

\* The memory holds findings of completed runs with verified evidence only.
FindingsAreGrounded ==
    \A r \in memory.findings : row[r].status = "COMPLETED" /\ Verified(task[r]) # {}

\* What a run may rest on, whatever drives stopped between the save of a task and that of
\* the checkpoint that counts it (_execute_task(), _recover_tasks()).
DiagnosesAreSound ==
    /\ BudgetIsPaid
    /\ EvidenceFromOneSource
    /\ CompletedRunsAreWhole
    /\ FindingsAreGrounded

-----------------------------------------------------------------------------
(* The inductive invariant, stated on the record of one thread and the row, the tasks and  *)
(* the checkpoint of the run it works on                                                   *)

Entering == {"compare", "repair", "begin", "round", "tasks", "plan", "plan_round", "planned"}
Concluded == {"synthesize", "reread", "finish"}
Failing == {"except", "check_failure", "fail_run"}
Announcing == {"record", "put", "publish"}

\* Where the row a thread has read may be saved again.
Saving == {"start", "pend", "ask", "advance", "ended", "cancel", "waiting", "finish",
           "check_failure", "fail_run"}

Asked(w) == w.pc \in {"wait", "waiting"} /\ w.place # Planner

Executing(w) ==
    \/ w.pc \in {"pend", "ask", "advance", "ended", "skip", "fail", "complete", "park"}
    \/ w.pc = "cancel" /\ w.then = "skip"

Leaving(w) == w.pc = "cancel" /\ w.then = "idle"

OnTask(w) == w.pc \in {"start", "count", "after"} \/ Executing(w) \/ Asked(w)
InRound(w) == w.pc = "next" \/ OnTask(w)
Looping(w) == w.pc \in Entering \/ InRound(w)

HeldBy(w) == w.tasks[w.place[2]]
AtRest(held) == held.status \in {"ABSENT", "COMPLETED", "SKIPPED"}

\* What is true of a thread's record by itself.
ThreadSound(w) ==
    /\ w.pc = "idle" => w = Idle
    /\ w.pc \notin {"idle", "repairs"} => w.run \in Runs
    /\ w.repairing => w.pc \in {"repairs"} \cup Announcing /\ w.ck = NewCheckpoint
    /\ w.pc = "repairs" => w.repairing
    /\ w.pc \in Entering => w.tasks = Idle.tasks
    /\ w.pc \in {"plan", "plan_round"} => w.ck.round < MaxRounds /\ w.ck.remaining > 0
    /\ w.pc = "plan_round" => Cardinality(w.todo) <= w.ck.remaining
    /\ w.pc = "planned" \/ InRound(w) => w.ck.round > 0
    /\ InRound(w) => \A o \in w.todo : w.tasks[o].status # "ABSENT"
    /\ OnTask(w) => w.place \in Places /\ w.place[1] = w.ck.round /\ w.place[2] \in w.todo
    /\ w.pc = "start" => ~AtRest(HeldBy(w))
    /\ Executing(w) => HeldBy(w).status = "RUNNING"
    /\ w.pc = "count" => HeldBy(w).status = "COMPLETED" /\ HeldBy(w).source = w.found
    /\ Asked(w) => HeldBy(w).status = "WAITING_USER"
    /\ w.pc = "after" => HeldBy(w).status \in {"COMPLETED", "WAITING_USER"}
    /\ w.pc = "advance" => w.snap.status = "DISCOVERING"
    /\ w.pc \in {"complete", "count"} => w.found = NoSource \/ w.ck.source \in {NoSource, w.found}

\* A copy of the current revision is the stored one, whoever else works on the run.
HoldsCopies(w, run, tasks, stored) ==
    /\ Present(run)
    /\ w.pc \in Saving => /\ w.snap.revision <= run.revision
                          /\ w.snap.revision = run.revision => w.snap = run
    /\ w.ck.round <= stored.round
    /\ Looping(w) => /\ w.ck.revision <= stored.revision
                     /\ w.ck.revision = stored.revision =>
                            /\ w.ck.round = stored.round /\ w.ck.remaining = stored.remaining
                            /\ w.pc # "repair" => w.ck = stored
    /\ InRound(w) => \A o \in 1..PerRound : w.tasks[o].status # "ABSENT" =>
            /\ w.tasks[o].revision <= tasks[<<w.ck.round, o>>].revision
            /\ w.tasks[o].revision = tasks[<<w.ck.round, o>>].revision =>
                    w.tasks[o] = tasks[<<w.ck.round, o>>]
    /\ w.pc \in {"reread", "finish", "record", "put"} => Verified(tasks) # {}
    /\ w.pc \in Announcing => run.status = "COMPLETED"

Paid(tasks, stored) ==
    LET planned == {p \in Places : tasks[p].status # "ABSENT"}
    IN /\ stored.round = 0 => stored.remaining \in {0, MaxQuestions}
       /\ stored.round > 0 => Cardinality(planned) + stored.remaining = MaxQuestions
       /\ \A p \in planned : p[1] <= stored.round

Tallied(tasks, ck) == ck.refs = Verified(tasks) /\ ck.completed = Cardinality(Done(tasks))

Resumable(run) ==
    \/ run.status \in {"ABSENT", "CREATED", "WAITING_USER"}
    \/ run.status = "FAILED" /\ (run.queued \/ run.retryable)

\* What is true of a run that no drive went on with after parking it.
RunInOrder(run, tasks, stored) ==
    /\ \A p \in Places : p[1] < stored.round => AtRest(tasks[p])
    /\ \A p, q \in Verified(tasks) : tasks[p].source = tasks[q].source
    /\ stored.source # NoSource => \A p \in Verified(tasks) : tasks[p].source = stored.source
    /\ stored.refs # {} => stored.source # NoSource
    /\ Resumable(run) => \A p \in Places : tasks[p].status # "RUNNING"
    /\ run.status = "COMPLETED" => Tallied(tasks, stored) /\ \A p \in Places : AtRest(tasks[p])

\* A drive that has put its question to the user and only looks whether it may end.
Parked(w) == w.pc = "after" /\ HeldBy(w).status = "WAITING_USER"

Drives(w) == w.pc # "idle" /\ ~w.repairing /\ ~Parked(w)

\* What is true of the drive of such a run, which is the only one.
DriveInOrder(w, run, tasks, stored) ==
    /\ run.status \in Active \/ w.pc \in {"skip"} \cup Failing \cup Announcing
    /\ w.pc \in {"skip"} \cup Failing => run.status \in Active \cup {"CANCELLED", "COMPLETED"}
    /\ w.pc \in {"skip", "check_failure", "fail_run"} => run.status # "COMPLETED"
    /\ Looping(w) => w.ck.revision = stored.revision
    /\ InRound(w) => \A o \in 1..PerRound :
            /\ w.tasks[o] = tasks[<<w.ck.round, o>>]
            /\ o \in w.todo \/ AtRest(w.tasks[o])
    /\ w.pc \in {"plan", "plan_round"} \cup Concluded \/ (w.pc = "planned" /\ w.todo = {}) =>
            \A p \in Places : AtRest(tasks[p])
    /\ w.pc = "repair" => /\ Tallied(tasks, w.ck)
                          /\ \A p \in Verified(tasks) : tasks[p].source = w.ck.source
    /\ w.pc \notin {"compare", "repair", "count"} \cup Failing /\ ~Leaving(w) =>
            Tallied(tasks, stored)
    /\ w.pc = "count" => /\ Cardinality(Done(tasks)) = stored.completed + 1
                         /\ Verified(tasks) = stored.refs \cup
                                (IF w.found = NoSource THEN {} ELSE {w.place})
    /\ \A p \in Places : tasks[p].status = "RUNNING" =>
            \/ Executing(w) /\ p = w.place
            \/ Leaving(w)
            \/ w.pc \in Failing /\ w.outcome # "transient"

Grounded == {r \in Runs : row[r].status = "COMPLETED" /\ Verified(task[r]) # {}}

ThreadsSound == \A t \in Workers : ThreadSound(worker[t])

CopiesHold == \A t \in Workers : Job(t) \in Runs =>
    HoldsCopies(worker[t], row[Job(t)], task[Job(t)], checkpoint[Job(t)])

RunsPaid == \A r \in Runs : Paid(task[r], checkpoint[r])

RetriesAllowed == \A r \in Runs : row[r].status = "FAILED" /\ row[r].queued => row[r].retryable

RunsInOrder == \A r \in Runs \ overrun : RunInOrder(row[r], task[r], checkpoint[r])

DrivesInOrder == \A t \in Workers : Drives(worker[t]) /\ Job(t) \notin overrun =>
    DriveInOrder(worker[t], row[Job(t)], task[Job(t)], checkpoint[Job(t)])

OneDrive == \A t, u \in Workers :
    Drives(worker[t]) /\ Drives(worker[u]) /\ Job(t) = Job(u) /\ Job(t) \notin overrun => t = u

FindingsGrounded ==
    /\ memory.findings \subseteq Grounded
    /\ \A t \in Workers : worker[t].seen \subseteq Grounded
    /\ \A t \in Workers, r \in Runs : r \in worker[t].repairs => row[r].status = "COMPLETED"

DiagnosticInductive ==
    /\ DiagnosticTypeOK
    /\ ThreadsSound
    /\ CopiesHold
    /\ RunsPaid
    /\ RetriesAllowed
    /\ RunsInOrder
    /\ DrivesInOrder
    /\ OneDrive
    /\ FindingsGrounded

-----------------------------------------------------------------------------

\* A completed run whose completion was announced left its finding in the memory.
AnnouncedFindingsAreKept == announced \subseteq memory.findings

=============================================================================
