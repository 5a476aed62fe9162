-------------------------- MODULE FederatedProperties --------------------------
(***************************************************************************)
(* What federated runs promise, and the inductive invariant that it        *)
(* follows from.                                                           *)
(***************************************************************************)
EXTENDS FederatedRun, TLC

FederatedSymmetry == Permutations(Workers)

\* A completed run has an answer of every source, and together they fit into
\* the budget, also when two drives of one run have asked the sources side by
\* side (drive() lines 139-150, the totals of _execute_task() and the merger's).
CompletedWithinBudget ==
    \A r \in Runs : row[r].status = "COMPLETED" =>
        /\ \A i \in Tasks : task[r][i].status = "COMPLETED"
        /\ Sizes(task[r], Tasks) <= MaxBytes

\* What a join merges was never read at a newer version of its source than the
\* versions its mapping is confirmed for, however the drive, the rescans and
\* the keepers of the mapping interleave (executable() before the merge).
JoinsKnowTheirSources ==
    \A r \in Runs : row[r].status = "COMPLETED" /\ plan[r] = "join" =>
        \A i \in Tasks : task[r][i].version <= joined[r][i]

\* What a completed run has merged fits its budget and is what its mapping was confirmed
\* for (drive(), from the totals to executable()).
CompletedRunsAreSound == CompletedWithinBudget /\ JoinsKnowTheirSources

\* A source that has answered is not asked again, whoever drives the run and
\* however it is resumed: recovery goes by source tasks.
AnsweredTasksAreFinal ==
    [][\A r \in Runs, i \in Tasks :
        task[r][i].status = "COMPLETED" => task'[r][i] = task[r][i]]_vars

\* A rejected mapping is never confirmed again, nor marked stale: a call that
\* read it before loses its compare-and-swap (save_mapping()).
RejectionIsFinal ==
    [][mapping.status = "REJECTED" => mapping'.status = "REJECTED"]_vars

\* What is settled stays settled, whoever comes late: an answer, and a keeper's rejection.
DecisionsAreFinal == AnsweredTasksAreFinal /\ RejectionIsFinal

Driven(r) == \E t \in Workers : worker[t].run = r

\* A source's question that the user was never asked: the crash came between
\* the task's save and the run's.
Unasked(r) == \E i \in Tasks : task[r][i].status = "WAITING_USER"

\* A run in progress has a thread that drives it.  There are two exceptions: the
\* handler lost its save to a cancel request, and a task waits for a reply to a
\* question that nobody was asked.
FederatedRunsAreDriven ==
    \A r \in Runs : row[r].status \in Active =>
        Driven(r) \/ row[r].cancel \/ Unasked(r)

-----------------------------------------------------------------------------
(* The inductive invariant, stated on the record of one thread and the row, the plan and    *)
(* the tasks of the run it works on                                                         *)

\* executable(), for a plan that is made or resumed and again before the merge.
Governed(w) == w.pc \in {"mapping", "versions", "stale"}

Executes(w) ==
    \/ w.pc \in {"ask", "totals", "complete", "skip", "fail", "park"}
    \/ w.pc = "cancel" /\ w.then = "skip"

OnTask(w) == w.pc \in {"start", "wait", "after"} \/ Executes(w) \/ (w.pc = "waiting" /\ w.place # 0)
InLoop(w) == w.pc = "turn" \/ OnTask(w)
Merging(w) == w.pc \in {"merge", "answer", "finish"} \/ (Governed(w) /\ w.then = "merge")

\* The plan was made, by this drive or an earlier one.
Planned(w) ==
    \/ w.pc \in {"resume", "advance", "tasks", "collect"} \/ InLoop(w) \/ Merging(w)
    \/ Governed(w) /\ w.then = "advance"

\* What has been read of the user's replies still counts.
Asks(w) ==
    \/ w.pc \in {"route", "kind", "plan", "create", "resume", "advance", "tasks", "turn", "start",
                 "ask", "totals", "complete", "fail", "park", "wait", "after"}
    \/ Governed(w) /\ w.then # "merge"

Drives(w) == w.pc # "idle" /\ ~w.repairing

\* It holds a copy of the row.
Holds(w) == w.pc \notin {"idle", "except", "repairs", "record", "publish"}

\* Its next save of the row will succeed, unless somebody else saves first.
Keeps(w, run) == Drives(w) /\ (w.pc = "except" \/ (Holds(w) /\ w.snap.revision = run.revision))

\* What is true of a thread's record by itself.
ThreadSound(w) ==
    /\ w.pc = "idle" => w = Idle
    /\ w.pc \notin {"idle", "repairs"} => w.run \in Runs
    /\ w.repairing => w.pc \in {"repairs", "record", "publish"}
    /\ w.pc = "repairs" => w.repairing
    /\ w.pc = "route" => w.place = 0
    /\ w.pc = "waiting" => w.place # N + 1
    /\ w.pc = "turn" => w.place # 0
    /\ OnTask(w) => w.place \in Tasks
    /\ w.pc = "start" => w.tasks[w.place].status # "COMPLETED"
    /\ Executes(w) => w.tasks[w.place].status = "RUNNING"
    /\ Governed(w) => w.then \in {"create", "advance", "merge"}
    /\ w.pc = "cancel" => w.then \in {"idle", "skip"}

\* A copy of the current revision is the stored one, whoever else works on the run; and
\* answers that are collected are final.
HoldsCopies(w, run, kind, tasks) ==
    /\ Drives(w) => Present(run)
    /\ Holds(w) => /\ w.snap.revision <= run.revision
                   /\ w.snap.revision = run.revision => w.snap = run
    /\ w.pc \in {"cancel", "skip"} => run.cancel
    /\ InLoop(w) => \A i \in Tasks :
            /\ w.tasks[i].revision <= tasks[i].revision
            /\ w.tasks[i].revision = tasks[i].revision => w.tasks[i] = tasks[i]
    /\ Planned(w) => kind # "none" /\ (w.pc # "resume" => w.kind = kind)
    /\ Merging(w) => w.tasks = tasks /\ Whole(tasks)
    /\ w.pc \in {"answer", "finish"} => Bytes(tasks) <= MaxBytes

\* What a thread has read of the sources, whose versions are `current' now.
KnowsSources(w, current) ==
    /\ w.pc \in {"totals", "complete"} => w.found.version <= current[w.place]
    /\ w.pc \in {"merge", "answer", "finish"} /\ w.kind = "join" =>
            \A i \in Tasks : w.tasks[i].version <= w.mapping.bound[i]

\* What is true of a run.
RunSound(run, kind, tasks, bound) ==
    /\ kind = "none" => tasks = [i \in Tasks |-> NoTask]
    /\ run.status = "COMPLETED" =>
            /\ kind # "none" /\ Whole(tasks) /\ Sizes(tasks, Tasks) <= MaxBytes
            /\ kind = "join" => \A i \in Tasks : tasks[i].version <= bound[i]

\* What is true of the drive of a run that nobody has replied to, which is the only one.
DriveInOrder(w, run, tasks) ==
    /\ \/ run.status \in Active \cup {"CANCELLED", "COMPLETED"}
       \/ run.status = "WAITING_USER" /\ w.pc = "after"
    /\ InLoop(w) => w.tasks = tasks

ThreadsSound == \A t \in Workers : ThreadSound(worker[t]) /\ KnowsSources(worker[t], version)

CopiesHold == \A t \in Workers : Job(t) \in Runs =>
    HoldsCopies(worker[t], row[Job(t)], plan[Job(t)], task[Job(t)])

RunsSound == \A r \in Runs :
    /\ RunSound(row[r], plan[r], task[r], joined[r])
    /\ \A i \in Tasks : task[r][i].version <= version[i]

RepliesAreKnown ==
    /\ \A r \in Runs : row[r].status = "WAITING_USER" /\ row[r].queued => r \in replied
    /\ \A t \in Workers :
            /\ Asks(worker[t]) /\ ~worker[t].heard
            /\ Snap(t).revision = row[Job(t)].revision
            => Job(t) \notin replied

DrivesInOrder == \A t \in Workers : Drives(worker[t]) /\ Job(t) \notin replied =>
    DriveInOrder(worker[t], row[Job(t)], task[Job(t)])

OneDrive == \A t, u \in Workers :
    Drives(worker[t]) /\ Drives(worker[u]) /\ Job(t) = Job(u) /\ Job(t) \notin replied => t = u

Abandoned(r) == \A t \in Workers : Drives(worker[t]) => Job(t) # r

RunsKept == \A r \in Runs : row[r].status \in Active /\ ~row[r].cancel =>
    \/ \E t \in Workers : Job(t) = r /\ Keeps(worker[t], row[r])
    \/ Unasked(r) /\ Abandoned(r)

ConfirmsOpen == confirming # NoMapping => confirming.status \in {"CANDIDATE", "STALE"}

FederatedInductive ==
    /\ FederatedTypeOK
    /\ ThreadsSound
    /\ CopiesHold
    /\ RunsSound
    /\ RepliesAreKnown
    /\ DrivesInOrder
    /\ OneDrive
    /\ RunsKept
    /\ ConfirmsOpen

-----------------------------------------------------------------------------

\* The handler of execute() says "never lose a run".
NoFederatedRunIsLost ==
    \A r \in Runs : row[r].status \in Active => Driven(r) \/ row[r].cancel

\* "keyed_join only accepts mappings that are confirmed and whose versions
\* match": what it joins was read at the versions the mapping is bound to.
JoinsMatchTheirMapping ==
    \A r \in Runs : row[r].status = "COMPLETED" /\ plan[r] = "join" =>
        \A i \in Tasks : task[r][i].version = joined[r][i]

=============================================================================
