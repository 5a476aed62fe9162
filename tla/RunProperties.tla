--------------------------- MODULE RunProperties ---------------------------
(***************************************************************************)
(* What makes the Run runtime correct, and the inductive invariant that    *)
(* its safety follows from.                                                *)
(***************************************************************************)
EXTENDS RunRuntime, TLC

\* Neither two runs nor two threads differ in more than their names.
Symmetry == Permutations(Runs) \cup Permutations(Workers)

\* Where a thread works on its run between the claim and the outcome.
Driving == {"started", "begin", "context", "check_context", "discover", "check_ask", "ask",
            "advance", "settle", "cancel", "except", "check_failure", "fail"}

Drives(t, r) == Job(t) = r /\ worker[t].pc \in Driving

\* Where a thread holds a copy of its run's row that it may save: the handler
\* reads the row again before it saves.
Holding == (Driving \ {"except"}) \cup {"claim"}

\* The copy of the row a thread works with is the row itself whenever its
\* revision is current, and never ahead of it: what save() relies on when it
\* writes every column back after comparing the revision only.
SnapshotCurrent ==
    \A t \in Workers :
        worker[t].pc \in Holding /\ Present(run[Job(t)]) =>
            /\ Snap(t).revision <= run[Job(t)].revision
            /\ Snap(t).revision = run[Job(t)].revision => Snap(t) = run[Job(t)]

\* Two threads never drive one run, whatever was submitted twice or resubmitted
\* after a restart (orchestrator.py: "another worker won the compare-and-swap").
OneDriver ==
    \A t, u \in Workers, r \in Runs : Drives(t, r) /\ Drives(u, r) => t = u

\* Once cancel() has left its request on a run, no worker can complete it, ask
\* its user or block it: the request moved the revision, so the worker's next
\* save fails and its handler finds the request.
CancelWins ==
    \A r \in Runs : run[r].cancel => run[r].status \notin {"COMPLETED", "WAITING_USER", "BLOCKED"}

\* While the process is up, a run in an active status has a thread, unless a
\* cancel request took the handler's last save away from it.
OnlyCancelLosesARun ==
    Up => \A r \in Runs :
        run[r].status \in Active /\ ~run[r].cancel => \E t \in Workers : Drives(t, r)

Scheduled(r) ==
    \/ \E i \in DOMAIN queue : queue[i] = r
    \/ \E t \in Workers : Job(t) = r /\ At(t, "claim")
    \/ \E call \in calls : call.run = r

\* A run that waits for a worker is on its way to one: in the pool's queue, in
\* a worker's hands, or in a call that will submit it.  Replies and retries are
\* also resubmitted after a restart; a new run is neither resubmitted then, nor
\* picked up again when a cancel request beats its claim.
RunnableIsScheduled ==
    Up => \A r \in Runs :
        /\ Runnable(run[r])
        /\ run[r].status = "CREATED" => crashes = 0 /\ ~run[r].cancel
        => Scheduled(r)

\* The assistant's answer, the conversation's memory and the RUN_COMPLETED event
\* speak only for a run whose completion is durable.
OnlyCompletedSpeaks ==
    conversation = "active" =>
        /\ \A r \in Runs : messages[r].answer \/ Published(r, "RUN_COMPLETED") =>
            run[r].status = "COMPLETED"
        /\ memory.last # NoRun => run[memory.last].status = "COMPLETED"

\* An answered run is not driven before its answer is stored, unless the process
\* died between the two transactions of clarify().
AnswerBeforeResume ==
    [][\A t \in Workers :
        At(t, "begin") /\ worker'[t].pc = "context" /\ crashes = 0 =>
            messages[Job(t)].replies = replied[Job(t)]]_vars

\* When the constructor returns, every completed run has its answer and its event and no run
\* is active, wherever the crash (or a crash during an earlier repair) happened.
CompletionsRepaired ==
    [][~Up /\ Up' => \A r \in Runs :
        /\ run[r].status = "COMPLETED" =>
            messages[r].answer /\ Published(r, "RUN_COMPLETED")
        /\ run[r].status \notin Active]_vars

\* Then the last thing a run that waits for its user said is its question.
QuestionsRepaired ==
    [][~Up /\ Up' => \A r \in Runs :
        run[r].status = "WAITING_USER" /\ ~run[r].queued =>
            /\ LastEvent(r) = "CLARIFICATION_REQUIRED"
            /\ run[r].revision \in messages[r].prompts]_vars

\* A restart leaves nothing unsaid that was decided before it.
RestartRepairs == CompletionsRepaired /\ QuestionsRepaired

\* While the process is up, no run is forgotten: one that waits for a worker is on its way
\* to it and one that is active has a thread, but for what a cancel request or a crash
\* takes away (submit(), queued_run_ids(), execute()).
NoRunIsForgotten == RunnableIsScheduled /\ OnlyCancelLosesARun

Occurrences(r, event) == Cardinality({i \in DOMAIN log[r] : log[r][i] = event})

\* A completion is announced once, however often it is repaired
\* (test_restart_repairs_completed_run_terminalization_once).
CompletionAnnouncedOnce == \A r \in Runs : Occurrences(r, "RUN_COMPLETED") <= 1

\* A run goes on from exactly what was stored for it: a repair adds what a crash has lost
\* and nothing that is there (_recover_completions(), _recover_clarifications()), and a
\* worker resumes with the answer that resumed it (clarify()).
RepairsAreExact == RestartRepairs /\ []CompletionAnnouncedOnce /\ AnswerBeforeResume

\* "persist worker failure; never lose a run" (orchestrator.py:250): while the
\* process is up, a run in an active status has a thread.
NeverLoseARun ==
    Up => \A r \in Runs : run[r].status \in Active => \E t \in Workers : Drives(t, r)

-----------------------------------------------------------------------------
(* The runtime implements the lifecycle it promises *)

PhaseOf(row) ==
    CASE row.status = "ABSENT"                       -> "none"
      [] Runnable(row)                               -> "pending"
      [] row.status \in Active                       -> "running"
      [] row.status = "WAITING_USER" /\ ~row.queued  -> "paused"
      [] row.status = "FAILED" /\ ~row.queued        -> "failed"
      [] OTHER                                       -> "done"

\* What the user has asked for: the question, its answers, its retries.
Allowance(r) == 1 + replied[r] + retried[r]

Lifecycle == INSTANCE RunLifecycle WITH
    phase <- [r \in Runs |-> PhaseOf(run[r])],
    allowance <- [r \in Runs |-> Allowance(r)],
    executed <- asked

\* Every step of the runtime is a step of the lifecycle or invisible to it: no
\* path around the workers, no second Ask without a new reply or retry.
ImplementsLifecycle == Lifecycle!Spec

-----------------------------------------------------------------------------
(* Liveness, with pool threads and API calls that keep going *)

FairSpec ==
    /\ Spec
    /\ \A t \in Workers : WF_vars(WorkerStep(t))
    /\ WF_vars(BootStep)
    /\ WF_vars(CallStep)

AtRest(r) == run[r].status \in Terminal /\ ~run[r].queued

\* Every run a client created comes to rest, unless it is cancelled or the
\* process dies; then its outcome is announced.
CreatedRunsComeToRest ==
    \A r \in Runs :
        Present(run[r]) ~> (AtRest(r) \/ run[r].cancel \/ crashes > 0 \/ ~Present(run[r]))

\* A run a worker has claimed, or that a reply or a retry has queued, comes to
\* rest whatever crashes happen: a restart fails the first and resubmits the second.
ClaimedRunsComeToRest ==
    \A r \in Runs :
        (run[r].status \in Active \/ run[r].queued)
            ~> (AtRest(r) \/ run[r].cancel \/ ~Present(run[r]))

\* Nothing a user has asked for is left lying: "never lose a run" (orchestrator.py:250).
EveryRunComesToRest == CreatedRunsComeToRest /\ ClaimedRunsComeToRest

\* "cancel this run first, then delete" (conversations.py:102): a cancel request
\* ends the run it was made for.
CancelEndsTheRun ==
    \A r \in Runs : run[r].cancel ~> (run[r].status \in Settled \/ ~Present(run[r]))

-----------------------------------------------------------------------------
(* The inductive invariant, stated on one thread's record and one row at a time, so that a   *)
(* step that changes one thread and at most one row has to be argued about once             *)

\* Where that copy was seen without a cancel request.
Checked == {"context", "check_context", "discover", "check_ask", "ask", "advance",
            "settle", "fail"}

\* Where a thread works on no run in particular.
Jobless == {"idle", "interrupt", "repair_completions", "repair_clarifications", "repair",
            "resubmit"}

\* What is true of a thread record by itself.
ThreadSound(w) ==
    /\ w \in Worker
    /\ w.pc \notin Jobless => w.job \in Runs
    /\ w.pc = "publish" => w.outcome \in Outcome \cup {"cancel"}
    /\ w.pc \in {"message", "memory", "revision", "put"} => w.outcome \in Outcome
    /\ w.pc = "settle" => w.outcome \in Outcome
    /\ w.pc \in {"except", "check_failure", "fail"} => w.outcome \in Fault
    /\ w.pc = "repair" => w.mode \in {"completions", "clarifications"}
    /\ w.pc = "claim" => Runnable(w.snap)
    /\ w.pc \in Checked => ~w.snap.cancel
    /\ w.pc = "advance" => w.snap.status \in DOMAIN NextStage
    /\ w.pc \in {"check_ask", "ask", "settle"} =>
        w.snap.status \in DOMAIN NextStage \cup {"ANSWERING"}
    /\ \A item \in w.todo : item.snap.response \in Reply

\* Between the completion a worker saved and the event that announces it.
Remembering(w) ==
    /\ w.mode = "drive"
    /\ \/ w.pc \in {"memory", "revision", "put"}
       \/ w.pc = "message" /\ w.outcome = "query"

\* From the claim to the event that announces the outcome.
Occupied(w) == w.pc \in Driving \/ Remembering(w)

\* What is true of a worker's record and the row of the run it works on.
HoldsRow(w, row) ==
    /\ w.pc \in Holding /\ Present(row) =>
        /\ w.snap.revision <= row.revision
        /\ w.snap.revision = row.revision => w.snap = row
        /\ w.snap.cancel => row.cancel
    /\ w.pc \in Driving \ {"except"} => row.status \in Active
    /\ w.pc = "except" => row.status \in Active \cup {"COMPLETED", "ABSENT"}
    /\ Remembering(w) => row.status \in {"COMPLETED", "ABSENT"}

\* What is true of a row by itself.
RowSound(row) ==
    /\ row \in Row
    /\ row.cancel => row.status \notin {"COMPLETED", "WAITING_USER", "BLOCKED"}
    /\ row.status = "WAITING_USER" => row.response = "question"
    /\ row.status = "COMPLETED" => row.response \in {"query", "listing"}

\* The runs that were inserted, whether or not the conversation still exists.
BornRuns ==
    {r \in Runs :
        /\ Present(run[r]) \/ conversation = "deleted"
        /\ \A call \in calls : call.run = r => call.op # "insert"}

\* Only runs that were inserted are queued, worked on or called upon; one about
\* to be inserted has no row.
OnlyBornRuns ==
    /\ \A t \in Threads :
        /\ worker[t].job \in BornRuns \cup {NoRun}
        /\ \A item \in worker[t].todo : item.job \in BornRuns
    /\ \A i \in DOMAIN queue : queue[i] \in BornRuns
    /\ \A call \in calls :
        IF call.op = "insert" THEN ~Present(run[call.run]) ELSE call.run \in BornRuns

\* While the constructor runs there are no workers at work and no calls.
QuietRestart ==
    ~Up => /\ \A t \in Workers : worker[t].pc = "idle"
           /\ queue = <<>> /\ calls = {}

ThreadsSound == \A t \in Threads : ThreadSound(worker[t])
WorkersHold == \A t \in Workers : HoldsRow(worker[t], run[Job(t)])
RowsSound == \A r \in Runs : RowSound(run[r])

\* One driver per run, counting what it still does after the completion.
OneWorker ==
    \A t, u \in Workers :
        Occupied(worker[t]) /\ Occupied(worker[u]) /\ Job(t) = Job(u) => t = u

\* The inductive invariant (orchestrator.py 91-562 with the revision
\* compare-and-swap of repository.py 119-147): types, what a thread may hold at
\* each place, one driver per run, and which runs the process may know of.
Inductive ==
    /\ TypeOK
    /\ RowsSound
    /\ ThreadsSound
    /\ WorkersHold
    /\ OneWorker
    /\ OnlyBornRuns
    /\ QuietRestart

-----------------------------------------------------------------------------
(* What stays true beside it: who speaks, who is on the way to a worker, what is paid for   *)

\* On the way to the answer, the memory or the event of a completion.
Answering(w) ==
    \/ w.pc \in {"memory", "revision", "put"}
    \/ w.pc = "message" /\ w.outcome # "question"
    \/ w.pc = "publish" /\ w.outcome \in {"query", "listing"}

\* Whoever is about to speak of a completion, now or later in its list of repairs, has a
\* completed run.
Earns(w, rows) ==
    /\ Answering(w) => rows[w.job].status = "COMPLETED"
    /\ \A item \in w.todo :
        item.snap.response # "question" => rows[item.job].status = "COMPLETED"

AnswersAreEarned == conversation = "active" => \A t \in Threads : Earns(worker[t], run)

\* Where a drive can be that has not read the conversation.
Early == {"started", "begin", "cancel", "except", "check_failure", "fail"}

\* In a deleted conversation no drive gets beyond the reading of it, so no run completes.
NobodyAnswersTheDeleted ==
    conversation = "deleted" =>
        /\ \A r \in Runs : run[r].status \notin {"COMPLETED", "WAITING_USER"}
        /\ \A t \in Workers : worker[t].pc \in Driving => worker[t].pc \in Early
        /\ ~Up => /\ worker[Boot].pc \notin {"message", "memory", "revision", "put"}
                  /\ worker[Boot].todo = {}

\* A driver's next save succeeds unless a cancel request came in between, and what it
\* raises before its handler has the handler to go to.
Attends(w, row) ==
    /\ w.pc \in Driving \ {"except"} /\ ~row.cancel => w.snap.revision = row.revision
    /\ w.pc \in (Driving \cup {"claim"}) \ {"cancel", "check_failure", "fail"} =>
        w.mode = "drive"

DriversAttend == \A t \in Workers : Attends(worker[t], run[Job(t)])

\* The constructor's places; the list of a repair says which.
Restarting(b) ==
    /\ b.pc \in {"interrupt", "repair_completions", "repair_clarifications", "repair",
                 "message", "memory", "revision", "put", "publish", "resubmit"}
    /\ b.pc \in {"repair", "message", "memory", "revision", "put"} =>
        b.mode \in {"completions", "clarifications"}
    /\ b.pc = "publish" => b.mode \in {"completions", "clarifications", "interrupted"}

\* recover_interrupted() is still at work.
Interrupting(b) == b.pc = "interrupt" \/ (b.pc = "publish" /\ b.mode = "interrupted")

\* The constructor gets through: it is alone, so its write of the memory succeeds, and
\* after recover_interrupted() no run is active.
RestartGetsThrough ==
    ~Up => /\ crashes > 0 /\ Restarting(worker[Boot])
           /\ At(Boot, "put") => worker[Boot].expected = memory.revision
           /\ Interrupting(worker[Boot]) \/ \A r \in Runs : run[r].status \notin Active

\* A failed run that is queued may be claimed.
RetriesAllowed ==
    \A r \in Runs : run[r].status = "FAILED" /\ run[r].queued => run[r].retryable

\* On its way to a worker that will claim it.
Awaited(r) ==
    \/ \E i \in DOMAIN queue : queue[i] = r
    \/ \E t \in Workers : Job(t) = r /\ At(t, "claim") /\ Snap(t) = run[r]
    \/ \E call \in calls : call.run = r /\ call.op # "event"

\* A run that waits for a worker: a new one only while the process has not died and
\* nobody has asked to cancel it.
Awaiting(row) == Runnable(row) /\ (row.status = "CREATED" => crashes = 0 /\ ~row.cancel)

RunsAwaited == Up => \A r \in Runs : Awaiting(run[r]) => Awaited(r)

\* The inductive invariant of what is announced and of who is on his way: nobody speaks
\* for a run that is not completed, no run is forgotten.
Attended ==
    /\ OnlyCompletedSpeaks
    /\ AnswersAreEarned
    /\ NobodyAnswersTheDeleted
    /\ RestartGetsThrough
    /\ DriversAttend
    /\ OnlyCancelLosesARun
    /\ RetriesAllowed
    /\ RunsAwaited

\* Where a drive has not started its Ask yet.
BeforeAsk == {"started", "begin", "context", "check_context", "discover", "check_ask"}

\* Every request of the user pays for one Ask: a run that waits for a worker, or whose
\* drive has not asked yet, has one left.
AsksArePaid ==
    \A r \in Runs :
        /\ asked[r] <= Allowance(r)
        /\ Runnable(run[r]) => asked[r] < Allowance(r)
        /\ r \notin BornRuns => asked[r] = 0
        /\ \A t \in Workers : worker[t].pc \in BeforeAsk /\ Job(t) = r => asked[r] < Allowance(r)

\* The calls that will submit a run, and its places in the pool's queue.
Submitters(r) == {call \in calls : call.run = r /\ call.op # "event"}
Submissions(r) == {i \in DOMAIN queue : queue[i] = r}

\* A run is on its way to the pool at most once, and as long as it is, it has not been
\* claimed and nobody may claim it.
OneSubmission(r) ==
    /\ \A a, b \in Submitters(r) : a = b
    /\ \A i, j \in Submissions(r) : i = j
    /\ Submitters(r) = {} \/ Submissions(r) = {}
    /\ Submitters(r) # {} \/ Submissions(r) # {} =>
        /\ run[r].status \in {"ABSENT", "CREATED", "CANCELLED"} \/ Runnable(run[r])
        /\ \A t \in Workers : At(t, "claim") /\ Job(t) = r => Snap(t) # run[r]

\* The call that stores an answer.
Storing(r) == [op |-> "reply", run |-> r]

\* Every answer is stored but the one whose call has still to store it.
AnswersStored(r) ==
    IF Storing(r) \in calls
    THEN messages[r].replies + 1 = replied[r]
    ELSE messages[r].replies = replied[r]

\* Unless the process has died: clarify() stores the answer before it submits the run.
SubmittedAnswered ==
    crashes = 0 /\ conversation = "active" => \A r \in Runs : OneSubmission(r) /\ AnswersStored(r)

\* Past the posting of a completion's answer.
HasAnswered(w) ==
    \/ w.pc \in {"memory", "revision", "put"}
    \/ w.pc = "publish" /\ w.outcome \in {"query", "listing"}

\* The answer is stored before the completion is announced.
AnnouncedAreAnswered ==
    conversation = "active" =>
        /\ \A r \in Runs : Published(r, "RUN_COMPLETED") => messages[r].answer
        /\ \A t \in Threads : HasAnswered(worker[t]) => messages[Job(t)].answer

\* Between the posting and the event of one repair of the constructor.
Telling == {"message", "memory", "revision", "put", "publish"}

\* The repair of completions knows of r: in its list, or in its hands.
Repairs(b, r) ==
    /\ b.mode = "completions"
    /\ \/ b.pc \in Telling /\ b.job = r
       \/ b.pc \in Telling \cup {"repair"} /\ \E item \in b.todo : item.job = r

\* What is in the list of completions is announced as a completion.
RepairsComplete(b) ==
    b.mode = "completions" =>
        /\ \A item \in b.todo : item.snap.response \in {"query", "listing"}
        /\ b.pc \in Telling => b.outcome \in {"query", "listing"}

\* A completion that was not announced is one the constructor has still to list, or one that
\* it knows of.
RepairsKnown ==
    ~Up =>
        /\ RepairsComplete(worker[Boot])
        /\ \/ Interrupting(worker[Boot]) \/ At(Boot, "repair_completions")
           \/ \A r \in IncompleteCompletions : Repairs(worker[Boot], r)

\* The inductive invariant of the repair after a restart.
Repaired == AnnouncedAreAnswered /\ RepairsKnown

=============================================================================
