----------------------------- MODULE RunProofs -----------------------------
(***************************************************************************)
(* Inductive is an inductive invariant of RunRuntime, hence its types, the *)
(* soundness of the workers' copies, one driver per run and the strength   *)
(* of a cancel request hold for every number of runs and workers.  Beside  *)
(* it, Attended is one: only completed runs are spoken for, and no run is  *)
(* forgotten; and AsksArePaid, with which every step is a step of          *)
(* RunLifecycle or invisible to it.                                        *)
(*                                                                         *)
(* SubmittedAnswered is one more: a run is on its way to the pool at most  *)
(* once, and only with its answers stored, so none is driven without them. *)
(* Repaired is the last: an answer is stored before it is announced, and a *)
(* restarted process knows of every completion it has still to announce,   *)
(* so none is left when its constructor returns.                           *)
(*                                                                         *)
(* A page that watches a run has its events from the first one on, none    *)
(* missing and none twice, and stops only when the run does: Following is  *)
(* an inductive invariant of RunStream, for every number of breaks,        *)
(* crashes and pages opened anew.  It rests on two facts of the runtime,   *)
(* that the events of a run only grow and that a run is inserted once.     *)
(***************************************************************************)
EXTENDS RunStream, FiniteSetTheorems, SequenceTheorems, TLAPS

USE DEF Present

-----------------------------------------------------------------------------
(* Constants and helpers *)

\* The statuses of the table are statuses, and none but the five between the claim and
\* the outcome is active (RunStatus, orchestrator.py _ORDER and _TERMINAL).
LEMMA RunStatusFacts ==
    /\ Active \subseteq RunStatus
    /\ "ABSENT" \notin RunStatus /\ "ABSENT" \notin Active
    /\ {"CREATED", "COMPLETED", "WAITING_USER", "BLOCKED", "FAILED", "CANCELLED"} \subseteq RunStatus
    /\ {"CREATED", "COMPLETED", "WAITING_USER", "BLOCKED", "FAILED", "CANCELLED"} \cap Active = {}
BY DEF Active, RunStatus, Terminal, Settled

\* A move the table accepts leads to a status of a run.
LEMMA AllowedStatus ==
    ASSUME NEW row \in Row, Present(row), NEW target, CanTransition(row, target)
    PROVE  target \in RunStatus
BY DEF CanTransition, Allowed, Row, RunStatus, Active, Terminal, Settled

\* save() moves the revision by one and writes the rest as it is.
LEMMA SavedFields ==
    ASSUME NEW row \in Row
    PROVE  /\ Saved(row) \in Row
           /\ Saved(row).status = row.status /\ Saved(row).cancel = row.cancel
           /\ Saved(row).response = row.response
           /\ Saved(row).revision = row.revision + 1
<1>1. Saved(row) \in Row
  BY DEF Saved, Row
<1>2. Saved(row).status = row.status /\ Saved(row).revision = row.revision + 1
  BY DEF Saved, Row
<1>3. Saved(row).cancel = row.cancel /\ Saved(row).response = row.response
  BY DEF Saved, Row
<1>. QED  BY <1>1, <1>2, <1>3

\* A row that is moved and saved is a row, one revision on.
LEMMA SavedRow ==
    ASSUME NEW row \in Row, NEW target \in RunStatus
    PROVE  /\ Saved(Transition(row, target)) \in Row
           /\ Saved(Transition(row, target)).status = target
           /\ Saved(Transition(row, target)).cancel = row.cancel
           /\ Saved(Transition(row, target)).response = row.response
           /\ Saved(Transition(row, target)).revision = row.revision + 1
<1>. DEFINE moved == Transition(row, target)
<1>1. moved \in Row
  BY DEF Transition, Row
<1>2. moved.status = target /\ moved.revision = row.revision
  BY DEF Transition, Row
<1>3. moved.cancel = row.cancel /\ moved.response = row.response
  BY DEF Transition, Row
<1>. QED  BY <1>1, <1>2, <1>3, SavedFields

\* The row create() inserts and the row that is not there are rows.
LEMMA InitialRows == NoRow \in Row /\ NewRow \in Row /\ ~Present(NoRow)
BY DEF NoRow, NewRow, Row, RunStatus, Response

\* A thread that has returned from execute() is sound.
LEMMA IdleSound == ThreadSound(Idle)
BY InitialRows DEF Idle, ThreadSound, Worker, PC, Mode, Jobless, Checked

\* The parts of the invariant that speak of rows and thread records.
Core ==
    /\ run \in [Runs -> Row] /\ worker \in [Threads -> Worker]
    /\ RowsSound /\ ThreadsSound /\ WorkersHold /\ OneWorker

\* The types of everything else.
Ledgers ==
    /\ log \in [Runs -> Seq(EventType)]
    /\ messages \in [Runs -> Thread]
    /\ memory \in [last: Runs \cup {NoRun}, revision: Nat, stamp: Nat]
    /\ conversation \in {"active", "deleted"}
    /\ queue \in Seq(Runs)
    /\ calls \subseteq Call
    /\ asked \in [Runs -> Nat] /\ replied \in [Runs -> Nat] /\ retried \in [Runs -> Nat]
    /\ clock \in Nat /\ cancels \in Nat /\ crashes \in Nat

\* The invariant falls into what speaks of rows and threads, types, and the two
\* statements about what the process knows of.
LEMMA Parts == Inductive <=> Core /\ Ledgers /\ OnlyBornRuns /\ QuietRestart
BY DEF Inductive, Core, Ledgers, TypeOK

-----------------------------------------------------------------------------
(* Steps of one thread *)

\* A step of a thread that leaves every row alone has only its own record to
\* answer for.
LEMMA LocalStep ==
    ASSUME Inductive, NEW t \in Threads, NEW w,
           Becomes(t, w), run' = run, ThreadSound(w),
           t \in Workers =>
               /\ HoldsRow(w, run[w.job])
               /\ Occupied(w) => Occupied(worker[t]) /\ w.job = worker[t].job
    PROVE  Core'
<1>1. worker' = [worker EXCEPT ![t] = w] /\ worker \in [Threads -> Worker]
    BY DEF Becomes, Inductive, TypeOK
<1>2. worker'[t] = w /\ \A u \in Threads : u # t => worker'[u] = worker[u]
    BY <1>1
<1>3. run' \in [Runs -> Row] /\ RowsSound'
    BY DEF Inductive, RowsSound, TypeOK
<1>4. ThreadsSound'
    BY <1>2 DEF Inductive, ThreadsSound
<1>5. WorkersHold'
    BY <1>2 DEF Inductive, WorkersHold, Job, Threads
<1>6. OneWorker'
    BY <1>2 DEF Inductive, OneWorker, Job, Threads
<1>7. worker' \in [Threads -> Worker]
    BY <1>1 DEF ThreadSound
<1>. QED  BY <1>3, <1>4, <1>5, <1>6, <1>7 DEF Core

\* What a worker that may save knows: its copy is the row, its run is born.
LEMMA FreshCopy ==
    ASSUME Inductive, NEW t \in Workers, worker[t].pc \in Holding, Fresh(t)
    PROVE  /\ Job(t) \in Runs /\ Present(run[Job(t)])
           /\ Snap(t) = run[Job(t)]
           /\ Snap(t) \in Row /\ RowSound(Snap(t))
<1>1. t \in Threads /\ ThreadSound(worker[t]) /\ HoldsRow(worker[t], run[Job(t)])
  BY DEF Inductive, ThreadsSound, WorkersHold, Threads
<1>2. Job(t) \in Runs
  BY <1>1 DEF ThreadSound, Holding, Driving, Jobless, Job
<1>3. Present(run[Job(t)]) /\ run[Job(t)].revision = Snap(t).revision
  BY DEF Fresh
<1>4. Snap(t) = run[Job(t)]
  BY <1>1, <1>3 DEF HoldsRow, Snap
<1>5. RowSound(run[Job(t)])
  BY <1>2 DEF Inductive, RowsSound
<1>. QED  BY <1>2, <1>3, <1>4, <1>5 DEF RowSound

\* A worker whose copy is current is the only one at work on its run.
LEMMA SoleWorker ==
    ASSUME Inductive, NEW t \in Workers, worker[t].pc \in Holding, Fresh(t),
           NEW u \in Workers, u # t, Job(u) = Job(t)
    PROVE  ~Occupied(worker[u])
<1>1. Job(t) \in Runs /\ Present(run[Job(t)]) /\ Snap(t) = run[Job(t)]
  BY FreshCopy
<1>2. HoldsRow(worker[u], run[Job(t)]) /\ HoldsRow(worker[t], run[Job(t)])
  BY DEF Inductive, WorkersHold
<1>3. CASE worker[t].pc = "claim"
  <2>1. Runnable(run[Job(t)])
    BY <1>1, <1>3 DEF Inductive, ThreadsSound, ThreadSound, Threads, Snap
  <2>2. run[Job(t)].status \notin Active \cup {"COMPLETED", "ABSENT"}
    BY <2>1 DEF Runnable, Active
  <2>. QED  BY <1>2, <2>2 DEF HoldsRow, Occupied
<1>4. CASE worker[t].pc \in Driving \ {"except"}
  <2>. QED  BY <1>4 DEF Inductive, OneWorker, Occupied
<1>. QED  BY <1>3, <1>4 DEF Holding

\* A copy that is not being driven stays behind a row that is saved again.
LEMMA NewerRow ==
    ASSUME NEW w \in Worker, NEW old \in Row, NEW row \in Row,
           HoldsRow(w, old), Present(old),
           row.revision = old.revision + 1, old.cancel => row.cancel,
           ~Remembering(w), w.pc \in Driving => row.status \in Active
    PROVE  HoldsRow(w, row)
<1>1. w.snap.revision \in Nat /\ old.revision \in Nat
  BY DEF Worker, Row
<1>2. ASSUME w.pc \in Holding
      PROVE  /\ w.snap.revision <= old.revision
             /\ w.snap.cancel => old.cancel
  BY <1>2 DEF HoldsRow
<1>3. ASSUME w.pc \in Holding
      PROVE  w.snap.revision <= row.revision /\ w.snap.revision # row.revision
  BY <1>1, <1>2, <1>3
<1>4. ASSUME w.pc \in Holding
      PROVE  w.snap.cancel => row.cancel
  BY <1>2, <1>4, Zenon
<1>5. w.pc = "except" => w.pc \in Driving
  BY DEF Driving
<1>. QED  BY <1>3, <1>4, <1>5, Zenon DEF HoldsRow

\* A worker that saves its row answers for that row and for its own record.
LEMMA WriteStep ==
    ASSUME Inductive, NEW t \in Workers, worker[t].pc \in Holding, Fresh(t),
           NEW row, NEW w,
           run' = [run EXCEPT ![Job(t)] = row], Becomes(t, w),
           RowSound(row), row.revision = run[Job(t)].revision + 1,
           run[Job(t)].cancel => row.cancel,
           ThreadSound(w), HoldsRow(w, row), w.job = Job(t)
    PROVE  Core'
<1>1. worker' = [worker EXCEPT ![t] = w] /\ worker \in [Threads -> Worker] /\ t \in Threads
  BY DEF Becomes, Inductive, TypeOK, Threads
<1>2. worker'[t] = w /\ \A u \in Threads : u # t => worker'[u] = worker[u]
  BY <1>1
<1>3. run \in [Runs -> Row] /\ Job(t) \in Runs /\ Snap(t) = run[Job(t)]
  BY FreshCopy DEF Inductive, TypeOK
<1>4. run'[Job(t)] = row /\ \A r : r # Job(t) => run'[r] = run[r]
  BY <1>3
<1>5. RowsSound'
  BY <1>3, <1>4 DEF Inductive, RowsSound
<1>6. ThreadsSound'
  BY <1>2 DEF Inductive, ThreadsSound
<1>7. WorkersHold'
  <2> SUFFICES ASSUME NEW u \in Workers
               PROVE  HoldsRow(worker'[u], run'[worker'[u].job])
    BY DEF WorkersHold, Job
  <2>1. CASE u = t
    BY <1>2, <1>4, <2>1
  <2>2. CASE u # t /\ Job(u) # Job(t)
    BY <1>2, <1>4, <2>2 DEF Inductive, WorkersHold, Job, Threads
  <2>3. CASE u # t /\ Job(u) = Job(t)
    <3>1. worker'[u] = worker[u] /\ worker[u] \in Worker
      BY <1>1, <1>2, <2>3 DEF Threads
    <3>2. worker[u].pc \notin Driving /\ ~Remembering(worker[u])
      BY <2>3, SoleWorker DEF Occupied
    <3>3. HoldsRow(worker[u], run[Job(t)])
      BY <2>3 DEF Inductive, WorkersHold
    <3>4. Present(run[Job(t)]) /\ run[Job(t)] \in Row /\ row \in Row
      BY <1>3, FreshCopy DEF RowSound
    <3>5. HoldsRow(worker[u], row)
      BY <3>1, <3>2, <3>3, <3>4, NewerRow
    <3>. QED  BY <1>4, <2>3, <3>1, <3>5 DEF Job
  <2>. QED  BY <2>1, <2>2, <2>3
<1>8. OneWorker'
  <2> SUFFICES ASSUME NEW u \in Workers, NEW v \in Workers,
                      Occupied(worker'[u]), Occupied(worker'[v]),
                      worker'[u].job = worker'[v].job, u # v
               PROVE  FALSE
    BY DEF OneWorker, Job
  <2>1. CASE u = t
    BY <1>2, <2>1, SoleWorker DEF Job, Threads
  <2>2. CASE v = t
    BY <1>2, <2>2, SoleWorker DEF Job, Threads
  <2>3. CASE u # t /\ v # t
    BY <1>2, <2>3 DEF Inductive, OneWorker, Job, Threads
  <2>. QED  BY <2>1, <2>2, <2>3
<1>9. run' \in [Runs -> Row] /\ worker' \in [Threads -> Worker]
  BY <1>1, <1>3 DEF RowSound, ThreadSound
<1>. QED  BY <1>5, <1>6, <1>7, <1>8, <1>9 DEF Core

\* No run is forgotten while rows stay and no insertion starts.
LEMMA BornKept ==
    ASSUME \A r \in Runs : Present(run[r]) => Present(run'[r]) \/ conversation' = "deleted",
           conversation = "deleted" => conversation' = "deleted",
           \A call \in calls' : call.op = "insert" => call \in calls
    PROVE  BornRuns \subseteq BornRuns'
BY DEF BornRuns

\* A step of a thread that takes no new run but one of the queue or of its own
\* list keeps the process's knowledge of runs, and a restart quiet.
LEMMA ThreadBooks ==
    ASSUME Inductive, NEW t \in Threads, NEW w, Becomes(t, w),
           \A r \in Runs : Present(run[r]) <=> Present(run'[r]),
           UNCHANGED <<conversation, calls>>,
           w.job \in BornRuns \cup {NoRun},
           \A item \in w.todo : item.job \in BornRuns,
           \/ queue' = queue
           \/ t \in Workers /\ queue # <<>> /\ queue' = Tail(queue),
           t \in Workers => worker[t].pc # "idle" \/ queue # <<>>,
           t = Boot => ~Up
    PROVE  OnlyBornRuns' /\ QuietRestart'
<1>1. worker \in [Threads -> Worker] /\ queue \in Seq(Runs) /\ calls \subseteq Call
  BY DEF Inductive, TypeOK
<1>2. worker'[t] = w /\ \A u \in Threads : u # t => worker'[u] = worker[u]
  BY <1>1 DEF Becomes
<1>3. BornRuns \subseteq BornRuns'
  BY BornKept
<1>4. \A u \in Threads : /\ worker'[u].job \in BornRuns \cup {NoRun}
                         /\ \A item \in worker'[u].todo : item.job \in BornRuns
  BY <1>2 DEF Inductive, OnlyBornRuns
<1>5. \A i \in DOMAIN queue' : queue'[i] \in BornRuns
  <2>1. \A i \in DOMAIN queue : queue[i] \in BornRuns
    BY DEF Inductive, OnlyBornRuns
  <2>2. CASE queue' = queue
    BY <2>1, <2>2
  <2>3. CASE queue # <<>> /\ queue' = Tail(queue)
    <3>1. \A i \in DOMAIN queue' : i + 1 \in DOMAIN queue /\ queue'[i] = queue[i + 1]
      BY <1>1, <2>3
    <3>. QED  BY <2>1, <3>1
  <2>. QED  BY <2>2, <2>3
<1>6. \A call \in calls' :
        IF call.op = "insert" THEN ~Present(run'[call.run]) ELSE call.run \in BornRuns
  BY <1>1 DEF Inductive, OnlyBornRuns, Call
<1>7. OnlyBornRuns'
  BY <1>3, <1>4, <1>5, <1>6 DEF OnlyBornRuns
<1>8. QuietRestart'
  <2>1. CASE t \in Workers
    <3>1. t # Boot /\ Boot \in Threads
      BY <2>1, ThreadsAssumption DEF Threads
    <3>2. Up
      BY <2>1 DEF Inductive, QuietRestart
    <3>. QED  BY <1>2, <3>1, <3>2 DEF QuietRestart, Up, At
  <2>2. CASE t = Boot
    BY <1>2, <2>2, ThreadsAssumption DEF Inductive, QuietRestart, Threads
  <2>. QED  BY <2>1, <2>2 DEF Threads
<1>. QED  BY <1>7, <1>8

\* What the invariant says of one thread.
LEMMA OwnRuns ==
    ASSUME Inductive, NEW t \in Threads
    PROVE  /\ worker[t].job \in BornRuns \cup {NoRun}
           /\ \A item \in worker[t].todo : item.job \in BornRuns
           /\ worker[t] \in Worker /\ ThreadSound(worker[t])
           /\ t \in Workers => HoldsRow(worker[t], run[worker[t].job])
           /\ worker[t].pc \notin Jobless => worker[t].job \in Runs
BY DEF Inductive, OnlyBornRuns, TypeOK, ThreadsSound, WorkersHold, Job, ThreadSound

\* LocalStep with the bookkeeping: a thread goes on with what it has.
LEMMA ThreadStep ==
    ASSUME Inductive, NEW t \in Threads, NEW w,
           Becomes(t, w), UNCHANGED <<run, conversation, calls, queue>>, Ledgers',
           ThreadSound(w),
           t \in Workers =>
               /\ HoldsRow(w, run[w.job])
               /\ Occupied(w) => Occupied(worker[t]) /\ w.job = worker[t].job
               /\ worker[t].pc # "idle",
           t = Boot => ~Up,
           w.job \in {worker[t].job, NoRun}, w.todo \subseteq worker[t].todo
    PROVE  Inductive'
<1>1. Core'
  BY LocalStep
<1>2. OnlyBornRuns' /\ QuietRestart'
  BY ThreadBooks, OwnRuns
<1>. QED  BY <1>1, <1>2, Parts, PTL

\* The same for a save.
LEMMA SaveStep ==
    ASSUME Inductive, NEW t \in Workers, worker[t].pc \in Holding, Fresh(t),
           NEW row, NEW w,
           run' = [run EXCEPT ![Job(t)] = row], Becomes(t, w),
           UNCHANGED <<conversation, calls, queue>>, Ledgers',
           RowSound(row), Present(row), row.revision = run[Job(t)].revision + 1,
           run[Job(t)].cancel => row.cancel,
           ThreadSound(w), HoldsRow(w, row), w.job = Job(t), w.todo = worker[t].todo
    PROVE  Inductive'
<1>1. Core'
  BY WriteStep
<1>2. t \in Threads /\ run \in [Runs -> Row] /\ Present(run[Job(t)]) /\ Job(t) \in Runs
  BY FreshCopy DEF Threads, Inductive, TypeOK
<1>3. \A r \in Runs : Present(run[r]) <=> Present(run'[r])
  BY <1>2
<1>4. worker[t].pc # "idle" /\ (t = Boot => ~Up)
  BY ThreadsAssumption DEF Holding, Driving
<1>5. OnlyBornRuns' /\ QuietRestart'
  BY <1>2, <1>3, <1>4, ThreadBooks, OwnRuns DEF Job
<1>. QED  BY <1>1, <1>5, Parts, PTL

\* An exception leaves a thread at the handler of execute(), or idle.
LEMMA RaiseStep ==
    ASSUME Inductive, NEW t \in Threads, NEW fault \in Fault, Raise(t, fault),
           UNCHANGED <<run, conversation, calls, queue>>, Ledgers',
           worker[t].pc \notin Jobless, t = Boot => ~Up,
           t \in Workers /\ worker[t].mode = "drive" =>
               worker[t].pc \in Driving \ {"except"} \/ Remembering(worker[t])
    PROVE  Inductive'
<1>. DEFINE w == IF worker[t].mode = "drive"
                 THEN [worker[t] EXCEPT !.pc = "except", !.outcome = fault]
                 ELSE Idle
<1>1. worker[t] \in Worker /\ ThreadSound(worker[t])
  BY OwnRuns
<1>2. Becomes(t, w)
  BY DEF Raise
<1>3. ThreadSound(w)
  <2>1. CASE worker[t].mode = "drive"
    <3>1. w = [worker[t] EXCEPT !.pc = "except", !.outcome = fault]
      BY <2>1
    <3>. QED  BY ZenonT(60), <1>1, <2>1, <3>1
                 DEF ThreadSound, Worker, PC, Mode, Jobless, Checked, Outcome,
                                      Remembering, Driving
  <2>2. CASE worker[t].mode # "drive"
    BY <2>2, IdleSound
  <2>. QED  BY <2>1, <2>2
<1>4. ASSUME t \in Workers
      PROVE  /\ HoldsRow(w, run[w.job])
             /\ Occupied(w) => Occupied(worker[t]) /\ w.job = worker[t].job
  <2>1. CASE worker[t].mode = "drive"
    <3>1. /\ w.pc = "except" /\ w.job = worker[t].job /\ w.snap = worker[t].snap
          /\ w.mode = "drive"
      BY <1>1, <2>1 DEF Worker
    <3>2. HoldsRow(worker[t], run[worker[t].job])
      BY <1>4, OwnRuns
    <3>. QED  BY <1>4, <2>1, <3>1, <3>2 DEF HoldsRow, Holding, Driving, Remembering, Occupied
  <2>2. CASE worker[t].mode # "drive"
    BY <2>2 DEF Idle, HoldsRow, Holding, Driving, Remembering, Occupied
  <2>. QED  BY <2>1, <2>2
<1>5. w.job \in {worker[t].job, NoRun} /\ w.todo \subseteq worker[t].todo
  BY <1>1 DEF Worker, Idle
<1>6. worker[t].pc # "idle"
  BY DEF Jobless
<1>. HIDE DEF w
<1>. QED  BY <1>2, <1>3, <1>4, <1>5, <1>6, ThreadStep

\* A step that leaves everything else alone keeps its types.
LEMMA SameLedgers ==
    ASSUME Inductive,
           UNCHANGED <<log, messages, memory, conversation, queue, calls, asked, replied,
                       retried, clock, cancels, crashes>>
    PROVE  Ledgers'
BY DEF Inductive, TypeOK, Ledgers

\* A step that only appends to the event table keeps the types of everything else.
LEMMA LogLedgers ==
    ASSUME Inductive, log' \in [Runs -> Seq(EventType)],
           UNCHANGED <<messages, memory, conversation, clock, queue, calls, history>>
    PROVE  Ledgers'
BY DEF Inductive, TypeOK, Ledgers, history

\* append_event keeps the event table an event table.
LEMMA AppendTyped ==
    ASSUME Inductive, NEW r, NEW event \in EventType, AppendEvent(r, event)
    PROVE  log' \in [Runs -> Seq(EventType)]
<1>1. log \in [Runs -> Seq(EventType)]
  BY DEF Inductive, TypeOK
<1>2. \A q \in Seq(EventType) : Append(q, event) \in Seq(EventType)
  OBVIOUS
<1>. QED  BY <1>1, <1>2 DEF AppendEvent

\* A thread that has returned answers for no row.
LEMMA IdleHolds ==
    ASSUME NEW row
    PROVE  HoldsRow(Idle, row) /\ ~Occupied(Idle) /\ Idle.job = NoRun /\ Idle.todo = {}
BY DEF HoldsRow, Occupied, Remembering, Idle, Holding, Driving

\* A driving worker's run has a row, and its copy is without a cancel request
\* when the row is.
LEMMA DrivenRow ==
    ASSUME Inductive, NEW t \in Workers, worker[t].pc \in Driving \ {"except"}
    PROVE  /\ t \in Threads /\ Job(t) \in Runs /\ run[Job(t)] \in Row /\ Present(run[Job(t)])
           /\ run[Job(t)].status \in Active /\ Occupied(worker[t])
           /\ HoldsRow(worker[t], run[Job(t)])
           /\ ~run[Job(t)].cancel => ~Snap(t).cancel
<1>1. t \in Threads /\ HoldsRow(worker[t], run[Job(t)])
  BY OwnRuns DEF Threads, Job
<1>2. Job(t) \in Runs
  BY <1>1, OwnRuns DEF Jobless, Driving, Job
<1>3. run[Job(t)] \in Row /\ run[Job(t)].status \in Active
  BY <1>1, <1>2 DEF HoldsRow, Inductive, TypeOK
<1>4. Present(run[Job(t)])
  BY <1>3 DEF Active
<1>5. Snap(t).cancel => run[Job(t)].cancel
  BY <1>1, <1>4 DEF HoldsRow, Snap, Holding
<1>6. Occupied(worker[t])
  BY DEF Occupied
<1>. QED  BY <1>1, <1>2, <1>3, <1>4, <1>5, <1>6, Zenon

\* _cancel_if_requested: on to the cancellation, idle, or on as `next'.
LEMMA CheckStep ==
    ASSUME Inductive, NEW t \in Workers, worker[t].pc \in Driving \ {"except"},
           NEW next, CheckCancel(t, next),
           UNCHANGED <<run, conversation, calls, queue>>, Ledgers',
           ~run[Job(t)].cancel =>
               /\ ThreadSound(next) /\ HoldsRow(next, run[Job(t)])
               /\ next.job = Job(t) /\ next.todo = worker[t].todo
    PROVE  Inductive'
<1>. DEFINE latest == run[Job(t)]
            cancelling == [worker[t] EXCEPT !.pc = "cancel", !.snap = latest]
<1>1. /\ t \in Threads /\ Job(t) \in Runs /\ latest \in Row /\ Present(latest)
      /\ latest.status \in Active /\ Occupied(worker[t])
  BY DrivenRow
<1>2. worker[t].pc # "idle" /\ (t = Boot => ~Up)
  BY ThreadsAssumption DEF Driving
<1>3. CASE ~latest.cancel
  <2>1. Becomes(t, next)
    BY <1>3 DEF CheckCancel
  <2>. QED  BY <1>1, <1>2, <1>3, <2>1, ThreadStep DEF Job
<1>4. CASE latest.cancel /\ latest.status \in Terminal
  <2>1. Becomes(t, Idle)
    BY <1>4 DEF CheckCancel
  <2>. QED  BY <1>1, <1>2, <2>1, ThreadStep, IdleHolds, IdleSound
<1>5. CASE latest.cancel /\ latest.status \notin Terminal
  <2>1. Becomes(t, cancelling)
    BY <1>5 DEF CheckCancel
  <2>2. worker[t] \in Worker /\ ThreadSound(worker[t])
    BY <1>1, OwnRuns
  <2>3. /\ cancelling.pc = "cancel" /\ cancelling.snap = latest /\ cancelling.job = Job(t)
        /\ cancelling.todo = worker[t].todo /\ cancelling.mode = worker[t].mode
        /\ cancelling \in Worker
    BY <1>1, <2>2 DEF Worker, Job, PC
  <2>. HIDE DEF cancelling
  <2>4. ThreadSound(cancelling)
    BY <1>1, <2>2, <2>3 DEF ThreadSound, Checked, Jobless
  <2>5. HoldsRow(cancelling, latest)
    BY <1>1, <2>3 DEF HoldsRow, Remembering, Row
  <2>. QED  BY <1>1, <1>2, <2>1, <2>3, <2>4, <2>5, ThreadStep DEF Job
<1>. QED  BY <1>3, <1>4, <1>5

\* A driving worker that only goes on to the next place of the drive.
LEMMA OnTo ==
    ASSUME Inductive, NEW t \in Workers, worker[t].pc \in Driving \ {"except"},
           NEW label \in Driving \ {"except", "settle", "check_failure"},
           label \in Checked => ~Snap(t).cancel,
           label = "advance" => Snap(t).status \in DOMAIN NextStage,
           label \in {"check_ask", "ask"} =>
               Snap(t).status \in DOMAIN NextStage \cup {"ANSWERING"},
           label = "fail" => worker[t].outcome \in Fault,
           NEW w, w = [worker[t] EXCEPT !.pc = label]
    PROVE  /\ ThreadSound(w) /\ HoldsRow(w, run[Job(t)])
           /\ w.job = Job(t) /\ w.todo = worker[t].todo
<1>1. /\ t \in Threads /\ worker[t] \in Worker /\ ThreadSound(worker[t])
      /\ HoldsRow(worker[t], run[Job(t)]) /\ Job(t) \in Runs
      /\ run[Job(t)].status \in Active
  BY DrivenRow, OwnRuns
<1>2. label \in PC
  BY DEF Driving, PC
<1>3. /\ w.pc = label /\ w.snap = Snap(t) /\ w.job = Job(t) /\ w.todo = worker[t].todo
      /\ w.mode = worker[t].mode /\ w.outcome = worker[t].outcome /\ w \in Worker
  BY <1>1, <1>2 DEF Worker, Job, Snap
<1>4. ThreadSound(w)
  BY <1>1, <1>3 DEF ThreadSound, Driving, Job
<1>5. HoldsRow(w, run[Job(t)])
  BY <1>1, <1>3 DEF HoldsRow, Driving, Remembering, Holding, Snap
<1>. QED  BY <1>3, <1>4, <1>5

-----------------------------------------------------------------------------
(* The actions of a drive *)

\* execute() announces the claim.
LEMMA StartedKeeps ==
    ASSUME Inductive, NEW t \in Workers, Started(t)
    PROVE  Inductive'
<1>. DEFINE w == [worker[t] EXCEPT !.pc = "begin"]
<1>1. worker[t].pc \in Driving \ {"except"} /\ worker[t].pc # "idle" /\ (t = Boot => ~Up)
  BY ThreadsAssumption DEF Started, At, Driving
<1>2. Becomes(t, w)
  BY DEF Started, Goto
<1>3. ThreadSound(w) /\ HoldsRow(w, run[Job(t)]) /\ w.job = Job(t) /\ w.todo = worker[t].todo
  BY <1>1, OnTo DEF Driving, Checked
<1>4. Ledgers'
  BY AppendTyped, LogLedgers DEF Started, EventType
<1>5. t \in Threads /\ Occupied(worker[t])
  BY <1>1, DrivenRow
<1>6. UNCHANGED <<run, conversation, calls, queue>>
  BY DEF Started
<1>. HIDE DEF w
<1>. QED  BY <1>1, <1>2, <1>3, <1>4, <1>5, <1>6, ThreadStep DEF Job

\* _drive's first cancel check and the reads of the conversation.
LEMMA BeginKeeps ==
    ASSUME Inductive, NEW t \in Workers, Begin(t)
    PROVE  Inductive'
<1>. DEFINE next == [worker[t] EXCEPT !.pc = "context"]
<1>1. worker[t].pc \in Driving \ {"except"} /\ worker[t].pc \notin Jobless /\ (t = Boot => ~Up)
  BY ThreadsAssumption DEF Begin, At, Driving, Jobless
<1>2. UNCHANGED <<run, conversation, calls, queue>> /\ Ledgers'
  BY SameLedgers DEF Begin, store, history
<1>3. CASE Raise(t, "permanent")
  BY <1>1, <1>2, <1>3, RaiseStep DEF Threads, Fault
<1>4. CASE CheckCancel(t, next)
  <2>1. ~run[Job(t)].cancel =>
            /\ ThreadSound(next) /\ HoldsRow(next, run[Job(t)])
            /\ next.job = Job(t) /\ next.todo = worker[t].todo
    BY <1>1, OnTo, DrivenRow DEF Driving
  <2>. QED  BY <1>1, <1>2, <1>4, <2>1, CheckStep
<1>. QED  BY <1>3, <1>4 DEF Begin

\* The cancel check after the context was saved.
LEMMA ContextCheckedKeeps ==
    ASSUME Inductive, NEW t \in Workers, ContextChecked(t)
    PROVE  Inductive'
<1>. DEFINE next == [worker[t] EXCEPT !.pc = "discover"]
<1>1. worker[t].pc \in Driving \ {"except"}
  BY DEF ContextChecked, At, Driving
<1>2. UNCHANGED <<run, conversation, calls, queue>> /\ Ledgers' /\ CheckCancel(t, next)
  BY SameLedgers DEF ContextChecked, store, history
<1>3. ~run[Job(t)].cancel =>
          /\ ThreadSound(next) /\ HoldsRow(next, run[Job(t)])
          /\ next.job = Job(t) /\ next.todo = worker[t].todo
  BY <1>1, OnTo, DrivenRow DEF Driving
<1>. QED  BY <1>1, <1>2, <1>3, CheckStep

\* The cancel check of the exception handler.
LEMMA FailureCheckedKeeps ==
    ASSUME Inductive, NEW t \in Workers, FailureChecked(t)
    PROVE  Inductive'
<1>. DEFINE next == [worker[t] EXCEPT !.pc = "fail"]
<1>1. worker[t].pc \in Driving \ {"except"} /\ worker[t].outcome \in Fault
  BY OwnRuns DEF FailureChecked, At, Driving, ThreadSound, Threads
<1>2. UNCHANGED <<run, conversation, calls, queue>> /\ Ledgers' /\ CheckCancel(t, next)
  BY SameLedgers DEF FailureChecked, store, history
<1>3. ~run[Job(t)].cancel =>
          /\ ThreadSound(next) /\ HoldsRow(next, run[Job(t)])
          /\ next.job = Job(t) /\ next.todo = worker[t].todo
  BY <1>1, OnTo, DrivenRow DEF Driving
<1>. QED  BY <1>1, <1>2, <1>3, CheckStep

\* The cancel check before the Ask starts.
LEMMA AskStartedKeeps ==
    ASSUME Inductive, NEW t \in Workers, AskStarted(t)
    PROVE  Inductive'
<1>. DEFINE next == [worker[t] EXCEPT !.pc = "ask"]
<1>1. /\ worker[t].pc \in Driving \ {"except"}
      /\ Snap(t).status \in DOMAIN NextStage \cup {"ANSWERING"}
  BY OwnRuns DEF AskStarted, At, Driving, ThreadSound, Threads, Snap
<1>2. UNCHANGED <<run, conversation, calls, queue>> /\ CheckCancel(t, next)
  BY DEF AskStarted, store
<1>3. Ledgers'
  <2>1. asked \in [Runs -> Nat] /\ Job(t) \in Runs
    BY <1>1, DrivenRow DEF Inductive, TypeOK
  <2>2. asked' \in [Runs -> Nat]
    <3>1. asked' = asked \/ asked' = [asked EXCEPT ![Job(t)] = @ + 1]
      BY DEF AskStarted
    <3>. QED  BY <2>1, <3>1
  <2>. QED  BY <2>2 DEF AskStarted, store, Inductive, TypeOK, Ledgers
<1>4. ~run[Job(t)].cancel =>
          /\ ThreadSound(next) /\ HoldsRow(next, run[Job(t)])
          /\ next.job = Job(t) /\ next.todo = worker[t].todo
  BY ZenonT(60), <1>1, OnTo, DrivenRow DEF Driving
<1>. QED  BY <1>1, <1>2, <1>3, <1>4, CheckStep

\* The next record of the Ask, or its outcome, and the cancel check after it.
LEMMA AskKeeps ==
    ASSUME Inductive, NEW t \in Workers, Ask(t)
    PROVE  Inductive'
<1>1. /\ worker[t].pc \in Driving \ {"except"}
      /\ Snap(t).status \in DOMAIN NextStage \cup {"ANSWERING"}
  BY OwnRuns DEF Ask, At, Driving, ThreadSound, Threads, Snap
<1>2. UNCHANGED <<run, conversation, calls, queue>> /\ Ledgers'
  BY SameLedgers DEF Ask, store, history
<1>3. CASE /\ Snap(t).status \in DOMAIN NextStage
           /\ CheckCancel(t, [worker[t] EXCEPT !.pc = "advance"])
  <2>. DEFINE next == [worker[t] EXCEPT !.pc = "advance"]
  <2>1. ~run[Job(t)].cancel =>
            /\ ThreadSound(next) /\ HoldsRow(next, run[Job(t)])
            /\ next.job = Job(t) /\ next.todo = worker[t].todo
    BY <1>1, <1>3, OnTo, DrivenRow DEF Driving
  <2>. QED  BY <1>1, <1>2, <1>3, <2>1, CheckStep
<1>4. ASSUME NEW outcome \in Outcome,
             CheckCancel(t, [worker[t] EXCEPT !.pc = "settle", !.outcome = outcome])
      PROVE  Inductive'
  <2>. DEFINE next == [worker[t] EXCEPT !.pc = "settle", !.outcome = outcome]
  <2>1. /\ t \in Threads /\ worker[t] \in Worker /\ ThreadSound(worker[t])
        /\ HoldsRow(worker[t], run[Job(t)]) /\ Job(t) \in Runs
        /\ run[Job(t)].status \in Active /\ (~run[Job(t)].cancel => ~Snap(t).cancel)
    BY <1>1, DrivenRow, OwnRuns
  <2>2. /\ next.pc = "settle" /\ next.snap = Snap(t) /\ next.job = Job(t)
        /\ next.todo = worker[t].todo /\ next.outcome = outcome /\ next \in Worker
    BY <2>1 DEF Worker, Job, Snap, PC
  <2>. HIDE DEF next
  <2>3. ~run[Job(t)].cancel => ThreadSound(next)
    BY <1>1, <2>1, <2>2 DEF ThreadSound, Job
  <2>4. HoldsRow(next, run[Job(t)])
    BY <1>1, <2>1, <2>2 DEF HoldsRow, Remembering, Holding, Snap
  <2>5. CheckCancel(t, next)
    BY <1>4 DEF next
  <2>. QED  BY <1>1, <1>2, <2>2, <2>3, <2>4, <2>5, CheckStep
<1>. QED  BY <1>3, <1>4 DEF Ask

-----------------------------------------------------------------------------
(* The saves of a drive *)

\* A worker that saves its row and goes on with the saved copy.
LEMMA WriteKeeps ==
    ASSUME Inductive, NEW t \in Workers, worker[t].pc \in Holding, Fresh(t),
           NEW row, NEW w, SaveRow(t, row), Becomes(t, w),
           UNCHANGED <<conversation, calls, queue>>, Ledgers',
           RowSound(Saved(row)), Present(row),
           Saved(row).revision = run[Job(t)].revision + 1, Saved(row).status = row.status,
           run[Job(t)].cancel => Saved(row).cancel,
           w \in Worker, w.snap = Saved(row), w.job = Job(t), w.todo = worker[t].todo,
           w.pc \notin {"claim", "advance", "except", "check_failure", "fail", "memory",
                        "revision", "put"} \cup Jobless,
           w.pc \in Driving => row.status \in Active,
           w.pc \in Checked => ~Saved(row).cancel,
           w.pc \in {"check_ask", "ask", "settle"} =>
               row.status \in DOMAIN NextStage \cup {"ANSWERING"},
           w.pc = "publish" => w.outcome \in Outcome \cup {"cancel"},
           w.pc = "message" => w.outcome \in Outcome,
           w.pc = "settle" => w.outcome \in Outcome,
           w.pc = "message" /\ w.outcome = "query" => row.status = "COMPLETED"
    PROVE  Inductive'
<1>1. run' = [run EXCEPT ![Job(t)] = Saved(row)]
  BY DEF SaveRow
<1>2. Job(t) \in Runs /\ ThreadSound(worker[t]) /\ Saved(row) \in Row
  BY FreshCopy, OwnRuns DEF RowSound, Threads
<1>3. ThreadSound(w)
  BY <1>2 DEF ThreadSound, Jobless
<1>4. HoldsRow(w, Saved(row))
  BY <1>2 DEF HoldsRow, Holding, Remembering, Row
<1>. QED  BY <1>1, <1>3, <1>4, SaveStep

\* What transition() makes of a copy that save() then accepts.
LEMMA MovedRow ==
    ASSUME Inductive, NEW t \in Workers, worker[t].pc \in Holding, MaySave(t)
    PROVE  /\ Fresh(t) /\ Snap(t) \in Row /\ Snap(t) = run[Job(t)] /\ Target(t) \in RunStatus
           /\ Moved(t) \in Row /\ Moved(t).status = Target(t) /\ Present(Moved(t))
           /\ Saved(Moved(t)) \in Row /\ Saved(Moved(t)).status = Target(t)
           /\ Saved(Moved(t)).cancel = Snap(t).cancel
           /\ Saved(Moved(t)).response = Snap(t).response
           /\ Saved(Moved(t)).revision = run[Job(t)].revision + 1
<1>1. Fresh(t) /\ CanTransition(Snap(t), Target(t))
  BY DEF MaySave
<1>2. Snap(t) \in Row /\ Snap(t) = run[Job(t)] /\ Present(Snap(t))
  BY <1>1, FreshCopy
<1>3. Target(t) \in RunStatus
  BY <1>1, <1>2, AllowedStatus
<1>4. Moved(t) \in Row /\ Moved(t).status = Target(t)
  BY <1>2, <1>3 DEF Moved, Transition, Row
<1>5. Present(Moved(t))
  BY <1>3, <1>4, RunStatusFacts
<1>. QED  BY <1>1, <1>2, <1>3, <1>4, <1>5, SavedRow DEF Moved

\* The worker saves CANCELLED.
LEMMA CancelRunKeeps ==
    ASSUME Inductive, NEW t \in Workers, CancelRun(t)
    PROVE  Inductive'
<1>. DEFINE row == Moved(t)
            w == [worker[t] EXCEPT !.snap = Saved(row), !.pc = "publish", !.outcome = "cancel"]
<1>1. worker[t].pc \in Holding /\ MaySave(t) /\ Target(t) = "CANCELLED"
  BY DEF CancelRun, At, Holding, Driving, Target
<1>2. SaveRow(t, row) /\ Becomes(t, w) /\ UNCHANGED <<conversation, calls, queue>>
  BY DEF CancelRun
<1>3. Ledgers'
  BY SameLedgers DEF CancelRun, history
<1>4. RowSound(Saved(row))
  BY <1>1, MovedRow DEF RowSound
<1>5. worker[t] \in Worker
  BY OwnRuns DEF Threads
<1>6. /\ w \in Worker /\ w.snap = Saved(row) /\ w.job = Job(t) /\ w.todo = worker[t].todo
      /\ w.pc = "publish" /\ w.outcome = "cancel"
  BY <1>1, <1>5, MovedRow DEF Worker, PC, Job
<1>. HIDE DEF w
<1>. QED  BY <1>1, <1>2, <1>3, <1>4, <1>6, MovedRow, WriteKeeps DEF Jobless, Driving, Checked

\* The context snapshot is saved and announced, or fails.
LEMMA ContextKeeps ==
    ASSUME Inductive, NEW t \in Workers, Context(t)
    PROVE  Inductive'
<1>1. /\ worker[t].pc \in Driving \ {"except"} /\ worker[t].pc \in Holding
      /\ worker[t].pc \notin Jobless /\ (t = Boot => ~Up) /\ t \in Threads
  BY ThreadsAssumption DEF Context, At, Driving, Jobless, Holding, Threads
<1>2. UNCHANGED <<conversation, calls, queue>>
  BY DEF Context
<1>3. ASSUME NEW fault \in Fault, Raise(t, fault), UNCHANGED <<run, log>>
      PROVE  Inductive'
  <2>1. Ledgers'
    BY <1>3, SameLedgers DEF Context, history
  <2>. QED  BY <1>1, <1>2, <1>3, <2>1, RaiseStep
<1>4. CASE /\ Fresh(t)
           /\ Write(t, Snap(t), "check_context")
           /\ AppendEvent(Job(t), "PROGRESS")
  <2>. DEFINE row == Snap(t)
              w == [worker[t] EXCEPT !.snap = Saved(row), !.pc = "check_context"]
  <2>1. SaveRow(t, row) /\ Becomes(t, w)
    BY <1>4 DEF Write
  <2>2. Ledgers'
    BY <1>4, AppendTyped, LogLedgers DEF Context, EventType
  <2>3. row \in Row /\ RowSound(row) /\ Present(row) /\ row = run[Job(t)] /\ row.status \in Active
    BY <1>1, <1>4, FreshCopy, DrivenRow
  <2>4. /\ Saved(row) \in Row /\ Saved(row).status = row.status
        /\ Saved(row).cancel = row.cancel /\ Saved(row).response = row.response
        /\ Saved(row).revision = row.revision + 1
    BY <2>3, SavedFields
  <2>5. RowSound(Saved(row))
    BY <2>3, <2>4 DEF RowSound
  <2>6. worker[t] \in Worker /\ ~row.cancel
    BY <1>1, OwnRuns DEF ThreadSound, Checked, Snap, Context, At
  <2>7. /\ w \in Worker /\ w.snap = Saved(row) /\ w.job = Job(t) /\ w.todo = worker[t].todo
        /\ w.pc = "check_context"
    BY <2>4, <2>6 DEF Worker, PC, Job
  <2>. HIDE DEF w
  <2>. QED  BY <1>1, <1>2, <1>4, <2>1, <2>2, <2>3, <2>4, <2>5, <2>6, <2>7, WriteKeeps
            DEF Jobless, Driving, Checked
<1>. QED  BY <1>3, <1>4 DEF Context

\* The compare-and-swap of the claim: the row is this worker's, or another's.
LEMMA ClaimKeeps ==
    ASSUME Inductive, NEW t \in Workers, Claim(t)
    PROVE  Inductive'
<1>1. /\ worker[t].pc \in Holding /\ worker[t].pc # "idle" /\ t \in Threads
      /\ (t = Boot => ~Up)
  BY ThreadsAssumption DEF Claim, At, Holding, Threads
<1>2. UNCHANGED <<conversation, calls, queue>> /\ Ledgers'
  BY SameLedgers DEF Claim, history
<1>3. CASE ~MaySave(t)
  <2>1. Becomes(t, Idle) /\ run' = run
    BY <1>3 DEF Claim, Release
  <2>. QED  BY <1>1, <1>2, <2>1, ThreadStep, IdleHolds, IdleSound
<1>4. CASE MaySave(t)
  <2>. DEFINE row == [Moved(t) EXCEPT !.retryable = FALSE, !.response = "none"]
              w == [worker[t] EXCEPT !.snap = Saved(row), !.pc = "started"]
  <2>1. SaveRow(t, row) /\ Becomes(t, w)
    BY <1>4 DEF Write, Claim
  <2>2. Target(t) = "CONTEXTUALIZING"
    BY DEF Claim, At, Target
  <2>3. /\ row \in Row /\ row.status = "CONTEXTUALIZING" /\ row.cancel = Moved(t).cancel
        /\ row.revision = Moved(t).revision
    BY ZenonT(60), <1>1, <1>4, <2>2, MovedRow DEF Row, Response
  <2>4. Moved(t).cancel = Snap(t).cancel /\ Moved(t).revision = Snap(t).revision
    BY <1>1, <1>4, MovedRow DEF Moved, Transition, Row
  <2>5. /\ Saved(row) \in Row /\ Saved(row).status = row.status
        /\ Saved(row).cancel = row.cancel /\ Saved(row).revision = row.revision + 1
    BY <2>3, SavedFields
  <2>6. RowSound(Saved(row))
    BY <2>3, <2>5 DEF RowSound
  <2>7. worker[t] \in Worker
    BY <1>1, OwnRuns
  <2>8. /\ w \in Worker /\ w.snap = Saved(row) /\ w.job = Job(t) /\ w.todo = worker[t].todo
        /\ w.pc = "started"
    BY ZenonT(60), <2>5, <2>7 DEF Worker, PC, Job
  <2>9. Snap(t) = run[Job(t)] /\ Fresh(t)
    BY <1>1, <1>4, MovedRow
  <2>. HIDE DEF w, row
  <2>. QED  BY <1>1, <1>2, <2>1, <2>3, <2>4, <2>5, <2>6, <2>8, <2>9, WriteKeeps
            DEF Jobless, Driving, Checked, Active
<1>. QED  BY <1>3, <1>4

\* DISCOVERING is saved; the router fails, asks or lets one Ask start.
LEMMA DiscoverKeeps ==
    ASSUME Inductive, NEW t \in Workers, Discover(t)
    PROVE  Inductive'
<1>. DEFINE row == Moved(t)
<1>1. worker[t].pc \in Holding /\ MaySave(t) /\ Target(t) = "DISCOVERING" /\ t \in Threads
  BY DEF Discover, At, Holding, Driving, Target, Threads
<1>2. SaveRow(t, row) /\ UNCHANGED <<conversation, calls, queue>> /\ Ledgers'
  BY SameLedgers DEF Discover, history
<1>3. RowSound(Saved(row)) /\ row.status = "DISCOVERING" /\ row.status \in Active
  BY SMTT(60), <1>1, MovedRow DEF RowSound, Active
<1>4. worker[t] \in Worker /\ ~Snap(t).cancel
  BY <1>1, OwnRuns DEF ThreadSound, Checked, Discover, At, Snap
<1>5. CASE Becomes(t, [worker[t] EXCEPT !.snap = Saved(row), !.pc = "check_ask"])
  <2>. DEFINE w == [worker[t] EXCEPT !.snap = Saved(row), !.pc = "check_ask"]
  <2>1. /\ w \in Worker /\ w.snap = Saved(row) /\ w.job = Job(t) /\ w.todo = worker[t].todo
        /\ w.pc = "check_ask"
    BY <1>1, <1>4, MovedRow DEF Worker, PC, Job
  <2>2. Becomes(t, w)
    BY <1>5
  <2>. HIDE DEF w
  <2>. QED  BY <1>1, <1>2, <1>3, <1>4, <2>1, <2>2, MovedRow, WriteKeeps
            DEF Jobless, Driving, Checked, NextStage
<1>6. ASSUME NEW outcome \in Fault \cup {"question"},
             Becomes(t, [worker[t] EXCEPT
                !.snap = Saved(row), !.outcome = outcome,
                !.pc = IF outcome = "question" THEN "settle" ELSE "except"])
      PROVE  Inductive'
  <2>. DEFINE w == [worker[t] EXCEPT
                !.snap = Saved(row), !.outcome = outcome,
                !.pc = IF outcome = "question" THEN "settle" ELSE "except"]
  <2>1. /\ w \in Worker /\ w.snap = Saved(row) /\ w.job = Job(t) /\ w.todo = worker[t].todo
        /\ w.pc = (IF outcome = "question" THEN "settle" ELSE "except")
        /\ w.outcome = outcome /\ outcome \in Outcome
    BY ZenonT(60), <1>1, <1>4, MovedRow DEF Worker, PC, Job, Outcome, Reply
  <2>2. Becomes(t, w)
    BY <1>6
  <2>. HIDE DEF w
  <2>3. CASE outcome = "question"
    BY <1>1, <1>2, <1>3, <1>4, <2>1, <2>2, <2>3, MovedRow, WriteKeeps
       DEF Jobless, Driving, Checked, NextStage
  <2>4. CASE outcome \in Fault
    <3>1. w.pc = "except"
      BY <2>1, <2>4 DEF Fault
    <3>2. ThreadSound(w)
      BY <1>1, <2>1, <2>4, <3>1, OwnRuns, FreshCopy, MovedRow DEF ThreadSound, Checked
    <3>3. HoldsRow(w, Saved(row))
      BY <1>1, <1>3, <3>1, MovedRow DEF HoldsRow, Holding, Remembering
    <3>. QED  BY <1>1, <1>2, <1>3, <1>4, <2>1, <2>2, <3>2, <3>3, MovedRow, SaveStep
              DEF SaveRow
  <2>. QED  BY <2>3, <2>4
<1>. QED  BY <1>5, <1>6 DEF Discover

\* _advance saves the stage of a record.
LEMMA AdvanceKeeps ==
    ASSUME Inductive, NEW t \in Workers, Advance(t)
    PROVE  Inductive'
<1>. DEFINE row == Moved(t)
            w == [worker[t] EXCEPT !.snap = Saved(row), !.pc = "ask"]
<1>1. /\ worker[t].pc \in Holding /\ MaySave(t) /\ t \in Threads
      /\ Target(t) = NextStage[Snap(t).status]
  BY DEF Advance, At, Holding, Driving, Target, Threads
<1>2. SaveRow(t, row) /\ Becomes(t, w) /\ UNCHANGED <<conversation, calls, queue>>
  BY DEF Advance, Write
<1>3. Ledgers'
  BY AppendTyped, LogLedgers DEF Advance, EventType
<1>4. /\ worker[t] \in Worker /\ ~Snap(t).cancel /\ Snap(t).status \in DOMAIN NextStage
  BY <1>1, OwnRuns DEF ThreadSound, Checked, Advance, At, Snap
<1>5. row.status \in {"PLANNING", "EXECUTING", "ANSWERING"}
  BY <1>1, <1>4, MovedRow DEF NextStage
<1>6. RowSound(Saved(row))
  BY <1>1, <1>5, MovedRow DEF RowSound
<1>7. /\ w \in Worker /\ w.snap = Saved(row) /\ w.job = Job(t) /\ w.todo = worker[t].todo
      /\ w.pc = "ask"
  BY <1>1, <1>4, MovedRow DEF Worker, PC, Job
<1>8. row.status \in Active /\ row.status \in DOMAIN NextStage \cup {"ANSWERING"}
  BY <1>5 DEF Active, NextStage
<1>. HIDE DEF w
<1>. QED  BY <1>1, <1>2, <1>3, <1>4, <1>6, <1>7, <1>8, MovedRow, WriteKeeps
          DEF Jobless, Driving, Checked

-----------------------------------------------------------------------------
(* The outcomes of a drive *)

\* An Ask that raises leaves the drive for the handler.
LEMMA SettleFaultKeeps ==
    ASSUME Inductive, NEW t \in Workers, SettleFault(t)
    PROVE  Inductive'
<1>1. UNCHANGED <<run, conversation, calls, queue>> /\ Ledgers'
  BY SameLedgers DEF SettleFault, store, history
<1>2. /\ t \in Threads /\ worker[t].pc \in Driving \ {"except"} /\ worker[t].pc \notin Jobless
      /\ (t = Boot => ~Up)
  BY ThreadsAssumption DEF SettleFault, At, Driving, Jobless, Threads
<1>. QED  BY <1>1, <1>2, RaiseStep DEF SettleFault

\* A save that loses its compare-and-swap leaves the drive for the handler.
LEMMA LoseSaveKeeps ==
    ASSUME Inductive, NEW t \in Workers, LoseSave(t)
    PROVE  Inductive'
<1>1. UNCHANGED <<run, conversation, calls, queue>> /\ Ledgers'
  BY SameLedgers DEF LoseSave, store, history
<1>2. /\ t \in Threads /\ worker[t].pc \in Driving \ {"except"} /\ worker[t].pc \notin Jobless
      /\ (t = Boot => ~Up)
  BY ThreadsAssumption DEF LoseSave, At, Driving, Jobless, Threads
<1>. QED  BY <1>1, <1>2, RaiseStep DEF LoseSave, Fault

\* Where the outcome of a drive leads (orchestrator.py 470-519).
LEMMA SettleTargets ==
    ASSUME NEW t \in Workers, At(t, "settle")
    PROVE  /\ Target(t) = SettleTarget(t)
           /\ worker[t].outcome = "block" => SettleTarget(t) = "BLOCKED"
           /\ worker[t].outcome = "question" => SettleTarget(t) = "WAITING_USER"
BY DEF Target, SettleTarget, At

\* A clarification that cannot be answered blocks the run.
LEMMA SettleBlockKeeps ==
    ASSUME Inductive, NEW t \in Workers, SettleBlock(t)
    PROVE  Inductive'
<1>. DEFINE row == Moved(t)
            w == [worker[t] EXCEPT !.snap = Saved(row), !.pc = "publish"]
<1>1. /\ worker[t].pc \in Holding /\ MaySave(t) /\ t \in Threads /\ Target(t) = "BLOCKED"
  BY SettleTargets DEF SettleBlock, At, Holding, Driving, Threads
<1>2. SaveRow(t, row) /\ Becomes(t, w) /\ UNCHANGED <<conversation, calls, queue>>
  BY DEF SettleBlock, Write
<1>3. Ledgers'
  BY SameLedgers DEF SettleBlock, history
<1>4. /\ worker[t] \in Worker /\ ~Snap(t).cancel /\ worker[t].outcome = "block"
  BY <1>1, OwnRuns DEF ThreadSound, Checked, SettleBlock, At, Snap
<1>5. RowSound(Saved(row)) /\ row.status = "BLOCKED"
  BY <1>1, <1>4, MovedRow DEF RowSound
<1>6. /\ w \in Worker /\ w.snap = Saved(row) /\ w.job = Job(t) /\ w.todo = worker[t].todo
      /\ w.pc = "publish" /\ w.outcome \in Outcome
  BY <1>1, <1>4, MovedRow DEF Worker, PC, Job, Outcome
<1>. HIDE DEF w
<1>. QED  BY <1>1, <1>2, <1>3, <1>4, <1>5, <1>6, MovedRow, WriteKeeps
          DEF Jobless, Driving, Checked

\* A question is saved with WAITING_USER.
LEMMA SettleQuestionKeeps ==
    ASSUME Inductive, NEW t \in Workers, SettleQuestion(t)
    PROVE  Inductive'
<1>. DEFINE row == [Moved(t) EXCEPT !.response = "question"]
            w == [worker[t] EXCEPT !.snap = Saved(row), !.pc = "message"]
<1>1. /\ worker[t].pc \in Holding /\ MaySave(t) /\ t \in Threads /\ Target(t) = "WAITING_USER"
  BY SettleTargets DEF SettleQuestion, At, Holding, Driving, Threads
<1>2. SaveRow(t, row) /\ Becomes(t, w) /\ UNCHANGED <<conversation, calls, queue>>
  BY DEF SettleQuestion, Write
<1>3. Ledgers'
  BY SameLedgers DEF SettleQuestion, history
<1>4. /\ worker[t] \in Worker /\ ~Snap(t).cancel /\ worker[t].outcome = "question"
  BY <1>1, OwnRuns DEF ThreadSound, Checked, SettleQuestion, At, Snap
<1>5. /\ row \in Row /\ row.status = "WAITING_USER" /\ row.response = "question"
      /\ row.cancel = Moved(t).cancel /\ row.revision = Moved(t).revision
  BY <1>1, MovedRow DEF Row, Response
<1>6. Moved(t).cancel = Snap(t).cancel /\ Moved(t).revision = Snap(t).revision
  BY <1>1, MovedRow DEF Moved, Transition, Row
<1>. HIDE DEF row
<1>7. RowSound(Saved(row))
  BY <1>4, <1>5, <1>6, SavedFields DEF RowSound
<1>8. /\ w \in Worker /\ w.snap = Saved(row) /\ w.job = Job(t) /\ w.todo = worker[t].todo
      /\ w.pc = "message" /\ w.outcome = "question"
  BY <1>1, <1>4, <1>5, SavedFields DEF Worker, PC, Job
<1>9. Saved(row).revision = run[Job(t)].revision + 1 /\ ~Saved(row).cancel /\ Fresh(t)
      /\ Saved(row).status = row.status /\ ~run[Job(t)].cancel
  BY <1>1, <1>4, <1>5, <1>6, MovedRow, SavedFields
<1>. HIDE DEF w
<1>. QED  BY <1>1, <1>2, <1>3, <1>5, <1>7, <1>8, <1>9, WriteKeeps
          DEF Jobless, Driving, Checked, Outcome, Reply

\* An answer walks the remaining stages and completes the run.
LEMMA SettleAnswerKeeps ==
    ASSUME Inductive, NEW t \in Workers, SettleAnswer(t)
    PROVE  Inductive'
<1>1. /\ worker[t].pc \in Holding /\ MaySave(t) /\ t \in Threads
      /\ UNCHANGED <<conversation, calls, queue>>
  BY DEF SettleAnswer, At, Holding, Driving, Threads
<1>2. /\ worker[t] \in Worker /\ ~Snap(t).cancel
      /\ worker[t].outcome \in {"query", "listing"}
      /\ Snap(t).status \in DOMAIN NextStage \cup {"ANSWERING"}
  BY <1>1, OwnRuns DEF ThreadSound, Checked, SettleAnswer, At, Snap
<1>3. CASE Target(t) = "COMPLETED"
  <2>. DEFINE row == [Moved(t) EXCEPT !.response = worker[t].outcome, !.completed = clock + 1]
              w == [worker[t] EXCEPT !.snap = Saved(row), !.pc = "message"]
  <2>1. SaveRow(t, row) /\ Becomes(t, w) /\ clock' = clock + 1
    BY <1>3 DEF SettleAnswer, Write, AfterAnswer
  <2>2. clock \in Nat
    BY DEF Inductive, TypeOK
  <2>3. Ledgers'
    BY SMTT(60), <2>1, <2>2 DEF SettleAnswer, history, Inductive, TypeOK, Ledgers
  <2>4. /\ row \in Row /\ row.status = "COMPLETED" /\ row.response = worker[t].outcome
        /\ row.cancel = Moved(t).cancel /\ row.revision = Moved(t).revision
    <3>1. Moved(t) \in Row /\ Moved(t).status = "COMPLETED"
      BY <1>1, <1>3, MovedRow
    <3>2. worker[t].outcome \in Response /\ clock + 1 \in Nat
      BY <1>2, <2>2 DEF Response
    <3>. QED  BY <3>1, <3>2 DEF Row
  <2>5. Moved(t).cancel = Snap(t).cancel /\ Moved(t).revision = Snap(t).revision
    BY <1>1, MovedRow DEF Moved, Transition, Row
  <2>. HIDE DEF row
  <2>6. RowSound(Saved(row))
    BY <1>2, <2>4, <2>5, SavedFields DEF RowSound
  <2>7. /\ w \in Worker /\ w.snap = Saved(row) /\ w.job = Job(t) /\ w.todo = worker[t].todo
        /\ w.pc = "message" /\ w.outcome \in Outcome
    BY ZenonT(60), <1>1, <1>2, <2>4, SavedFields DEF Worker, PC, Job, Outcome, Reply
  <2>8. Saved(row).revision = run[Job(t)].revision + 1 /\ ~Saved(row).cancel /\ Fresh(t)
        /\ Saved(row).status = row.status /\ ~run[Job(t)].cancel
    BY <1>1, <1>2, <2>4, <2>5, MovedRow, SavedFields
  <2>. HIDE DEF w
  <2>. QED  BY <1>1, <2>1, <2>3, <2>4, <2>6, <2>7, <2>8, WriteKeeps
            DEF Jobless, Driving, Checked
<1>4. CASE Target(t) # "COMPLETED"
  <2>. DEFINE row == Moved(t)
              w == [worker[t] EXCEPT !.snap = Saved(row), !.pc = "settle"]
  <2>1. SaveRow(t, row) /\ Becomes(t, w)
    BY <1>4 DEF SettleAnswer, Write, AfterAnswer
  <2>2. Ledgers'
    BY <1>4, SameLedgers DEF SettleAnswer, history
  <2>3. Target(t) \in {"PLANNING", "EXECUTING", "ANSWERING"}
    BY <1>2, <1>4, SettleTargets DEF SettleTarget, SettleAnswer, NextStage
  <2>4. RowSound(Saved(row)) /\ row.status \in Active
        /\ row.status \in DOMAIN NextStage \cup {"ANSWERING"}
    BY <1>1, <2>3, MovedRow DEF RowSound, Active, NextStage
  <2>5. /\ w \in Worker /\ w.snap = Saved(row) /\ w.job = Job(t) /\ w.todo = worker[t].todo
        /\ w.pc = "settle" /\ w.outcome \in Outcome
    BY ZenonT(60), <1>1, <1>2, MovedRow DEF Worker, PC, Job, Outcome, Reply
  <2>. HIDE DEF w
  <2>. QED  BY <1>1, <1>2, <2>1, <2>2, <2>4, <2>5, MovedRow, WriteKeeps
            DEF Jobless, Driving, Checked
<1>. QED  BY <1>3, <1>4

\* The handler saves FAILED or BLOCKED.
LEMMA FailRunKeeps ==
    ASSUME Inductive, NEW t \in Workers, FailRun(t)
    PROVE  Inductive'
<1>1. /\ worker[t].pc \in Holding /\ worker[t].pc # "idle" /\ t \in Threads
      /\ (t = Boot => ~Up)
  BY ThreadsAssumption DEF FailRun, At, Holding, Driving, Threads
<1>2. UNCHANGED <<conversation, calls, queue>> /\ Ledgers'
  BY SameLedgers DEF FailRun, history
<1>3. CASE Snap(t).status \in Terminal
  <2>1. Becomes(t, Idle) /\ run' = run
    BY <1>3 DEF FailRun, Release
  <2>. QED  BY <1>1, <1>2, <2>1, ThreadStep, IdleHolds, IdleSound
<1>4. CASE Snap(t).status \notin Terminal
  <2>. DEFINE row == [Moved(t) EXCEPT !.retryable = (worker[t].outcome = "transient")]
              w == [worker[t] EXCEPT !.snap = Saved(row), !.pc = "publish"]
  <2>1. SaveRow(t, row) /\ Becomes(t, w) /\ MaySave(t)
    BY <1>4 DEF Write, FailRun
  <2>2. Target(t) \in {"BLOCKED", "FAILED"}
    BY DEF FailRun, At, Target
  <2>3. /\ row \in Row /\ row.status = Target(t) /\ row.cancel = Moved(t).cancel
        /\ row.revision = Moved(t).revision
    BY ZenonT(60), <1>1, <2>1, MovedRow DEF Row
  <2>4. Moved(t).cancel = Snap(t).cancel /\ Moved(t).revision = Snap(t).revision
    BY <1>1, <2>1, MovedRow DEF Moved, Transition, Row
  <2>5. worker[t] \in Worker /\ ~Snap(t).cancel /\ worker[t].outcome \in Fault
    BY <1>1, OwnRuns DEF ThreadSound, Checked, FailRun, At, Snap
  <2>. HIDE DEF row
  <2>6. RowSound(Saved(row))
    BY <2>2, <2>3, <2>4, <2>5, SavedFields DEF RowSound
  <2>7. /\ w \in Worker /\ w.snap = Saved(row) /\ w.job = Job(t) /\ w.todo = worker[t].todo
        /\ w.pc = "publish" /\ w.outcome \in Outcome
    BY <2>3, <2>5, SavedFields DEF Worker, PC, Job, Outcome
  <2>8. Saved(row).revision = run[Job(t)].revision + 1 /\ ~Saved(row).cancel /\ Fresh(t)
        /\ Saved(row).status = row.status /\ ~run[Job(t)].cancel
    BY <1>1, <2>1, <2>3, <2>4, <2>5, MovedRow, SavedFields
  <2>9. Present(row)
    BY <2>2, <2>3
  <2>. HIDE DEF w
  <2>. QED  BY <1>1, <1>2, <2>1, <2>6, <2>7, <2>8, <2>9, WriteKeeps
            DEF Jobless, Driving, Checked
<1>. QED  BY <1>3, <1>4

-----------------------------------------------------------------------------
(* Handling, publishing and repairing *)

\* The handler reads the row again and repairs, checks or gives up.
LEMMA ExceptKeeps ==
    ASSUME Inductive, NEW t \in Workers, Except(t)
    PROVE  Inductive'
<1>. DEFINE current == run[Job(t)]
            label == CASE current.status = "COMPLETED"    -> "repair_completions"
                       [] current.status = "WAITING_USER" -> "repair_clarifications"
                       [] OTHER                           -> "check_failure"
            w == [worker[t] EXCEPT !.mode = "handle", !.snap = current, !.pc = label]
<1>1. /\ worker[t].pc = "except" /\ worker[t].pc # "idle" /\ t \in Threads
      /\ (t = Boot => ~Up) /\ Occupied(worker[t])
  BY ThreadsAssumption DEF Except, At, Threads, Occupied, Driving
<1>2. UNCHANGED <<run, conversation, calls, queue>> /\ Ledgers'
  BY SameLedgers DEF Except, store, history
<1>3. CASE ~Present(current)
  <2>1. Becomes(t, Idle)
    BY <1>3 DEF Except
  <2>. QED  BY <1>1, <1>2, <2>1, ThreadStep, IdleHolds, IdleSound
<1>4. CASE Present(current)
  <2>1. Becomes(t, w)
    BY <1>4 DEF Except
  <2>2. /\ worker[t] \in Worker /\ ThreadSound(worker[t]) /\ Job(t) \in Runs
        /\ HoldsRow(worker[t], current) /\ current \in Row
    BY ZenonT(60), <1>1, OwnRuns DEF Jobless, Job, Inductive, TypeOK
  <2>3. label \in {"repair_completions", "repair_clarifications", "check_failure"}
    OBVIOUS
  <2>4. label = "check_failure" => current.status \in Active
    <3>1. current.status \in Active \cup {"COMPLETED"}
      BY <1>1, <1>4, <2>2 DEF HoldsRow
    <3>2. current.status = "COMPLETED" => label = "repair_completions"
      OBVIOUS
    <3>. QED  BY <3>1, <3>2
  <2>5. /\ w \in Worker /\ w.snap = current /\ w.job = Job(t) /\ w.todo = worker[t].todo
        /\ w.pc = label /\ w.mode = "handle" /\ w.outcome = worker[t].outcome
    BY ZenonT(60), <2>2, <2>3 DEF Worker, PC, Job, Mode
  <2>. HIDE DEF w, label
  <2>6. ThreadSound(w)
    BY <1>1, <2>2, <2>3, <2>5 DEF ThreadSound, Checked
  <2>7. HoldsRow(w, current)
    BY <2>2, <2>3, <2>4, <2>5 DEF HoldsRow, Holding, Driving, Remembering, Row
  <2>. QED  BY <1>1, <1>2, <2>1, <2>5, <2>6, <2>7, ThreadStep DEF Job
<1>. QED  BY <1>3, <1>4

\* A thread that publishes or repairs goes on with its run and its list.
LEMMA PublishingStep ==
    ASSUME Inductive, NEW t \in Threads, worker[t].pc # "idle",
           NEW w, Becomes(t, w), UNCHANGED <<run, conversation, calls, queue>>, Ledgers',
           ThreadSound(w), w.pc \notin Holding \cup {"except"},
           Remembering(w) => Remembering(worker[t]) /\ w.job = worker[t].job,
           w.job \in {worker[t].job, NoRun}, w.todo \subseteq worker[t].todo
    PROVE  Inductive'
<1>1. t = Boot => ~Up
  BY DEF Up, At
<1>2. ASSUME t \in Workers
      PROVE  /\ HoldsRow(w, run[w.job])
             /\ Occupied(w) => Occupied(worker[t]) /\ w.job = worker[t].job
  <2>1. HoldsRow(worker[t], run[worker[t].job])
    BY <1>2, OwnRuns
  <2>. QED  BY <2>1 DEF HoldsRow, Holding, Driving, Occupied
<1>. QED  BY <1>1, <1>2, ThreadStep

\* assistant_message inserts the answer or the question.
LEMMA PostMessageKeeps ==
    ASSUME Inductive, NEW t \in Threads, PostMessage(t)
    PROVE  Inductive'
<1>. DEFINE label == IF worker[t].outcome = "query" THEN "memory" ELSE "publish"
            w == [worker[t] EXCEPT !.pc = label]
<1>1. /\ worker[t].pc = "message" /\ Becomes(t, w) /\ UNCHANGED <<run, conversation, calls, queue>>
  BY DEF PostMessage, At, Goto
<1>2. worker[t] \in Worker /\ ThreadSound(worker[t]) /\ Job(t) \in Runs
  BY <1>1, OwnRuns DEF Jobless, Job
<1>3. Ledgers'
  <2>1. messages \in [Runs -> Thread] /\ Snap(t).revision \in Nat
    BY <1>2 DEF Inductive, TypeOK, Snap, Worker, Row
  <2>2. \/ messages' = [messages EXCEPT ![Job(t)].prompts = @ \cup {Snap(t).revision}]
        \/ messages' = [messages EXCEPT ![Job(t)].answer = TRUE]
    BY DEF PostMessage
  <2>3. messages[Job(t)] \in Thread
    BY <1>2, <2>1
  <2>4. messages' \in [Runs -> Thread]
    <3>1. CASE messages' = [messages EXCEPT ![Job(t)].prompts = @ \cup {Snap(t).revision}]
      <4>1. [messages[Job(t)] EXCEPT !.prompts = @ \cup {Snap(t).revision}] \in Thread
        BY <2>1, <2>3 DEF Thread
      <4>. QED  BY <2>1, <3>1, <4>1
    <3>2. CASE messages' = [messages EXCEPT ![Job(t)].answer = TRUE]
      <4>1. [messages[Job(t)] EXCEPT !.answer = TRUE] \in Thread
        BY <2>3 DEF Thread
      <4>. QED  BY <2>1, <3>2, <4>1
    <3>. QED  BY <2>2, <3>1, <3>2
  <2>. QED  BY <2>4 DEF PostMessage, Inductive, TypeOK, Ledgers, history
<1>4. /\ w \in Worker /\ w.snap = Snap(t) /\ w.job = Job(t) /\ w.todo = worker[t].todo
      /\ w.pc = label /\ w.mode = worker[t].mode /\ w.outcome = worker[t].outcome
  BY <1>2 DEF Worker, PC, Job, Snap
<1>. HIDE DEF w
<1>5. ThreadSound(w)
  BY <1>1, <1>2, <1>4 DEF ThreadSound, Checked, Job
<1>6. /\ w.pc \notin Holding \cup {"except"}
      /\ Remembering(w) => Remembering(worker[t]) /\ w.job = worker[t].job
  BY <1>1, <1>4 DEF Remembering, Holding, Driving, Job
<1>. QED  BY <1>1, <1>3, <1>4, <1>5, <1>6, PublishingStep DEF Job

\* From the memory on to the event.
LEMMA ToPublish ==
    ASSUME Inductive, NEW t \in Threads, Goto(t, "publish"),
           worker[t].pc \in {"memory", "revision", "put"},
           UNCHANGED <<run, conversation, calls, queue>>, Ledgers'
    PROVE  Inductive'
<1>. DEFINE w == [worker[t] EXCEPT !.pc = "publish"]
<1>1. worker[t] \in Worker /\ ThreadSound(worker[t])
  BY OwnRuns
<1>2. /\ w \in Worker /\ w.snap = Snap(t) /\ w.job = Job(t) /\ w.todo = worker[t].todo
      /\ w.pc = "publish" /\ w.mode = worker[t].mode /\ w.outcome = worker[t].outcome
  BY <1>1 DEF Worker, PC, Job, Snap
<1>3. Becomes(t, w)
  BY DEF Goto
<1>. HIDE DEF w
<1>4. ThreadSound(w)
  BY <1>1, <1>2 DEF ThreadSound, Checked, Job, Jobless
<1>. QED  BY <1>2, <1>3, <1>4, PublishingStep DEF Remembering, Holding, Driving, Job

\* The content of the memory is read.
LEMMA ReadMemoryKeeps ==
    ASSUME Inductive, NEW t \in Threads, ReadMemory(t)
    PROVE  Inductive'
<1>1. /\ worker[t].pc = "memory" /\ worker[t].pc \notin Jobless
      /\ UNCHANGED <<run, conversation, calls, queue>> /\ Ledgers' /\ (t = Boot => ~Up)
  BY SameLedgers DEF ReadMemory, At, store, history, Jobless, Up
<1>2. worker[t] \in Worker /\ ThreadSound(worker[t])
  BY OwnRuns
<1>3. CASE Raise(t, "permanent")
  BY <1>1, <1>3, RaiseStep DEF Remembering, Fault
<1>4. CASE Becomes(t, [worker[t] EXCEPT !.pc = "revision", !.stamp = clock])
  <2>. DEFINE w == [worker[t] EXCEPT !.pc = "revision", !.stamp = clock]
  <2>1. clock \in Nat
    BY DEF Inductive, TypeOK
  <2>2. /\ w \in Worker /\ w.snap = Snap(t) /\ w.job = Job(t) /\ w.todo = worker[t].todo
        /\ w.pc = "revision" /\ w.mode = worker[t].mode /\ w.outcome = worker[t].outcome
    BY <1>2, <2>1 DEF Worker, PC, Job, Snap
  <2>3. Becomes(t, w)
    BY <1>4
  <2>. HIDE DEF w
  <2>4. ThreadSound(w)
    BY <1>1, <1>2, <2>2 DEF ThreadSound, Checked, Job, Jobless
  <2>. QED  BY <1>1, <2>2, <2>3, <2>4, PublishingStep
            DEF Remembering, Holding, Driving, Job, Jobless
<1>5. CASE Goto(t, "publish")
  BY <1>1, <1>5, ToPublish
<1>. QED  BY <1>3, <1>4, <1>5 DEF ReadMemory

\* The revision of the memory is read.
LEMMA ReadMemoryRevisionKeeps ==
    ASSUME Inductive, NEW t \in Threads, ReadMemoryRevision(t)
    PROVE  Inductive'
<1>1. /\ worker[t].pc = "revision" /\ worker[t].pc \notin Jobless
      /\ UNCHANGED <<run, conversation, calls, queue>> /\ Ledgers' /\ (t = Boot => ~Up)
  BY SameLedgers DEF ReadMemoryRevision, At, store, history, Jobless, Up
<1>2. worker[t] \in Worker /\ ThreadSound(worker[t])
  BY OwnRuns
<1>3. CASE Raise(t, "permanent")
  BY <1>1, <1>3, RaiseStep DEF Remembering, Fault
<1>4. CASE Becomes(t, [worker[t] EXCEPT !.pc = "put", !.expected = memory.revision])
  <2>. DEFINE w == [worker[t] EXCEPT !.pc = "put", !.expected = memory.revision]
  <2>1. memory.revision \in Nat
    BY DEF Inductive, TypeOK
  <2>2. /\ w \in Worker /\ w.snap = Snap(t) /\ w.job = Job(t) /\ w.todo = worker[t].todo
        /\ w.pc = "put" /\ w.mode = worker[t].mode /\ w.outcome = worker[t].outcome
    BY <1>2, <2>1 DEF Worker, PC, Job, Snap
  <2>3. Becomes(t, w)
    BY <1>4
  <2>. HIDE DEF w
  <2>4. ThreadSound(w)
    BY <1>1, <1>2, <2>2 DEF ThreadSound, Checked, Job, Jobless
  <2>. QED  BY <1>1, <2>2, <2>3, <2>4, PublishingStep
            DEF Remembering, Holding, Driving, Job, Jobless
<1>. QED  BY <1>3, <1>4 DEF ReadMemoryRevision

\* put_memory's compare-and-swap.
LEMMA PutMemoryKeeps ==
    ASSUME Inductive, NEW t \in Threads, PutMemory(t)
    PROVE  Inductive'
<1>1. /\ worker[t].pc = "put" /\ worker[t].pc \notin Jobless
      /\ UNCHANGED <<run, conversation, calls, queue>> /\ (t = Boot => ~Up)
  BY DEF PutMemory, At, Jobless, Up
<1>2. worker[t] \in Worker /\ Job(t) \in Runs
  BY <1>1, OwnRuns DEF Job
<1>3. CASE Raise(t, "permanent") /\ UNCHANGED memory
  <2>1. Ledgers'
    BY <1>3, SameLedgers DEF PutMemory, history
  <2>. QED  BY <1>1, <1>3, <2>1, RaiseStep DEF Remembering, Fault
<1>4. CASE /\ memory' = [last |-> Job(t), revision |-> memory.revision + 1,
                         stamp |-> worker[t].stamp]
           /\ Goto(t, "publish")
  <2>1. memory.revision \in Nat /\ worker[t].stamp \in Nat
    BY <1>2 DEF Inductive, TypeOK, Worker
  <2>2. memory' \in [last: Runs \cup {NoRun}, revision: Nat, stamp: Nat]
    BY <1>2, <1>4, <2>1
  <2>3. Ledgers'
    BY <2>2 DEF PutMemory, history, Inductive, TypeOK, Ledgers
  <2>. QED  BY <1>1, <1>4, <2>3, ToPublish
<1>. QED  BY <1>3, <1>4 DEF PutMemory

\* The event that announces an outcome, from a drive, a repair or the constructor.
LEMMA PublishKeeps ==
    ASSUME Inductive, NEW t \in Threads, Publish(t)
    PROVE  Inductive'
<1>1. worker[t].pc = "publish" /\ UNCHANGED <<run, conversation, calls, queue>>
  BY DEF Publish, At
<1>2. worker[t] \in Worker /\ ThreadSound(worker[t])
  BY OwnRuns
<1>3. EventOf[worker[t].outcome] \in EventType
  BY <1>1, <1>2 DEF ThreadSound, EventOf, EventType, Outcome, Fault, Reply
<1>4. Ledgers'
  BY <1>3, AppendTyped, LogLedgers DEF Publish
<1>5. ASSUME NEW label \in {"repair", "interrupt"}, Goto(t, label),
             label = "repair" => worker[t].mode \in {"completions", "clarifications"}
      PROVE  Inductive'
  <2>. DEFINE w == [worker[t] EXCEPT !.pc = label]
  <2>1. /\ w \in Worker /\ w.snap = Snap(t) /\ w.job = Job(t) /\ w.todo = worker[t].todo
        /\ w.pc = label /\ w.mode = worker[t].mode /\ w.outcome = worker[t].outcome
    BY <1>2 DEF Worker, PC, Job, Snap
  <2>2. Becomes(t, w)
    BY <1>5 DEF Goto
  <2>. HIDE DEF w
  <2>3. ThreadSound(w)
    BY <1>2, <1>5, <2>1 DEF ThreadSound, Checked, Job, Jobless
  <2>. QED  BY <1>1, <1>4, <2>1, <2>2, <2>3, PublishingStep
            DEF Remembering, Holding, Driving, Job
<1>6. CASE Release(t)
  BY <1>1, <1>4, <1>6, PublishingStep, IdleHolds, IdleSound
     DEF Release, Idle, Remembering, Holding, Driving
<1>7. \/ Goto(t, "repair") /\ worker[t].mode \in {"completions", "clarifications"}
      \/ Goto(t, "interrupt")
      \/ Release(t)
  BY DEF Publish
<1>. QED  BY <1>5, <1>6, <1>7

-----------------------------------------------------------------------------
(* Repairs and the constructor *)

\* A row that can be read belongs to a run that was inserted.
LEMMA PresentBorn ==
    ASSUME Inductive, NEW r \in Runs, Present(run[r])
    PROVE  r \in BornRuns
BY DEF Inductive, OnlyBornRuns, BornRuns

\* A thread whose record speaks of no run answers for nothing but its type.
LEMMA JoblessStep ==
    ASSUME Inductive, NEW t \in Threads, NEW w, Becomes(t, w),
           UNCHANGED <<run, conversation, calls, queue>>, Ledgers',
           ThreadSound(w), worker[t].pc # "idle",
           w.pc \notin Holding \cup {"except"}, ~Remembering(w),
           w.job \in BornRuns \cup {NoRun}, \A item \in w.todo : item.job \in BornRuns
    PROVE  Inductive'
<1>1. t = Boot => ~Up
  BY DEF Up, At
<1>2. HoldsRow(w, run[w.job]) /\ ~Occupied(w)
  BY DEF HoldsRow, Occupied, Holding, Driving
<1>3. Core'
  BY <1>2, LocalStep
<1>4. OnlyBornRuns' /\ QuietRestart'
  BY <1>1, ThreadBooks
<1>. QED  BY <1>3, <1>4, Parts, PTL

\* Reading the list of what a crash left unannounced.
LEMMA ListRepairsKeeps ==
    ASSUME Inductive, NEW t \in Threads, NEW mode \in {"completions", "clarifications"},
           NEW rs \in SUBSET Runs, \A r \in rs : Present(run[r]) /\ run[r].response \in Reply,
           ListRepairs(t, mode, rs),
           worker[t].pc \in {"repair_completions", "repair_clarifications"},
           UNCHANGED <<run, conversation, calls, queue>>, Ledgers'
    PROVE  Inductive'
<1>. DEFINE todo == {[job |-> r, snap |-> run[r]] : r \in rs}
            w == [worker[t] EXCEPT !.pc = "repair", !.mode = mode, !.todo = todo]
<1>1. worker[t] \in Worker /\ worker[t].job \in BornRuns \cup {NoRun}
  BY OwnRuns
<1>2. todo \in SUBSET [job: Runs, snap: Row]
  BY DEF Inductive, TypeOK
<1>3. \A item \in todo : item.job \in BornRuns /\ item.snap.response \in Reply
  BY PresentBorn
<1>4. Becomes(t, w)
  BY DEF ListRepairs
<1>. HIDE DEF todo
<1>5. /\ w \in Worker /\ w.job = worker[t].job /\ w.todo = todo
      /\ w.pc = "repair" /\ w.mode = mode
  BY ZenonT(60), <1>1, <1>2 DEF Worker, PC, Mode
<1>. HIDE DEF w
<1>6. ThreadSound(w)
  BY <1>3, <1>5 DEF ThreadSound, Checked, Jobless
<1>7. w.pc \notin Holding \cup {"except"} /\ ~Remembering(w) /\ worker[t].pc # "idle"
  BY <1>5 DEF Holding, Driving, Remembering
<1>. QED  BY <1>1, <1>3, <1>4, <1>5, <1>6, <1>7, JoblessStep

\* incomplete_completions is read.
LEMMA ListCompletionsKeeps ==
    ASSUME Inductive, NEW t \in Threads, ListCompletions(t)
    PROVE  Inductive'
<1>1. \A r \in IncompleteCompletions : Present(run[r]) /\ run[r].response \in Reply
  BY DEF IncompleteCompletions, Inductive, RowsSound, RowSound, Reply
<1>2. IncompleteCompletions \in SUBSET Runs
  BY DEF IncompleteCompletions
<1>3. UNCHANGED <<run, conversation, calls, queue>> /\ Ledgers'
  BY SameLedgers DEF ListCompletions, store, history
<1>. QED  BY <1>1, <1>2, <1>3, ListRepairsKeeps DEF ListCompletions, At

\* incomplete_clarifications is read.
LEMMA ListClarificationsKeeps ==
    ASSUME Inductive, NEW t \in Threads, ListClarifications(t)
    PROVE  Inductive'
<1>1. \A r \in IncompleteClarifications : Present(run[r]) /\ run[r].response \in Reply
  BY DEF IncompleteClarifications, Inductive, RowsSound, RowSound, Reply
<1>2. IncompleteClarifications \in SUBSET Runs
  BY DEF IncompleteClarifications
<1>3. UNCHANGED <<run, conversation, calls, queue>> /\ Ledgers'
  BY SameLedgers DEF ListClarifications, store, history
<1>. QED  BY <1>1, <1>2, <1>3, ListRepairsKeeps DEF ListClarifications, At

\* A repair takes the next row of its list.
LEMMA RepairNextKeeps ==
    ASSUME Inductive, NEW t \in Threads, RepairNext(t)
    PROVE  Inductive'
<1>1. PICK item \in worker[t].todo :
        Becomes(t, [worker[t] EXCEPT !.pc = "message", !.job = item.job,
                !.snap = item.snap, !.outcome = item.snap.response,
                !.todo = worker[t].todo \ {item}])
  BY DEF RepairNext
<1>. DEFINE w == [worker[t] EXCEPT !.pc = "message", !.job = item.job,
                !.snap = item.snap, !.outcome = item.snap.response,
                !.todo = worker[t].todo \ {item}]
<1>2. /\ worker[t] \in Worker /\ ThreadSound(worker[t])
      /\ \A other \in worker[t].todo : other.job \in BornRuns
  BY OwnRuns
<1>3. worker[t].pc = "repair" /\ worker[t].mode \in {"completions", "clarifications"}
  BY <1>2 DEF RepairNext, At, ThreadSound
<1>4. item \in [job: Runs, snap: Row] /\ item.snap.response \in Reply
  BY <1>2 DEF Worker, ThreadSound
<1>5. /\ w \in Worker /\ w.job = item.job /\ w.todo = worker[t].todo \ {item}
      /\ w.pc = "message" /\ w.mode = worker[t].mode /\ w.outcome = item.snap.response
  BY ZenonT(60), <1>2, <1>4 DEF Worker, PC, Outcome, Reply
<1>6. UNCHANGED <<run, conversation, calls, queue>> /\ Ledgers'
  BY SameLedgers DEF RepairNext, store, history
<1>7. Becomes(t, w)
  BY <1>1
<1>. HIDE DEF w
<1>8. ThreadSound(w)
  BY <1>2, <1>3, <1>4, <1>5 DEF ThreadSound, Checked, Outcome, Reply
<1>9. w.pc \notin Holding \cup {"except"} /\ ~Remembering(w) /\ worker[t].pc # "idle"
  BY <1>3, <1>5 DEF Holding, Driving, Remembering
<1>. QED  BY <1>2, <1>5, <1>6, <1>7, <1>8, <1>9, JoblessStep

\* A repair has no more rows.
LEMMA RepairDoneKeeps ==
    ASSUME Inductive, NEW t \in Threads, RepairDone(t)
    PROVE  Inductive'
<1>1. UNCHANGED <<run, conversation, calls, queue>> /\ Ledgers' /\ worker[t].pc # "idle"
  BY SameLedgers DEF RepairDone, store, history, At
<1>2. CASE Release(t)
  BY <1>1, <1>2, JoblessStep, IdleSound, IdleHolds
     DEF Release, Idle, Remembering, Holding, Driving
<1>3. ASSUME NEW label \in {"repair_clarifications", "resubmit"},
             Becomes(t, [Idle EXCEPT !.pc = label])
      PROVE  Inductive'
  <2>. DEFINE w == [Idle EXCEPT !.pc = label]
  <2>1. /\ w \in Worker /\ w.pc = label /\ w.job = NoRun /\ w.todo = {} /\ w.mode = "drive"
    BY InitialRows DEF Idle, Worker, PC, Mode
  <2>. HIDE DEF w
  <2>2. ThreadSound(w)
    BY <2>1 DEF ThreadSound, Checked, Jobless
  <2>. QED  BY <1>1, <1>3, <2>1, <2>2, JoblessStep DEF w, Holding, Driving, Remembering
<1>. QED  BY <1>2, <1>3 DEF RepairDone

\* A pool thread takes a submission and reads its row.
LEMMA PickKeeps ==
    ASSUME Inductive, NEW t \in Workers, Pick(t)
    PROVE  Inductive'
<1>. DEFINE r == Head(queue)
            w == IF Runnable(run[r])
                 THEN [Idle EXCEPT !.pc = "claim", !.job = r, !.snap = run[r]]
                 ELSE worker[t]
<1>1. /\ worker[t].pc = "idle" /\ queue # <<>> /\ queue' = Tail(queue)
      /\ UNCHANGED <<run, conversation, calls>> /\ t \in Threads /\ t # Boot
  BY ThreadsAssumption DEF Pick, At, store, Threads
<1>2. /\ queue \in Seq(Runs) /\ worker \in [Threads -> Worker] /\ run \in [Runs -> Row]
      /\ \A i \in DOMAIN queue : queue[i] \in BornRuns
  BY DEF Inductive, TypeOK, OnlyBornRuns
<1>3. r \in BornRuns /\ r \in Runs
  BY <1>1, <1>2 DEF BornRuns
<1>4. Becomes(t, w)
  BY <1>1, <1>2 DEF Pick, Becomes
<1>5. Ledgers'
  <2>1. queue' \in Seq(Runs)
    BY <1>1, <1>2
  <2>. QED  BY <2>1 DEF Pick, store, history, Inductive, TypeOK, Ledgers
<1>6. CASE Runnable(run[r])
  <2>1. /\ w \in Worker /\ w.pc = "claim" /\ w.job = r /\ w.snap = run[r] /\ w.todo = {}
        /\ w.mode = "drive"
    BY <1>2, <1>3, <1>6, InitialRows DEF Idle, Worker, PC, Mode
  <2>. HIDE DEF w
  <2>2. ThreadSound(w)
    BY <1>3, <1>6, <2>1 DEF ThreadSound, Checked, Jobless
  <2>3. HoldsRow(w, run[w.job]) /\ ~Occupied(w)
    BY <1>2, <1>3, <2>1 DEF HoldsRow, Occupied, Holding, Driving, Remembering, Row
  <2>4. Core'
    BY <1>1, <1>4, <2>2, <2>3, LocalStep
  <2>5. OnlyBornRuns' /\ QuietRestart'
    BY <1>1, <1>3, <1>4, <2>1, ThreadBooks
  <2>. QED  BY <1>5, <2>4, <2>5, Parts, PTL
<1>7. CASE ~Runnable(run[r])
  <2>1. w = worker[t]
    BY <1>7
  <2>. HIDE DEF w
  <2>2. Core'
    BY <1>1, <1>4, <2>1, OwnRuns, LocalStep
  <2>3. OnlyBornRuns' /\ QuietRestart'
    BY <1>1, <1>4, <2>1, OwnRuns, ThreadBooks
  <2>. QED  BY <1>5, <2>2, <2>3, Parts, PTL
<1>. QED  BY <1>6, <1>7

\* recover_interrupted: no worker is at work while the constructor fails a run
\* that a crash left active, so nobody else answers for its row.
LEMMA InterruptKeeps ==
    ASSUME Inductive, Interrupt
    PROVE  Inductive'
<1>1. /\ At(Boot, "interrupt") /\ ~Up /\ Boot \in Threads /\ Boot \notin Workers
      /\ UNCHANGED <<conversation, queue, calls>> /\ worker[Boot].pc # "idle"
  BY ThreadsAssumption DEF Interrupt, At, Up, Threads
<1>2. Ledgers'
  BY SameLedgers DEF Interrupt, history
<1>3. ASSUME NEW r \in Runs, run[r].status \in Active,
             run' = [run EXCEPT ![r] = Saved(Interrupted(run[r]))],
             Becomes(Boot, [Idle EXCEPT !.pc = "publish", !.mode = "interrupted",
                    !.job = r, !.snap = Saved(Interrupted(run[r])), !.outcome = "transient"])
      PROVE  Inductive'
  <2>. DEFINE failed == Saved(Interrupted(run[r]))
              w == [Idle EXCEPT !.pc = "publish", !.mode = "interrupted",
                                !.job = r, !.snap = failed, !.outcome = "transient"]
  <2>1. run \in [Runs -> Row] /\ worker \in [Threads -> Worker]
    BY DEF Inductive, TypeOK
  <2>2. Interrupted(run[r]) \in Row /\ Interrupted(run[r]).status = "FAILED"
    <3>1. Transition(run[r], "FAILED") \in Row /\ Transition(run[r], "FAILED").status = "FAILED"
      BY <2>1, RunStatusFacts DEF Transition, Row
    <3>. QED  BY <3>1 DEF Interrupted, Row
  <2>3. failed \in Row /\ failed.status = "FAILED"
    BY <2>2, SavedFields
  <2>4. /\ w \in Worker /\ w.pc = "publish" /\ w.job = r /\ w.todo = {}
        /\ w.outcome = "transient"
    BY <2>3 DEF Idle, Worker, PC, Mode, Outcome, Fault
  <2>. HIDE DEF w, failed
  <2>5. ThreadSound(w)
    BY <2>4 DEF ThreadSound, Checked, Jobless, Outcome, Fault
  <2>6. run' = [run EXCEPT ![r] = failed] /\ Becomes(Boot, w)
    BY <1>3 DEF w, failed
  <2>7. run'[r] = failed /\ \A s \in Runs : s # r => run'[s] = run[s]
    BY <2>1, <2>6
  <2>8. worker'[Boot] = w /\ \A u \in Threads : u # Boot => worker'[u] = worker[u]
    BY <2>1, <2>6, <1>1 DEF Becomes
  <2>9. run' \in [Runs -> Row] /\ worker' \in [Threads -> Worker]
    BY <2>1, <2>3, <2>4, <2>6 DEF Becomes
  <2>10. RowsSound'
    BY <2>3, <2>7 DEF Inductive, RowsSound, RowSound
  <2>11. ThreadsSound'
    BY <2>5, <2>8 DEF Inductive, ThreadsSound
  <2>12. \A u \in Workers : worker'[u].pc = "idle"
    BY <1>1, <2>8 DEF Inductive, QuietRestart, Threads
  <2>13. WorkersHold' /\ OneWorker'
    BY <2>12 DEF WorkersHold, OneWorker, HoldsRow, Occupied, Remembering, Holding, Driving
  <2>14. \A s \in Runs : Present(run[s]) <=> Present(run'[s])
    BY <1>3, <2>3, <2>7 DEF Active
  <2>15. r \in BornRuns
    BY <1>3, PresentBorn DEF Active
  <2>16. OnlyBornRuns' /\ QuietRestart'
    BY <1>1, <2>4, <2>6, <2>14, <2>15, ThreadBooks
  <2>17. Core'
    BY <2>9, <2>10, <2>11, <2>13 DEF Core
  <2>. QED  BY <1>2, <2>16, <2>17, Parts, PTL
<1>4. CASE Becomes(Boot, [Idle EXCEPT !.pc = "repair_completions"]) /\ UNCHANGED run
  <2>. DEFINE w == [Idle EXCEPT !.pc = "repair_completions"]
  <2>1. /\ w \in Worker /\ w.pc = "repair_completions" /\ w.job = NoRun /\ w.todo = {}
        /\ w.mode = "drive"
    BY InitialRows DEF Idle, Worker, PC, Mode
  <2>2. Becomes(Boot, w)
    BY <1>4
  <2>. HIDE DEF w
  <2>3. ThreadSound(w)
    BY <2>1 DEF ThreadSound, Checked, Jobless
  <2>. QED  BY <1>1, <1>2, <1>4, <2>1, <2>2, <2>3, JoblessStep DEF Holding, Driving, Remembering
<1>. QED  BY <1>3, <1>4 DEF Interrupt

\* The constructor submits the replies and retries again.
LEMMA ResubmitKeeps ==
    ASSUME Inductive, Resubmit
    PROVE  Inductive'
<1>1. /\ Boot \in Threads /\ Boot \notin Workers /\ worker[Boot].pc # "idle"
      /\ UNCHANGED <<run, conversation, calls>> /\ Becomes(Boot, Idle)
  BY ThreadsAssumption DEF Resubmit, At, Threads, store, Release
<1>2. QueuedRuns \in SUBSET BornRuns /\ QueuedRuns \subseteq Runs
  BY PresentBorn DEF QueuedRuns
<1>3. /\ IsFiniteSet(QueuedRuns) /\ queue' \in [1..Cardinality(QueuedRuns) -> QueuedRuns]
  BY <1>2, RunsAssumption, FS_Subset DEF Resubmit, Orders
<1>4. queue' \in Seq(QueuedRuns) /\ \A i \in DOMAIN queue' : queue'[i] \in QueuedRuns
  BY <1>3, FS_CardinalityType
<1>5. queue' \in Seq(Runs)
  BY <1>2, <1>4
<1>6. Ledgers'
  BY <1>5 DEF Resubmit, store, history, Inductive, TypeOK, Ledgers
<1>7. Core'
  BY <1>1, IdleSound, LocalStep
<1>8. worker' = [worker EXCEPT ![Boot] = Idle] /\ worker \in [Threads -> Worker]
  BY <1>1 DEF Becomes, Inductive, TypeOK
<1>9. BornRuns' = BornRuns
  BY <1>1 DEF BornRuns
<1>10. OnlyBornRuns'
  <2>1. \A u \in Threads : worker'[u] \in {worker[u], Idle}
    BY <1>8
  <2>2. \A u \in Threads : /\ worker'[u].job \in BornRuns \cup {NoRun}
                           /\ \A item \in worker'[u].todo : item.job \in BornRuns
    BY <2>1, OwnRuns DEF Idle
  <2>3. \A call \in calls' :
            IF call.op = "insert" THEN ~Present(run'[call.run]) ELSE call.run \in BornRuns
    BY <1>1 DEF Inductive, OnlyBornRuns
  <2>. QED  BY <1>2, <1>4, <1>9, <2>2, <2>3 DEF OnlyBornRuns
<1>11. QuietRestart'
  BY <1>1, <1>8 DEF QuietRestart, Up, At, Idle
<1>. QED  BY <1>6, <1>7, <1>10, <1>11, Parts, PTL

\* A crash forgets every thread, submission and call.
LEMMA CrashKeeps ==
    ASSUME Inductive, Crash
    PROVE  Inductive'
<1>. DEFINE boot == [Idle EXCEPT !.pc = "interrupt"]
<1>1. boot \in Worker /\ boot.pc = "interrupt" /\ boot.job = NoRun /\ boot.todo = {}
  BY InitialRows DEF Idle, Worker, PC, Mode
<1>2. Idle \in Worker /\ Idle.pc = "idle" /\ Idle.job = NoRun /\ Idle.todo = {}
  BY IdleSound DEF ThreadSound, Idle
<1>3. worker' = [t \in Threads |-> IF t = Boot THEN boot ELSE Idle]
  BY DEF Crash
<1>. HIDE DEF boot
<1>4. worker' \in [Threads -> Worker]
  BY <1>1, <1>2, <1>3
<1>5. ThreadSound(boot)
  BY <1>1 DEF ThreadSound, Checked, Jobless
<1>6. ThreadsSound'
  BY <1>3, <1>5, IdleSound DEF ThreadsSound
<1>7. \A t \in Workers : worker'[t] = Idle
  BY <1>3, ThreadsAssumption DEF Threads
<1>8. WorkersHold' /\ OneWorker'
  BY <1>7, IdleHolds DEF WorkersHold, OneWorker
<1>9. run' = run /\ RowsSound' /\ run' \in [Runs -> Row]
  BY DEF Crash, store, Inductive, RowsSound, TypeOK
<1>10. Ledgers'
  BY SMTT(60) DEF Crash, store, Inductive, TypeOK, Ledgers
<1>11. QuietRestart'
  BY <1>2, <1>7 DEF QuietRestart, Crash
<1>12. OnlyBornRuns'
  <2>1. \A t \in Threads : worker'[t].job = NoRun /\ worker'[t].todo = {}
    BY <1>1, <1>2, <1>3
  <2>2. queue' = <<>> /\ calls' = {}
    BY DEF Crash
  <2>. QED  BY <2>1, <2>2 DEF OnlyBornRuns
<1>13. Core'
  BY <1>4, <1>6, <1>8, <1>9 DEF Core
<1>. QED  BY <1>10, <1>11, <1>12, <1>13, Parts, PTL

-----------------------------------------------------------------------------
(* API calls *)

\* A client's save moves the revision of a row that nobody is remembering the
\* completion of: every worker's copy of it falls behind.
LEMMA ClientWrite ==
    ASSUME Inductive, NEW r \in Runs, Present(run[r]), NEW row,
           run' = [run EXCEPT ![r] = row], worker' = worker,
           RowSound(row), row.revision = run[r].revision + 1,
           run[r].cancel => row.cancel, run[r].status # "COMPLETED",
           run[r].status \in Active => row.status \in Active
    PROVE  Core'
<1>1. run \in [Runs -> Row] /\ worker \in [Threads -> Worker] /\ row \in Row
  BY DEF Inductive, TypeOK, RowSound
<1>2. run'[r] = row /\ \A s : s # r => run'[s] = run[s]
  BY <1>1
<1>3. RowsSound' /\ run' \in [Runs -> Row]
  BY <1>1, <1>2 DEF Inductive, RowsSound
<1>4. ThreadsSound' /\ OneWorker' /\ worker' \in [Threads -> Worker]
  BY <1>1 DEF Inductive, ThreadsSound, OneWorker, Job
<1>5. WorkersHold'
  <2> SUFFICES ASSUME NEW t \in Workers
               PROVE  HoldsRow(worker[t], run'[worker[t].job])
    BY DEF WorkersHold, Job
  <2>1. HoldsRow(worker[t], run[worker[t].job])
    BY DEF Inductive, WorkersHold, Job
  <2>2. CASE worker[t].job = r
    <3>1. ~Remembering(worker[t])
      BY <2>1, <2>2 DEF HoldsRow
    <3>2. worker[t].pc \in Driving => row.status \in Active
      BY <2>1, <2>2 DEF HoldsRow
    <3>3. worker[t] \in Worker /\ run[r] \in Row
      BY <1>1 DEF Threads
    <3>. QED  BY <1>1, <1>2, <2>1, <2>2, <3>1, <3>2, <3>3, NewerRow
  <2>3. CASE worker[t].job # r
    BY <1>2, <2>1, <2>3
  <2>. QED  BY <2>2, <2>3
<1>. QED  BY <1>3, <1>4, <1>5 DEF Core

\* A step of a client or of a call keeps the books when it calls upon inserted
\* runs only.
LEMMA CallBooks ==
    ASSUME Inductive, Up, worker' = worker, BornRuns \subseteq BornRuns',
           \/ queue' = queue
           \/ \E r \in BornRuns : queue' = Append(queue, r),
           \A call \in calls' :
               IF call.op = "insert" THEN ~Present(run'[call.run]) ELSE call.run \in BornRuns'
    PROVE  OnlyBornRuns' /\ QuietRestart'
<1>1. queue \in Seq(Runs) /\ \A i \in DOMAIN queue : queue[i] \in BornRuns
  BY DEF Inductive, TypeOK, OnlyBornRuns
<1>2. \A i \in DOMAIN queue' : queue'[i] \in BornRuns
  <2>1. ASSUME NEW r \in BornRuns, queue' = Append(queue, r)
        PROVE  \A i \in DOMAIN queue' : queue'[i] \in BornRuns
    <3>1. r \in Runs
      BY DEF BornRuns
    <3>. QED  BY <1>1, <2>1, <3>1
  <2>. QED  BY <1>1, <2>1
<1>3. \A t \in Threads : /\ worker'[t].job \in BornRuns' \cup {NoRun}
                         /\ \A item \in worker'[t].todo : item.job \in BornRuns'
  BY OwnRuns
<1>4. OnlyBornRuns'
  BY <1>2, <1>3 DEF OnlyBornRuns
<1>5. QuietRestart'
  BY DEF QuietRestart, Up, At
<1>. QED  BY <1>4, <1>5

\* Calls are in flight only while the process is up, and one about to insert is
\* the only one of its run.
LEMMA Calls ==
    ASSUME Inductive, NEW call \in calls
    PROVE  /\ Up /\ call \in Call /\ call.run \in Runs
           /\ call.op # "insert" => call.run \in BornRuns
           /\ call.op = "insert" =>
                /\ ~Present(run[call.run]) /\ call.run \notin BornRuns
                /\ \A other \in calls \ {call} : other.run # call.run
<1>1. /\ Up /\ call \in Call /\ call.run \in Runs
      /\ call.op # "insert" => call.run \in BornRuns
  BY DEF Inductive, TypeOK, OnlyBornRuns, QuietRestart, Call
<1>2. ASSUME call.op = "insert"
      PROVE  /\ ~Present(run[call.run]) /\ call.run \notin BornRuns
             /\ \A other \in calls \ {call} : other.run # call.run
  <2>1. ~Present(run[call.run]) /\ call.run \notin BornRuns
    BY <1>2 DEF Inductive, OnlyBornRuns, BornRuns
  <2>2. ASSUME NEW other \in calls \ {call}, other.run = call.run
        PROVE  FALSE
    <3>1. other \in Call /\ calls \subseteq Call
      BY DEF Inductive, TypeOK
    <3>2. other.op # "insert" => other.run \in BornRuns
      BY DEF Inductive, OnlyBornRuns
    <3>3. other.op = "insert"
      BY <2>1, <2>2, <3>2
    <3>. QED  BY <1>1, <1>2, <2>2, <3>1, <3>3 DEF Call
  <2>. QED  BY <2>1, <2>2
<1>. QED  BY <1>1, <1>2

\* A call goes on to its next transaction, or ends, without touching a row.
LEMMA CallGoesOn ==
    ASSUME Inductive, NEW call \in calls, call.op # "insert",
           NEW op \in {"post", "reply", "submit", "event"},
           Continue(call, op) \/ calls' = calls \ {call},
           UNCHANGED <<run, conversation, worker>>,
           queue' = queue \/ queue' = Append(queue, call.run)
    PROVE  Core' /\ OnlyBornRuns' /\ QuietRestart' /\ calls' \subseteq Call
<1>1. /\ Up /\ call.run \in BornRuns /\ calls \subseteq Call /\ call \in Call
  BY Calls DEF Inductive, TypeOK
<1>. DEFINE next == [call EXCEPT !.op = op]
<1>2. next \in Call /\ next.run = call.run /\ next.op # "insert"
  BY <1>1 DEF Call
<1>3. calls' \subseteq (calls \cup {next}) /\ calls' \subseteq Call
  BY <1>1, <1>2 DEF Continue
<1>. HIDE DEF next
<1>4. BornRuns \subseteq BornRuns'
  BY <1>2, <1>3, BornKept
<1>5. \A other \in calls' :
        IF other.op = "insert" THEN ~Present(run'[other.run]) ELSE other.run \in BornRuns'
  BY <1>1, <1>2, <1>3, <1>4 DEF Inductive, OnlyBornRuns
<1>6. OnlyBornRuns' /\ QuietRestart'
  BY <1>1, <1>4, <1>5, CallBooks
<1>7. Core'
  BY DEF Core, Inductive, TypeOK, RowsSound, ThreadsSound, WorkersHold, OneWorker, Job
<1>. QED  BY <1>3, <1>6, <1>7

\* _messages.user_message of a new run or of a reply.
LEMMA PostedThread ==
    ASSUME Inductive, NEW r \in Runs,
           \/ messages' = [messages EXCEPT ![r].question = TRUE]
           \/ messages' = [messages EXCEPT ![r].replies = @ + 1]
    PROVE  messages' \in [Runs -> Thread]
<1>1. messages \in [Runs -> Thread] /\ messages[r] \in Thread
  BY DEF Inductive, TypeOK
<1>2. CASE messages' = [messages EXCEPT ![r].question = TRUE]
  <2>1. [messages[r] EXCEPT !.question = TRUE] \in Thread
    BY <1>1 DEF Thread
  <2>. QED  BY <1>1, <1>2, <2>1
<1>3. CASE messages' = [messages EXCEPT ![r].replies = @ + 1]
  <2>1. [messages[r] EXCEPT !.replies = @ + 1] \in Thread
    BY <1>1 DEF Thread
  <2>. QED  BY <1>1, <1>3, <2>1
<1>. QED  BY <1>2, <1>3

\* The transactions of calls in flight, but the insertion.
LEMMA CallKeeps ==
    ASSUME Inductive, NEW call \in calls,
           PostQuestion(call) \/ PostReply(call) \/ Submit(call) \/ PublishCancel(call)
    PROVE  Inductive'
<1>1. call.run \in Runs /\ call.op # "insert"
  BY Calls DEF PostQuestion, PostReply, Submit, PublishCancel
<1>2. Core' /\ OnlyBornRuns' /\ QuietRestart' /\ calls' \subseteq Call
  <2>1. Continue(call, "submit") \/ calls' = calls \ {call}
    BY DEF PostQuestion, PostReply, Submit, PublishCancel
  <2>2. UNCHANGED <<run, conversation, worker>>
    BY DEF PostQuestion, PostReply, Submit, PublishCancel, store
  <2>3. queue' = queue \/ queue' = Append(queue, call.run)
    BY DEF PostQuestion, PostReply, Submit, PublishCancel
  <2>. QED  BY <1>1, <2>1, <2>2, <2>3, CallGoesOn
<1>3. CASE PostQuestion(call) \/ PostReply(call)
  <2>1. messages' \in [Runs -> Thread]
    BY <1>1, <1>3, PostedThread DEF PostQuestion, PostReply
  <2>2. UNCHANGED <<log, memory, conversation, clock, queue, history>>
    BY <1>3 DEF PostQuestion, PostReply
  <2>3. Ledgers'
    BY <1>2, <2>1, <2>2 DEF history, Inductive, TypeOK, Ledgers
  <2>. QED  BY <1>2, <2>3, Parts, PTL
<1>4. CASE Submit(call)
  <2>1. queue' \in Seq(Runs)
    BY <1>1, <1>4 DEF Submit, Inductive, TypeOK
  <2>2. Ledgers'
    BY <1>2, <1>4, <2>1 DEF Submit, store, history, Inductive, TypeOK, Ledgers
  <2>. QED  BY <1>2, <2>2, Parts, PTL
<1>5. CASE PublishCancel(call)
  <2>1. log' \in [Runs -> Seq(EventType)]
    BY <1>5, AppendTyped DEF PublishCancel, EventType
  <2>2. Ledgers'
    BY <1>2, <1>5, <2>1 DEF PublishCancel, history, Inductive, TypeOK, Ledgers
  <2>. QED  BY <1>2, <2>2, Parts, PTL
<1>. QED  BY <1>3, <1>4, <1>5

\* create() inserts its row: no thread works on the run yet.
LEMMA InsertRunKeeps ==
    ASSUME Inductive, NEW call \in calls, InsertRun(call)
    PROVE  Inductive'
<1>. DEFINE r == call.run
            next == [call EXCEPT !.op = "post"]
<1>1. /\ Up /\ call \in Call /\ r \in Runs /\ ~Present(run[r]) /\ r \notin BornRuns
      /\ \A other \in calls \ {call} : other.run # r
      /\ calls \subseteq Call /\ run \in [Runs -> Row] /\ worker \in [Threads -> Worker]
  BY Calls DEF InsertRun, Inductive, TypeOK
<1>2. next \in Call /\ next.run = r /\ next.op = "post"
  BY <1>1 DEF Call
<1>3. /\ run' = [run EXCEPT ![r] = NewRow] /\ calls' = (calls \ {call}) \cup {next}
      /\ UNCHANGED <<conversation, worker, queue>>
  BY DEF InsertRun, Continue
<1>4. NewRow \in Row /\ Present(NewRow) /\ RowSound(NewRow)
  <2>1. NewRow.status = "CREATED" /\ NewRow.cancel = FALSE
    BY DEF NewRow, NoRow
  <2>. QED  BY <2>1, InitialRows DEF RowSound
<1>. HIDE DEF next
<1>5. run'[r] = NewRow /\ \A s \in Runs : s # r => run'[s] = run[s]
  BY <1>1, <1>3
<1>6. BornRuns \subseteq BornRuns' /\ r \in BornRuns'
  BY <1>1, <1>2, <1>3, <1>4, <1>5 DEF BornRuns
<1>7. \A other \in calls' :
        IF other.op = "insert" THEN ~Present(run'[other.run]) ELSE other.run \in BornRuns'
  <2>1. \A other \in calls : IF other.op = "insert" THEN ~Present(run[other.run])
                                                    ELSE other.run \in BornRuns
    BY DEF Inductive, OnlyBornRuns
  <2>2. \A other \in calls : other.run \in Runs
    BY <1>1 DEF Call
  <2>. QED  BY <1>1, <1>2, <1>3, <1>5, <1>6, <2>1, <2>2
<1>8. OnlyBornRuns' /\ QuietRestart'
  BY <1>1, <1>3, <1>6, <1>7, CallBooks
<1>9. Core'
  <2>1. RowsSound' /\ run' \in [Runs -> Row]
    BY <1>1, <1>3, <1>4, <1>5 DEF Inductive, RowsSound
  <2>2. ThreadsSound' /\ OneWorker' /\ worker' \in [Threads -> Worker]
    BY <1>1, <1>3 DEF Inductive, ThreadsSound, OneWorker, Job
  <2>3. WorkersHold'
    <3>1. \A t \in Workers : worker[t].job # r
      BY <1>1, OwnRuns, RunsAssumption DEF Threads
    <3>2. \A t \in Workers : run'[worker[t].job] = run[worker[t].job]
      BY <1>1, <1>3, <3>1
    <3>. QED  BY <1>3, <3>2 DEF Inductive, WorkersHold, Job
  <2>. QED  BY <2>1, <2>2, <2>3 DEF Core
<1>10. Ledgers'
  <2>1. calls' \subseteq Call
    BY <1>1, <1>2, <1>3
  <2>. QED  BY <2>1 DEF InsertRun, history, Inductive, TypeOK, Ledgers
<1>. QED  BY <1>8, <1>9, <1>10, Parts, PTL

\* create() before its insertion: the run has no row and no call.
LEMMA CreateRunKeeps ==
    ASSUME Inductive, NEW r \in Runs, CreateRun(r)
    PROVE  Inductive'
<1>. DEFINE call == [op |-> "insert", run |-> r]
<1>1. /\ Up /\ conversation = "active" /\ ~Present(run[r])
      /\ calls' = calls \cup {call} /\ call \in Call /\ calls \subseteq Call
      /\ UNCHANGED <<run, conversation, worker, queue>>
  BY DEF CreateRun, store, Call, Inductive, TypeOK
<1>2. r \notin BornRuns /\ call.run = r /\ call.op = "insert"
  BY <1>1 DEF BornRuns
<1>. HIDE DEF call
<1>3. BornRuns \subseteq BornRuns'
  BY <1>1, <1>2 DEF BornRuns
<1>4. \A other \in calls' :
        IF other.op = "insert" THEN ~Present(run'[other.run]) ELSE other.run \in BornRuns'
  BY <1>1, <1>2, <1>3 DEF Inductive, OnlyBornRuns
<1>5. OnlyBornRuns' /\ QuietRestart'
  BY <1>1, <1>3, <1>4, CallBooks
<1>6. Core'
  BY <1>1 DEF Core, Inductive, TypeOK, RowsSound, ThreadsSound, WorkersHold, OneWorker, Job
<1>7. Ledgers'
  BY <1>1 DEF CreateRun, store, history, Inductive, TypeOK, Ledgers
<1>. QED  BY <1>5, <1>6, <1>7, Parts, PTL

\* A client's save of a run it has read, with the call that goes on from it.
LEMMA ClientSaves ==
    ASSUME Inductive, Up, NEW r \in Runs, Present(run[r]), run[r].status # "COMPLETED",
           NEW row \in Row, run' = [run EXCEPT ![r] = Saved(row)],
           RowSound(row), Present(row), row.revision = run[r].revision,
           run[r].cancel => row.cancel, run[r].status \in Active => row.status \in Active,
           \/ calls' = calls
           \/ \E op \in {"reply", "submit", "event"} :
                calls' = calls \cup {[op |-> op, run |-> r]},
           UNCHANGED <<log, messages, memory, conversation, clock, worker, queue, asked, crashes>>,
           replied' \in [Runs -> Nat], retried' \in [Runs -> Nat], cancels' \in Nat
    PROVE  Inductive'
<1>1. /\ Saved(row) \in Row /\ Saved(row).status = row.status
      /\ Saved(row).cancel = row.cancel /\ Saved(row).response = row.response
      /\ Saved(row).revision = run[r].revision + 1
  BY SavedFields
<1>2. RowSound(Saved(row)) /\ Present(Saved(row))
  BY <1>1 DEF RowSound
<1>3. run[r].cancel => Saved(row).cancel
  BY <1>1
<1>4. Core'
  BY <1>1, <1>2, <1>3, ClientWrite
<1>5. run \in [Runs -> Row] /\ calls \subseteq Call /\ r \in BornRuns
  BY PresentBorn DEF Inductive, TypeOK
<1>6. \A s \in Runs : Present(run'[s]) <=> Present(run[s])
  BY <1>2, <1>5
<1>7. calls' \subseteq Call
  BY <1>5 DEF Call
<1>8. \A call \in calls' : call \in calls \/ (call.op # "insert" /\ call.run = r)
  OBVIOUS
<1>9. BornRuns \subseteq BornRuns'
  BY <1>6, <1>8, BornKept
<1>10. \A call \in calls' :
        IF call.op = "insert" THEN ~Present(run'[call.run]) ELSE call.run \in BornRuns'
  <2>1. \A call \in calls : IF call.op = "insert" THEN ~Present(run[call.run])
                                                  ELSE call.run \in BornRuns
    BY DEF Inductive, OnlyBornRuns
  <2>2. \A call \in calls : call.run \in Runs
    BY <1>5 DEF Call
  <2>. QED  BY <1>5, <1>6, <1>8, <1>9, <2>1, <2>2
<1>11. OnlyBornRuns' /\ QuietRestart'
  BY <1>9, <1>10, CallBooks
<1>12. Ledgers'
  BY <1>7 DEF Inductive, TypeOK, Ledgers
<1>. QED  BY <1>4, <1>11, <1>12, Parts, PTL

\* cancel() of a run that waits for its user.
LEMMA CancelWaitingKeeps ==
    ASSUME Inductive, NEW r \in Runs, CancelWaiting(r)
    PROVE  Inductive'
<1>. DEFINE row == Transition(run[r], "CANCELLED")
<1>1. /\ Up /\ run[r] \in Row /\ run[r].status = "WAITING_USER" /\ Present(run[r])
      /\ run' = [run EXCEPT ![r] = Saved(row)] /\ run[r].status \notin Active
  BY DEF CancelWaiting, Inductive, TypeOK, Active
<1>2. row \in Row /\ row.status = "CANCELLED"
  BY <1>1, RunStatusFacts DEF Transition, Row
<1>3. row.revision = run[r].revision /\ row.cancel = run[r].cancel
  BY <1>1 DEF Transition, Row
<1>. HIDE DEF row
<1>4. RowSound(row) /\ Present(row)
  BY <1>2 DEF RowSound
<1>5. /\ calls' = calls \cup {[op |-> "event", run |-> r]}
      /\ UNCHANGED <<log, messages, memory, conversation, clock, worker, queue, asked, crashes>>
      /\ replied' \in [Runs -> Nat] /\ retried' \in [Runs -> Nat] /\ cancels' \in Nat
  BY DEF CancelWaiting, Inductive, TypeOK
<1>. QED  BY <1>1, <1>2, <1>3, <1>4, <1>5, ClientSaves

\* cancel() of a run a worker has or will have: an active status stays.
LEMMA RequestCancelKeeps ==
    ASSUME Inductive, NEW r \in Runs, RequestCancel(r)
    PROVE  Inductive'
<1>. DEFINE row == [run[r] EXCEPT !.cancel = TRUE]
<1>1. /\ Up /\ run[r] \in Row /\ Present(run[r]) /\ run[r].status \notin Terminal
      /\ run' = [run EXCEPT ![r] = Saved(row)]
  BY DEF RequestCancel, Inductive, TypeOK
<1>2. /\ row \in Row /\ row.status = run[r].status /\ row.revision = run[r].revision
      /\ row.cancel = TRUE /\ row.response = run[r].response
  BY <1>1 DEF Row
<1>. HIDE DEF row
<1>3. RowSound(row) /\ Present(row) /\ run[r].status # "COMPLETED"
  BY <1>1, <1>2 DEF RowSound, Terminal, Settled
<1>4. /\ calls' = calls
      /\ UNCHANGED <<log, messages, memory, conversation, clock, worker, queue, asked, crashes>>
      /\ replied' \in [Runs -> Nat] /\ retried' \in [Runs -> Nat] /\ cancels' \in Nat
  BY SMTT(60) DEF RequestCancel, process, Inductive, TypeOK
<1>. QED  BY <1>1, <1>2, <1>3, <1>4, ClientSaves

\* clarify() and retry() queue the run again.
LEMMA QueuedAgainKeeps ==
    ASSUME Inductive, NEW r \in Runs, Clarify(r) \/ Retry(r)
    PROVE  Inductive'
<1>. DEFINE row == [run[r] EXCEPT !.queued = TRUE]
<1>1. /\ Up /\ run[r] \in Row /\ RowSound(run[r])
      /\ run[r].status \in {"WAITING_USER", "FAILED"}
      /\ run' = [run EXCEPT ![r] = Saved(row)]
  BY DEF Clarify, Retry, Inductive, TypeOK, RowsSound
<1>2. /\ row \in Row /\ row.status = run[r].status /\ row.revision = run[r].revision
      /\ row.cancel = run[r].cancel /\ row.response = run[r].response
  BY <1>1 DEF Row
<1>. HIDE DEF row
<1>3. RowSound(row) /\ Present(row) /\ Present(run[r]) /\ run[r].status # "COMPLETED"
  BY <1>1, <1>2 DEF RowSound
<1>4. \E op \in {"reply", "submit"} : calls' = calls \cup {[op |-> op, run |-> r]}
  BY DEF Clarify, Retry
<1>5. replied' \in [Runs -> Nat] /\ retried' \in [Runs -> Nat] /\ cancels' \in Nat
  <2>1. replied \in [Runs -> Nat] /\ retried \in [Runs -> Nat] /\ cancels \in Nat
    BY DEF Inductive, TypeOK
  <2>2. CASE Clarify(r)
    BY <2>1, <2>2 DEF Clarify
  <2>3. CASE Retry(r)
    BY <2>1, <2>3 DEF Retry
  <2>. QED  BY <2>2, <2>3
<1>6. UNCHANGED <<log, messages, memory, conversation, clock, worker, queue, asked, crashes>>
  BY DEF Clarify, Retry
<1>. QED  BY <1>1, <1>2, <1>3, <1>4, <1>5, <1>6, ClientSaves

\* delete(): no worker drives a run of the conversation, the guard says so; one
\* that still publishes finds no row.
LEMMA DeleteConversationKeeps ==
    ASSUME Inductive, DeleteConversation
    PROVE  Inductive'
<1>1. /\ Up /\ conversation' = "deleted" /\ run' = [r \in Runs |-> NoRow]
      /\ UNCHANGED <<worker, queue, calls>> /\ run \in [Runs -> Row]
      /\ worker \in [Threads -> Worker]
  BY DEF DeleteConversation, process, Inductive, TypeOK
<1>2. NoRow \in Row /\ ~Present(NoRow) /\ RowSound(NoRow)
  <2>1. NoRow.status = "ABSENT" /\ NoRow.cancel = FALSE
    BY DEF NoRow
  <2>. QED  BY <2>1, InitialRows DEF RowSound
<1>3. RowsSound' /\ run' \in [Runs -> Row]
  BY <1>1, <1>2 DEF RowsSound
<1>4. ThreadsSound' /\ OneWorker' /\ worker' \in [Threads -> Worker]
  BY <1>1 DEF Inductive, ThreadsSound, OneWorker, Job
<1>5. WorkersHold'
  <2> SUFFICES ASSUME NEW t \in Workers
               PROVE  HoldsRow(worker[t], run'[worker[t].job])
    BY <1>1 DEF WorkersHold, Job
  <2>1. HoldsRow(worker[t], run[worker[t].job]) /\ t \in Threads
    BY OwnRuns DEF Threads
  <2>2. worker[t].pc \notin Driving \ {"except"}
    <3>1. ASSUME worker[t].pc \in Driving \ {"except"}
          PROVE  FALSE
      <4>1. Job(t) \in Runs /\ Present(run[Job(t)]) /\ run[Job(t)].status \in Active
        BY <3>1, DrivenRow
      <4>. QED  BY <4>1 DEF DeleteConversation, Active, Settled
    <3>. QED  BY <3>1
  <2>3. CASE worker[t].job \in Runs
    <3>1. run'[worker[t].job] = NoRow /\ NoRow.status = "ABSENT"
      BY <1>1, <2>3 DEF NoRow
    <3>. QED  BY <2>2, <3>1 DEF HoldsRow
  <2>4. CASE worker[t].job \notin Runs
    <3>1. worker[t].pc \in Jobless
      BY <2>1, <2>4, OwnRuns
    <3>. QED  BY <3>1 DEF HoldsRow, Jobless, Holding, Driving, Remembering
  <2>. QED  BY <2>3, <2>4
<1>6. Core'
  BY <1>3, <1>4, <1>5 DEF Core
<1>7. BornRuns \subseteq BornRuns'
  BY <1>1 DEF BornRuns
<1>8. \A call \in calls' :
        IF call.op = "insert" THEN ~Present(run'[call.run]) ELSE call.run \in BornRuns'
  <2>1. \A call \in calls : call.run \in Runs /\ (call.op # "insert" => call.run \in BornRuns)
    BY Calls
  <2>. QED  BY <1>1, <1>2, <1>7, <2>1
<1>9. OnlyBornRuns' /\ QuietRestart'
  BY <1>1, <1>7, <1>8, CallBooks
<1>10. Ledgers'
  <2>1. NewMemory \in [last: Runs \cup {NoRun}, revision: Nat, stamp: Nat] /\ NoThread \in Thread
    BY DEF NewMemory, NoThread, Thread
  <2>2. log' \in [Runs -> Seq(EventType)] /\ messages' \in [Runs -> Thread]
        /\ memory' \in [last: Runs \cup {NoRun}, revision: Nat, stamp: Nat]
    BY <2>1 DEF DeleteConversation
  <2>. QED  BY <1>1, <2>2 DEF DeleteConversation, history, Inductive, TypeOK, Ledgers
<1>. QED  BY <1>6, <1>9, <1>10, Parts, PTL

-----------------------------------------------------------------------------
(* The inductive invariant *)

\* A process that has created nothing.
LEMMA InitInductive == Init => Inductive
<1> SUFFICES ASSUME Init PROVE Inductive
  OBVIOUS
<1>1. run = [r \in Runs |-> NoRow] /\ worker = [t \in Threads |-> Idle]
  BY DEF Init
<1>2. Idle \in Worker /\ Idle.pc = "idle" /\ Idle.job = NoRun /\ Idle.todo = {}
  BY IdleSound DEF ThreadSound, Idle
<1>3. run \in [Runs -> Row] /\ worker \in [Threads -> Worker]
  BY <1>1, <1>2, InitialRows
<1>4. RowsSound
  <2>1. NoRow.status = "ABSENT" /\ NoRow.cancel = FALSE
    BY DEF NoRow
  <2>. QED  BY <1>1, <2>1, InitialRows DEF RowsSound, RowSound
<1>5. ThreadsSound
  BY <1>1, IdleSound DEF ThreadsSound
<1>6. WorkersHold /\ OneWorker
  <2>1. \A t \in Workers : worker[t] = Idle
    BY <1>1 DEF Threads
  <2>. QED  BY <2>1, IdleHolds DEF WorkersHold, OneWorker
<1>7. Core
  BY <1>3, <1>4, <1>5, <1>6 DEF Core
<1>8. Ledgers
  <2>1. NewMemory \in [last: Runs \cup {NoRun}, revision: Nat, stamp: Nat] /\ NoThread \in Thread
    BY DEF NewMemory, NoThread, Thread
  <2>. QED  BY <2>1 DEF Init, Ledgers
<1>9. OnlyBornRuns /\ QuietRestart
  <2>1. \A t \in Threads : worker[t].job = NoRun /\ worker[t].todo = {} /\ worker[t].pc = "idle"
    BY <1>1, <1>2
  <2>. QED  BY SMTT(60), <2>1 DEF Init, OnlyBornRuns, QuietRestart, Threads
<1>. QED  BY <1>7, <1>8, <1>9, Parts

\* Every step of every worker, of the constructor, of a client, and a crash.
LEMMA NextInductive == Inductive /\ [Next]_vars => Inductive'
<1> SUFFICES ASSUME Inductive, [Next]_vars PROVE Inductive'
  OBVIOUS
<1>1. ASSUME NEW t \in Workers, Drive(t) PROVE Inductive'
  BY <1>1, ClaimKeeps, StartedKeeps, BeginKeeps, ContextKeeps, ContextCheckedKeeps,
     DiscoverKeeps, AskStartedKeeps, AskKeeps, AdvanceKeeps, SettleFaultKeeps,
     SettleBlockKeeps, SettleQuestionKeeps, SettleAnswerKeeps, CancelRunKeeps,
     LoseSaveKeeps, ExceptKeeps, FailureCheckedKeeps, FailRunKeeps DEF Drive
<1>2. ASSUME NEW t \in Threads, Publishing(t) PROVE Inductive'
  BY <1>2, PostMessageKeeps, ReadMemoryKeeps, ReadMemoryRevisionKeeps, PutMemoryKeeps,
     PublishKeeps, ListCompletionsKeeps, ListClarificationsKeeps, RepairNextKeeps,
     RepairDoneKeeps DEF Publishing
<1>3. ASSUME NEW t \in Workers, WorkerStep(t) PROVE Inductive'
  BY <1>1, <1>2, <1>3, PickKeeps DEF WorkerStep, Threads
<1>4. CASE BootStep
  BY <1>2, <1>4, InterruptKeeps, ResubmitKeeps DEF BootStep, Threads
<1>5. CASE CallStep
  BY <1>5, InsertRunKeeps, CallKeeps DEF CallStep
<1>6. CASE ClientStep
  BY <1>6, CreateRunKeeps, CancelWaitingKeeps, RequestCancelKeeps, QueuedAgainKeeps,
     DeleteConversationKeeps DEF ClientStep
<1>7. CASE Crash
  BY <1>7, CrashKeeps
<1>8. CASE UNCHANGED vars
  BY ZenonT(60), <1>8 DEF vars, store, process, history, Inductive, TypeOK, RowsSound, ThreadsSound,
              WorkersHold, OneWorker, OnlyBornRuns, BornRuns, QuietRestart, Up, At, Job
<1>. QED  BY <1>3, <1>4, <1>5, <1>6, <1>7, <1>8 DEF Next

\* The invariant the following theorems rest on, for every number of runs and
\* workers and every bound.
THEOREM InductiveInvariant == Spec => []Inductive
BY InitInductive, NextInductive, PTL DEF Spec

\* Every state of the runtime is well typed: among others, every event that is
\* announced is the event of an outcome, and every revision a number.
THEOREM TypesHold == Spec => []TypeOK
<1>1. Inductive => TypeOK
  BY DEF Inductive
<1>. QED  BY <1>1, InductiveInvariant, PTL

\* The copy a worker saves back is the row whenever save()'s comparison of the
\* revision succeeds, so no column another writer changed is ever overwritten.
THEOREM SnapshotsAreCurrent == Spec => []SnapshotCurrent
<1>1. Inductive => SnapshotCurrent
  BY DEF Inductive, WorkersHold, HoldsRow, SnapshotCurrent, Snap
<1>. QED  BY <1>1, InductiveInvariant, PTL

\* Two workers never drive one run, whatever was submitted and resubmitted.
THEOREM RunsHaveOneDriver == Spec => []OneDriver
<1>1. Inductive => OneDriver
  BY DEF Inductive, OneWorker, Occupied, OneDriver, Drives
<1>. QED  BY <1>1, InductiveInvariant, PTL

\* A cancel request is never overtaken by a completion, a question or a block.
THEOREM CancelRequestsWin == Spec => []CancelWins
<1>1. Inductive => CancelWins
  BY DEF Inductive, RowsSound, RowSound, CancelWins
<1>. QED  BY <1>1, InductiveInvariant, PTL

-----------------------------------------------------------------------------
(* What a worker's save makes of its row and of itself *)

\* A worker that drove or claimed a run saves `row' over its row and goes on as `w'.
Saves(t, row, w) ==
    /\ worker[t].pc \in Holding /\ Fresh(t)
    /\ run' = [run EXCEPT ![Job(t)] = row] /\ Becomes(t, w)
    /\ log' = log \/ AppendEvent(Job(t), "PROGRESS")
    /\ UNCHANGED <<messages, memory, conversation, queue, calls, history>>

\* The saved row: nobody else wrote it, and it is none that waits for a worker.
Settles(t, row) ==
    /\ row \in Row /\ Present(row) /\ ~Runnable(row)
    /\ row.revision = run[Job(t)].revision + 1 /\ row.cancel = run[Job(t)].cancel
    /\ At(t, "claim") => row.status \in Active
    /\ row.status \in {"COMPLETED", "WAITING_USER"} => At(t, "settle")

\* The thread after a save: a drive goes on exactly when the run is still active, and only
\* a completed run gets its answer.
Proceeds(t, row, w) ==
    /\ w.snap = row /\ w.job = Job(t) /\ w.todo = worker[t].todo /\ w.mode = worker[t].mode
    /\ w.pc \in Driving => worker[t].pc \notin {"cancel", "check_failure", "fail"}
    /\ w.pc # "claim" /\ (w.pc \in Driving <=> row.status \in Active)
    /\ Answering(w) => row.status = "COMPLETED"
    /\ w.pc \in Driving \ Early => worker[t].pc \in Driving \ Early
    /\ w.pc \in BeforeAsk => worker[t].pc \in BeforeAsk \cup {"claim"}

\* save() leaves a row where it is, but for its revision.
LEMMA SavedPlace ==
    ASSUME NEW row \in Row
    PROVE  /\ Saved(row) \in Row /\ Saved(row).status = row.status
           /\ Saved(row).queued = row.queued /\ Saved(row).cancel = row.cancel
           /\ Saved(row).revision = row.revision + 1
<1>1. Saved(row) \in Row /\ Saved(row).status = row.status /\ Saved(row).queued = row.queued
  BY DEF Saved, Row
<1>2. Saved(row).cancel = row.cancel /\ Saved(row).revision = row.revision + 1
  BY DEF Saved, Row
<1>. QED  BY <1>1, <1>2

\* What transition() makes of a copy waits for no worker.
LEMMA MovedPlace ==
    ASSUME Inductive, NEW t \in Workers, worker[t].pc \in Holding, MaySave(t)
    PROVE  /\ Fresh(t) /\ Moved(t) \in Row /\ Moved(t).status = Target(t)
           /\ Moved(t).queued = FALSE /\ Target(t) \in RunStatus
           /\ Moved(t).revision = run[Job(t)].revision /\ Moved(t).cancel = run[Job(t)].cancel
<1>1. /\ Fresh(t) /\ Moved(t) \in Row /\ Moved(t).status = Target(t) /\ Present(Moved(t))
      /\ Snap(t) \in Row /\ Snap(t) = run[Job(t)] /\ Target(t) \in RunStatus
  BY MovedRow
<1>2. Moved(t).queued = FALSE /\ Moved(t).revision = Snap(t).revision
  BY <1>1 DEF Moved, Transition, Row
<1>3. Moved(t).cancel = Snap(t).cancel
  BY <1>1 DEF Moved, Transition, Row
<1>. QED  BY <1>1, <1>2, <1>3

\* A copy that is saved after its transition settles its row.
LEMMA SettlesMoved ==
    ASSUME Inductive, NEW t \in Workers, NEW row \in Row,
           row.status \in RunStatus \ {"CREATED"},
           row.queued = FALSE \/ row.status \in Active,
           row.revision = run[Job(t)].revision, row.cancel = run[Job(t)].cancel,
           At(t, "claim") => row.status \in Active,
           row.status \in {"COMPLETED", "WAITING_USER"} => At(t, "settle")
    PROVE  Settles(t, Saved(row))
<1>1. /\ Saved(row) \in Row /\ Saved(row).status = row.status
      /\ Saved(row).queued = row.queued
      /\ Saved(row).cancel = row.cancel /\ Saved(row).revision = row.revision + 1
  BY SavedPlace
<1>2. ~Runnable(Saved(row))
  BY <1>1 DEF Runnable, Active
<1>3. Present(Saved(row))
  BY <1>1, RunStatusFacts
<1>. QED  BY <1>1, <1>2, <1>3 DEF Settles

\* The claim makes the run active and this thread its driver.
LEMMA ClaimSaves ==
    ASSUME Inductive, NEW t \in Workers, Claim(t), MaySave(t)
    PROVE  \E row, w : Saves(t, row, w) /\ Settles(t, row) /\ Proceeds(t, row, w)
<1>. DEFINE row == [Moved(t) EXCEPT !.retryable = FALSE, !.response = "none"]
            w == [worker[t] EXCEPT !.snap = Saved(row), !.pc = "started"]
<1>1. worker[t].pc = "claim" /\ worker[t].pc \in Holding /\ Target(t) = "CONTEXTUALIZING"
  BY DEF Claim, At, Holding, Target
<1>2. /\ Fresh(t) /\ Moved(t) \in Row /\ Moved(t).status = Target(t)
      /\ Moved(t).queued = FALSE
      /\ Moved(t).revision = run[Job(t)].revision /\ Moved(t).cancel = run[Job(t)].cancel
  BY <1>1, MovedPlace
<1>3. row \in Row /\ row.status = Moved(t).status /\ row.queued = Moved(t).queued
  BY <1>2 DEF Row, Response
<1>4. row.revision = Moved(t).revision /\ row.cancel = Moved(t).cancel
  BY <1>2 DEF Row
<1>5. SaveRow(t, row) /\ Becomes(t, w)
  BY DEF Claim, Write
<1>6. /\ w.snap = Saved(row) /\ w.job = Job(t) /\ w.todo = worker[t].todo
      /\ w.mode = worker[t].mode /\ w.pc = "started"
  BY OwnRuns DEF Worker, Threads, Job
<1>. HIDE DEF row, w
<1>7. Settles(t, Saved(row))
  BY <1>1, <1>2, <1>3, <1>4, SettlesMoved DEF RunStatus, Active
<1>8. Saved(row).status \in Active
  BY <1>1, <1>2, <1>3, SavedPlace DEF Active
<1>9. Proceeds(t, Saved(row), w)
  BY <1>1, <1>6, <1>8 DEF Proceeds, Driving, Early, BeforeAsk, Answering
<1>10. Saves(t, Saved(row), w)
  BY <1>1, <1>2, <1>5 DEF Saves, SaveRow, Claim
<1>. QED  BY <1>7, <1>9, <1>10

\* The saves that only move the row, or nothing of it, and go on to another place.
LEMMA MoveSaves ==
    ASSUME Inductive, NEW t \in Workers, worker[t].pc \in Holding, Fresh(t),
           NEW row \in Row, SaveRow(t, row), row.queued = FALSE \/ row.status \in Active,
           row.status \in RunStatus \ {"CREATED"},
           row.revision = run[Job(t)].revision, row.cancel = run[Job(t)].cancel,
           At(t, "claim") => row.status \in Active,
           row.status \in {"COMPLETED", "WAITING_USER"} => At(t, "settle"),
           NEW w, Becomes(t, w), w.snap = Saved(row), w.job = Job(t),
           w.todo = worker[t].todo, w.mode = worker[t].mode,
           w.pc \in Driving => worker[t].pc \notin {"cancel", "check_failure", "fail"},
           w.pc # "claim", w.pc \in Driving <=> row.status \in Active,
           Answering(w) => row.status = "COMPLETED",
           w.pc \in Driving \ Early => worker[t].pc \in Driving \ Early,
           w.pc \in BeforeAsk => worker[t].pc \in BeforeAsk \cup {"claim"},
           log' = log \/ AppendEvent(Job(t), "PROGRESS"),
           UNCHANGED <<messages, memory, conversation, queue, calls, history>>
    PROVE  \E saved, to : Saves(t, saved, to) /\ Settles(t, saved) /\ Proceeds(t, saved, to)
<1>1. Settles(t, Saved(row))
  BY SettlesMoved
<1>2. Saved(row).status = row.status
  BY SavedPlace
<1>3. Proceeds(t, Saved(row), w)
  BY <1>2 DEF Proceeds
<1>4. Saves(t, Saved(row), w)
  BY DEF Saves, SaveRow
<1>. QED  BY <1>1, <1>3, <1>4

\* The saved context leaves the run active.
LEMMA ContextSaves ==
    ASSUME Inductive, NEW t \in Workers, Context(t), Fresh(t),
           Write(t, Snap(t), "check_context"), AppendEvent(Job(t), "PROGRESS")
    PROVE  \E row, w : Saves(t, row, w) /\ Settles(t, row) /\ Proceeds(t, row, w)
<1>. DEFINE row == Snap(t)
            w == [worker[t] EXCEPT !.snap = Saved(row), !.pc = "check_context"]
<1>1. worker[t].pc = "context" /\ worker[t].pc \in Holding /\ worker[t].pc \in Driving \ {"except"}
  BY DEF Context, At, Holding, Driving
<1>2. row \in Row /\ row = run[Job(t)] /\ row.status \in Active
  BY <1>1, FreshCopy, DrivenRow
<1>3. SaveRow(t, row) /\ Becomes(t, w)
  BY DEF Write
<1>4. /\ w.snap = Saved(row) /\ w.job = Job(t) /\ w.todo = worker[t].todo
      /\ w.mode = worker[t].mode /\ w.pc = "check_context"
  BY OwnRuns DEF Worker, Threads, Job
<1>. HIDE DEF w
<1>5. row.status \in RunStatus \ {"CREATED", "COMPLETED", "WAITING_USER"}
  BY <1>2 DEF RunStatus, Active
<1>6. UNCHANGED <<messages, memory, conversation, queue, calls, history>>
  BY DEF Context
<1>. QED  BY <1>1, <1>2, <1>3, <1>4, <1>5, <1>6, MoveSaves
          DEF Driving, Early, BeforeAsk, Answering, At

\* DISCOVERING is saved before the router fails, asks or lets the Ask start.
LEMMA DiscoverSaves ==
    ASSUME Inductive, NEW t \in Workers, Discover(t)
    PROVE  \E row, w : Saves(t, row, w) /\ Settles(t, row) /\ Proceeds(t, row, w)
<1>. DEFINE row == Moved(t)
<1>1. /\ worker[t].pc = "discover" /\ worker[t].pc \in Holding /\ MaySave(t)
      /\ Target(t) = "DISCOVERING"
  BY DEF Discover, At, Holding, Driving, Target
<1>2. /\ Fresh(t) /\ row \in Row /\ row.status = "DISCOVERING" /\ row.queued = FALSE
      /\ row.revision = run[Job(t)].revision /\ row.cancel = run[Job(t)].cancel
  BY <1>1, MovedPlace
<1>3. SaveRow(t, row) /\ log' = log
      /\ UNCHANGED <<messages, memory, conversation, queue, calls, history>>
  BY DEF Discover
<1>4. PICK label \in {"check_ask", "settle", "except"}, w \in {worker'[t]} :
        /\ Becomes(t, w) /\ w.snap = Saved(row) /\ w.job = Job(t)
        /\ w.todo = worker[t].todo /\ w.mode = worker[t].mode /\ w.pc = label
  <2>. DEFINE asking == [worker[t] EXCEPT !.snap = Saved(row), !.pc = "check_ask"]
  <2>1. worker[t] \in Worker /\ worker \in [Threads -> Worker] /\ t \in Threads
    BY OwnRuns DEF Threads, Inductive, TypeOK
  <2>2. CASE Becomes(t, asking)
    <3>1. worker'[t] = asking
      BY <2>1, <2>2 DEF Becomes
    <3>2. /\ asking.snap = Saved(row) /\ asking.job = Job(t) /\ asking.todo = worker[t].todo
          /\ asking.mode = worker[t].mode /\ asking.pc = "check_ask"
      BY <2>1 DEF Worker, Job
    <3>. HIDE DEF asking
    <3>. QED  BY <2>2, <3>1, <3>2
  <2>3. ASSUME NEW outcome \in Fault \cup {"question"},
               Becomes(t, [worker[t] EXCEPT
                    !.snap = Saved(row), !.outcome = outcome,
                    !.pc = IF outcome = "question" THEN "settle" ELSE "except"])
        PROVE  \E label \in {"check_ask", "settle", "except"}, w \in {worker'[t]} :
                    /\ Becomes(t, w) /\ w.snap = Saved(row) /\ w.job = Job(t)
                    /\ w.todo = worker[t].todo /\ w.mode = worker[t].mode /\ w.pc = label
    <3>. DEFINE label == IF outcome = "question" THEN "settle" ELSE "except"
                w == [worker[t] EXCEPT !.snap = Saved(row), !.outcome = outcome, !.pc = label]
    <3>1. worker'[t] = w /\ Becomes(t, w)
      BY <2>1, <2>3 DEF Becomes
    <3>2. /\ w.snap = Saved(row) /\ w.job = Job(t) /\ w.todo = worker[t].todo
          /\ w.mode = worker[t].mode /\ w.pc = label /\ label \in {"settle", "except"}
      BY <2>1 DEF Worker, Job
    <3>. HIDE DEF w, label
    <3>. QED  BY <3>1, <3>2
  <2>. QED  BY <2>2, <2>3 DEF Discover
<1>5. row.status \in Active /\ row.status \in RunStatus
  BY <1>2 DEF Active, RunStatus
<1>. HIDE DEF row
<1>. QED  BY <1>1, <1>2, <1>3, <1>4, <1>5, MoveSaves
          DEF Driving, Early, BeforeAsk, Answering, At

\* _advance saves the next stage.
LEMMA AdvanceSaves ==
    ASSUME Inductive, NEW t \in Workers, Advance(t)
    PROVE  \E row, w : Saves(t, row, w) /\ Settles(t, row) /\ Proceeds(t, row, w)
<1>. DEFINE row == Moved(t)
            w == [worker[t] EXCEPT !.snap = Saved(row), !.pc = "ask"]
<1>1. /\ worker[t].pc = "advance" /\ worker[t].pc \in Holding /\ MaySave(t)
      /\ Target(t) = NextStage[Snap(t).status]
  BY DEF Advance, At, Holding, Driving, Target
<1>2. /\ Fresh(t) /\ row \in Row /\ row.status = Target(t) /\ row.queued = FALSE
      /\ row.revision = run[Job(t)].revision /\ row.cancel = run[Job(t)].cancel
  BY <1>1, MovedPlace
<1>3. Snap(t).status \in DOMAIN NextStage
  BY <1>1, OwnRuns DEF ThreadSound, Snap, Threads
<1>4. row.status \in {"PLANNING", "EXECUTING", "ANSWERING"}
  BY <1>1, <1>2, <1>3 DEF NextStage
<1>5. SaveRow(t, row) /\ Becomes(t, w) /\ AppendEvent(Job(t), "PROGRESS")
      /\ UNCHANGED <<messages, memory, conversation, queue, calls, history>>
  BY DEF Advance, Write
<1>6. /\ w.snap = Saved(row) /\ w.job = Job(t) /\ w.todo = worker[t].todo
      /\ w.mode = worker[t].mode /\ w.pc = "ask"
  BY OwnRuns DEF Worker, Threads, Job
<1>7. row.status \in Active /\ row.status \in RunStatus
  BY <1>4 DEF Active, RunStatus
<1>. HIDE DEF row, w
<1>. QED  BY <1>1, <1>2, <1>4, <1>5, <1>6, <1>7, MoveSaves
          DEF Driving, Early, BeforeAsk, Answering, At

-----------------------------------------------------------------------------
(* The outcomes of a drive *)

\* An outcome that nobody answers any more.
LEMMA BlockSaves ==
    ASSUME Inductive, NEW t \in Workers, SettleBlock(t)
    PROVE  \E row, w : Saves(t, row, w) /\ Settles(t, row) /\ Proceeds(t, row, w)
<1>. DEFINE row == Moved(t)
            w == [worker[t] EXCEPT !.snap = Saved(row), !.pc = "publish"]
<1>1. /\ worker[t].pc = "settle" /\ worker[t].pc \in Holding /\ MaySave(t)
      /\ Target(t) = "BLOCKED" /\ worker[t].outcome = "block"
  BY SettleTargets DEF SettleBlock, At, Holding, Driving
<1>2. /\ Fresh(t) /\ row \in Row /\ row.status = "BLOCKED" /\ row.queued = FALSE
      /\ row.revision = run[Job(t)].revision /\ row.cancel = run[Job(t)].cancel
  BY <1>1, MovedPlace
<1>3. SaveRow(t, row) /\ Becomes(t, w) /\ log' = log
      /\ UNCHANGED <<messages, memory, conversation, queue, calls, history>>
  BY DEF SettleBlock, Write
<1>4. /\ w.snap = Saved(row) /\ w.job = Job(t) /\ w.todo = worker[t].todo
      /\ w.mode = worker[t].mode /\ w.pc = "publish" /\ w.outcome = worker[t].outcome
  BY OwnRuns DEF Worker, Threads, Job
<1>. HIDE DEF row, w
<1>. QED  BY <1>1, <1>2, <1>3, <1>4, RunStatusFacts, MoveSaves
          DEF Driving, BeforeAsk, Answering, At

\* A question makes the run wait for its user.
LEMMA QuestionSaves ==
    ASSUME Inductive, NEW t \in Workers, SettleQuestion(t)
    PROVE  \E row, w : Saves(t, row, w) /\ Settles(t, row) /\ Proceeds(t, row, w)
<1>. DEFINE row == [Moved(t) EXCEPT !.response = "question"]
            w == [worker[t] EXCEPT !.snap = Saved(row), !.pc = "message"]
<1>1. /\ worker[t].pc = "settle" /\ worker[t].pc \in Holding /\ MaySave(t)
      /\ Target(t) = "WAITING_USER" /\ worker[t].outcome = "question"
  BY SettleTargets DEF SettleQuestion, At, Holding, Driving
<1>2. /\ Fresh(t) /\ Moved(t) \in Row /\ Moved(t).status = "WAITING_USER"
      /\ Moved(t).queued = FALSE
      /\ Moved(t).revision = run[Job(t)].revision /\ Moved(t).cancel = run[Job(t)].cancel
  BY <1>1, MovedPlace
<1>3. row \in Row /\ row.status = Moved(t).status /\ row.queued = Moved(t).queued
  BY <1>2 DEF Row, Response
<1>4. row.revision = Moved(t).revision /\ row.cancel = Moved(t).cancel
  BY <1>2 DEF Row
<1>5. SaveRow(t, row) /\ Becomes(t, w) /\ log' = log
      /\ UNCHANGED <<messages, memory, conversation, queue, calls, history>>
  BY DEF SettleQuestion, Write
<1>6. /\ w.snap = Saved(row) /\ w.job = Job(t) /\ w.todo = worker[t].todo
      /\ w.mode = worker[t].mode /\ w.pc = "message" /\ w.outcome = worker[t].outcome
  BY OwnRuns DEF Worker, Threads, Job
<1>. HIDE DEF row, w
<1>. QED  BY <1>1, <1>2, <1>3, <1>4, <1>5, <1>6, RunStatusFacts, MoveSaves
          DEF Driving, BeforeAsk, Answering, At

\* An answer saves the stages it skipped, then the completion.
LEMMA AnswerSaves ==
    ASSUME Inductive, NEW t \in Workers, SettleAnswer(t)
    PROVE  \E row, w : Saves(t, row, w) /\ Settles(t, row) /\ Proceeds(t, row, w)
<1>1. /\ worker[t].pc = "settle" /\ worker[t].pc \in Holding /\ MaySave(t)
      /\ worker[t].outcome \in {"query", "listing"}
      /\ Snap(t).status \in DOMAIN NextStage \cup {"ANSWERING"}
  BY OwnRuns DEF SettleAnswer, At, Holding, Driving, ThreadSound, Snap, Threads
<1>2. /\ Fresh(t) /\ Moved(t) \in Row /\ Moved(t).status = Target(t)
      /\ Moved(t).queued = FALSE
      /\ Moved(t).revision = run[Job(t)].revision /\ Moved(t).cancel = run[Job(t)].cancel
  BY <1>1, MovedPlace
<1>3. log' = log /\ UNCHANGED <<messages, memory, conversation, queue, calls, history>>
  BY DEF SettleAnswer
<1>4. CASE Target(t) = "COMPLETED"
  <2>. DEFINE row == [Moved(t) EXCEPT !.response = worker[t].outcome, !.completed = clock + 1]
              w == [worker[t] EXCEPT !.snap = Saved(row), !.pc = "message"]
  <2>1. SaveRow(t, row) /\ Becomes(t, w)
    BY <1>4 DEF SettleAnswer, Write, AfterAnswer
  <2>2. worker[t].outcome \in Response /\ clock + 1 \in Nat
    BY <1>1 DEF Response, Inductive, TypeOK
  <2>3. row \in Row /\ row.status = Moved(t).status /\ row.queued = Moved(t).queued
    BY <1>2, <2>2 DEF Row
  <2>4. row.revision = Moved(t).revision /\ row.cancel = Moved(t).cancel
    BY <1>2 DEF Row
  <2>5. /\ w.snap = Saved(row) /\ w.job = Job(t) /\ w.todo = worker[t].todo
        /\ w.mode = worker[t].mode /\ w.pc = "message"
    BY OwnRuns DEF Worker, Threads, Job
  <2>. HIDE DEF row, w
  <2>. QED  BY ZenonT(60), <1>1, <1>2, <1>3, <1>4, <2>1, <2>3, <2>4, <2>5, RunStatusFacts, MoveSaves
            DEF Driving, BeforeAsk, Answering, At
<1>5. CASE Target(t) # "COMPLETED"
  <2>. DEFINE row == Moved(t)
              w == [worker[t] EXCEPT !.snap = Saved(row), !.pc = "settle"]
  <2>1. SaveRow(t, row) /\ Becomes(t, w)
    BY <1>5 DEF SettleAnswer, Write, AfterAnswer
  <2>2. Target(t) \in {"PLANNING", "EXECUTING", "ANSWERING"}
    BY <1>1, <1>5, SettleTargets DEF SettleTarget, At, NextStage
  <2>3. /\ w.snap = Saved(row) /\ w.job = Job(t) /\ w.todo = worker[t].todo
        /\ w.mode = worker[t].mode /\ w.pc = "settle"
    BY OwnRuns DEF Worker, Threads, Job
  <2>4. row.status \in Active /\ row.status \in RunStatus
    BY <1>2, <2>2 DEF Active, RunStatus
  <2>. HIDE DEF row, w
  <2>. QED  BY <1>1, <1>2, <1>3, <2>1, <2>2, <2>3, <2>4, RunStatusFacts, MoveSaves
            DEF row, Driving, Early, BeforeAsk, Answering, At
<1>. QED  BY <1>4, <1>5

\* A cancel request ends the run.
LEMMA CancelSaves ==
    ASSUME Inductive, NEW t \in Workers, CancelRun(t)
    PROVE  \E row, w : Saves(t, row, w) /\ Settles(t, row) /\ Proceeds(t, row, w)
<1>. DEFINE row == Moved(t)
            w == [worker[t] EXCEPT !.snap = Saved(row), !.pc = "publish", !.outcome = "cancel"]
<1>1. /\ worker[t].pc = "cancel" /\ worker[t].pc \in Holding /\ MaySave(t)
      /\ Target(t) = "CANCELLED"
  BY DEF CancelRun, At, Holding, Driving, Target
<1>2. /\ Fresh(t) /\ row \in Row /\ row.status = "CANCELLED" /\ row.queued = FALSE
      /\ row.revision = run[Job(t)].revision /\ row.cancel = run[Job(t)].cancel
  BY <1>1, MovedPlace
<1>3. SaveRow(t, row) /\ Becomes(t, w) /\ log' = log
      /\ UNCHANGED <<messages, memory, conversation, queue, calls, history>>
  BY DEF CancelRun
<1>4. /\ w.snap = Saved(row) /\ w.job = Job(t) /\ w.todo = worker[t].todo
      /\ w.mode = worker[t].mode /\ w.pc = "publish" /\ w.outcome = "cancel"
  BY OwnRuns DEF Worker, Threads, Job
<1>. HIDE DEF row, w
<1>. QED  BY <1>1, <1>2, <1>3, <1>4, RunStatusFacts, MoveSaves
          DEF Driving, BeforeAsk, Answering, At

\* The handler fails or blocks the run.
LEMMA FailSaves ==
    ASSUME Inductive, NEW t \in Workers, FailRun(t), Snap(t).status \notin Terminal
    PROVE  \E row, w : Saves(t, row, w) /\ Settles(t, row) /\ Proceeds(t, row, w)
<1>. DEFINE row == [Moved(t) EXCEPT !.retryable = (worker[t].outcome = "transient")]
            w == [worker[t] EXCEPT !.snap = Saved(row), !.pc = "publish"]
<1>1. /\ worker[t].pc = "fail" /\ worker[t].pc \in Holding /\ MaySave(t)
      /\ Target(t) \in {"BLOCKED", "FAILED"} /\ worker[t].outcome \in Fault
  BY OwnRuns DEF FailRun, At, Holding, Driving, Target, ThreadSound, Threads
<1>2. /\ Fresh(t) /\ Moved(t) \in Row /\ Moved(t).status = Target(t)
      /\ Moved(t).queued = FALSE
      /\ Moved(t).revision = run[Job(t)].revision /\ Moved(t).cancel = run[Job(t)].cancel
  BY <1>1, MovedPlace
<1>3. row \in Row /\ row.status = Moved(t).status /\ row.queued = Moved(t).queued
  BY <1>2 DEF Row
<1>4. row.revision = Moved(t).revision /\ row.cancel = Moved(t).cancel
  BY <1>2 DEF Row
<1>5. SaveRow(t, row) /\ Becomes(t, w) /\ log' = log
      /\ UNCHANGED <<messages, memory, conversation, queue, calls, history>>
  BY DEF FailRun, Write
<1>6. /\ w.snap = Saved(row) /\ w.job = Job(t) /\ w.todo = worker[t].todo
      /\ w.mode = worker[t].mode /\ w.pc = "publish" /\ w.outcome = worker[t].outcome
  BY OwnRuns DEF Worker, Threads, Job
<1>. HIDE DEF row, w
<1>. QED  BY ZenonT(60), <1>1, <1>2, <1>3, <1>4, <1>5, <1>6, RunStatusFacts, MoveSaves
          DEF Driving, BeforeAsk, Answering, At, Fault

-----------------------------------------------------------------------------
(* Who speaks *)

\* What the conversation says of a run's completion.
Spoken(r) == messages[r].answer \/ Published(r, "RUN_COMPLETED") \/ memory.last = r

\* A step that lets nobody speak of a run that is not completed.
SpeaksTrue ==
    conversation = "active" =>
        \A r \in Runs : Spoken(r)' => Spoken(r) \/ run[r].status = "COMPLETED"

\* append_event adds its event to one run's list and to no other.
LEMMA AppendPublishes ==
    ASSUME Inductive, NEW r, NEW event \in EventType, AppendEvent(r, event),
           NEW s \in Runs, NEW other, Published(s, other)'
    PROVE  Published(s, other) \/ (s = r /\ other = event)
<1>1. log \in [Runs -> Seq(EventType)]
  BY DEF Inductive, TypeOK
<1>2. CASE s # r
  <2>1. log'[s] = log[s]
    BY <1>1, <1>2 DEF AppendEvent
  <2>. QED  BY <2>1 DEF Published
<1>3. CASE s = r
  <2>1. log'[s] = log[s] \/ log'[s] = Append(log[s], event)
    BY <1>1, <1>3 DEF AppendEvent
  <2>2. CASE log'[s] = log[s]
    BY <2>2 DEF Published
  <2>3. CASE log'[s] = Append(log[s], event)
    <3>1. PICK i \in 1..Len(log'[s]) : log'[s][i] = other
      BY DEF Published
    <3>2. log[s] \in Seq(EventType) /\ Len(log'[s]) = Len(log[s]) + 1
      BY <1>1, <2>3
    <3>3. CASE i = Len(log[s]) + 1
      BY <1>3, <2>3, <3>1, <3>2, <3>3
    <3>4. CASE i # Len(log[s]) + 1
      <4>1. i \in 1..Len(log[s])
        BY <3>1, <3>2, <3>4
      <4>2. log[s][i] = other
        BY <2>3, <3>1, <3>2, <4>1
      <4>. QED  BY <4>1, <4>2 DEF Published
    <3>. QED  BY <3>3, <3>4
  <2>. QED  BY <2>1, <2>2, <2>3
<1>. QED  BY <1>2, <1>3

\* A step that writes neither message nor memory, and publishes another event or one of a
\* completed run.
LEMMA EventSpeaks ==
    ASSUME Inductive, UNCHANGED <<messages, memory>>,
           \/ log' = log
           \/ \E r \in Runs, event \in EventType :
                /\ AppendEvent(r, event)
                /\ event = "RUN_COMPLETED" /\ conversation = "active" =>
                    run[r].status = "COMPLETED"
    PROVE  SpeaksTrue
<1> SUFFICES ASSUME conversation = "active", NEW r \in Runs, Spoken(r)'
             PROVE  Spoken(r) \/ run[r].status = "COMPLETED"
  BY DEF SpeaksTrue
<1>1. CASE log' = log
  BY <1>1 DEF Spoken, Published
<1>2. ASSUME NEW s, NEW event \in EventType, AppendEvent(s, event),
             event = "RUN_COMPLETED" => run[s].status = "COMPLETED"
      PROVE  Spoken(r) \/ run[r].status = "COMPLETED"
  <2>1. CASE Published(r, "RUN_COMPLETED")'
    BY <1>2, <2>1, AppendPublishes DEF Spoken
  <2>2. CASE ~Published(r, "RUN_COMPLETED")'
    BY <2>2 DEF Spoken
  <2>. QED  BY <2>1, <2>2
<1>. QED  BY <1>1, <1>2

\* While completed rows stay, nobody has spoken for another run.
LEMMA SpeechKept ==
    ASSUME Inductive, Inductive', OnlyCompletedSpeaks, SpeaksTrue, conversation' = conversation,
           \A r \in Runs : run[r].status = "COMPLETED" => run'[r].status = "COMPLETED"
    PROVE  OnlyCompletedSpeaks'
<1> SUFFICES ASSUME conversation = "active"
             PROVE  /\ \A r \in Runs : Spoken(r)' => run'[r].status = "COMPLETED"
  <2>1. memory'.last # NoRun => memory'.last \in Runs
    BY DEF Inductive, TypeOK
  <2>. QED  BY <2>1 DEF OnlyCompletedSpeaks, Spoken
<1>1. \A r \in Runs : Spoken(r) => run[r].status = "COMPLETED"
  BY RunsAssumption DEF OnlyCompletedSpeaks, Spoken
<1>. QED  BY <1>1 DEF SpeaksTrue

-----------------------------------------------------------------------------
(* Steps of a worker *)

\* A worker is at work only while the constructor has returned.
LEMMA WorkersUp ==
    ASSUME Inductive, NEW t \in Workers, worker[t].pc # "idle", NEW w, Becomes(t, w)
    PROVE  /\ Up /\ Up' /\ t \in Threads /\ worker'[t] = w
           /\ \A u \in Threads : u # t => worker'[u] = worker[u]
<1>1. worker \in [Threads -> Worker] /\ t \in Threads /\ t # Boot /\ Boot \in Threads
  BY ThreadsAssumption DEF Inductive, TypeOK, Threads
<1>2. Up
  BY DEF Inductive, QuietRestart
<1>3. worker'[t] = w /\ \A u \in Threads : u # t => worker'[u] = worker[u]
  BY <1>1 DEF Becomes
<1>. QED  BY <1>1, <1>2, <1>3 DEF Up, At

\* A worker that leaves the rows alone: it goes on driving what it drove, unless the run
\* is over or its cancel request ends the drive.
LEMMA WorkerAttends ==
    ASSUME Inductive, Inductive', Attended, SpeaksTrue, NEW t \in Workers, NEW w, Becomes(t, w),
           worker[t].pc \notin {"idle", "claim"},
           UNCHANGED <<run, conversation, queue, calls, crashes>>,
           conversation = "active" => Earns(w, run),
           conversation = "deleted" /\ w.pc \in Driving => w.pc \in Early,
           Attends(w, run[w.job]),
           worker[t].pc \in Driving /\ run[Job(t)].status \in Active /\ ~run[Job(t)].cancel
               => w.pc \in Driving /\ w.job = Job(t)
    PROVE  Attended'
<1>1. /\ Up /\ Up' /\ t \in Threads /\ worker'[t] = w
      /\ \A u \in Threads : u # t => worker'[u] = worker[u]
  BY WorkersUp
<1>2. OnlyCompletedSpeaks'
  BY SpeechKept DEF Attended
<1>3. AnswersAreEarned'
  BY <1>1 DEF Attended, AnswersAreEarned
<1>4. NobodyAnswersTheDeleted'
  BY <1>1 DEF Attended, NobodyAnswersTheDeleted, Threads
<1>5. RestartGetsThrough'
  BY <1>1 DEF RestartGetsThrough
<1>6. DriversAttend'
  BY <1>1 DEF Attended, DriversAttend, Threads, Job
<1>7. OnlyCancelLosesARun'
  <2> SUFFICES ASSUME NEW r \in Runs, run[r].status \in Active, ~run[r].cancel
               PROVE  \E u \in Workers : worker'[u].job = r /\ worker'[u].pc \in Driving
    BY DEF OnlyCancelLosesARun, Drives, Job
  <2>1. PICK u \in Workers : Job(u) = r /\ worker[u].pc \in Driving
    BY <1>1 DEF Attended, OnlyCancelLosesARun, Drives
  <2>2. CASE u = t
    BY <1>1, <2>1, <2>2
  <2>3. CASE u # t
    BY <1>1, <2>1, <2>3 DEF Job, Threads
  <2>. QED  BY <2>2, <2>3
<1>8. RetriesAllowed'
  BY DEF Attended, RetriesAllowed
<1>9. RunsAwaited'
  <2> SUFFICES ASSUME NEW r \in Runs, Awaited(r)
               PROVE  Awaited(r)'
    BY <1>1 DEF Attended, RunsAwaited, Awaiting
  <2>1. ASSUME NEW u \in Workers, Job(u) = r, At(u, "claim"), Snap(u) = run[r]
        PROVE  Awaited(r)'
    <3>1. u # t /\ worker'[u] = worker[u]
      BY <1>1, <2>1 DEF At, Threads
    <3>. QED  BY <2>1, <3>1 DEF Awaited, Job, At, Snap
  <2>. QED  BY <2>1 DEF Awaited
<1>. QED  BY <1>2, <1>3, <1>4, <1>5, <1>6, <1>7, <1>8, <1>9 DEF Attended

\* A worker that saves: its run was completed by nobody before it and nobody else drives it.
LEMMA SavesAttend ==
    ASSUME Inductive, Inductive', Attended, NEW t \in Workers, NEW row, NEW w,
           Saves(t, row, w), Settles(t, row), Proceeds(t, row, w)
    PROVE  Attended'
<1>1. /\ worker[t].pc \in Holding /\ Fresh(t) /\ worker[t].pc # "idle"
      /\ run' = [run EXCEPT ![Job(t)] = row] /\ Becomes(t, w)
      /\ UNCHANGED <<messages, memory, conversation, queue, calls, crashes>>
      /\ log' = log \/ AppendEvent(Job(t), "PROGRESS")
  BY DEF Saves, history, Holding, Driving
<1>2. /\ Up /\ Up' /\ t \in Threads /\ worker'[t] = w
      /\ \A u \in Threads : u # t => worker'[u] = worker[u]
  BY <1>1, WorkersUp
<1>3. /\ Job(t) \in Runs /\ run \in [Runs -> Row] /\ Snap(t) = run[Job(t)]
      /\ ThreadSound(worker[t]) /\ HoldsRow(worker[t], run[Job(t)])
  BY <1>1, <1>2, FreshCopy, OwnRuns DEF Inductive, TypeOK, Job
<1>4. run'[Job(t)] = row /\ \A r : r # Job(t) => run'[r] = run[r]
  BY <1>1, <1>3
<1>5. run[Job(t)].status # "COMPLETED"
  <2>1. CASE worker[t].pc = "claim"
    BY <1>3, <2>1 DEF ThreadSound, Runnable, Snap
  <2>2. CASE worker[t].pc \in Driving \ {"except"}
    BY <1>3, <2>2, RunStatusFacts DEF HoldsRow
  <2>. QED  BY <1>1, <2>1, <2>2 DEF Holding
<1>6. SpeaksTrue
  <2>1. "PROGRESS" \in EventType
    BY DEF EventType
  <2>2. log' = log \/ \E r \in Runs, event \in EventType :
                        AppendEvent(r, event) /\ event # "RUN_COMPLETED"
    BY <1>1, <1>3, <2>1
  <2>. QED  BY <1>1, <2>2, EventSpeaks
<1>7. OnlyCompletedSpeaks'
  BY <1>1, <1>4, <1>5, <1>6, SpeechKept DEF Attended
<1>8. AnswersAreEarned'
  <2> SUFFICES ASSUME conversation = "active", NEW u \in Threads
               PROVE  Earns(worker'[u], run')
    BY <1>1 DEF AnswersAreEarned
  <2>1. \A v \in Threads : Earns(worker[v], run)
    BY DEF Attended, AnswersAreEarned
  <2>2. \A r : run[r].status = "COMPLETED" => run'[r].status = "COMPLETED"
    BY <1>4, <1>5
  <2>3. CASE u = t
    <3>1. /\ w.todo = worker[t].todo /\ w.job = Job(t)
          /\ Answering(w) => row.status = "COMPLETED"
      BY DEF Proceeds
    <3>2. Earns(worker[t], run)
      BY <1>2, <2>1
    <3>3. \A item \in w.todo :
            item.snap.response # "question" => run'[item.job].status = "COMPLETED"
      BY <2>2, <3>1, <3>2 DEF Earns
    <3>4. Answering(w) => run'[w.job].status = "COMPLETED"
      BY <1>4, <3>1
    <3>. QED  BY <1>2, <2>3, <3>3, <3>4 DEF Earns
  <2>4. CASE u # t
    <3>1. Earns(worker[u], run)
      BY <2>1
    <3>2. Earns(worker[u], run')
      BY <2>2, <3>1 DEF Earns
    <3>. QED  BY <1>2, <2>4, <3>2
  <2>. QED  BY <2>3, <2>4
<1>9. NobodyAnswersTheDeleted'
  <2> SUFFICES ASSUME conversation = "deleted"
               PROVE  /\ \A r \in Runs : run'[r].status \notin {"COMPLETED", "WAITING_USER"}
                      /\ \A u \in Workers : worker'[u].pc \in Driving => worker'[u].pc \in Early
    BY <1>1, <1>2 DEF NobodyAnswersTheDeleted
  <2>1. /\ \A r \in Runs : run[r].status \notin {"COMPLETED", "WAITING_USER"}
        /\ \A u \in Workers : worker[u].pc \in Driving => worker[u].pc \in Early
    BY DEF Attended, NobodyAnswersTheDeleted
  <2>2. row.status \notin {"COMPLETED", "WAITING_USER"}
    BY <2>1 DEF Settles, At, Driving, Early
  <2>3. w.pc \in Driving => w.pc \in Early
    BY <2>1 DEF Proceeds
  <2>. QED  BY <1>2, <1>4, <2>1, <2>2, <2>3 DEF Threads
<1>10. RestartGetsThrough'
  BY <1>2 DEF RestartGetsThrough
<1>11. DriversAttend'
  <2> SUFFICES ASSUME NEW u \in Workers
               PROVE  Attends(worker'[u], run'[worker'[u].job])
    BY DEF DriversAttend, Job
  <2>1. \A v \in Workers : Attends(worker[v], run[worker[v].job])
    BY DEF Attended, DriversAttend, Job
  <2>2. CASE u = t
    <3>1. Attends(w, row)
      <4>1. w.snap = row /\ w.mode = worker[t].mode /\ w.pc # "claim"
        BY DEF Proceeds
      <4>2. w.pc \in Driving \ {"cancel", "check_failure", "fail"} => worker[t].mode = "drive"
        <5>1. Attends(worker[t], run[worker[t].job])
          BY <2>1
        <5>. QED  BY <1>1, <5>1 DEF Proceeds, Attends, Holding, Driving
      <4>. QED  BY <4>1, <4>2 DEF Attends
    <3>2. worker'[u] = w /\ w.job = Job(t)
      BY <1>2, <2>2 DEF Proceeds
    <3>. QED  BY <1>4, <3>1, <3>2
  <2>3. CASE u # t /\ Job(u) = Job(t)
    <3>1. ~Occupied(worker[u]) /\ worker'[u] = worker[u]
      BY <1>1, <1>2, <2>3, SoleWorker DEF Threads
    <3>2. Attends(worker[u], run[worker[u].job])
      BY <2>1
    <3>. QED  BY <3>1, <3>2 DEF Attends, Occupied
  <2>4. CASE u # t /\ Job(u) # Job(t)
    BY <1>2, <1>4, <2>1, <2>4 DEF Job, Threads
  <2>. QED  BY <2>2, <2>3, <2>4
<1>12. OnlyCancelLosesARun'
  <2> SUFFICES ASSUME NEW r \in Runs, run'[r].status \in Active, ~run'[r].cancel
               PROVE  \E u \in Workers : worker'[u].job = r /\ worker'[u].pc \in Driving
    BY DEF OnlyCancelLosesARun, Drives, Job
  <2>1. CASE r = Job(t)
    BY <1>2, <1>4, <2>1 DEF Proceeds
  <2>2. CASE r # Job(t)
    <3>1. PICK u \in Workers : Job(u) = r /\ worker[u].pc \in Driving
      BY <1>2, <1>4, <2>2 DEF Attended, OnlyCancelLosesARun, Drives
    <3>. QED  BY <1>2, <2>2, <3>1 DEF Job, Threads
  <2>. QED  BY <2>1, <2>2
<1>13. RetriesAllowed'
  BY <1>4 DEF Attended, RetriesAllowed, Settles, Runnable
<1>14. RunsAwaited'
  <2> SUFFICES ASSUME NEW r \in Runs, Awaiting(run'[r])
               PROVE  Awaited(r)'
    BY <1>1 DEF RunsAwaited, Awaiting
  <2>1. r # Job(t) /\ run'[r] = run[r]
    BY <1>4 DEF Awaiting, Settles
  <2>2. Awaited(r)
    BY <1>2, <2>1 DEF Attended, RunsAwaited
  <2>3. ASSUME NEW u \in Workers, Job(u) = r, At(u, "claim"), Snap(u) = run[r]
        PROVE  Awaited(r)'
    <3>1. u # t /\ worker'[u] = worker[u]
      BY <1>2, <2>1, <2>3 DEF Threads
    <3>. QED  BY <2>1, <2>3, <3>1 DEF Awaited, Job, At, Snap
  <2>. QED  BY <1>1, <2>2, <2>3 DEF Awaited
<1>. QED  BY <1>7, <1>8, <1>9, <1>10, <1>11, <1>12, <1>13, <1>14 DEF Attended

-----------------------------------------------------------------------------
(* The drive *)

\* A step of a worker that tells nobody anything.
Silent == UNCHANGED <<run, log, messages, memory, conversation, queue, calls, crashes>>

\* Silence speaks of nobody.
LEMMA SilentSpeaks ==
    ASSUME Inductive, Silent
    PROVE  SpeaksTrue
BY EventSpeaks DEF Silent

\* What the two invariants say of a worker at work.
LEMMA OwnDuties ==
    ASSUME Inductive, Attended, NEW t \in Workers, worker[t].pc # "idle"
    PROVE  /\ Up /\ t \in Threads /\ ThreadSound(worker[t]) /\ worker[t] \in Worker
           /\ HoldsRow(worker[t], run[Job(t)]) /\ Attends(worker[t], run[Job(t)])
           /\ conversation = "active" => Earns(worker[t], run)
           /\ conversation = "deleted" /\ worker[t].pc \in Driving => worker[t].pc \in Early
<1>1. t \in Threads /\ Up
  BY DEF Threads, Inductive, QuietRestart
<1>2. Attends(worker[t], run[Job(t)]) /\ (conversation = "active" => Earns(worker[t], run))
  BY <1>1 DEF Attended, DriversAttend, AnswersAreEarned
<1>3. conversation = "deleted" /\ worker[t].pc \in Driving => worker[t].pc \in Early
  BY DEF Attended, NobodyAnswersTheDeleted
<1>. QED  BY <1>1, <1>2, <1>3, OwnRuns DEF Job

\* A drive that raises goes on to its handler; only a run that is over, or asked to be
\* cancelled, is left by a worker that raises.
LEMMA RaiseAttends ==
    ASSUME Inductive, Inductive', Attended, NEW t \in Workers, NEW fault, Raise(t, fault),
           Silent, worker[t].pc \notin {"idle", "claim", "except"},
           worker[t].pc \in Driving /\ run[Job(t)].status \in Active /\ ~run[Job(t)].cancel
               => worker[t].mode = "drive"
    PROVE  Attended'
<1>. DEFINE w == IF worker[t].mode = "drive"
                 THEN [worker[t] EXCEPT !.pc = "except", !.outcome = fault]
                 ELSE Idle
<1>1. /\ Up /\ t \in Threads /\ worker[t] \in Worker
      /\ conversation = "active" => Earns(worker[t], run)
  BY OwnDuties
<1>2. Becomes(t, w)
  BY DEF Raise
<1>3. CASE worker[t].mode = "drive"
  <2>1. /\ w.pc = "except" /\ w.mode = "drive" /\ w.job = Job(t) /\ w.todo = worker[t].todo
    BY <1>1, <1>3 DEF Worker, Job
  <2>. HIDE DEF w
  <2>2. conversation = "active" => Earns(w, run)
    BY <1>1, <2>1 DEF Earns, Answering
  <2>3. Attends(w, run[w.job])
    BY <2>1 DEF Attends
  <2>. QED  BY <1>2, <2>1, <2>2, <2>3, SilentSpeaks, WorkerAttends DEF Silent, Early, Driving
<1>4. CASE worker[t].mode # "drive"
  <2>1. w = Idle
    BY <1>4
  <2>. HIDE DEF w
  <2>2. w.pc = "idle" /\ w.todo = {}
    BY <2>1 DEF Idle
  <2>3. Earns(w, run) /\ Attends(w, run[w.job])
    BY <2>2 DEF Earns, Answering, Attends, Driving
  <2>. QED  BY <1>2, <1>4, <2>2, <2>3, SilentSpeaks, WorkerAttends DEF Silent, Driving
<1>. QED  BY <1>3, <1>4

\* A worker that only goes on to another place of the drive, with the copy it has.
LEMMA GoesOn ==
    ASSUME Inductive, Inductive', Attended, NEW t \in Workers, worker[t].pc \in Driving \ {"except"},
           NEW w, Becomes(t, w),
           UNCHANGED <<run, messages, memory, conversation, queue, calls, crashes>>,
           log' = log \/ \E event \in EventType :
                            AppendEvent(Job(t), event) /\ event # "RUN_COMPLETED",
           w.pc \in Driving \ {"except"}, w.pc \in Early \/ conversation = "active",
           w.job = Job(t), w.snap = Snap(t), w.todo = worker[t].todo, w.mode = worker[t].mode,
           w.pc \in {"cancel", "check_failure", "fail"}
               \/ worker[t].pc \notin {"cancel", "check_failure", "fail"}
    PROVE  Attended'
<1>1. /\ worker[t].pc # "idle" /\ worker[t].pc # "claim"
  BY DEF Driving
<1>2. /\ Attends(worker[t], run[Job(t)]) /\ (conversation = "active" => Earns(worker[t], run))
  BY <1>1, OwnDuties
<1>3. conversation = "active" => Earns(w, run)
  BY <1>2 DEF Earns, Answering, Driving
<1>4. Attends(w, run[w.job])
  BY <1>2 DEF Attends, Snap, Driving
<1>5. SpeaksTrue
  <2>1. Job(t) \in Runs
    BY DrivenRow
  <2>2. log' = log \/ \E r \in Runs, event \in EventType :
                        AppendEvent(r, event) /\ event # "RUN_COMPLETED"
    BY <2>1
  <2>. QED  BY <2>2, EventSpeaks
<1>6. conversation \in {"active", "deleted"}
  BY DEF Inductive, TypeOK
<1>. QED  BY <1>1, <1>3, <1>4, <1>5, <1>6, WorkerAttends

\* A cancel check: on with the drive, or on to the cancellation.
LEMMA CheckAttends ==
    ASSUME Inductive, Inductive', Attended, NEW t \in Workers, worker[t].pc \in Driving \ {"except"},
           NEW next, CheckCancel(t, next), Silent,
           ~run[Job(t)].cancel =>
               /\ next.pc \in Driving \ {"except"}
               /\ next.pc \in Early \/ conversation = "active"
               /\ next.job = Job(t) /\ next.snap = Snap(t) /\ next.todo = worker[t].todo
               /\ next.mode = worker[t].mode
               /\ \/ next.pc \in {"cancel", "check_failure", "fail"}
                  \/ worker[t].pc \notin {"cancel", "check_failure", "fail"}
    PROVE  Attended'
<1>. DEFINE latest == run[Job(t)]
            cancelling == [worker[t] EXCEPT !.pc = "cancel", !.snap = latest]
<1>1. /\ Job(t) \in Runs /\ latest.status \in Active /\ latest.status \notin Terminal
  BY DrivenRow DEF Active, Terminal, Settled
<1>2. CASE ~latest.cancel
  <2>1. Becomes(t, next)
    BY <1>2 DEF CheckCancel
  <2>. QED  BY <1>2, <2>1, GoesOn DEF Silent
<1>3. CASE latest.cancel
  <2>1. Becomes(t, cancelling)
    BY <1>1, <1>3 DEF CheckCancel
  <2>2. worker[t].pc # "idle" /\ worker[t].pc # "claim"
    BY DEF Driving
  <2>3. /\ worker[t] \in Worker /\ (conversation = "active" => Earns(worker[t], run))
    BY <2>2, OwnDuties
  <2>4. /\ cancelling.pc = "cancel" /\ cancelling.snap = latest /\ cancelling.job = Job(t)
        /\ cancelling.todo = worker[t].todo
    BY <2>3 DEF Worker, Job
  <2>. HIDE DEF cancelling
  <2>5. conversation = "active" => Earns(cancelling, run)
    BY <2>3, <2>4 DEF Earns, Answering
  <2>6. Attends(cancelling, run[cancelling.job])
    BY <2>4 DEF Attends
  <2>. QED  BY <1>3, <2>1, <2>2, <2>4, <2>5, <2>6, SilentSpeaks, WorkerAttends
            DEF Silent, Early
<1>. QED  BY <1>2, <1>3

\* The thread records that differ from the one before in their place, or in their place and
\* outcome.
LEMMA Relabelled ==
    ASSUME Inductive, NEW t \in Workers, NEW label, NEW outcome
    PROVE  /\ [worker[t] EXCEPT !.pc = label].pc = label
           /\ [worker[t] EXCEPT !.pc = label].job = Job(t)
           /\ [worker[t] EXCEPT !.pc = label].snap = Snap(t)
           /\ [worker[t] EXCEPT !.pc = label].todo = worker[t].todo
           /\ [worker[t] EXCEPT !.pc = label].mode = worker[t].mode
           /\ [worker[t] EXCEPT !.pc = label, !.outcome = outcome].pc = label
           /\ [worker[t] EXCEPT !.pc = label, !.outcome = outcome].job = Job(t)
           /\ [worker[t] EXCEPT !.pc = label, !.outcome = outcome].snap = Snap(t)
           /\ [worker[t] EXCEPT !.pc = label, !.outcome = outcome].todo = worker[t].todo
           /\ [worker[t] EXCEPT !.pc = label, !.outcome = outcome].mode = worker[t].mode
<1>1. worker[t] \in Worker
  BY OwnRuns DEF Threads
<1>. QED  BY <1>1 DEF Worker, Job, Snap

\* execute() announces the claim.
LEMMA StartedAttends ==
    ASSUME Inductive, Inductive', Attended, NEW t \in Workers, Started(t)
    PROVE  Attended'
<1>. DEFINE w == [worker[t] EXCEPT !.pc = "begin"]
<1>1. worker[t].pc = "started" /\ Becomes(t, w) /\ AppendEvent(Job(t), "RUN_STARTED")
      /\ UNCHANGED <<run, messages, memory, conversation, queue, calls, crashes>>
  BY DEF Started, At, Goto, history
<1>2. /\ w.pc = "begin" /\ w.job = Job(t) /\ w.snap = Snap(t) /\ w.todo = worker[t].todo
      /\ w.mode = worker[t].mode
  BY Relabelled
<1>3. "RUN_STARTED" \in EventType
  BY DEF EventType
<1>. HIDE DEF w
<1>. QED  BY <1>1, <1>2, <1>3, GoesOn DEF Driving, Early

\* The conversation is read, or is gone.
LEMMA BeginAttends ==
    ASSUME Inductive, Inductive', Attended, NEW t \in Workers, Begin(t)
    PROVE  Attended'
<1>. DEFINE next == [worker[t] EXCEPT !.pc = "context"]
<1>1. worker[t].pc = "begin" /\ Silent
  BY DEF Begin, At, Silent, store, history
<1>2. CASE Raise(t, "permanent")
  <2>1. worker[t].mode = "drive"
    BY <1>1, OwnDuties DEF Attends, Driving
  <2>. QED  BY <1>1, <1>2, <2>1, RaiseAttends
<1>3. CASE CheckCancel(t, next) /\ (run[Job(t)].cancel \/ conversation = "active")
  <2>1. /\ next.pc = "context" /\ next.job = Job(t) /\ next.snap = Snap(t)
        /\ next.todo = worker[t].todo /\ next.mode = worker[t].mode
    BY Relabelled
  <2>. HIDE DEF next
  <2>. QED  BY <1>1, <1>3, <2>1, CheckAttends DEF Driving
<1>. QED  BY <1>2, <1>3 DEF Begin

\* The context is saved, or fails.
LEMMA ContextAttends ==
    ASSUME Inductive, Inductive', Attended, NEW t \in Workers, Context(t)
    PROVE  Attended'
<1>1. worker[t].pc = "context" /\ worker[t].mode = "drive"
  BY OwnDuties DEF Context, At, Attends, Driving
<1>2. ASSUME NEW fault \in Fault, Raise(t, fault), UNCHANGED <<run, log>>
      PROVE  Attended'
  <2>1. Silent
    BY <1>2 DEF Context, Silent, history
  <2>. QED  BY <1>1, <1>2, <2>1, RaiseAttends
<1>3. CASE Fresh(t) /\ Write(t, Snap(t), "check_context") /\ AppendEvent(Job(t), "PROGRESS")
  BY <1>3, ContextSaves, SavesAttend
<1>. QED  BY <1>2, <1>3 DEF Context

\* The cancel checks between two places of a drive.
LEMMA ChecksAttend ==
    ASSUME Inductive, Inductive', Attended, NEW t \in Workers,
           ContextChecked(t) \/ AskStarted(t) \/ FailureChecked(t)
    PROVE  Attended'
<1>1. Silent
  BY DEF ContextChecked, AskStarted, FailureChecked, Silent, store, history
<1>2. ASSUME NEW label \in {"discover", "ask", "fail"},
             CheckCancel(t, [worker[t] EXCEPT !.pc = label]),
             worker[t].pc \in {"check_context", "check_ask", "check_failure"},
             label = "fail" <=> worker[t].pc = "check_failure"
      PROVE  Attended'
  <2>. DEFINE next == [worker[t] EXCEPT !.pc = label]
  <2>1. /\ next.pc = label /\ next.job = Job(t) /\ next.snap = Snap(t)
        /\ next.todo = worker[t].todo /\ next.mode = worker[t].mode
    BY Relabelled
  <2>2. CheckCancel(t, next)
    BY <1>2
  <2>. HIDE DEF next
  <2>3. worker[t].pc = "check_failure" \/ conversation = "active"
    <3>1. conversation \in {"active", "deleted"}
      BY DEF Inductive, TypeOK
    <3>. QED  BY <1>2, <3>1, OwnDuties DEF Driving, Early
  <2>. QED  BY <1>1, <1>2, <2>1, <2>2, <2>3, CheckAttends DEF Driving, Early
<1>3. CASE ContextChecked(t)
  BY <1>2, <1>3 DEF ContextChecked, At
<1>4. CASE AskStarted(t)
  BY <1>2, <1>4 DEF AskStarted, At
<1>5. CASE FailureChecked(t)
  BY <1>2, <1>5 DEF FailureChecked, At
<1>. QED  BY <1>3, <1>4, <1>5

\* The next record of the Ask, or its outcome.
LEMMA AskAttends ==
    ASSUME Inductive, Inductive', Attended, NEW t \in Workers, Ask(t)
    PROVE  Attended'
<1>1. Silent /\ worker[t].pc = "ask"
  BY DEF Ask, At, Silent, store, history
<1>2. conversation = "active"
  <2>1. conversation \in {"active", "deleted"}
    BY DEF Inductive, TypeOK
  <2>. QED  BY <1>1, <2>1, OwnDuties DEF Driving, Early
<1>3. CASE CheckCancel(t, [worker[t] EXCEPT !.pc = "advance"])
  <2>. DEFINE next == [worker[t] EXCEPT !.pc = "advance"]
  <2>1. /\ next.pc = "advance" /\ next.job = Job(t) /\ next.snap = Snap(t)
        /\ next.todo = worker[t].todo /\ next.mode = worker[t].mode
    BY Relabelled
  <2>2. CheckCancel(t, next)
    BY <1>3
  <2>. HIDE DEF next
  <2>. QED  BY <1>1, <1>2, <2>1, <2>2, CheckAttends DEF Driving
<1>4. ASSUME NEW outcome \in Outcome,
             CheckCancel(t, [worker[t] EXCEPT !.pc = "settle", !.outcome = outcome])
      PROVE  Attended'
  <2>. DEFINE next == [worker[t] EXCEPT !.pc = "settle", !.outcome = outcome]
  <2>1. /\ next.pc = "settle" /\ next.job = Job(t) /\ next.snap = Snap(t)
        /\ next.todo = worker[t].todo /\ next.mode = worker[t].mode
    BY Relabelled
  <2>2. CheckCancel(t, next)
    BY <1>4
  <2>. HIDE DEF next
  <2>. QED  BY <1>1, <1>2, <2>1, <2>2, CheckAttends DEF Driving
<1>. QED  BY <1>3, <1>4 DEF Ask

\* The Ask's failure goes to the handler.
LEMMA SettleFaultAttends ==
    ASSUME Inductive, Inductive', Attended, NEW t \in Workers, SettleFault(t)
    PROVE  Attended'
<1>1. worker[t].pc = "settle" /\ Silent /\ Raise(t, worker[t].outcome)
  BY DEF SettleFault, At, Silent, store, history
<1>2. worker[t].mode = "drive"
  BY <1>1, OwnDuties DEF Attends, Driving
<1>. QED  BY <1>1, <1>2, RaiseAttends

\* A save is lost to a cancel request, or its exception has the handler to go to.
LEMMA LoseSaveAttends ==
    ASSUME Inductive, Inductive', Attended, NEW t \in Workers, LoseSave(t)
    PROVE  Attended'
<1>1. /\ worker[t].pc \in {"context", "discover", "advance", "cancel", "settle", "fail"}
      /\ Silent /\ Raise(t, "permanent")
  BY DEF LoseSave, At, Silent, store, history
<1>2. worker[t].pc \in Driving \ {"except"} /\ worker[t].pc \in Holding
  BY <1>1 DEF Driving, Holding
<1>3. ASSUME run[Job(t)].status \in Active, ~run[Job(t)].cancel
      PROVE  worker[t].mode = "drive"
  <2>1. Attends(worker[t], run[Job(t)])
    BY <1>1, OwnDuties
  <2>2. CASE worker[t].pc \notin {"cancel", "fail"}
    BY <1>1, <1>2, <2>1, <2>2 DEF Attends
  <2>3. CASE worker[t].pc \in {"cancel", "fail"}
    <3>1. Fresh(t)
      BY <1>2, <1>3, <2>1, DrivenRow DEF Attends, Fresh, Snap
    <3>2. Snap(t) = run[Job(t)]
      BY <1>2, <3>1, FreshCopy
    <3>3. Target(t) \in {"CANCELLED", "BLOCKED", "FAILED"}
      BY <2>3 DEF Target, At
    <3>4. CanTransition(Snap(t), Target(t))
      BY <1>3, <3>2, <3>3 DEF CanTransition, Allowed, Active
    <3>5. ~MaySave(t)
      BY <2>3 DEF LoseSave, At
    <3>. QED  BY <3>1, <3>4, <3>5 DEF MaySave
  <2>. QED  BY <2>2, <2>3
<1>. QED  BY <1>1, <1>3, RaiseAttends

\* The handler reads the row again: an active run goes on to its failure.
LEMMA ExceptAttends ==
    ASSUME Inductive, Inductive', Attended, NEW t \in Workers, Except(t)
    PROVE  Attended'
<1>. DEFINE current == run[Job(t)]
            label == CASE current.status = "COMPLETED"    -> "repair_completions"
                       [] current.status = "WAITING_USER" -> "repair_clarifications"
                       [] OTHER                           -> "check_failure"
            w == IF ~Present(current) THEN Idle
                 ELSE [worker[t] EXCEPT !.mode = "handle", !.snap = current, !.pc = label]
<1>1. worker[t].pc = "except" /\ worker[t].pc # "idle" /\ Silent /\ Becomes(t, w)
  BY DEF Except, At, Silent, store, history
<1>2. worker[t] \in Worker /\ (conversation = "active" => Earns(worker[t], run))
  BY <1>1, OwnDuties
<1>3. label \in {"repair_completions", "repair_clarifications", "check_failure"}
      /\ (current.status \in Active => label = "check_failure")
  BY DEF Active
<1>4. /\ w.pc \in {"idle", "repair_completions", "repair_clarifications", "check_failure"}
      /\ w.todo \in {worker[t].todo, {}}
      /\ w.pc # "idle" => w.snap = current /\ w.job = Job(t)
      /\ current.status \in Active => w.pc = "check_failure"
  <2>1. CASE ~Present(current)
    <3>1. w = Idle
      BY <2>1
    <3>. HIDE DEF w
    <3>. QED  BY <2>1, <3>1, RunStatusFacts DEF Idle
  <2>2. CASE Present(current)
    <3>. HIDE DEF label
    <3>1. w = [worker[t] EXCEPT !.mode = "handle", !.snap = current, !.pc = label]
      BY <2>2
    <3>. HIDE DEF w
    <3>2. w.pc = label /\ w.todo = worker[t].todo /\ w.snap = current /\ w.job = Job(t)
      BY <1>2, <3>1 DEF Worker, Job
    <3>. QED  BY <1>3, <3>2
  <2>. QED  BY <2>1, <2>2
<1>. HIDE DEF w, label
<1>5. conversation = "active" => Earns(w, run)
  BY <1>2, <1>4 DEF Earns, Answering
<1>6. Attends(w, run[w.job])
  BY <1>4 DEF Attends, Driving
<1>7. Job(t) = w.job \/ w.pc = "idle"
  BY <1>4
<1>. QED  BY <1>1, <1>4, <1>5, <1>6, <1>7, SilentSpeaks, WorkerAttends
          DEF Silent, Driving, Early

\* The handler saves the failure; a run that is over is left as it is.
LEMMA FailRunAttends ==
    ASSUME Inductive, Inductive', Attended, NEW t \in Workers, FailRun(t)
    PROVE  Attended'
<1>1. CASE Snap(t).status \notin Terminal
  BY <1>1, FailSaves, SavesAttend
<1>2. CASE Snap(t).status \in Terminal
  <2>1. worker[t].pc = "fail" /\ Becomes(t, Idle) /\ Silent
    BY <1>2 DEF FailRun, At, Release, Silent, history
  <2>2. worker[t].pc \in Driving \ {"except"} /\ worker[t].pc \in Holding
    BY <2>1 DEF Driving, Holding
  <2>3. ASSUME run[Job(t)].status \in Active, ~run[Job(t)].cancel
        PROVE  FALSE
    <3>1. Fresh(t)
      BY <2>1, <2>2, <2>3, OwnDuties, DrivenRow DEF Attends, Fresh, Snap
    <3>2. Snap(t) = run[Job(t)]
      BY <2>2, <3>1, FreshCopy
    <3>. QED  BY <1>2, <2>3, <3>2 DEF Active, Terminal, Settled
  <2>4. Earns(Idle, run) /\ Attends(Idle, run[Idle.job]) /\ Idle.pc = "idle"
    BY DEF Earns, Answering, Attends, Driving, Idle
  <2>. QED  BY <2>1, <2>3, <2>4, SilentSpeaks, WorkerAttends DEF Silent, Driving
<1>. QED  BY <1>1, <1>2

\* A claim is lost only to a writer that took the row away from its waiting.
LEMMA ClaimAttends ==
    ASSUME Inductive, Inductive', Attended, NEW t \in Workers, Claim(t)
    PROVE  Attended'
<1>1. CASE MaySave(t)
  BY <1>1, ClaimSaves, SavesAttend
<1>2. CASE ~MaySave(t)
  <2>1. worker[t].pc = "claim" /\ worker[t].pc # "idle" /\ Becomes(t, Idle) /\ Silent
    BY <1>2 DEF Claim, At, Release, Silent, history
  <2>2. /\ Up /\ Up' /\ t \in Threads /\ worker'[t] = Idle
        /\ \A u \in Threads : u # t => worker'[u] = worker[u]
    BY <2>1, WorkersUp
  <2>3. Idle.pc = "idle" /\ Idle.todo = {} /\ "idle" \notin Driving
    BY DEF Idle, Driving
  <2>4. OnlyCompletedSpeaks'
    BY <2>1, SilentSpeaks, SpeechKept DEF Attended, Silent
  <2>5. AnswersAreEarned'
    <3>1. Earns(Idle, run)
      BY <2>3 DEF Earns, Answering
    <3>. QED  BY <2>1, <2>2, <3>1 DEF Attended, AnswersAreEarned, Silent
  <2>6. NobodyAnswersTheDeleted'
    BY <2>1, <2>2, <2>3 DEF Attended, NobodyAnswersTheDeleted, Threads, Silent
  <2>7. RestartGetsThrough'
    BY <2>2 DEF RestartGetsThrough
  <2>8. DriversAttend'
    <3>1. Attends(Idle, run[Idle.job])
      BY <2>3 DEF Attends
    <3>. QED  BY <2>1, <2>2, <3>1 DEF Attended, DriversAttend, Threads, Job, Silent
  <2>9. OnlyCancelLosesARun'
    <3> SUFFICES ASSUME NEW r \in Runs, run[r].status \in Active, ~run[r].cancel
                 PROVE  \E u \in Workers : worker'[u].job = r /\ worker'[u].pc \in Driving
      BY <2>1 DEF OnlyCancelLosesARun, Drives, Job, Silent
    <3>1. PICK u \in Workers : Job(u) = r /\ worker[u].pc \in Driving
      BY <2>2 DEF Attended, OnlyCancelLosesARun, Drives
    <3>2. u # t
      BY <2>1, <3>1 DEF Driving
    <3>. QED  BY <2>2, <3>1, <3>2 DEF Job, Threads
  <2>10. RetriesAllowed'
    BY <2>1 DEF Attended, RetriesAllowed, Silent
  <2>11. RunsAwaited'
    <3> SUFFICES ASSUME NEW r \in Runs, Awaiting(run[r])
                 PROVE  Awaited(r)'
      BY <2>1 DEF RunsAwaited, Awaiting, Silent
    <3>1. Awaited(r)
      BY <2>2 DEF Attended, RunsAwaited
    <3>2. ASSUME NEW u \in Workers, Job(u) = r, At(u, "claim"), Snap(u) = run[r]
          PROVE  Awaited(r)'
      <4>1. u # t
        <5>1. ASSUME u = t
              PROVE  MaySave(t)
          <6>1. run[r] \in Row /\ Runnable(run[r])
            BY DEF Awaiting, Inductive, TypeOK
          <6>2. Fresh(t) /\ Snap(t) = run[r]
            BY <3>2, <5>1, <6>1 DEF Fresh, Runnable
          <6>3. Target(t) = "CONTEXTUALIZING"
            BY <2>1 DEF Target, At
          <6>4. run[r].status = "FAILED" => run[r].retryable
            BY <6>1 DEF Attended, RetriesAllowed, Runnable
          <6>5. CanTransition(Snap(t), Target(t))
            BY <6>1, <6>2, <6>3, <6>4 DEF CanTransition, Allowed, Runnable
          <6>. QED  BY <6>2, <6>5 DEF MaySave
        <5>. QED  BY <1>2, <5>1
      <4>2. worker'[u] = worker[u]
        BY <2>2, <4>1 DEF Threads
      <4>. QED  BY <2>1, <3>2, <4>2 DEF Awaited, Job, At, Snap, Silent
    <3>. QED  BY <2>1, <3>1, <3>2 DEF Awaited, Silent
  <2>. QED  BY <2>4, <2>5, <2>6, <2>7, <2>8, <2>9, <2>10, <2>11 DEF Attended
<1>. QED  BY <1>1, <1>2

\* A pool thread takes a submission: the run is in its hands, or did not wait.
LEMMA PickAttends ==
    ASSUME Inductive, Inductive', Attended, NEW t \in Workers, Pick(t)
    PROVE  Attended'
<1>. DEFINE h == Head(queue)
            w == IF Runnable(run[h])
                 THEN [Idle EXCEPT !.pc = "claim", !.job = h, !.snap = run[h]]
                 ELSE worker[t]
<1>1. /\ worker[t].pc = "idle" /\ queue # <<>> /\ queue' = Tail(queue)
      /\ UNCHANGED <<run, log, messages, memory, conversation, calls, crashes>>
      /\ t \in Threads /\ t # Boot /\ Boot \in Threads
  BY ThreadsAssumption DEF Pick, At, store, history, Threads
<1>2. /\ queue \in Seq(Runs) /\ worker \in [Threads -> Worker]
  BY DEF Inductive, TypeOK
<1>3. Becomes(t, w)
  BY <1>1, <1>2 DEF Pick, Becomes
<1>4. worker'[t] = w /\ \A u \in Threads : u # t => worker'[u] = worker[u]
  BY <1>1, <1>2, <1>3 DEF Becomes
<1>5. \/ /\ Runnable(run[h]) /\ w.pc = "claim" /\ w.job = h /\ w.snap = run[h] /\ w.todo = {}
         /\ w.mode = "drive"
      \/ ~Runnable(run[h]) /\ w = worker[t]
  BY DEF Idle
<1>. HIDE DEF w
<1>6. Up /\ Up'
  <2>1. Up
    BY <1>1 DEF Inductive, QuietRestart
  <2>. QED  BY <1>1, <1>4, <2>1 DEF Up, At
<1>7. w.pc \notin Driving
  BY <1>1, <1>5 DEF Driving
<1>8. OnlyCompletedSpeaks'
  BY <1>1, EventSpeaks, SpeechKept DEF Attended
<1>9. AnswersAreEarned'
  <2>1. conversation = "active" => Earns(w, run)
    BY <1>1, <1>5 DEF Attended, AnswersAreEarned, Earns, Answering
  <2>. QED  BY <1>1, <1>4, <2>1 DEF Attended, AnswersAreEarned
<1>10. NobodyAnswersTheDeleted'
  BY <1>1, <1>4, <1>6, <1>7 DEF Attended, NobodyAnswersTheDeleted, Threads
<1>11. RestartGetsThrough'
  BY <1>6 DEF RestartGetsThrough
<1>12. DriversAttend'
  <2>1. Attends(w, run[w.job])
    BY <1>5, <1>7 DEF Attended, DriversAttend, Attends, Job
  <2>. QED  BY <1>1, <1>4, <2>1 DEF Attended, DriversAttend, Threads, Job
<1>13. OnlyCancelLosesARun'
  <2> SUFFICES ASSUME NEW r \in Runs, run[r].status \in Active, ~run[r].cancel
               PROVE  \E u \in Workers : worker'[u].job = r /\ worker'[u].pc \in Driving
    BY <1>1 DEF OnlyCancelLosesARun, Drives, Job
  <2>1. PICK u \in Workers : Job(u) = r /\ worker[u].pc \in Driving
    BY <1>6 DEF Attended, OnlyCancelLosesARun, Drives
  <2>2. u # t
    BY <1>1, <2>1 DEF Driving
  <2>. QED  BY <1>4, <2>1, <2>2 DEF Job, Threads
<1>14. RetriesAllowed'
  BY <1>1 DEF Attended, RetriesAllowed
<1>15. RunsAwaited'
  <2> SUFFICES ASSUME NEW r \in Runs, Awaiting(run[r])
               PROVE  Awaited(r)'
    BY <1>1 DEF RunsAwaited, Awaiting
  <2>1. Awaited(r)
    BY <1>6 DEF Attended, RunsAwaited
  <2>2. ASSUME NEW u \in Workers, Job(u) = r, At(u, "claim"), Snap(u) = run[r]
        PROVE  Awaited(r)'
    <3>1. u # t /\ worker'[u] = worker[u]
      BY <1>1, <1>4, <2>2 DEF At, Threads
    <3>. QED  BY <1>1, <2>2, <3>1 DEF Awaited, Job, At, Snap
  <2>3. ASSUME NEW i \in DOMAIN queue, queue[i] = r
        PROVE  Awaited(r)'
    <3>1. CASE i = 1
      <4>1. h = r /\ Runnable(run[h])
        BY <1>1, <1>2, <2>3, <3>1 DEF Awaiting
      <4>. QED  BY <1>1, <1>4, <1>5, <4>1 DEF Awaited, Job, At, Snap
    <3>2. CASE i # 1
      <4>1. i - 1 \in DOMAIN queue' /\ queue'[i - 1] = r
        BY <1>1, <1>2, <2>3, <3>2
      <4>. QED  BY <4>1 DEF Awaited
    <3>. QED  BY <3>1, <3>2
  <2>. QED  BY <1>1, <2>1, <2>2, <2>3 DEF Awaited
<1>. QED  BY <1>8, <1>9, <1>10, <1>11, <1>12, <1>13, <1>14, <1>15 DEF Attended

-----------------------------------------------------------------------------
(* Publishing and repairing, by a worker or by the constructor *)

\* A thread goes on as `w' and speaks for nobody but a completed run.
Announces(t, w) ==
    /\ SpeaksTrue /\ (conversation = "active" => Earns(w, run))
    /\ Becomes(t, w) /\ UNCHANGED <<run, conversation, queue, calls, crashes>>
    /\ w.pc \notin (Driving \ {"except"}) \cup {"claim"} /\ (w.pc = "except" => w.mode = "drive")

\* The constructor goes on as `w'.
Recovers(w) ==
    /\ w.pc # "idle" /\ Restarting(w) /\ (w.pc = "put" => w.expected = memory'.revision)
    /\ Interrupting(w) \/ \A r \in Runs : run[r].status \notin Active
    /\ conversation = "deleted" =>
        w.pc \notin {"message", "memory", "revision", "put"} /\ w.todo = {}

\* What the invariant says of the constructor at work.
LEMMA BootDuties ==
    ASSUME Inductive, Attended, worker[Boot].pc # "idle"
    PROVE  /\ ~Up /\ crashes > 0 /\ Restarting(worker[Boot])
           /\ At(Boot, "put") => worker[Boot].expected = memory.revision
           /\ Interrupting(worker[Boot]) \/ \A r \in Runs : run[r].status \notin Active
           /\ conversation = "deleted" =>
                /\ worker[Boot].pc \notin {"message", "memory", "revision", "put"}
                /\ worker[Boot].todo = {}
           /\ conversation \in {"active", "deleted"}
<1>1. ~Up
  BY DEF Up, At
<1>. QED  BY <1>1 DEF Attended, RestartGetsThrough, NobodyAnswersTheDeleted, Inductive, TypeOK

\* What the invariants say of any thread that speaks.
LEMMA SpeakersDuties ==
    ASSUME Inductive, Attended, NEW t \in Threads
    PROVE  /\ worker[t] \in Worker /\ ThreadSound(worker[t])
           /\ conversation = "active" => Earns(worker[t], run)
           /\ worker[t].pc \notin Jobless => Job(t) \in Runs
BY OwnRuns DEF Attended, AnswersAreEarned, Job

\* A thread between the completion and its event goes on to `label', or back to the handler.
LEMMA GotoAnnounces ==
    ASSUME Inductive, Attended, NEW t \in Threads, NEW label, Goto(t, label), SpeaksTrue,
           UNCHANGED <<run, conversation, queue, calls, crashes>>,
           worker[t].pc \in {"message", "memory", "put", "publish"},
           label \in {"memory", "publish", "repair", "interrupt"},
           conversation = "active" /\ label \in {"memory", "publish"} =>
               Answering(worker[t]) \/ worker[t].outcome \notin {"query", "listing"},
           label = "memory" => worker[t].pc = "message" /\ worker[t].outcome = "query",
           t = Boot => /\ label \in {"memory", "publish"} => worker[t].pc # "publish"
                       /\ label = "repair" => worker[t].mode \in {"completions", "clarifications"}
                       /\ label = "interrupt" => worker[t].mode = "interrupted"
                       /\ conversation = "deleted" => worker[t].pc = "publish"
    PROVE  \E w : Announces(t, w) /\ (t = Boot => Recovers(w))
<1>. DEFINE w == [worker[t] EXCEPT !.pc = label]
<1>1. /\ worker[t] \in Worker /\ (conversation = "active" => Earns(worker[t], run))
  BY SpeakersDuties
<1>2. /\ w.pc = label /\ w.job = Job(t) /\ w.todo = worker[t].todo /\ w.mode = worker[t].mode
      /\ w.outcome = worker[t].outcome
  BY <1>1 DEF Worker, Job
<1>3. Becomes(t, w)
  BY DEF Goto
<1>. HIDE DEF w
<1>4. conversation = "active" => Earns(w, run)
  <2> SUFFICES ASSUME conversation = "active"
               PROVE  Answering(w) => run[w.job].status = "COMPLETED"
    BY <1>1, <1>2 DEF Earns
  <2>1. Answering(w) => Answering(worker[t])
    BY <1>2 DEF Answering
  <2>. QED  BY <1>1, <1>2, <2>1 DEF Earns, Job
<1>5. Announces(t, w)
  BY <1>2, <1>3, <1>4 DEF Announces, Driving
<1>6. ASSUME t = Boot
      PROVE  Recovers(w)
  <2>1. worker[Boot].pc # "idle"
    BY <1>6
  <2>2. w.pc # "idle" /\ Restarting(w) /\ w.pc # "put"
    BY <1>2, <1>6, <2>1, BootDuties DEF Restarting
  <2>3. Interrupting(w) \/ \A r \in Runs : run[r].status \notin Active
    BY <1>2, <1>6, <2>1, BootDuties DEF Interrupting, Restarting
  <2>4. conversation = "deleted" =>
            w.pc \notin {"message", "memory", "revision", "put"} /\ w.todo = {}
    BY <1>2, <1>6, <2>1, BootDuties
  <2>. QED  BY <2>2, <2>3, <2>4 DEF Recovers
<1>. QED  BY <1>5, <1>6

\* An exception of a thread that publishes: the constructor's cannot happen.
LEMMA RaiseAnnounces ==
    ASSUME Inductive, Attended, NEW t \in Threads, t # Boot, NEW fault, Raise(t, fault), SpeaksTrue,
           UNCHANGED <<run, conversation, queue, calls, crashes>>
    PROVE  \E w : Announces(t, w) /\ (t = Boot => Recovers(w))
<1>. DEFINE w == IF worker[t].mode = "drive"
                 THEN [worker[t] EXCEPT !.pc = "except", !.outcome = fault]
                 ELSE Idle
<1>1. worker[t] \in Worker /\ (conversation = "active" => Earns(worker[t], run))
  BY SpeakersDuties
<1>2. Becomes(t, w)
  BY DEF Raise
<1>3. \/ w.pc = "except" /\ w.mode = "drive" /\ w.todo = worker[t].todo
      \/ w.pc = "idle" /\ w.todo = {}
  <2>1. CASE worker[t].mode = "drive"
    BY <1>1, <2>1 DEF Worker
  <2>2. CASE worker[t].mode # "drive"
    BY <2>2 DEF Idle
  <2>. QED  BY <2>1, <2>2
<1>. HIDE DEF w
<1>4. conversation = "active" => Earns(w, run)
  BY <1>1, <1>3 DEF Earns, Answering
<1>. QED  BY <1>2, <1>3, <1>4 DEF Announces, Driving

\* assistant_message: the answer of a completed run.
LEMMA PostMessageAnnounces ==
    ASSUME Inductive, Inductive', Attended, NEW t \in Threads, PostMessage(t)
    PROVE  \E w : Announces(t, w) /\ (t = Boot => Recovers(w))
<1>1. /\ worker[t].pc = "message" /\ worker[t].pc # "idle"
      /\ UNCHANGED <<run, log, memory, conversation, queue, calls, crashes>>
  BY DEF PostMessage, At, history
<1>2. /\ (conversation = "active" => Earns(worker[t], run)) /\ Job(t) \in Runs
      /\ messages \in [Runs -> Thread]
  BY <1>1, SpeakersDuties DEF Jobless, Inductive, TypeOK
<1>3. SpeaksTrue
  <2> SUFFICES ASSUME conversation = "active", NEW r \in Runs, Spoken(r)'
               PROVE  Spoken(r) \/ run[r].status = "COMPLETED"
    BY DEF SpeaksTrue
  <2>1. Published(r, "RUN_COMPLETED")' => Published(r, "RUN_COMPLETED")
    BY <1>1 DEF Published
  <2>2. messages'[r].answer => messages[r].answer \/ (r = Job(t) /\ worker[t].outcome # "question")
    <3>1. CASE r # Job(t)
      BY <1>2, <3>1 DEF PostMessage
    <3>2. CASE r = Job(t) /\ worker[t].outcome = "question"
      <4>1. messages'[r] = [messages[r] EXCEPT
                                !.prompts = messages[r].prompts \cup {Snap(t).revision}]
        BY <1>2, <3>2 DEF PostMessage
      <4>2. messages[r] \in Thread
        BY <1>2
      <4>. QED  BY <4>1, <4>2 DEF Thread
    <3>3. CASE r = Job(t) /\ worker[t].outcome # "question"
      BY <3>3
    <3>. QED  BY <3>1, <3>2, <3>3
  <2>3. worker[t].outcome # "question" => run[Job(t)].status = "COMPLETED"
    BY <1>1, <1>2 DEF Earns, Answering, Job
  <2>. QED  BY <1>1, <2>1, <2>2, <2>3 DEF Spoken
<1>4. ASSUME t = Boot
      PROVE  worker[t].mode \in {"completions", "clarifications"} /\ conversation # "deleted"
  BY <1>1, <1>4, BootDuties DEF Restarting
<1>5. PICK label \in {"memory", "publish"} :
        Goto(t, label) /\ (label = "memory" => worker[t].outcome = "query")
  BY DEF PostMessage
<1>6. Answering(worker[t]) \/ worker[t].outcome \notin {"query", "listing"}
  BY <1>1 DEF Answering
<1>. QED  BY <1>1, <1>3, <1>4, <1>5, <1>6, GotoAnnounces

\* The memory is read before it is written.
LEMMA ReadMemoryAnnounces ==
    ASSUME Inductive, Inductive', Attended, NEW t \in Threads,
           ReadMemory(t) \/ ReadMemoryRevision(t)
    PROVE  \E w : Announces(t, w) /\ (t = Boot => Recovers(w))
<1>1. /\ worker[t].pc \in {"memory", "revision"} /\ worker[t].pc # "idle"
      /\ UNCHANGED <<run, log, messages, memory, conversation, queue, calls, crashes>>
  BY DEF ReadMemory, ReadMemoryRevision, At, store, history
<1>2. SpeaksTrue
  BY <1>1, SilentSpeaks DEF Silent
<1>3. /\ worker[t] \in Worker /\ (conversation = "active" => Earns(worker[t], run))
  BY SpeakersDuties
<1>4. ASSUME t = Boot
      PROVE  worker[t].mode \in {"completions", "clarifications"} /\ conversation # "deleted"
             /\ \A r \in Runs : run[r].status \notin Active
  BY <1>1, <1>4, BootDuties DEF Restarting, Interrupting
<1>5. CASE conversation = "deleted"
  <2>1. Raise(t, "permanent") /\ t # Boot
    BY <1>4, <1>5 DEF ReadMemory, ReadMemoryRevision
  <2>. QED  BY <1>1, <1>2, <2>1, RaiseAnnounces
<1>6. CASE worker[t].pc = "memory" /\ Goto(t, "publish")
  BY <1>1, <1>2, <1>4, <1>6, GotoAnnounces DEF Answering
<1>7. ASSUME NEW w, Becomes(t, w), w.pc \in {"revision", "put"}, w.job = Job(t),
             w.todo = worker[t].todo, w.mode = worker[t].mode,
             w.pc = "put" => w.expected = memory.revision
      PROVE  Announces(t, w) /\ (t = Boot => Recovers(w))
  <2>1. conversation = "active" => Earns(w, run)
    BY <1>1, <1>3, <1>7 DEF Earns, Answering, Job
  <2>2. Announces(t, w)
    BY <1>1, <1>2, <1>7, <2>1 DEF Announces, Driving
  <2>3. t = Boot => Recovers(w)
    BY <1>1, <1>4, <1>7 DEF Recovers, Restarting
  <2>. QED  BY <2>2, <2>3
<1>8. CASE Becomes(t, [worker[t] EXCEPT !.pc = "revision", !.stamp = clock])
  <2>. DEFINE w == [worker[t] EXCEPT !.pc = "revision", !.stamp = clock]
  <2>1. w.pc = "revision" /\ w.job = Job(t) /\ w.todo = worker[t].todo /\ w.mode = worker[t].mode
    BY <1>3 DEF Worker, Job
  <2>2. Becomes(t, w)
    BY <1>8
  <2>. HIDE DEF w
  <2>. QED  BY <1>7, <2>1, <2>2
<1>9. CASE Becomes(t, [worker[t] EXCEPT !.pc = "put", !.expected = memory.revision])
  <2>. DEFINE w == [worker[t] EXCEPT !.pc = "put", !.expected = memory.revision]
  <2>1. /\ w.pc = "put" /\ w.job = Job(t) /\ w.todo = worker[t].todo
        /\ w.mode = worker[t].mode /\ w.expected = memory.revision
    BY <1>3 DEF Worker, Job
  <2>2. Becomes(t, w)
    BY <1>9
  <2>. HIDE DEF w
  <2>. QED  BY <1>7, <2>1, <2>2
<1>. QED  BY <1>5, <1>6, <1>8, <1>9 DEF ReadMemory, ReadMemoryRevision, At

\* put_memory: the memory of a completed run, or a conflict with another writer.
LEMMA PutMemoryAnnounces ==
    ASSUME Inductive, Inductive', Attended, NEW t \in Threads, PutMemory(t)
    PROVE  \E w : Announces(t, w) /\ (t = Boot => Recovers(w))
<1>1. /\ worker[t].pc = "put" /\ worker[t].pc # "idle"
      /\ UNCHANGED <<run, log, messages, conversation, queue, calls, crashes>>
  BY DEF PutMemory, At, history
<1>2. conversation = "active" => Earns(worker[t], run)
  BY SpeakersDuties
<1>3. t = Boot => /\ worker[t].mode \in {"completions", "clarifications"}
                  /\ conversation = "active" /\ memory.revision = worker[t].expected
  BY <1>1, BootDuties DEF Restarting, At
<1>4. CASE conversation = "active" /\ memory.revision = worker[t].expected
  <2>1. memory' = [last |-> Job(t), revision |-> memory.revision + 1, stamp |-> worker[t].stamp]
        /\ Goto(t, "publish")
    BY <1>4 DEF PutMemory
  <2>2. memory'.last = Job(t) /\ run[Job(t)].status = "COMPLETED"
    BY <1>1, <1>2, <1>4, <2>1 DEF Earns, Answering, Job
  <2>3. SpeaksTrue
    BY <1>1, <2>2 DEF SpeaksTrue, Spoken, Published
  <2>. QED  BY <1>1, <1>3, <1>4, <2>1, <2>3, GotoAnnounces DEF Answering
<1>5. CASE ~(conversation = "active" /\ memory.revision = worker[t].expected)
  <2>1. Raise(t, "permanent") /\ memory' = memory /\ t # Boot
    BY <1>3, <1>5 DEF PutMemory
  <2>2. SpeaksTrue
    BY <1>1, <2>1, SilentSpeaks DEF Silent
  <2>. QED  BY <1>1, <2>1, <2>2, RaiseAnnounces
<1>. QED  BY <1>4, <1>5

\* The event that announces an outcome.
LEMMA PublishAnnounces ==
    ASSUME Inductive, Inductive', Attended, NEW t \in Threads, Publish(t)
    PROVE  \E w : Announces(t, w) /\ (t = Boot => Recovers(w))
<1>. DEFINE event == EventOf[worker[t].outcome]
<1>1. /\ worker[t].pc = "publish" /\ worker[t].pc # "idle" /\ AppendEvent(Job(t), event)
      /\ UNCHANGED <<run, messages, memory, conversation, queue, calls, crashes>>
  BY DEF Publish, At, history
<1>2. /\ (conversation = "active" => Earns(worker[t], run)) /\ Job(t) \in Runs
      /\ worker[t].outcome \in Outcome \cup {"cancel"}
  BY <1>1, SpeakersDuties DEF Jobless, ThreadSound
<1>3. event \in EventType /\ (event = "RUN_COMPLETED" => worker[t].outcome \in {"query", "listing"})
  BY <1>2 DEF EventOf, EventType, Outcome, Fault, Reply
<1>. HIDE DEF event
<1>4. event = "RUN_COMPLETED" /\ conversation = "active" => run[Job(t)].status = "COMPLETED"
  BY <1>1, <1>2, <1>3 DEF Earns, Answering, Job
<1>5. SpeaksTrue
  BY <1>1, <1>2, <1>3, <1>4, EventSpeaks
<1>6. t = Boot => Restarting(worker[t])
  BY <1>1, BootDuties
<1>7. CASE worker[t].mode \in {"completions", "clarifications"}
  <2>1. Goto(t, "repair")
    BY <1>7 DEF Publish
  <2>. QED  BY <1>1, <1>5, <1>7, <2>1, GotoAnnounces
<1>8. CASE worker[t].mode = "interrupted"
  <2>1. Goto(t, "interrupt")
    BY <1>8 DEF Publish
  <2>. QED  BY <1>1, <1>5, <1>8, <2>1, GotoAnnounces
<1>9. CASE worker[t].mode \notin {"completions", "clarifications", "interrupted"}
  <2>1. Becomes(t, Idle)
    BY <1>9 DEF Publish, Release
  <2>2. t # Boot
    BY <1>1, <1>6, <1>9 DEF Restarting
  <2>3. Idle.pc = "idle" /\ Earns(Idle, run)
    BY DEF Idle, Earns, Answering
  <2>4. Announces(t, Idle)
    BY <1>1, <1>5, <2>1, <2>3 DEF Announces, Driving
  <2>. QED  BY <2>2, <2>4
<1>. QED  BY <1>7, <1>8, <1>9

\* A list of repairs holds runs whose row says what is to be repaired.
LEMMA ListAnnounces ==
    ASSUME Inductive, Inductive', Attended, NEW t \in Threads,
           ListCompletions(t) \/ ListClarifications(t)
    PROVE  \E w : Announces(t, w) /\ (t = Boot => Recovers(w))
<1>1. /\ worker[t].pc \in {"repair_completions", "repair_clarifications"}
      /\ worker[t].pc # "idle"
      /\ UNCHANGED <<run, log, messages, memory, conversation, queue, calls, crashes>>
  BY DEF ListCompletions, ListClarifications, At, store, history
<1>2. worker[t] \in Worker /\ conversation \in {"active", "deleted"}
  BY SpeakersDuties DEF Inductive, TypeOK
<1>3. SpeaksTrue
  BY <1>1, SilentSpeaks DEF Silent
<1>4. ASSUME NEW mode \in {"completions", "clarifications"}, NEW rs, ListRepairs(t, mode, rs),
             \A r \in rs : \/ run[r].status = "COMPLETED"
                           \/ run[r].response = "question",
             conversation = "deleted" => rs = {}
      PROVE  \E w : Announces(t, w) /\ (t = Boot => Recovers(w))
  <2>. DEFINE items == {[job |-> r, snap |-> run[r]] : r \in rs}
              w == [worker[t] EXCEPT !.pc = "repair", !.mode = mode, !.todo = items]
  <2>1. Becomes(t, w)
    BY <1>4 DEF ListRepairs
  <2>2. w.pc = "repair" /\ w.mode = mode /\ w.todo = items
    BY <1>2 DEF Worker
  <2>3. \A item \in items :
            item.snap.response # "question" => run[item.job].status = "COMPLETED"
    BY <1>4
  <2>4. conversation = "deleted" => items = {}
    BY <1>4
  <2>. HIDE DEF w, items
  <2>5. Announces(t, w)
    BY <1>1, <1>3, <2>1, <2>2, <2>3 DEF Announces, Earns, Answering, Driving
  <2>6. ASSUME t = Boot
        PROVE  Recovers(w)
    <3>1. \A r \in Runs : run[r].status \notin Active
      BY <1>1, <2>6, BootDuties DEF Interrupting
    <3>. QED  BY <2>2, <2>4, <3>1 DEF Recovers, Restarting
  <2>. QED  BY <2>5, <2>6
<1>5. conversation = "deleted" => \A r \in Runs : run[r].status \notin {"COMPLETED", "WAITING_USER"}
  BY DEF Attended, NobodyAnswersTheDeleted
<1>6. CASE ListCompletions(t)
  <2>1. ListRepairs(t, "completions", IncompleteCompletions)
    BY <1>6 DEF ListCompletions
  <2>2. \A r \in IncompleteCompletions : r \in Runs /\ run[r].status = "COMPLETED"
    BY DEF IncompleteCompletions
  <2>3. conversation = "deleted" => IncompleteCompletions = {}
    BY <1>5, <2>2
  <2>. QED  BY <1>4, <2>1, <2>2, <2>3
<1>7. CASE ListClarifications(t)
  <2>1. ListRepairs(t, "clarifications", IncompleteClarifications)
    BY <1>7 DEF ListClarifications
  <2>2. \A r \in IncompleteClarifications : r \in Runs /\ run[r].status = "WAITING_USER"
    BY DEF IncompleteClarifications
  <2>3. conversation = "deleted" => IncompleteClarifications = {}
    BY <1>5, <2>2
  <2>4. \A r \in IncompleteClarifications : run[r].response = "question"
    BY <2>2 DEF Inductive, RowsSound, RowSound
  <2>. QED  BY <1>4, <2>1, <2>3, <2>4
<1>. QED  BY <1>6, <1>7

\* The next repair speaks for a completed run, or asks a question again.
LEMMA RepairAnnounces ==
    ASSUME Inductive, Inductive', Attended, NEW t \in Threads,
           RepairNext(t) \/ RepairDone(t)
    PROVE  \E w : Announces(t, w) /\ (t = Boot => Recovers(w))
<1>1. /\ worker[t].pc = "repair" /\ worker[t].pc # "idle"
      /\ UNCHANGED <<run, log, messages, memory, conversation, queue, calls, crashes>>
  BY DEF RepairNext, RepairDone, At, store, history
<1>2. /\ worker[t] \in Worker /\ ThreadSound(worker[t])
      /\ conversation = "active" => Earns(worker[t], run)
  BY SpeakersDuties
<1>3. SpeaksTrue
  BY <1>1, SilentSpeaks DEF Silent
<1>4. t = Boot => \A r \in Runs : run[r].status \notin Active
  BY <1>1, BootDuties DEF Interrupting
<1>5. CASE RepairNext(t)
  <2>1. PICK item \in worker[t].todo :
            Becomes(t, [worker[t] EXCEPT !.pc = "message", !.job = item.job,
                !.snap = item.snap, !.outcome = item.snap.response, !.todo = @ \ {item}])
    BY <1>5 DEF RepairNext
  <2>. DEFINE w == [worker[t] EXCEPT !.pc = "message", !.job = item.job,
                !.snap = item.snap, !.outcome = item.snap.response, !.todo = @ \ {item}]
  <2>2. /\ w.pc = "message" /\ w.job = item.job /\ w.mode = worker[t].mode
        /\ w.outcome = item.snap.response /\ w.todo \subseteq worker[t].todo
    BY <1>2 DEF Worker
  <2>3. Becomes(t, w)
    BY <2>1
  <2>. HIDE DEF w
  <2>4. conversation = "active" => Earns(w, run)
    BY <1>2, <2>2 DEF Earns, Answering
  <2>5. Announces(t, w)
    BY <1>1, <1>3, <2>2, <2>3, <2>4 DEF Announces, Driving
  <2>6. ASSUME t = Boot
        PROVE  Recovers(w)
    <3>1. conversation # "deleted" /\ worker[t].mode \in {"completions", "clarifications"}
      BY <1>1, <2>6, BootDuties DEF Restarting
    <3>. QED  BY <1>4, <2>2, <2>6, <3>1 DEF Recovers, Restarting
  <2>. QED  BY SMTT(60), <2>5, <2>6
<1>6. CASE RepairDone(t)
  <2>1. PICK label \in {"idle", "repair_clarifications", "resubmit"} :
            /\ Becomes(t, [Idle EXCEPT !.pc = label])
            /\ t = Boot => label # "idle"
    <3>1. Idle = [Idle EXCEPT !.pc = "idle"]
      BY DEF Idle
    <3>. QED  BY <1>6, <3>1 DEF RepairDone, Release
  <2>. DEFINE w == [Idle EXCEPT !.pc = label]
  <2>2. w.pc = label /\ w.todo = {} /\ Becomes(t, w)
    BY <2>1 DEF Idle
  <2>. HIDE DEF w
  <2>3. Announces(t, w)
    BY <1>1, <1>3, <2>2 DEF Announces, Earns, Answering, Driving
  <2>4. t = Boot => Recovers(w)
    BY <1>4, <2>1, <2>2 DEF Recovers, Restarting
  <2>. QED  BY <2>3, <2>4
<1>. QED  BY <1>5, <1>6

\* Whatever a thread publishes, it speaks for nobody but a completed run.
LEMMA PublishingAnnounces ==
    ASSUME Inductive, Inductive', Attended, NEW t \in Threads, Publishing(t)
    PROVE  \E w : Announces(t, w) /\ (t = Boot => Recovers(w))
BY PostMessageAnnounces, ReadMemoryAnnounces, PutMemoryAnnounces, PublishAnnounces,
   ListAnnounces, RepairAnnounces DEF Publishing

\* A worker's publishing keeps the invariant.
LEMMA WorkerPublishingAttends ==
    ASSUME Inductive, Inductive', Attended, NEW t \in Workers, Publishing(t)
    PROVE  Attended'
<1>1. t \in Threads /\ t # Boot
  BY ThreadsAssumption DEF Threads
<1>2. PICK w : Announces(t, w)
  BY SMTT(60), <1>1, PublishingAnnounces
<1>3. worker[t].pc \notin {"idle", "claim"} /\ worker[t].pc \notin Driving
  BY DEF Publishing, PostMessage, ReadMemory, ReadMemoryRevision, PutMemory, Publish,
         ListCompletions, ListClarifications, RepairNext, RepairDone, At, Driving
<1>4. Attends(w, run[w.job]) /\ (w.pc \in Driving => w.pc \in Early)
  BY <1>2 DEF Announces, Attends, Driving, Early
<1>. QED  BY <1>2, <1>3, <1>4, WorkerAttends DEF Announces

\* The constructor's publishing keeps the invariant.
LEMMA BootPublishingAttends ==
    ASSUME Inductive, Inductive', Attended, Publishing(Boot)
    PROVE  Attended'
<1>1. worker \in [Threads -> Worker] /\ Boot \in Threads /\ Workers \subseteq Threads
      /\ \A t \in Workers : t # Boot
  BY ThreadsAssumption DEF Threads, Inductive, TypeOK
<1>2. PICK w : Announces(Boot, w) /\ Recovers(w)
  BY SMTT(60), <1>1, PublishingAnnounces
<1>3. worker[Boot].pc # "idle"
  BY DEF Publishing, PostMessage, ReadMemory, ReadMemoryRevision, PutMemory, Publish,
         ListCompletions, ListClarifications, RepairNext, RepairDone, At
<1>4. worker'[Boot] = w /\ (\A t \in Workers : worker'[t] = worker[t])
      /\ \A t \in Threads : t # Boot => worker'[t] = worker[t]
  BY <1>1, <1>2 DEF Announces, Becomes
<1>5. ~Up' /\ w.pc # "idle" /\ crashes > 0
  BY <1>2, <1>3, <1>4, BootDuties DEF Recovers, Up, At
<1>6. UNCHANGED <<run, conversation, queue, calls, crashes>> /\ SpeaksTrue
      /\ (conversation = "active" => Earns(w, run))
  BY <1>2 DEF Announces
<1>7. OnlyCompletedSpeaks'
  BY <1>6, SpeechKept DEF Attended
<1>8. AnswersAreEarned'
  BY <1>4, <1>6 DEF Attended, AnswersAreEarned
<1>9. NobodyAnswersTheDeleted'
  BY <1>2, <1>4, <1>6 DEF Attended, NobodyAnswersTheDeleted, Recovers
<1>10. RestartGetsThrough'
  BY <1>2, <1>4, <1>5, <1>6 DEF RestartGetsThrough, Recovers, At
<1>11. DriversAttend'
  BY <1>4, <1>6 DEF Attended, DriversAttend, Job
<1>12. OnlyCancelLosesARun' /\ RunsAwaited'
  BY <1>5 DEF OnlyCancelLosesARun, RunsAwaited
<1>13. RetriesAllowed'
  BY <1>6 DEF Attended, RetriesAllowed
<1>. QED  BY <1>7, <1>8, <1>9, <1>10, <1>11, <1>12, <1>13 DEF Attended

\* Every step of a worker keeps the invariant.
LEMMA WorkerStepAttends ==
    ASSUME Inductive, Inductive', Attended, NEW t \in Workers, WorkerStep(t)
    PROVE  Attended'
<1>1. CASE Discover(t) \/ Advance(t) \/ SettleBlock(t) \/ SettleQuestion(t) \/ SettleAnswer(t)
           \/ CancelRun(t)
  <2>1. \E row, w : Saves(t, row, w) /\ Settles(t, row) /\ Proceeds(t, row, w)
    BY <1>1, DiscoverSaves, AdvanceSaves, BlockSaves, QuestionSaves, AnswerSaves, CancelSaves
  <2>. QED  BY <2>1, SavesAttend
<1>2. CASE ContextChecked(t) \/ AskStarted(t) \/ FailureChecked(t)
  BY <1>2, ChecksAttend
<1>3. CASE Drive(t)
  BY <1>1, <1>2, <1>3, ClaimAttends, StartedAttends, BeginAttends, ContextAttends, AskAttends,
     SettleFaultAttends, LoseSaveAttends, ExceptAttends, FailRunAttends DEF Drive
<1>. QED  BY <1>3, PickAttends, WorkerPublishingAttends DEF WorkerStep

-----------------------------------------------------------------------------
(* The constructor *)

\* recover_interrupted() fails the runs a dead process was driving, then the repairs begin.
LEMMA InterruptAttends ==
    ASSUME Inductive, Inductive', Attended, Interrupt
    PROVE  Attended'
<1>1. worker \in [Threads -> Worker] /\ Boot \in Threads /\ Workers \subseteq Threads
      /\ run \in [Runs -> Row] /\ \A t \in Workers : t # Boot
  BY ThreadsAssumption DEF Threads, Inductive, TypeOK
<1>2. worker[Boot].pc = "interrupt" /\ worker[Boot].pc # "idle" /\ ~Up /\ crashes > 0
      /\ UNCHANGED <<log, messages, memory, conversation, queue, calls, crashes>>
  BY BootDuties DEF Interrupt, At, Up, history
<1>3. \A t \in Workers : worker[t].pc = "idle"
  BY <1>2 DEF Inductive, QuietRestart
<1>4. SpeaksTrue
  BY <1>2, EventSpeaks
<1>5. ASSUME NEW w, Becomes(Boot, w), w.pc \in {"publish", "repair_completions"}, w.todo = {},
             w.pc = "publish" => w.mode = "interrupted" /\ w.outcome = "transient",
             w.pc = "publish" \/ \A r \in Runs : run'[r].status \notin Active,
             \A r \in Runs :
                \/ run'[r] = run[r]
                \/ run[r].status \in Active /\ run'[r].status = "FAILED" /\ ~run'[r].queued
      PROVE  Attended'
  <2>1. worker'[Boot] = w /\ (\A t \in Workers : worker'[t] = worker[t])
        /\ \A t \in Threads : t # Boot => worker'[t] = worker[t]
    BY <1>1, <1>5 DEF Becomes
  <2>2. \A r \in Runs : run[r].status = "COMPLETED" => run'[r].status = "COMPLETED"
    BY <1>5 DEF Active
  <2>3. OnlyCompletedSpeaks'
    BY <1>2, <1>4, <2>2, SpeechKept DEF Attended
  <2>4. AnswersAreEarned'
    <3> SUFFICES ASSUME conversation = "active", NEW t \in Threads
                 PROVE  Earns(worker'[t], run')
      BY <1>2 DEF AnswersAreEarned
    <3>1. CASE t = Boot
      BY <1>5, <2>1, <3>1 DEF Earns, Answering
    <3>2. CASE t # Boot
      <4>1. ThreadSound(worker[t]) /\ worker[t].pc = "idle" /\ Earns(worker[t], run)
        BY <1>3, <3>2 DEF Inductive, ThreadsSound, Attended, AnswersAreEarned, Threads
      <4>2. \A item \in worker[t].todo : item.job \in Runs
        BY <1>1 DEF Worker
      <4>. QED  BY <2>1, <2>2, <3>2, <4>1, <4>2 DEF Earns, Answering
    <3>. QED  BY <3>1, <3>2
  <2>5. NobodyAnswersTheDeleted'
    BY <1>2, <1>5, <2>1 DEF Attended, NobodyAnswersTheDeleted
  <2>6. RestartGetsThrough'
    <3>1. Restarting(w) /\ w.pc # "put"
      BY <1>5 DEF Restarting
    <3>2. Interrupting(w) \/ \A r \in Runs : run'[r].status \notin Active
      BY <1>5 DEF Interrupting
    <3>. QED  BY <1>2, <2>1, <3>1, <3>2 DEF RestartGetsThrough, At
  <2>7. DriversAttend'
    BY <1>3, <2>1 DEF DriversAttend, Attends, Job, Driving
  <2>8. OnlyCancelLosesARun' /\ RunsAwaited'
    BY <1>5, <2>1 DEF OnlyCancelLosesARun, RunsAwaited, Up, At
  <2>9. RetriesAllowed'
    BY <1>5 DEF Attended, RetriesAllowed
  <2>. QED  BY <2>3, <2>4, <2>5, <2>6, <2>7, <2>8, <2>9 DEF Attended
<1>6. ASSUME NEW r \in Runs, run[r].status \in Active,
             run' = [run EXCEPT ![r] = Saved(Interrupted(run[r]))],
             Becomes(Boot, [Idle EXCEPT !.pc = "publish", !.mode = "interrupted",
                        !.job = r, !.snap = Saved(Interrupted(run[r])), !.outcome = "transient"])
      PROVE  Attended'
  <2>. DEFINE w == [Idle EXCEPT !.pc = "publish", !.mode = "interrupted",
                        !.job = r, !.snap = Saved(Interrupted(run[r])), !.outcome = "transient"]
  <2>1. w.pc = "publish" /\ w.mode = "interrupted" /\ w.outcome = "transient" /\ w.todo = {}
    BY DEF Idle
  <2>2. Becomes(Boot, w)
    BY <1>6
  <2>. HIDE DEF w
  <2>3. Transition(run[r], "FAILED") \in Row /\ Transition(run[r], "FAILED").status = "FAILED"
        /\ Transition(run[r], "FAILED").queued = FALSE
    BY ZenonT(60), <1>1 DEF Transition, Row, RunStatus, Terminal, Settled
  <2>4. Interrupted(run[r]) \in Row /\ Interrupted(run[r]).status = "FAILED"
        /\ Interrupted(run[r]).queued = FALSE
    BY <2>3 DEF Interrupted, Row
  <2>5. Saved(Interrupted(run[r])).status = "FAILED" /\ ~Saved(Interrupted(run[r])).queued
    BY <2>4, SavedPlace
  <2>6. \A s \in Runs : run'[s] = run[s] \/ (s = r /\ run'[s] = Saved(Interrupted(run[r])))
    BY <1>1, <1>6
  <2>. QED  BY <1>5, <1>6, <2>1, <2>2, <2>5, <2>6
<1>7. CASE (\A r \in Runs : run[r].status \notin Active)
           /\ Becomes(Boot, [Idle EXCEPT !.pc = "repair_completions"]) /\ run' = run
  <2>. DEFINE w == [Idle EXCEPT !.pc = "repair_completions"]
  <2>1. w.pc = "repair_completions" /\ w.todo = {} /\ Becomes(Boot, w)
    BY <1>7 DEF Idle
  <2>. HIDE DEF w
  <2>. QED  BY <1>5, <1>7, <2>1
<1>. QED  BY <1>6, <1>7 DEF Interrupt

\* resubmit_queued() puts every queued run in the pool's queue.
LEMMA OrdersCover ==
    ASSUME NEW S \in SUBSET Runs, NEW q \in Orders(S), NEW r \in S
    PROVE  \E i \in DOMAIN q : q[i] = r
<1>. DEFINE n == Cardinality(S)
<1>1. IsFiniteSet(S) /\ n \in Nat
  BY RunsAssumption, FS_Subset, FS_CardinalityType
<1>2. q \in [1..n -> S] /\ \A i, j \in DOMAIN q : q[i] = q[j] => i = j
  BY DEF Orders
<1>3. q \in Injection(1..n, S)
  BY <1>2 DEF Injection, IsInjective
<1>4. Cardinality(1..n) = n
  BY <1>1, FS_Interval
<1>. HIDE DEF n
<1>5. q \in Surjection(1..n, S)
  BY <1>1, <1>3, <1>4, FS_Injection DEF n
<1>. QED  BY <1>2, <1>5 DEF Surjection

\* A run that a reply or a retry has queued survives the restart.
LEMMA ResubmitAttends ==
    ASSUME Inductive, Inductive', Attended, Resubmit
    PROVE  Attended'
<1>1. worker \in [Threads -> Worker] /\ Boot \in Threads /\ Workers \subseteq Threads
      /\ \A t \in Workers : t # Boot
  BY ThreadsAssumption DEF Threads, Inductive, TypeOK
<1>2. /\ worker[Boot].pc = "resubmit" /\ worker[Boot].pc # "idle" /\ crashes > 0
      /\ queue' \in Orders(QueuedRuns) /\ Becomes(Boot, Idle)
      /\ UNCHANGED <<run, log, messages, memory, conversation, calls, crashes>>
  BY BootDuties DEF Resubmit, At, Release, store, history
<1>3. \A r \in Runs : run[r].status \notin Active
  BY <1>2, BootDuties DEF Interrupting
<1>4. worker'[Boot] = Idle /\ (\A t \in Workers : worker'[t] = worker[t])
      /\ \A t \in Threads : t # Boot => worker'[t] = worker[t]
  BY <1>1, <1>2 DEF Becomes
<1>5. SpeaksTrue
  BY <1>2, EventSpeaks
<1>6. OnlyCompletedSpeaks'
  BY <1>2, <1>5, SpeechKept DEF Attended
<1>7. AnswersAreEarned'
  <2>1. Earns(Idle, run)
    BY DEF Earns, Answering, Idle
  <2>. QED  BY <1>2, <1>4, <2>1 DEF Attended, AnswersAreEarned
<1>8. Up'
  BY <1>4 DEF Up, At, Idle
<1>9. NobodyAnswersTheDeleted' /\ RestartGetsThrough'
  BY <1>2, <1>4, <1>8 DEF Attended, NobodyAnswersTheDeleted, RestartGetsThrough
<1>10. DriversAttend' /\ RetriesAllowed'
  BY <1>2, <1>4 DEF Attended, DriversAttend, Job, RetriesAllowed
<1>11. OnlyCancelLosesARun'
  BY <1>2, <1>3 DEF OnlyCancelLosesARun
<1>12. RunsAwaited'
  <2> SUFFICES ASSUME NEW r \in Runs, Awaiting(run[r])
               PROVE  Awaited(r)'
    BY <1>2 DEF RunsAwaited, Awaiting
  <2>1. r \in QueuedRuns
    BY <1>2 DEF Awaiting, Runnable, QueuedRuns
  <2>2. QueuedRuns \in SUBSET Runs
    BY DEF QueuedRuns
  <2>3. \E i \in DOMAIN queue' : queue'[i] = r
    BY <1>2, <2>1, <2>2, OrdersCover
  <2>. QED  BY <2>3 DEF Awaited
<1>. QED  BY <1>6, <1>7, <1>9, <1>10, <1>11, <1>12 DEF Attended

\* The process dies: the next thing is the constructor.
LEMMA CrashAttends ==
    ASSUME Inductive, Inductive', Attended, Crash
    PROVE  Attended'
<1>. DEFINE b == [Idle EXCEPT !.pc = "interrupt"]
<1>1. UNCHANGED <<run, log, messages, memory, conversation>> /\ crashes' = crashes + 1
      /\ crashes \in Nat
  BY DEF Crash, store, Inductive, TypeOK
<1>2. worker'[Boot] = b /\ (\A t \in Workers : worker'[t] = Idle)
      /\ \A t \in Threads : worker'[t] \in {Idle, b}
  BY ThreadsAssumption DEF Crash, Threads
<1>3. Idle.pc = "idle" /\ Idle.todo = {} /\ b.pc = "interrupt" /\ b.todo = {}
  BY DEF Idle
<1>. HIDE DEF b
<1>4. OnlyCompletedSpeaks' /\ RetriesAllowed'
  BY <1>1 DEF Attended, OnlyCompletedSpeaks, RetriesAllowed, Published
<1>5. AnswersAreEarned'
  <2>1. Earns(Idle, run) /\ Earns(b, run)
    BY <1>3 DEF Earns, Answering
  <2>. QED  BY <1>1, <1>2, <2>1 DEF AnswersAreEarned
<1>6. NobodyAnswersTheDeleted'
  BY <1>1, <1>2, <1>3 DEF Attended, NobodyAnswersTheDeleted, Driving
<1>7. ~Up' /\ RestartGetsThrough'
  BY <1>1, <1>2, <1>3 DEF RestartGetsThrough, Restarting, Interrupting, Up, At
<1>8. DriversAttend'
  BY <1>2, <1>3 DEF DriversAttend, Attends, Driving
<1>9. OnlyCancelLosesARun' /\ RunsAwaited'
  BY <1>7 DEF OnlyCancelLosesARun, RunsAwaited
<1>. QED  BY <1>4, <1>5, <1>6, <1>7, <1>8, <1>9 DEF Attended

-----------------------------------------------------------------------------
(* The API calls *)

\* In the pool's queue, or in a call that will submit it.
Sought(r) ==
    \/ \E i \in DOMAIN queue : queue[i] = r
    \/ \E call \in calls : call.run = r /\ call.op # "event"

\* What a call may make of a row: it starts no drive and finishes none, and what it takes
\* from under a driver is taken by a cancel request.
Allows(old, row) ==
    /\ old.status # "COMPLETED"
    /\ row.status \in Active \/ old.status \in Active => row.cancel
    /\ row.status \in {"COMPLETED", "WAITING_USER"} => old.status = row.status
    /\ row.status = "FAILED" /\ row.queued => row.retryable

\* A call speaks for nobody and leaves the threads and what is on its way alone.
LEMMA CallAttends ==
    ASSUME Inductive, Inductive', Attended, Up, SpeaksTrue,
           UNCHANGED <<worker, conversation, crashes>>,
           \A r \in Runs : run'[r] = run[r] \/ Allows(run[r], run'[r]),
           \A r \in Runs : Sought(r) => Sought(r)',
           \A r \in Runs : run'[r] # run[r] /\ Awaiting(run'[r]) => Sought(r)'
    PROVE  Attended'
<1>1. Up' /\ RestartGetsThrough'
  BY DEF Up, At, RestartGetsThrough
<1>2. \A r \in Runs : run[r].status = "COMPLETED" => run'[r].status = "COMPLETED"
  BY DEF Allows
<1>3. OnlyCompletedSpeaks'
  BY <1>2, SpeechKept DEF Attended
<1>4. AnswersAreEarned'
  <2> SUFFICES ASSUME conversation = "active", NEW t \in Threads
               PROVE  Earns(worker[t], run')
    BY DEF AnswersAreEarned
  <2>1. ThreadSound(worker[t]) /\ Earns(worker[t], run) /\ worker[t] \in Worker
    BY DEF Inductive, ThreadsSound, Attended, AnswersAreEarned, TypeOK
  <2>2. \A item \in worker[t].todo : item.job \in Runs
    BY <2>1 DEF Worker
  <2>3. Answering(worker[t]) => worker[t].job \in Runs
    BY <2>1 DEF Answering, ThreadSound, Jobless
  <2>. QED  BY <1>2, <2>1, <2>2, <2>3 DEF Earns
<1>5. NobodyAnswersTheDeleted'
  BY DEF Attended, NobodyAnswersTheDeleted, Allows, Up, At
<1>6. DriversAttend'
  <2> SUFFICES ASSUME NEW t \in Workers
               PROVE  Attends(worker[t], run'[Job(t)])
    BY DEF DriversAttend, Job
  <2>1. Attends(worker[t], run[Job(t)])
    BY DEF Attended, DriversAttend
  <2>2. worker[t].pc \in Driving \ {"except"} => Job(t) \in Runs /\ run[Job(t)].status \in Active
    BY DrivenRow
  <2>. QED  BY <2>1, <2>2 DEF Attends, Allows
<1>7. OnlyCancelLosesARun'
  BY DEF Attended, OnlyCancelLosesARun, Drives, Job, Allows
<1>8. RetriesAllowed'
  BY DEF Attended, RetriesAllowed, Allows
<1>9. RunsAwaited'
  <2> SUFFICES ASSUME NEW r \in Runs, Awaiting(run'[r])
               PROVE  Awaited(r)'
    BY DEF RunsAwaited, Awaiting
  <2>1. CASE run'[r] # run[r]
    BY <2>1 DEF Awaited, Sought
  <2>2. CASE run'[r] = run[r]
    <3>1. Awaited(r)
      BY <2>2 DEF Attended, RunsAwaited
    <3>2. CASE Sought(r)
      BY <3>2 DEF Awaited, Sought
    <3>3. CASE \E t \in Workers : Job(t) = r /\ At(t, "claim") /\ Snap(t) = run[r]
      BY <2>2, <3>3 DEF Awaited, Job, At, Snap
    <3>. QED  BY <3>1, <3>2, <3>3 DEF Awaited, Sought
  <2>. QED  BY <2>1, <2>2
<1>. QED  BY <1>1, <1>3, <1>4, <1>5, <1>6, <1>7, <1>8, <1>9 DEF Attended

\* A call goes on to its next transaction.
LEMMA ContinueSeeks ==
    ASSUME Inductive, NEW call \in calls, NEW op \in {"post", "submit"}, Continue(call, op),
           queue' = queue, NEW r, Sought(r)
    PROVE  Sought(r)'
<1>1. call \in Call /\ calls' = (calls \ {call}) \cup {[call EXCEPT !.op = op]}
  BY DEF Inductive, TypeOK, Continue
<1>2. [call EXCEPT !.op = op].run = call.run /\ [call EXCEPT !.op = op].op = op
  BY <1>1 DEF Call
<1>3. CASE \E i \in DOMAIN queue : queue[i] = r
  BY <1>3 DEF Sought
<1>4. ASSUME NEW other \in calls, other.run = r, other.op # "event"
      PROVE  Sought(r)'
  <2>1. CASE other = call
    <3>1. [call EXCEPT !.op = op] \in calls'
      BY <1>1
    <3>. QED  BY <1>2, <1>4, <2>1, <3>1 DEF Sought
  <2>2. CASE other # call
    BY <1>1, <1>4, <2>2 DEF Sought
  <2>. QED  BY <2>1, <2>2
<1>. QED  BY <1>3, <1>4 DEF Sought

\* The later transactions of the API calls.
LEMMA CallStepAttends ==
    ASSUME Inductive, Inductive', Attended, CallStep
    PROVE  Attended'
<1> SUFFICES ASSUME NEW call \in calls,
                    \/ InsertRun(call) \/ PostQuestion(call) \/ PostReply(call)
                    \/ Submit(call) \/ PublishCancel(call)
             PROVE  Attended'
  BY DEF CallStep
<1>1. Up /\ call \in Call /\ call.run \in Runs /\ run \in [Runs -> Row]
      /\ messages \in [Runs -> Thread] /\ queue \in Seq(Runs)
  BY DEF Inductive, QuietRestart, TypeOK, Call
<1>2. CASE InsertRun(call)
  <2>1. ~Present(run[call.run]) /\ run[call.run].status = "ABSENT"
    BY <1>2 DEF InsertRun, Inductive, OnlyBornRuns
  <2>2. /\ run' = [run EXCEPT ![call.run] = NewRow] /\ Continue(call, "post")
        /\ UNCHANGED <<log, messages, memory, conversation, worker, queue, crashes>>
    BY <1>2 DEF InsertRun, history
  <2>3. SpeaksTrue
    BY <2>2, EventSpeaks
  <2>4. Allows(run[call.run], NewRow)
    BY <2>1 DEF Allows, NewRow, NoRow, Active
  <2>5. \A r \in Runs : run'[r] = run[r] \/ (r = call.run /\ run'[r] = NewRow)
    BY <1>1, <2>2
  <2>6. \A r \in Runs : Sought(r) => Sought(r)'
    BY <2>2, ContinueSeeks
  <2>7. Sought(call.run)
    BY <1>2 DEF Sought, InsertRun
  <2>. QED  BY <1>1, <2>2, <2>3, <2>4, <2>5, <2>6, <2>7, CallAttends
<1>3. CASE PostQuestion(call) \/ PostReply(call)
  <2>1. /\ Continue(call, "submit")
        /\ UNCHANGED <<run, log, memory, conversation, worker, queue, crashes>>
    BY <1>3 DEF PostQuestion, PostReply, history
  <2>2. \A r \in Runs : messages'[r].answer = messages[r].answer
    <3> SUFFICES ASSUME NEW r \in Runs
                 PROVE  messages'[r].answer = messages[r].answer
      OBVIOUS
    <3>1. messages[r] \in Thread /\ messages[call.run] \in Thread
      BY <1>1
    <3>2. CASE PostQuestion(call)
      BY <1>1, <3>1, <3>2 DEF PostQuestion, Thread
    <3>3. CASE PostReply(call)
      BY <1>1, <3>1, <3>3 DEF PostReply, Thread
    <3>. QED  BY <1>3, <3>2, <3>3
  <2>3. SpeaksTrue
    BY <2>1, <2>2 DEF SpeaksTrue, Spoken, Published
  <2>4. \A r \in Runs : Sought(r) => Sought(r)'
    BY <2>1, ContinueSeeks
  <2>. QED  BY <1>1, <2>1, <2>3, <2>4, CallAttends
<1>4. CASE Submit(call)
  <2>1. /\ call.op = "submit" /\ queue' = Append(queue, call.run) /\ calls' = calls \ {call}
        /\ UNCHANGED <<run, log, messages, memory, conversation, worker, crashes>>
    BY <1>4 DEF Submit, store, history
  <2>2. SpeaksTrue
    BY <2>1, EventSpeaks
  <2>3. /\ \A i \in DOMAIN queue : i \in DOMAIN queue' /\ queue'[i] = queue[i]
        /\ Len(queue) + 1 \in DOMAIN queue' /\ queue'[Len(queue) + 1] = call.run
    BY <1>1, <2>1
  <2>4. \A r \in Runs : Sought(r) => Sought(r)'
    <3> SUFFICES ASSUME NEW r \in Runs, NEW other \in calls, other.run = r, other.op # "event"
                 PROVE  Sought(r)'
      BY <2>3 DEF Sought
    <3>1. CASE other = call
      BY <2>3, <3>1 DEF Sought
    <3>2. CASE other # call
      BY <2>1, <3>2 DEF Sought
    <3>. QED  BY <3>1, <3>2
  <2>. QED  BY <1>1, <2>1, <2>2, <2>4, CallAttends
<1>5. CASE PublishCancel(call)
  <2>1. /\ call.op = "event" /\ AppendEvent(call.run, "RUN_CANCELLED") /\ calls' = calls \ {call}
        /\ UNCHANGED <<run, messages, memory, conversation, worker, queue, crashes>>
    BY <1>5 DEF PublishCancel, history
  <2>2. "RUN_CANCELLED" \in EventType /\ "RUN_CANCELLED" # "RUN_COMPLETED"
    BY DEF EventType
  <2>3. SpeaksTrue
    BY <1>1, <2>1, <2>2, EventSpeaks
  <2>4. \A r \in Runs : Sought(r) => Sought(r)'
    BY <2>1 DEF Sought
  <2>. QED  BY <1>1, <2>1, <2>3, <2>4, CallAttends
<1>. QED  BY <1>2, <1>3, <1>4, <1>5

\* A call that writes one row and may leave another transaction to do.
LEMMA ClientAttends ==
    ASSUME Inductive, Inductive', Attended, Up, NEW r \in Runs, NEW row,
           run' = [run EXCEPT ![r] = row],
           UNCHANGED <<log, messages, memory, conversation, worker, queue, crashes>>,
           calls \subseteq calls',
           Allows(run[r], row), Awaiting(row) => Sought(r)'
    PROVE  Attended'
<1>1. SpeaksTrue
  BY EventSpeaks
<1>2. \A s \in Runs : run'[s] = run[s] \/ (s = r /\ run'[s] = row)
  BY DEF Inductive, TypeOK
<1>3. \A s \in Runs : Sought(s) => Sought(s)'
  BY DEF Sought
<1>4. \A s \in Runs : run'[s] # run[s] /\ Awaiting(run'[s]) => Sought(s)'
  BY <1>2 DEF Awaiting
<1>5. \A s \in Runs : run'[s] = run[s] \/ Allows(run[s], run'[s])
  BY <1>2
<1>. QED  BY <1>1, <1>3, <1>4, <1>5, CallAttends

\* The first transactions of the API calls.
LEMMA ClientStepAttends ==
    ASSUME Inductive, Inductive', Attended, NEW r \in Runs,
           CreateRun(r) \/ CancelWaiting(r) \/ RequestCancel(r) \/ Clarify(r) \/ Retry(r)
    PROVE  Attended'
<1>1. /\ Up /\ run[r] \in Row
      /\ UNCHANGED <<log, messages, memory, conversation, worker, queue, crashes>>
      /\ calls \subseteq calls'
  BY DEF CreateRun, CancelWaiting, RequestCancel, Clarify, Retry, store, process, history,
         Inductive, TypeOK
<1>2. CASE CreateRun(r)
  <2>1. run' = run
    BY <1>2 DEF CreateRun, store
  <2>2. SpeaksTrue
    BY <1>1, EventSpeaks
  <2>3. \A s \in Runs : Sought(s) => Sought(s)'
    BY <1>1 DEF Sought
  <2>. QED  BY <1>1, <2>1, <2>2, <2>3, CallAttends
<1>3. CASE CancelWaiting(r)
  <2>. DEFINE row == Transition(run[r], "CANCELLED")
  <2>1. /\ row \in Row /\ row.status = "CANCELLED"
    BY <1>1 DEF Transition, Row, RunStatus, Terminal, Settled
  <2>2. run' = [run EXCEPT ![r] = Saved(row)] /\ run[r].status = "WAITING_USER"
    BY <1>3 DEF CancelWaiting
  <2>. HIDE DEF row
  <2>3. Saved(row).status = "CANCELLED"
    BY <2>1, SavedPlace
  <2>4. Allows(run[r], Saved(row)) /\ ~Awaiting(Saved(row))
    BY <2>2, <2>3 DEF Allows, Awaiting, Runnable, Active
  <2>. QED  BY <1>1, <2>2, <2>4, ClientAttends
<1>4. CASE RequestCancel(r)
  <2>. DEFINE row == [run[r] EXCEPT !.cancel = TRUE]
  <2>1. /\ row \in Row /\ row.status = run[r].status /\ row.cancel = TRUE
        /\ row.queued = run[r].queued
    BY <1>1 DEF Row
  <2>2. /\ run' = [run EXCEPT ![r] = Saved(row)]
        /\ run[r].status \notin Terminal
    BY <1>4 DEF RequestCancel
  <2>. HIDE DEF row
  <2>3. /\ Saved(row).status = run[r].status /\ Saved(row).cancel = TRUE
    BY <2>1, SavedPlace
  <2>4. Allows(run[r], Saved(row)) /\ ~Awaiting(Saved(row))
    BY <2>2, <2>3 DEF Allows, Awaiting, Runnable, Active, Terminal, Settled
  <2>. QED  BY <1>1, <2>2, <2>4, ClientAttends
<1>5. CASE Clarify(r) \/ Retry(r)
  <2>. DEFINE row == [run[r] EXCEPT !.queued = TRUE]
  <2>1. /\ row \in Row /\ row.status = run[r].status
    BY <1>1 DEF Row
  <2>2. row.retryable = run[r].retryable
    BY <1>1 DEF Row
  <2>3. /\ run' = [run EXCEPT ![r] = Saved(row)]
        /\ run[r].status = "WAITING_USER" \/ (run[r].status = "FAILED" /\ run[r].retryable)
        /\ \E call \in calls' : call.run = r /\ call.op # "event"
    <3>1. PICK op \in {"reply", "submit"} : calls' = calls \cup {[op |-> op, run |-> r]}
      BY <1>5 DEF Clarify, Retry
    <3>2. [op |-> op, run |-> r] \in calls' /\ [op |-> op, run |-> r].op # "event"
      BY <3>1
    <3>3. run' = [run EXCEPT ![r] = Saved(row)]
      BY <1>5 DEF Clarify, Retry
    <3>4. run[r].status = "WAITING_USER" \/ (run[r].status = "FAILED" /\ run[r].retryable)
      BY <1>5 DEF Clarify, Retry
    <3>. QED  BY <3>2, <3>3, <3>4
  <2>. HIDE DEF row
  <2>4. /\ Saved(row).status = run[r].status
    BY <2>1, SavedPlace
  <2>5. Saved(row).retryable = row.retryable
    BY <2>1 DEF Saved, Row
  <2>6. Allows(run[r], Saved(row))
    BY <2>2, <2>3, <2>4, <2>5 DEF Allows, Active
  <2>7. Sought(r)'
    BY <2>3 DEF Sought
  <2>. QED  BY <1>1, <2>3, <2>6, <2>7, ClientAttends
<1>. QED  BY <1>2, <1>3, <1>4, <1>5

\* The conversation is deleted: nobody drives one of its runs.
LEMMA DeleteAttends ==
    ASSUME Inductive, Inductive', Attended, DeleteConversation
    PROVE  Attended'
<1>1. /\ Up /\ conversation' = "deleted" /\ UNCHANGED <<worker, queue, calls, crashes>>
      /\ \A r \in Runs : run'[r] = NoRow
      /\ \A r \in Runs : Present(run[r]) => run[r].status \in Settled
  BY DEF DeleteConversation, process, history
<1>2. \A r \in Runs : run'[r].status = "ABSENT"
  BY <1>1 DEF NoRow
<1>3. \A t \in Workers : worker[t].pc \notin Driving \ {"except"}
  BY <1>1, DrivenRow DEF Active, Settled
<1>4. OnlyCompletedSpeaks' /\ AnswersAreEarned'
  BY <1>1 DEF OnlyCompletedSpeaks, AnswersAreEarned
<1>5. NobodyAnswersTheDeleted' /\ RestartGetsThrough'
  BY <1>1, <1>2, <1>3 DEF NobodyAnswersTheDeleted, RestartGetsThrough, Up, At, Early, Driving
<1>6. DriversAttend'
  <2> SUFFICES ASSUME NEW t \in Workers
               PROVE  Attends(worker[t], run'[Job(t)])
    BY <1>1 DEF DriversAttend, Job
  <2>1. Attends(worker[t], run[Job(t)])
    BY DEF Attended, DriversAttend
  <2>. QED  BY <1>3, <2>1 DEF Attends
<1>7. OnlyCancelLosesARun' /\ RetriesAllowed' /\ RunsAwaited'
  BY <1>2, RunStatusFacts DEF OnlyCancelLosesARun, RetriesAllowed, RunsAwaited, Awaiting, Runnable
<1>. QED  BY <1>4, <1>5, <1>6, <1>7 DEF Attended

-----------------------------------------------------------------------------
(* The theorems *)

\* Before the first run nobody speaks and nobody waits.
LEMMA InitAttended == Init => Attended
<1> SUFFICES ASSUME Init PROVE Attended
  OBVIOUS
<1>1. /\ \A r \in Runs : run[r] = NoRow /\ messages[r] = NoThread /\ log[r] = <<>>
      /\ memory.last = NoRun /\ conversation = "active" /\ crashes = 0
      /\ \A t \in Threads : worker[t] = Idle
  BY DEF Init, NewMemory
<1>2. \A r \in Runs : run[r].status = "ABSENT" /\ ~messages[r].answer
  BY <1>1 DEF NoRow, NoThread
<1>3. Idle.pc = "idle" /\ Idle.todo = {}
  BY DEF Idle
<1>4. Up /\ RestartGetsThrough
  BY <1>1, <1>3 DEF Up, At, Threads, RestartGetsThrough
<1>5. OnlyCompletedSpeaks
  BY <1>1, <1>2 DEF OnlyCompletedSpeaks, Published
<1>6. AnswersAreEarned /\ NobodyAnswersTheDeleted /\ DriversAttend
  BY <1>1, <1>3 DEF AnswersAreEarned, NobodyAnswersTheDeleted, DriversAttend, Threads, Earns,
                    Answering, Attends, Driving
<1>7. OnlyCancelLosesARun /\ RetriesAllowed /\ RunsAwaited
  BY <1>2, RunStatusFacts DEF OnlyCancelLosesARun, RetriesAllowed, RunsAwaited, Awaiting, Runnable
<1>. QED  BY <1>4, <1>5, <1>6, <1>7 DEF Attended

\* The invariant of what is announced and of who is on his way is inductive beside Inductive.
LEMMA NextAttended ==
    ASSUME Inductive, Inductive', Attended, [Next]_vars
    PROVE  Attended'
<1>1. CASE UNCHANGED vars
  BY <1>1 DEF vars, store, process, history, Attended, OnlyCompletedSpeaks, AnswersAreEarned,
     NobodyAnswersTheDeleted, RestartGetsThrough, DriversAttend, OnlyCancelLosesARun,
     RetriesAllowed, RunsAwaited, Awaiting, Awaited, Up, At, Job, Snap, Drives, Published
<1>2. CASE BootStep
  BY <1>2, InterruptAttends, ResubmitAttends, BootPublishingAttends DEF BootStep
<1>3. CASE ClientStep
  BY <1>3, ClientStepAttends, DeleteAttends DEF ClientStep
<1>. QED  BY <1>1, <1>2, <1>3, WorkerStepAttends, CallStepAttends, CrashAttends DEF Next

\* Beside the types and the copies, who speaks and who is on the way to a worker (_drive(),
\* _recover_completions(), submit() and queued_run_ids()) is an inductive invariant.
THEOREM AttendedInvariant == Spec => [](Inductive /\ Attended)
<1>1. Init => Inductive /\ Attended
  BY InitInductive, InitAttended
<1>2. Inductive /\ Attended /\ [Next]_vars => (Inductive /\ Attended)'
  BY NextInductive, NextAttended
<1>. QED  BY <1>1, <1>2, PTL DEF Spec

\* The assistant's answer, the conversation's memory and RUN_COMPLETED speak only for a run
\* whose completion is durable.
THEOREM OnlyTheCompletedSpeak == Spec => []OnlyCompletedSpeaks
<1>1. Inductive /\ Attended => OnlyCompletedSpeaks
  BY DEF Attended
<1>. QED  BY <1>1, AttendedInvariant, PTL

\* A run that waits for a worker is on its way to one and an active run has a thread, but
\* for what a cancel request or a crash takes away.
THEOREM NoRunForgotten == Spec => []NoRunIsForgotten
<1>1. ASSUME Attended
      PROVE  RunnableIsScheduled
  <2> SUFFICES ASSUME Up, NEW r \in Runs, Awaiting(run[r])
               PROVE  Scheduled(r)
    BY DEF RunnableIsScheduled, Awaiting
  <2>1. Awaited(r)
    BY <1>1 DEF Attended, RunsAwaited
  <2>. QED  BY <2>1 DEF Awaited, Scheduled
<1>2. Inductive /\ Attended => NoRunIsForgotten
  BY <1>1 DEF Attended, NoRunIsForgotten
<1>. QED  BY <1>2, AttendedInvariant, PTL

-----------------------------------------------------------------------------
(* What the user has paid for *)

\* A thread goes on as `w', to a place before the Ask only from one, and to a claim only
\* when it had nothing to do.
Defers(t, w) ==
    /\ Becomes(t, w) /\ UNCHANGED <<run, conversation, calls, asked, replied, retried>>
    /\ w.pc \in BeforeAsk => worker[t].pc \in BeforeAsk /\ w.job = Job(t)
    /\ w.pc = "claim" => worker[t].pc = "idle"

\* An exception leads to the handler or out of execute().
LEMMA RaisePlace ==
    ASSUME Inductive, NEW t \in Threads, NEW fault, Raise(t, fault)
    PROVE  \E w : Becomes(t, w) /\ w.pc \notin BeforeAsk \cup {"claim"}
<1>. DEFINE w == [worker[t] EXCEPT !.pc = "except", !.outcome = fault]
<1>1. worker[t] \in Worker
  BY OwnRuns
<1>2. w.pc = "except"
  BY <1>1 DEF Worker
<1>. HIDE DEF w
<1>3. Idle.pc = "idle"
  BY DEF Idle
<1>4. Becomes(t, w) \/ Becomes(t, Idle)
  BY DEF Raise, w
<1>. QED  BY <1>2, <1>3, <1>4 DEF BeforeAsk

\* A cancel check leads on, to the cancellation, or out of execute().
LEMMA CheckPlace ==
    ASSUME Inductive, NEW t \in Workers, NEW next, CheckCancel(t, next)
    PROVE  \E w : Becomes(t, w) /\ (w = next \/ w.pc \notin BeforeAsk \cup {"claim"})
<1>. DEFINE w == [worker[t] EXCEPT !.pc = "cancel", !.snap = run[Job(t)]]
<1>1. worker[t] \in Worker
  BY OwnRuns DEF Threads
<1>2. w.pc = "cancel"
  BY <1>1 DEF Worker
<1>3. Idle.pc = "idle"
  BY DEF Idle
<1>4. Becomes(t, next) \/ Becomes(t, Idle) \/ Becomes(t, w)
  BY DEF CheckCancel
<1>. HIDE DEF w
<1>. QED  BY <1>2, <1>3, <1>4 DEF BeforeAsk

\* The steps of a drive that save nothing and start no Ask.
LEMMA DriveDefers ==
    ASSUME Inductive, NEW t \in Workers,
           \/ Started(t) \/ Begin(t) \/ ContextChecked(t) \/ Ask(t) \/ SettleFault(t)
           \/ LoseSave(t) \/ Except(t) \/ FailureChecked(t)
    PROVE  \E w : Defers(t, w)
<1>1. UNCHANGED <<run, conversation, calls, asked, replied, retried>>
  BY DEF Started, Begin, ContextChecked, Ask, SettleFault, LoseSave, Except, FailureChecked,
         store, history
<1>2. t \in Threads /\ worker[t] \in Worker
  BY OwnRuns DEF Threads
<1>3. ASSUME NEW fault, Raise(t, fault) PROVE \E w : Defers(t, w)
  BY <1>1, <1>2, <1>3, RaisePlace DEF Defers
<1>4. ASSUME NEW label, CheckCancel(t, [worker[t] EXCEPT !.pc = label]), label # "claim",
             label \in BeforeAsk => worker[t].pc \in BeforeAsk
      PROVE  \E w : Defers(t, w)
  <2>. DEFINE next == [worker[t] EXCEPT !.pc = label]
  <2>1. next.pc = label /\ next.job = Job(t)
    BY Relabelled
  <2>2. CheckCancel(t, next)
    BY <1>4
  <2>. HIDE DEF next
  <2>3. PICK w : Becomes(t, w) /\ (w = next \/ w.pc \notin BeforeAsk \cup {"claim"})
    BY <2>2, CheckPlace
  <2>. QED  BY <1>1, <1>4, <2>1, <2>3 DEF Defers
<1>5. CASE Started(t)
  <2>. DEFINE w == [worker[t] EXCEPT !.pc = "begin"]
  <2>1. Becomes(t, w) /\ worker[t].pc = "started"
    BY <1>5 DEF Started, Goto, At
  <2>2. w.pc = "begin" /\ w.job = Job(t)
    BY Relabelled
  <2>. HIDE DEF w
  <2>. QED  BY <1>1, <2>1, <2>2 DEF Defers, BeforeAsk
<1>6. CASE Begin(t)
  BY <1>3, <1>4, <1>6 DEF Begin, At, BeforeAsk
<1>7. CASE ContextChecked(t)
  BY <1>4, <1>7 DEF ContextChecked, At, BeforeAsk
<1>8. CASE Ask(t)
  <2>1. CASE CheckCancel(t, [worker[t] EXCEPT !.pc = "advance"])
    BY <1>4, <2>1 DEF BeforeAsk
  <2>2. ASSUME NEW outcome \in Outcome,
               CheckCancel(t, [worker[t] EXCEPT !.pc = "settle", !.outcome = outcome])
        PROVE  \E w : Defers(t, w)
    <3>. DEFINE next == [worker[t] EXCEPT !.pc = "settle", !.outcome = outcome]
    <3>1. next.pc = "settle"
      BY Relabelled
    <3>2. CheckCancel(t, next)
      BY <2>2
    <3>. HIDE DEF next
    <3>3. PICK w : Becomes(t, w) /\ (w = next \/ w.pc \notin BeforeAsk \cup {"claim"})
      BY <3>2, CheckPlace
    <3>. QED  BY <1>1, <3>1, <3>3 DEF Defers, BeforeAsk
  <2>. QED  BY <1>8, <2>1, <2>2 DEF Ask
<1>9. CASE SettleFault(t) \/ LoseSave(t)
  BY <1>3, <1>9 DEF SettleFault, LoseSave
<1>10. CASE FailureChecked(t)
  BY <1>4, <1>10 DEF FailureChecked, BeforeAsk
<1>11. CASE Except(t)
  <2>. DEFINE current == run[Job(t)]
              label == CASE current.status = "COMPLETED"    -> "repair_completions"
                         [] current.status = "WAITING_USER" -> "repair_clarifications"
                         [] OTHER                           -> "check_failure"
              w == [worker[t] EXCEPT !.mode = "handle", !.snap = current, !.pc = label]
  <2>1. Becomes(t, w) \/ Becomes(t, Idle)
    BY <1>11 DEF Except
  <2>2. label \notin BeforeAsk \cup {"claim"}
    BY DEF BeforeAsk
  <2>3. w.pc = label
    BY <1>2 DEF Worker
  <2>. HIDE DEF w, label
  <2>4. Idle.pc = "idle"
    BY DEF Idle
  <2>. QED  BY <1>1, <2>1, <2>2, <2>3, <2>4 DEF Defers, BeforeAsk
<1>. QED  BY <1>5, <1>6, <1>7, <1>8, <1>9, <1>10, <1>11

\* A worker's step saves, starts the Ask, or leaves both alone.
LEMMA WorkerKinds ==
    ASSUME Inductive, Inductive', Attended, NEW t \in Workers, WorkerStep(t)
    PROVE  \/ \E row, w : Saves(t, row, w) /\ Settles(t, row) /\ Proceeds(t, row, w)
           \/ AskStarted(t)
           \/ \E w : Defers(t, w)
<1>1. worker \in [Threads -> Worker] /\ t \in Threads /\ Idle.pc = "idle" /\ "idle" \notin BeforeAsk
  BY DEF Inductive, TypeOK, Threads, Idle, BeforeAsk
<1>2. CASE Publishing(t)
  <2>1. PICK w : Announces(t, w)
    BY SMTT(60), <1>1, <1>2, PublishingAnnounces
  <2>2. UNCHANGED <<asked, replied, retried, calls>>
    BY <1>2 DEF Publishing, PostMessage, ReadMemory, ReadMemoryRevision, PutMemory, Publish,
            ListCompletions, ListClarifications, RepairNext, RepairDone, history
  <2>3. w.pc \notin BeforeAsk \cup {"claim"}
    BY <2>1 DEF Announces, BeforeAsk, Driving
  <2>. QED  BY <2>1, <2>2, <2>3 DEF Defers, Announces
<1>3. CASE Pick(t)
  <2>1. UNCHANGED <<run, conversation, calls, asked, replied, retried>> /\ worker[t].pc = "idle"
    BY <1>3 DEF Pick, store, history, At
  <2>2. CASE UNCHANGED worker
    <3>1. Becomes(t, worker[t])
      BY <1>1, <2>2 DEF Becomes
    <3>2. worker[t].pc \notin BeforeAsk \cup {"claim"}
      BY <1>1, <2>1
    <3>. QED  BY <2>1, <3>1, <3>2 DEF Defers
  <2>3. CASE Becomes(t, [Idle EXCEPT !.pc = "claim", !.job = Head(queue), !.snap = run[Head(queue)]])
    <3>. DEFINE w == [Idle EXCEPT !.pc = "claim", !.job = Head(queue), !.snap = run[Head(queue)]]
    <3>1. w.pc = "claim" /\ Becomes(t, w)
      BY <2>3 DEF Idle
    <3>. HIDE DEF w
    <3>. QED  BY <2>1, <3>1 DEF Defers, BeforeAsk
  <2>. QED  BY <1>3, <2>2, <2>3 DEF Pick
<1>4. CASE Claim(t)
  <2>1. CASE MaySave(t)
    BY <1>4, <2>1, ClaimSaves
  <2>2. CASE ~MaySave(t)
    <3>1. Becomes(t, Idle) /\ UNCHANGED <<run, conversation, calls, asked, replied, retried>>
      BY <1>4, <2>2 DEF Claim, Release, history
    <3>. QED  BY <1>1, <3>1 DEF Defers
  <2>. QED  BY <2>1, <2>2
<1>5. CASE FailRun(t)
  <2>1. CASE Snap(t).status \notin Terminal
    BY <1>5, <2>1, FailSaves
  <2>2. CASE Snap(t).status \in Terminal
    <3>1. Becomes(t, Idle) /\ UNCHANGED <<run, conversation, calls, asked, replied, retried>>
      BY <1>5, <2>2 DEF FailRun, Release, history
    <3>. QED  BY <1>1, <3>1 DEF Defers
  <2>. QED  BY <2>1, <2>2
<1>6. CASE Context(t)
  <2>1. ASSUME NEW fault \in Fault, Raise(t, fault), UNCHANGED <<run, log>>
        PROVE  \E w : Defers(t, w)
    <3>1. UNCHANGED <<conversation, calls, asked, replied, retried>>
      BY <1>6 DEF Context, history
    <3>. QED  BY <1>1, <2>1, <3>1, RaisePlace DEF Defers
  <2>2. CASE Fresh(t) /\ Write(t, Snap(t), "check_context") /\ AppendEvent(Job(t), "PROGRESS")
    BY <1>6, <2>2, ContextSaves
  <2>. QED  BY <1>6, <2>1, <2>2 DEF Context
<1>7. CASE Discover(t) \/ Advance(t) \/ SettleBlock(t) \/ SettleQuestion(t) \/ SettleAnswer(t)
           \/ CancelRun(t)
  BY <1>7, DiscoverSaves, AdvanceSaves, BlockSaves, QuestionSaves, AnswerSaves, CancelSaves
<1>8. CASE Drive(t)
  <2>1. CASE \/ Started(t) \/ Begin(t) \/ ContextChecked(t) \/ Ask(t) \/ SettleFault(t)
             \/ LoseSave(t) \/ Except(t) \/ FailureChecked(t)
    BY <2>1, DriveDefers
  <2>. QED  BY <1>4, <1>5, <1>6, <1>7, <1>8, <2>1 DEF Drive
<1>. QED  BY <1>2, <1>3, <1>8 DEF WorkerStep

\* A run that comes to wait for a worker, or to be driven before its Ask, has waited before or
\* has just been inserted: no step but AskStarted spends what the user has paid for.
LEMMA PaidKept ==
    ASSUME Inductive, Inductive', AsksArePaid, UNCHANGED <<asked, replied, retried>>,
           BornRuns \subseteq BornRuns',
           \A r \in Runs : Runnable(run'[r]) => Runnable(run[r]) \/ r \notin BornRuns,
           \A t \in Workers : worker'[t].pc \in BeforeAsk =>
                \/ Runnable(run[worker'[t].job])
                \/ worker[t].pc \in BeforeAsk /\ worker'[t].job = Job(t)
    PROVE  AsksArePaid'
<1> SUFFICES ASSUME NEW r \in Runs
             PROVE  /\ asked[r] <= Allowance(r)
                    /\ Runnable(run'[r]) => asked[r] < Allowance(r)
                    /\ r \notin BornRuns' => asked[r] = 0
                    /\ \A t \in Workers : worker'[t].pc \in BeforeAsk /\ worker'[t].job = r =>
                            asked[r] < Allowance(r)
  BY DEF AsksArePaid, Allowance, Job
<1>1. asked[r] \in Nat /\ replied[r] \in Nat /\ retried[r] \in Nat
  BY DEF Inductive, TypeOK
<1>2. r \notin BornRuns => asked[r] < Allowance(r)
  BY <1>1 DEF AsksArePaid, Allowance
<1>. QED  BY <1>2 DEF AsksArePaid

\* The runs that were inserted stay inserted when no new run is about to be.
LEMMA BornStay ==
    ASSUME Inductive, UNCHANGED <<conversation, calls>>,
           \A r \in Runs : Present(run[r]) => Present(run'[r])
    PROVE  BornRuns \subseteq BornRuns'
BY DEF BornRuns

\* Every run a worker works on was inserted.
LEMMA DrivenBorn ==
    ASSUME Inductive, NEW t \in Workers, Job(t) \in Runs
    PROVE  Job(t) \in BornRuns
BY RunsAssumption, OwnRuns DEF Threads, Job

\* A worker's save, its start of the Ask and its other steps.
LEMMA WorkerPays ==
    ASSUME Inductive, Inductive', Attended, AsksArePaid, NEW t \in Workers, WorkerStep(t)
    PROVE  AsksArePaid'
<1>1. worker \in [Threads -> Worker] /\ t \in Threads /\ Workers \subseteq Threads
  BY DEF Inductive, TypeOK, Threads
<1>2. ASSUME NEW row, NEW w, Saves(t, row, w), Settles(t, row), Proceeds(t, row, w)
      PROVE  AsksArePaid'
  <2>1. /\ run' = [run EXCEPT ![Job(t)] = row] /\ worker'[t] = w
        /\ \A u \in Workers : u # t => worker'[u] = worker[u]
        /\ UNCHANGED <<conversation, calls, asked, replied, retried>>
        /\ worker[t].pc \in Holding /\ Fresh(t)
    BY <1>1, <1>2 DEF Saves, Becomes, history
  <2>2. Job(t) \in Runs /\ Snap(t) = run[Job(t)] /\ run \in [Runs -> Row]
    BY <2>1, FreshCopy DEF Inductive, TypeOK
  <2>3. /\ Present(row) /\ ~Runnable(row)
    BY <1>2 DEF Settles
  <2>4. \A r \in Runs : run'[r] = run[r] \/ (r = Job(t) /\ run'[r] = row)
    BY <2>1, <2>2
  <2>5. BornRuns \subseteq BornRuns'
    BY <2>1, <2>3, <2>4, BornStay
  <2>6. \A r \in Runs : Runnable(run'[r]) => Runnable(run[r])
    BY <2>3, <2>4
  <2>7. At(t, "claim") => Runnable(run[Job(t)])
    BY <1>1, <2>2, OwnRuns DEF ThreadSound, At, Snap
  <2>8. w.pc \in BeforeAsk => w.job = Job(t) /\ (At(t, "claim") \/ worker[t].pc \in BeforeAsk)
    BY <1>2 DEF Proceeds, At
  <2>9. \A u \in Workers : worker'[u].pc \in BeforeAsk =>
            \/ Runnable(run[worker'[u].job])
            \/ worker[u].pc \in BeforeAsk /\ worker'[u].job = Job(u)
    BY <2>1, <2>7, <2>8 DEF Job
  <2>. QED  BY <2>1, <2>5, <2>6, <2>9, PaidKept
<1>3. ASSUME NEW w, Defers(t, w)
      PROVE  AsksArePaid'
  <2>1. /\ worker'[t] = w /\ \A u \in Workers : u # t => worker'[u] = worker[u]
    BY <1>1, <1>3 DEF Defers, Becomes
  <2>2. BornRuns \subseteq BornRuns'
    BY <1>3, BornStay DEF Defers
  <2>3. \A u \in Workers : worker'[u].pc \in BeforeAsk =>
            worker[u].pc \in BeforeAsk /\ worker'[u].job = Job(u)
    BY <1>3, <2>1 DEF Defers, Job
  <2>. QED  BY <1>3, <2>2, <2>3, PaidKept DEF Defers
<1>4. CASE AskStarted(t)
  <2>. DEFINE next == [worker[t] EXCEPT !.pc = "ask"]
  <2>1. /\ worker[t].pc = "check_ask" /\ CheckCancel(t, next)
        /\ UNCHANGED <<run, conversation, calls, replied, retried>>
        /\ asked' = IF run[Job(t)].cancel THEN asked ELSE [asked EXCEPT ![Job(t)] = @ + 1]
    BY <1>4 DEF AskStarted, At, store
  <2>2. next.pc = "ask"
    BY Relabelled
  <2>. HIDE DEF next
  <2>3. PICK w : Becomes(t, w) /\ w.pc \notin BeforeAsk
    BY <2>1, <2>2, CheckPlace DEF BeforeAsk
  <2>4. worker'[t] = w /\ \A u \in Workers : u # t => worker'[u] = worker[u]
    BY <1>1, <2>3 DEF Becomes
  <2>5. worker[t].pc \in Driving \ {"except"} /\ worker[t].pc \in BeforeAsk
    BY <2>1 DEF Driving, BeforeAsk
  <2>6. Job(t) \in Runs /\ run[Job(t)].status \in Active /\ Occupied(worker[t])
    BY <2>5, DrivenRow
  <2>7. BornRuns \subseteq BornRuns' /\ Job(t) \in BornRuns
    BY <2>1, <2>6, BornStay, DrivenBorn
  <2>8. asked \in [Runs -> Nat] /\ replied \in [Runs -> Nat] /\ retried \in [Runs -> Nat]
    BY DEF Inductive, TypeOK
  <2> SUFFICES ASSUME NEW r \in Runs
               PROVE  /\ asked'[r] <= Allowance(r)
                      /\ Runnable(run[r]) => asked'[r] < Allowance(r)
                      /\ r \notin BornRuns' => asked'[r] = 0
                      /\ \A u \in Workers : worker'[u].pc \in BeforeAsk /\ worker'[u].job = r =>
                              asked'[r] < Allowance(r)
    BY <2>1 DEF AsksArePaid, Allowance, Job
  <2>9. CASE asked'[r] = asked[r]
    BY <2>3, <2>4, <2>7, <2>9 DEF AsksArePaid, Job
  <2>10. CASE asked'[r] # asked[r]
    <3>1. r = Job(t) /\ asked'[r] = asked[r] + 1
      BY <2>1, <2>6, <2>8, <2>10
    <3>2. asked[r] < Allowance(r)
      BY <2>5, <3>1 DEF AsksArePaid
    <3>3. asked'[r] <= Allowance(r)
      BY <2>8, <3>1, <3>2 DEF Allowance
    <3>4. ~Runnable(run[r]) /\ r \in BornRuns'
      BY <2>6, <2>7, <3>1 DEF Runnable, Active
    <3>5. \A u \in Workers : worker'[u].pc \in BeforeAsk => worker'[u].job # r
      <4> SUFFICES ASSUME NEW u \in Workers, worker'[u].pc \in BeforeAsk, worker'[u].job = r
                   PROVE  FALSE
        OBVIOUS
      <4>1. u # t /\ worker'[u] = worker[u]
        BY <2>3, <2>4
      <4>2. Occupied(worker[u])
        BY <4>1 DEF Occupied, BeforeAsk, Driving
      <4>. QED  BY <2>6, <3>1, <4>1, <4>2 DEF Inductive, OneWorker, Job
    <3>. QED  BY <3>3, <3>4, <3>5
  <2>. QED  BY <2>9, <2>10
<1>. QED  BY <1>2, <1>3, <1>4, WorkerKinds

\* The row recover_interrupted() saves waits for nobody.
LEMMA InterruptedRow ==
    ASSUME NEW row \in Row
    PROVE  /\ Saved(Interrupted(row)).status = "FAILED"
           /\ Saved(Interrupted(row)).queued = FALSE
<1>1. Transition(row, "FAILED") \in Row /\ Transition(row, "FAILED").status = "FAILED"
      /\ Transition(row, "FAILED").queued = FALSE
  BY DEF Transition, Row, RunStatus, Terminal, Settled
<1>2. Interrupted(row) \in Row /\ Interrupted(row).status = "FAILED"
      /\ Interrupted(row).queued = FALSE
  BY <1>1 DEF Interrupted, Row
<1>. QED  BY <1>2, SavedPlace

\* The constructor and a crash ask for nothing.
LEMMA BootPays ==
    ASSUME Inductive, Inductive', AsksArePaid, BootStep \/ Crash
    PROVE  AsksArePaid'
<1>1. /\ worker \in [Threads -> Worker] /\ Workers \subseteq Threads /\ run \in [Runs -> Row]
      /\ \A t \in Workers : t # Boot
  BY ZenonT(60), ThreadsAssumption DEF Inductive, TypeOK, Threads
<1>2. UNCHANGED <<conversation, asked, replied, retried>> /\ calls' \subseteq calls
  BY DEF BootStep, Crash, Interrupt, Resubmit, Publishing, PostMessage, ReadMemory,
         ReadMemoryRevision, PutMemory, Publish, ListCompletions, ListClarifications, RepairNext,
         RepairDone, store, history
<1>3. \A t \in Workers : worker'[t] = worker[t] \/ worker'[t] = Idle
  <2>1. CASE Crash
    BY <1>1, <2>1 DEF Crash
  <2>2. ASSUME NEW w, Becomes(Boot, w)
        PROVE  \A t \in Workers : worker'[t] = worker[t]
    BY SMTT(60), <1>1, <2>2 DEF Becomes
  <2>3. CASE BootStep
    BY <2>2, <2>3 DEF BootStep, Interrupt, Resubmit, Release, Publishing, PostMessage, ReadMemory,
        ReadMemoryRevision, PutMemory, Publish, ListCompletions, ListClarifications, RepairNext,
        RepairDone, ListRepairs, Goto, Raise
  <2>. QED  BY <2>1, <2>3
<1>4. \A r \in Runs : \/ run'[r] = run[r]
                      \/ Present(run'[r]) /\ ~Runnable(run'[r])
  <2>1. CASE Interrupt
    <3>1. \A r \in Runs : run'[r] = run[r] \/ run'[r] = Saved(Interrupted(run[r]))
      BY <1>1, <2>1 DEF Interrupt
    <3>. QED  BY ZenonT(60), <1>1, <3>1, InterruptedRow DEF Runnable
  <2>2. CASE ~Interrupt
    <3>1. run' = run
      BY <2>2 DEF BootStep, Crash, Resubmit, Publishing, PostMessage, ReadMemory,
         ReadMemoryRevision, PutMemory, Publish, ListCompletions, ListClarifications, RepairNext,
         RepairDone, store
    <3>. QED  BY <3>1
  <2>. QED  BY <2>1, <2>2
<1>5. BornRuns \subseteq BornRuns'
  BY <1>2, <1>4 DEF BornRuns
<1>6. Idle.pc = "idle" /\ "idle" \notin BeforeAsk
  BY DEF Idle, BeforeAsk
<1>. QED  BY <1>2, <1>3, <1>4, <1>5, <1>6, PaidKept DEF Job

\* The later transactions of a call: a new run has been asked for once.
LEMMA CallStepPays ==
    ASSUME Inductive, Inductive', AsksArePaid, CallStep
    PROVE  AsksArePaid'
<1> SUFFICES ASSUME NEW call \in calls,
                    \/ InsertRun(call) \/ PostQuestion(call) \/ PostReply(call)
                    \/ Submit(call) \/ PublishCancel(call)
             PROVE  AsksArePaid'
  BY DEF CallStep
<1>1. call.run \in Runs /\ run \in [Runs -> Row] /\ call \in Call
  BY DEF Inductive, TypeOK, Call
<1>2. UNCHANGED <<worker, conversation, asked, replied, retried>>
  BY DEF InsertRun, PostQuestion, PostReply, Submit, PublishCancel, store, history
<1>3. \A other \in calls' : other.op = "insert" => other \in calls
  <2>1. CASE InsertRun(call) \/ PostQuestion(call) \/ PostReply(call)
    <3>1. PICK op \in {"post", "submit"} : Continue(call, op)
      BY <2>1 DEF InsertRun, PostQuestion, PostReply
    <3>2. [call EXCEPT !.op = op].op = op
      BY <1>1 DEF Call
    <3>. QED  BY <3>1, <3>2 DEF Continue
  <2>2. CASE Submit(call) \/ PublishCancel(call)
    BY <2>2 DEF Submit, PublishCancel
  <2>. QED  BY <2>1, <2>2
<1>4. \A r \in Runs : run'[r] = run[r] \/ (r \notin BornRuns /\ ~Present(run[r]))
  <2>1. CASE InsertRun(call)
    <3>1. ~Present(run[call.run]) /\ call.run \notin BornRuns
      BY <2>1 DEF InsertRun, BornRuns, Inductive, OnlyBornRuns
    <3>. QED  BY <1>1, <2>1, <3>1 DEF InsertRun
  <2>2. CASE ~InsertRun(call)
    BY <2>2 DEF PostQuestion, PostReply, Submit, PublishCancel, store
  <2>. QED  BY <2>1, <2>2
<1>5. BornRuns \subseteq BornRuns'
  BY <1>2, <1>3, <1>4 DEF BornRuns
<1>6. \A t \in Workers : worker'[t].pc \in BeforeAsk =>
            worker[t].pc \in BeforeAsk /\ worker'[t].job = Job(t)
  BY <1>2 DEF Job
<1>. QED  BY <1>2, <1>4, <1>5, <1>6, PaidKept

\* The first transactions of a call: an answer or a retry pays for the Ask it leads to.
LEMMA ClientStepPays ==
    ASSUME Inductive, Inductive', AsksArePaid, ClientStep
    PROVE  AsksArePaid'
<1>1. /\ run \in [Runs -> Row] /\ asked \in [Runs -> Nat] /\ replied \in [Runs -> Nat]
      /\ retried \in [Runs -> Nat]
  BY DEF Inductive, TypeOK
<1>2. UNCHANGED <<worker, asked>>
  BY DEF ClientStep, CreateRun, CancelWaiting, RequestCancel, Clarify, Retry, DeleteConversation,
         process, history
<1>3. ASSUME UNCHANGED <<replied, retried>>, BornRuns \subseteq BornRuns',
             \A r \in Runs : Runnable(run'[r]) => Runnable(run[r])
      PROVE  AsksArePaid'
  <2>1. \A t \in Workers : worker'[t].pc \in BeforeAsk =>
            worker[t].pc \in BeforeAsk /\ worker'[t].job = Job(t)
    BY <1>2 DEF Job
  <2>. QED  BY <1>2, <1>3, <2>1, PaidKept
<1>4. ASSUME NEW r \in Runs, CreateRun(r)
      PROVE  AsksArePaid'
  <2>1. /\ UNCHANGED <<run, conversation, replied, retried>> /\ conversation = "active"
        /\ ~Present(run[r]) /\ calls' = calls \cup {[op |-> "insert", run |-> r]}
    BY <1>4 DEF CreateRun, store, history
  <2>2. BornRuns \subseteq BornRuns'
    BY <2>1 DEF BornRuns
  <2>. QED  BY <1>3, <2>1, <2>2
<1>5. ASSUME NEW r \in Runs, CancelWaiting(r)
      PROVE  AsksArePaid'
  <2>1. /\ UNCHANGED <<conversation, replied, retried>>
        /\ run' = [run EXCEPT ![r] = Saved(Transition(run[r], "CANCELLED"))]
        /\ calls' = calls \cup {[op |-> "event", run |-> r]}
    BY <1>5 DEF CancelWaiting
  <2>2. Transition(run[r], "CANCELLED") \in Row /\ Transition(run[r], "CANCELLED").status = "CANCELLED"
    BY ZenonT(60), <1>1 DEF Transition, Row, RunStatus, Terminal, Settled
  <2>3. Saved(Transition(run[r], "CANCELLED")).status = "CANCELLED"
    BY <2>2, SavedPlace
  <2>4. \A s \in Runs : run'[s] = run[s] \/ run'[s].status = "CANCELLED"
    BY <1>1, <2>1, <2>3
  <2>5. BornRuns \subseteq BornRuns'
    BY <2>1, <2>4 DEF BornRuns
  <2>6. \A s \in Runs : Runnable(run'[s]) => Runnable(run[s])
    BY <2>4 DEF Runnable
  <2>. QED  BY <1>3, <2>1, <2>5, <2>6
<1>6. ASSUME NEW r \in Runs, RequestCancel(r)
      PROVE  AsksArePaid'
  <2>. DEFINE row == [run[r] EXCEPT !.cancel = TRUE]
  <2>1. /\ UNCHANGED <<conversation, calls, replied, retried>> /\ run' = [run EXCEPT ![r] = Saved(row)]
    BY <1>6 DEF RequestCancel, process
  <2>2. row \in Row /\ row.status = run[r].status /\ row.queued = run[r].queued
    BY ZenonT(60), <1>1 DEF Row
  <2>. HIDE DEF row
  <2>3. Saved(row).status = run[r].status /\ Saved(row).queued = run[r].queued
    BY <2>2, SavedPlace
  <2>4. \A s \in Runs : run'[s].status = run[s].status /\ run'[s].queued = run[s].queued
    BY <1>1, <2>1, <2>3
  <2>5. BornRuns \subseteq BornRuns'
    BY <2>1, <2>4 DEF BornRuns
  <2>6. \A s \in Runs : Runnable(run'[s]) => Runnable(run[s])
    BY <2>4 DEF Runnable
  <2>. QED  BY <1>3, <2>1, <2>5, <2>6
<1>7. CASE DeleteConversation
  <2>1. /\ UNCHANGED <<calls, replied, retried>> /\ conversation' = "deleted"
        /\ \A r \in Runs : run'[r] = NoRow
    BY <1>7 DEF DeleteConversation, process, history
  <2>2. BornRuns \subseteq BornRuns'
    BY <2>1 DEF BornRuns
  <2>3. \A r \in Runs : ~Runnable(run'[r])
    BY <2>1 DEF Runnable, NoRow
  <2>. QED  BY <1>3, <2>1, <2>2, <2>3
<1>8. ASSUME NEW r \in Runs, Clarify(r) \/ Retry(r)
      PROVE  AsksArePaid'
  <2>. DEFINE row == [run[r] EXCEPT !.queued = TRUE]
  <2>1. /\ conversation' = conversation /\ run' = [run EXCEPT ![r] = Saved(row)]
        /\ \/ replied' = [replied EXCEPT ![r] = @ + 1] /\ retried' = retried
           \/ retried' = [retried EXCEPT ![r] = @ + 1] /\ replied' = replied
    BY <1>8 DEF Clarify, Retry
  <2>2. PICK op \in {"reply", "submit"} : calls' = calls \cup {[op |-> op, run |-> r]}
    BY <1>8 DEF Clarify, Retry
  <2>3. row \in Row /\ row.status = run[r].status
    BY ZenonT(60), <1>1 DEF Row
  <2>. HIDE DEF row
  <2>4. \A s \in Runs : /\ run'[s].status = run[s].status
                        /\ s # r => run'[s] = run[s]
    BY <1>1, <2>1, <2>3, SavedPlace
  <2>5. BornRuns \subseteq BornRuns'
    BY <2>1, <2>2, <2>4 DEF BornRuns
  <2>6. /\ Allowance(r)' = Allowance(r) + 1 /\ Allowance(r) \in Nat
        /\ \A s \in Runs : s # r => Allowance(s)' = Allowance(s)
    BY <1>1, <2>1 DEF Allowance
  <2>7. asked[r] < Allowance(r)' /\ asked[r] <= Allowance(r)'
    BY <1>1, <2>6 DEF AsksArePaid
  <2> SUFFICES ASSUME NEW s \in Runs
               PROVE  /\ asked[s] <= Allowance(s)'
                      /\ Runnable(run'[s]) => asked[s] < Allowance(s)'
                      /\ s \notin BornRuns' => asked[s] = 0
                      /\ \A t \in Workers : worker[t].pc \in BeforeAsk /\ Job(t) = s =>
                              asked[s] < Allowance(s)'
    BY <1>2 DEF AsksArePaid, Job
  <2>8. s \notin BornRuns' => asked[s] = 0
    BY <2>5 DEF AsksArePaid
  <2>9. CASE s = r
    BY <2>7, <2>8, <2>9
  <2>10. CASE s # r
    BY <2>4, <2>6, <2>8, <2>10 DEF AsksArePaid
  <2>. QED  BY <2>9, <2>10
<1>. QED  BY <1>4, <1>5, <1>6, <1>7, <1>8 DEF ClientStep

\* Before the first run nothing was asked.
LEMMA InitPaid == Init => AsksArePaid
<1> SUFFICES ASSUME Init PROVE AsksArePaid
  OBVIOUS
<1>1. \A r \in Runs : run[r] = NoRow /\ asked[r] = 0 /\ Allowance(r) = 1
  BY DEF Init, Allowance
<1>2. \A t \in Workers : worker[t].pc \notin BeforeAsk
  BY DEF Init, Threads, Idle, BeforeAsk
<1>. QED  BY <1>1, <1>2 DEF AsksArePaid

\* Every request of the user pays for one Ask, and no other step takes it.
LEMMA NextPaid ==
    ASSUME Inductive, Inductive', Attended, AsksArePaid, [Next]_vars
    PROVE  AsksArePaid'
<1>1. CASE UNCHANGED vars
  BY <1>1 DEF vars, store, process, history, AsksArePaid, Allowance, BornRuns, Job
<1>. QED  BY <1>1, WorkerPays, BootPays, CallStepPays, ClientStepPays DEF Next

-----------------------------------------------------------------------------
(* The runtime implements the lifecycle *)

\* The phase of a row by its status.
LEMMA PhaseFacts ==
    ASSUME NEW row \in Row
    PROVE  /\ ~Present(row) => PhaseOf(row) = "none"
           /\ Runnable(row) => PhaseOf(row) = "pending"
           /\ row.status \in Active => PhaseOf(row) = "running"
           /\ row.status = "WAITING_USER" /\ ~row.queued => PhaseOf(row) = "paused"
           /\ row.status = "FAILED" /\ ~row.queued => PhaseOf(row) = "failed"
           /\ Present(row) /\ ~Runnable(row) /\ row.status \notin Active =>
                PhaseOf(row) \in {"paused", "failed", "done"}
           /\ row.status = "CANCELLED" => PhaseOf(row) = "done"
           /\ PhaseOf(row) = "running" => row.status \in Active
BY DEF PhaseOf, Runnable, Active, Row

\* One row changes its phase.
LEMMA MoveOne ==
    ASSUME Inductive, NEW r \in Runs, NEW row, run' = [run EXCEPT ![r] = row],
           NEW from, PhaseOf(run[r]) \in from
    PROVE  Lifecycle!Move(r, from, PhaseOf(row))
<1>1. run \in [Runs -> Row]
  BY DEF Inductive, TypeOK
<1>2. \A s \in Runs : run'[s] = IF s = r THEN row ELSE run[s]
  BY <1>1
<1>3. [s \in Runs |-> PhaseOf(run'[s])]
        = [[s \in Runs |-> PhaseOf(run[s])] EXCEPT ![r] = PhaseOf(row)]
  <2>. DEFINE before == [s \in Runs |-> PhaseOf(run[s])]
              after == [before EXCEPT ![r] = PhaseOf(row)]
  <2>1. \A s \in Runs : after[s] = IF s = r THEN PhaseOf(row) ELSE PhaseOf(run[s])
    OBVIOUS
  <2>2. \A s \in Runs : PhaseOf(run'[s]) = after[s]
    BY <1>2, <2>1
  <2>3. after = [s \in Runs |-> after[s]]
    OBVIOUS
  <2>. HIDE DEF after
  <2>4. [s \in Runs |-> PhaseOf(run'[s])] = [s \in Runs |-> after[s]]
    BY <2>2
  <2>. QED  BY <2>3, <2>4 DEF after
<1>. QED  BY <1>3 DEF Lifecycle!Move

\* A step that changes no phase is invisible.
LEMMA SamePhases ==
    ASSUME UNCHANGED <<asked, replied, retried>>,
           \A r \in Runs : PhaseOf(run'[r]) = PhaseOf(run[r])
    PROVE  UNCHANGED Lifecycle!lifecycle
<1>1. [r \in Runs |-> PhaseOf(run'[r])] = [r \in Runs |-> PhaseOf(run[r])]
  OBVIOUS
<1>2. [r \in Runs |-> Allowance(r)'] = [r \in Runs |-> Allowance(r)]
  BY DEF Allowance
<1>. QED  BY <1>1, <1>2 DEF Lifecycle!lifecycle

\* A row is saved and nothing is asked for: the lifecycle moves as the row does, or rests.
LEMMA OneMove ==
    ASSUME Inductive, UNCHANGED <<asked, replied, retried>>,
           NEW r \in Runs, NEW row, run' = [run EXCEPT ![r] = row],
           \/ PhaseOf(row) = PhaseOf(run[r])
           \/ PhaseOf(run[r]) = "none" /\ PhaseOf(row) = "pending"
           \/ PhaseOf(run[r]) = "pending" /\ PhaseOf(row) = "running"
           \/ PhaseOf(run[r]) = "running" /\ PhaseOf(row) \in {"paused", "failed", "done"}
           \/ PhaseOf(run[r]) \in {"paused", "pending"} /\ PhaseOf(row) = "done"
    PROVE  [Lifecycle!Next]_(Lifecycle!lifecycle)
<1>1. [s \in Runs |-> Allowance(s)'] = [s \in Runs |-> Allowance(s)]
  BY DEF Allowance
<1>2. CASE PhaseOf(row) = PhaseOf(run[r])
  <2>1. \A s \in Runs : PhaseOf(run'[s]) = PhaseOf(run[s])
    BY <1>2 DEF Inductive, TypeOK
  <2>. QED  BY <2>1, SamePhases
<1>3. CASE PhaseOf(run[r]) = "none" /\ PhaseOf(row) = "pending"
  <2>1. Lifecycle!Move(r, {"none"}, "pending")
    BY <1>3, MoveOne
  <2>2. Lifecycle!Accept(r)
    BY <1>1, <2>1 DEF Lifecycle!Accept
  <2>. QED  BY <2>2 DEF Lifecycle!Next
<1>4. CASE PhaseOf(run[r]) = "pending" /\ PhaseOf(row) = "running"
  <2>1. Lifecycle!Move(r, {"pending"}, "running")
    BY <1>4, MoveOne
  <2>2. Lifecycle!Start(r)
    BY <1>1, <2>1 DEF Lifecycle!Start
  <2>. QED  BY <2>2 DEF Lifecycle!Next
<1>5. CASE PhaseOf(run[r]) = "running" /\ PhaseOf(row) \in {"paused", "failed", "done"}
  <2>1. Lifecycle!Move(r, {"running"}, PhaseOf(row))
    BY <1>5, MoveOne
  <2>2. Lifecycle!Stop(r)
    BY <1>1, <1>5, <2>1 DEF Lifecycle!Stop
  <2>. QED  BY <2>2 DEF Lifecycle!Next
<1>6. CASE PhaseOf(run[r]) \in {"paused", "pending"} /\ PhaseOf(row) = "done"
  <2>1. Lifecycle!Move(r, {"paused", "pending"}, "done")
    BY <1>6, MoveOne
  <2>2. Lifecycle!Withdraw(r)
    BY <1>1, <2>1 DEF Lifecycle!Withdraw
  <2>. QED  BY <2>2 DEF Lifecycle!Next
<1>. QED  BY <1>2, <1>3, <1>4, <1>5, <1>6

\* A worker starts a run it has claimed, executes an Ask that is paid for, or stops.
LEMMA WorkerRefines ==
    ASSUME Inductive, Inductive', Attended, AsksArePaid, NEW t \in Workers, WorkerStep(t)
    PROVE  [Lifecycle!Next]_(Lifecycle!lifecycle)
<1>1. t \in Threads /\ run \in [Runs -> Row] /\ asked \in [Runs -> Nat]
  BY DEF Threads, Inductive, TypeOK
<1>2. ASSUME NEW row, NEW w, Saves(t, row, w), Settles(t, row), Proceeds(t, row, w)
      PROVE  [Lifecycle!Next]_(Lifecycle!lifecycle)
  <2>1. /\ run' = [run EXCEPT ![Job(t)] = row] /\ UNCHANGED <<asked, replied, retried>>
        /\ worker[t].pc \in Holding /\ Fresh(t)
    BY <1>2 DEF Saves, history
  <2>2. Job(t) \in Runs /\ Snap(t) = run[Job(t)] /\ ThreadSound(worker[t])
    BY <1>1, <2>1, FreshCopy, OwnRuns
  <2>3. /\ row \in Row /\ Present(row) /\ ~Runnable(row)
        /\ At(t, "claim") => row.status \in Active
    BY <1>2 DEF Settles
  <2>4. PhaseOf(row) \in {"running", "paused", "failed", "done"}
        /\ (At(t, "claim") => PhaseOf(row) = "running")
    BY <2>3, PhaseFacts
  <2>5. At(t, "claim") => PhaseOf(run[Job(t)]) = "pending"
    BY <1>1, <2>2, PhaseFacts DEF ThreadSound, At, Snap
  <2>6. ~At(t, "claim") => PhaseOf(run[Job(t)]) = "running"
    <3>1. ~At(t, "claim") => run[Job(t)].status \in Active
      BY <2>1, DrivenRow DEF Holding, At
    <3>. QED  BY <1>1, <2>2, <3>1, PhaseFacts
  <2>. QED  BY <2>1, <2>2, <2>4, <2>5, <2>6, OneMove
<1>3. ASSUME NEW w, Defers(t, w)
      PROVE  [Lifecycle!Next]_(Lifecycle!lifecycle)
  BY <1>3, SamePhases DEF Defers
<1>4. CASE AskStarted(t)
  <2>1. /\ worker[t].pc = "check_ask" /\ UNCHANGED <<run, replied, retried>>
        /\ asked' = IF run[Job(t)].cancel THEN asked ELSE [asked EXCEPT ![Job(t)] = @ + 1]
    BY <1>4 DEF AskStarted, At, store
  <2>2. /\ worker[t].pc \in Driving \ {"except"} /\ worker[t].pc \in BeforeAsk
    BY <2>1 DEF Driving, BeforeAsk
  <2>3. Job(t) \in Runs /\ run[Job(t)].status \in Active
    BY <2>2, DrivenRow
  <2>4. PhaseOf(run[Job(t)]) = "running" /\ asked[Job(t)] < Allowance(Job(t))
    BY <1>1, <2>2, <2>3, PhaseFacts DEF AsksArePaid
  <2>5. CASE asked' = asked
    BY <2>1, <2>5, SamePhases
  <2>6. CASE asked' = [asked EXCEPT ![Job(t)] = @ + 1]
    <3>1. /\ [s \in Runs |-> Allowance(s)'] = [s \in Runs |-> Allowance(s)]
          /\ [s \in Runs |-> PhaseOf(run'[s])] = [s \in Runs |-> PhaseOf(run[s])]
      BY <2>1 DEF Allowance
    <3>2. Lifecycle!Execute(Job(t))
      BY <2>3, <2>4, <2>6, <3>1 DEF Lifecycle!Execute
    <3>. QED  BY <2>3, <3>2 DEF Lifecycle!Next
  <2>. QED  BY <2>1, <2>5, <2>6
<1>. QED  BY <1>2, <1>3, <1>4, WorkerKinds

\* The constructor stops the runs a dead process was driving; a crash changes no row.
LEMMA BootRefines ==
    ASSUME Inductive, BootStep \/ Crash
    PROVE  [Lifecycle!Next]_(Lifecycle!lifecycle)
<1>1. UNCHANGED <<asked, replied, retried>> /\ run \in [Runs -> Row]
  BY DEF BootStep, Crash, Interrupt, Resubmit, Publishing, PostMessage, ReadMemory,
         ReadMemoryRevision, PutMemory, Publish, ListCompletions, ListClarifications, RepairNext,
         RepairDone, store, history, Inductive, TypeOK
<1>2. CASE run' = run
  BY <1>1, <1>2, SamePhases
<1>3. CASE run' # run
  <2>1. PICK r \in Runs : /\ run[r].status \in Active
                          /\ run' = [run EXCEPT ![r] = Saved(Interrupted(run[r]))]
    BY <1>3 DEF BootStep, Crash, Interrupt, Resubmit, Publishing, PostMessage, ReadMemory,
         ReadMemoryRevision, PutMemory, Publish, ListCompletions, ListClarifications, RepairNext,
         RepairDone, store
  <2>. DEFINE row == Saved(Interrupted(run[r]))
  <2>2. row.status = "FAILED" /\ row.queued = FALSE
    BY <1>1, InterruptedRow
  <2>3. PhaseOf(row) = "failed"
    BY <2>2 DEF PhaseOf, Runnable, Active
  <2>4. PhaseOf(run[r]) = "running"
    BY <1>1, <2>1, PhaseFacts
  <2>. HIDE DEF row
  <2>5. run' = [run EXCEPT ![r] = row]
    BY <2>1 DEF row
  <2>. QED  BY ZenonT(60), <1>1, <2>3, <2>4, <2>5, OneMove
<1>. QED  BY SMTT(60), <1>2, <1>3

\* A call inserts a new run, and only that.
LEMMA CallStepRefines ==
    ASSUME Inductive, CallStep
    PROVE  [Lifecycle!Next]_(Lifecycle!lifecycle)
<1> SUFFICES ASSUME NEW call \in calls,
                    \/ InsertRun(call) \/ PostQuestion(call) \/ PostReply(call)
                    \/ Submit(call) \/ PublishCancel(call)
             PROVE  [Lifecycle!Next]_(Lifecycle!lifecycle)
  BY DEF CallStep
<1>1. call.run \in Runs /\ run \in [Runs -> Row] /\ UNCHANGED <<asked, replied, retried>>
  BY DEF InsertRun, PostQuestion, PostReply, Submit, PublishCancel, store, history,
         Inductive, TypeOK, Call
<1>2. CASE InsertRun(call)
  <2>1. ~Present(run[call.run]) /\ run' = [run EXCEPT ![call.run] = NewRow]
    BY <1>2 DEF InsertRun, Inductive, OnlyBornRuns
  <2>2. PhaseOf(run[call.run]) = "none"
    BY <1>1, <2>1, PhaseFacts
  <2>3. PhaseOf(NewRow) = "pending"
    BY InitialRows, PhaseFacts DEF NewRow, NoRow, Runnable
  <2>. QED  BY <1>1, <2>1, <2>2, <2>3, OneMove
<1>3. CASE ~InsertRun(call)
  <2>1. run' = run
    BY <1>3 DEF PostQuestion, PostReply, Submit, PublishCancel, store
  <2>. QED  BY <1>1, <2>1, SamePhases
<1>. QED  BY <1>2, <1>3

\* The client resumes a run that waits for him or has failed, withdraws one, or forgets all.
LEMMA ClientStepRefines ==
    ASSUME Inductive, ClientStep
    PROVE  [Lifecycle!Next]_(Lifecycle!lifecycle)
<1>1. /\ run \in [Runs -> Row] /\ asked \in [Runs -> Nat] /\ replied \in [Runs -> Nat]
      /\ retried \in [Runs -> Nat]
  BY DEF Inductive, TypeOK
<1>2. ASSUME NEW r \in Runs, CreateRun(r)
      PROVE  [Lifecycle!Next]_(Lifecycle!lifecycle)
  BY <1>2, SamePhases DEF CreateRun, store, history
<1>3. ASSUME NEW r \in Runs, CancelWaiting(r)
      PROVE  [Lifecycle!Next]_(Lifecycle!lifecycle)
  <2>. DEFINE row == Transition(run[r], "CANCELLED")
  <2>1. /\ UNCHANGED <<asked, replied, retried>> /\ run[r].status = "WAITING_USER"
        /\ run' = [run EXCEPT ![r] = Saved(row)]
    BY <1>3 DEF CancelWaiting
  <2>2. row \in Row /\ row.status = "CANCELLED"
    BY ZenonT(60), <1>1 DEF Transition, Row, RunStatus, Terminal, Settled
  <2>. HIDE DEF row
  <2>3. Saved(row) \in Row /\ Saved(row).status = "CANCELLED"
    BY <2>2, SavedPlace
  <2>4. PhaseOf(Saved(row)) = "done" /\ PhaseOf(run[r]) \in {"paused", "pending"}
    BY <1>1, <2>1, <2>3, PhaseFacts DEF Runnable
  <2>. QED  BY <2>1, <2>4, OneMove
<1>4. ASSUME NEW r \in Runs, RequestCancel(r)
      PROVE  [Lifecycle!Next]_(Lifecycle!lifecycle)
  <2>. DEFINE row == [run[r] EXCEPT !.cancel = TRUE]
  <2>1. UNCHANGED <<asked, replied, retried>> /\ run' = [run EXCEPT ![r] = Saved(row)]
    BY <1>4 DEF RequestCancel
  <2>2. row \in Row /\ row.status = run[r].status /\ row.queued = run[r].queued
    BY ZenonT(60), <1>1 DEF Row
  <2>. HIDE DEF row
  <2>3. Saved(row).status = run[r].status /\ Saved(row).queued = run[r].queued
    BY <2>2, SavedPlace
  <2>4. PhaseOf(Saved(row)) = PhaseOf(run[r])
    BY <2>3 DEF PhaseOf, Runnable
  <2>. QED  BY <2>1, <2>4, OneMove
<1>5. ASSUME NEW r \in Runs, Clarify(r) \/ Retry(r)
      PROVE  [Lifecycle!Next]_(Lifecycle!lifecycle)
  <2>. DEFINE row == [run[r] EXCEPT !.queued = TRUE]
  <2>1. /\ asked' = asked /\ run' = [run EXCEPT ![r] = Saved(row)]
        /\ run[r].status \in {"WAITING_USER", "FAILED"} /\ ~run[r].queued
        /\ \/ replied' = [replied EXCEPT ![r] = @ + 1] /\ retried' = retried
           \/ retried' = [retried EXCEPT ![r] = @ + 1] /\ replied' = replied
    BY <1>5 DEF Clarify, Retry
  <2>2. row \in Row /\ row.status = run[r].status /\ row.queued = TRUE
    BY ZenonT(60), <1>1 DEF Row
  <2>. HIDE DEF row
  <2>3. Saved(row) \in Row /\ Saved(row).status = run[r].status /\ Saved(row).queued = TRUE
    BY <2>2, SavedPlace
  <2>4. PhaseOf(Saved(row)) = "pending" /\ PhaseOf(run[r]) \in {"paused", "failed"}
    BY <1>1, <2>1, <2>3, PhaseFacts DEF Runnable
  <2>5. Lifecycle!Move(r, {"paused", "failed"}, "pending")
    BY ZenonT(60), <2>1, <2>4, MoveOne
  <2>6. /\ Allowance(r)' = Allowance(r) + 1
        /\ \A s \in Runs : s # r => Allowance(s)' = Allowance(s)
    BY <1>1, <2>1 DEF Allowance
  <2>7. [s \in Runs |-> Allowance(s)']
            = [[s \in Runs |-> Allowance(s)] EXCEPT ![r] = Allowance(r) + 1]
    BY <2>6
  <2>8. Lifecycle!Resume(r)
    BY <2>1, <2>5, <2>7 DEF Lifecycle!Resume
  <2>. QED  BY <2>8 DEF Lifecycle!Next
<1>6. CASE DeleteConversation
  <2>1. /\ UNCHANGED <<asked, replied, retried>> /\ \A r \in Runs : run'[r] = NoRow
        /\ \A r \in Runs : Present(run[r]) => run[r].status \in Settled
    BY <1>6 DEF DeleteConversation, history
  <2>2. \A r \in Runs : PhaseOf(run'[r]) = "none"
    BY <2>1, InitialRows, PhaseFacts
  <2>3. \A r \in Runs : PhaseOf(run[r]) # "running"
    BY <1>1, <2>1, PhaseFacts DEF Active, Settled
  <2>4. [s \in Runs |-> Allowance(s)'] = [s \in Runs |-> Allowance(s)]
    BY <2>1 DEF Allowance
  <2>5. [s \in Runs |-> PhaseOf(run'[s])] = [s \in Runs |-> "none"]
    BY <2>2
  <2>6. Lifecycle!Forget
    BY <2>1, <2>3, <2>4, <2>5 DEF Lifecycle!Forget
  <2>. QED  BY <2>6 DEF Lifecycle!Next
<1>. QED  BY <1>2, <1>3, <1>4, <1>5, <1>6 DEF ClientStep

\* The initial state is the lifecycle's.
LEMMA InitRefines == Init => Lifecycle!Init
<1> SUFFICES ASSUME Init PROVE Lifecycle!Init
  OBVIOUS
<1>1. \A r \in Runs : run[r] = NoRow /\ Allowance(r) = 1
  BY DEF Init, Allowance
<1>2. PhaseOf(NoRow) = "none"
  BY InitialRows, PhaseFacts
<1>. QED  BY <1>1, <1>2 DEF Init, Lifecycle!Init

\* Every step of the runtime is a step of the lifecycle or invisible to it.
LEMMA NextRefines ==
    ASSUME Inductive, Inductive', Attended, AsksArePaid, [Next]_vars
    PROVE  [Lifecycle!Next]_(Lifecycle!lifecycle)
<1>1. CASE UNCHANGED vars
  BY <1>1, SamePhases DEF vars, store, history
<1>. QED  BY <1>1, WorkerRefines, BootRefines, CallStepRefines, ClientStepRefines DEF Next

\* With them, every Ask is one the user has asked for (create(), clarify(), retry()).
THEOREM PaidInvariant == Spec => [](Inductive /\ Attended /\ AsksArePaid)
<1>1. Init => Inductive /\ Attended /\ AsksArePaid
  BY InitInductive, InitAttended, InitPaid
<1>2. Inductive /\ Attended /\ AsksArePaid /\ [Next]_vars
        => (Inductive /\ Attended /\ AsksArePaid)'
  BY NextInductive, NextAttended, NextPaid
<1>. QED  BY <1>1, <1>2, PTL DEF Spec

\* The runtime implements the lifecycle it promises: no path around the workers, no second
\* Ask without a new reply or retry.
THEOREM RuntimeImplementsLifecycle == Spec => ImplementsLifecycle
<1>1. (Inductive /\ Attended /\ AsksArePaid) /\ (Inductive /\ Attended /\ AsksArePaid)'
        /\ [Next]_vars => [Lifecycle!Next]_(Lifecycle!lifecycle)
  BY NextRefines
<1>. QED  BY <1>1, InitRefines, PaidInvariant, PTL DEF Spec, ImplementsLifecycle, Lifecycle!Spec

-----------------------------------------------------------------------------
(* Answers are stored before their runs are driven *)

\* A claim whose copy was read before another save cannot be of the row that was saved.
LEMMA StaleClaim ==
    ASSUME Inductive, NEW r \in Runs, Present(run[r]), NEW row,
           row.revision = run[r].revision + 1, NEW t \in Workers, At(t, "claim"), Job(t) = r
    PROVE  Snap(t) # row
<1>1. HoldsRow(worker[t], run[r]) /\ run[r].revision \in Nat
  BY OwnRuns DEF Threads, Job, Inductive, TypeOK, Row
<1>2. worker[t] \in Worker /\ worker[t].snap.revision \in Nat
  BY OwnRuns DEF Threads, Worker, Row
<1>3. Snap(t).revision <= run[r].revision /\ Snap(t).revision \in Nat
  BY <1>1, <1>2 DEF HoldsRow, Holding, At, Snap
<1>. QED  BY <1>1, <1>3

\* A run whose submissions, calls, row and claims a step leaves alone.
LEMMA SameSubmission ==
    ASSUME NEW r \in Runs, OneSubmission(r), run'[r] = run[r],
           \A i : i \in Submissions(r)' <=> i \in Submissions(r),
           \A call : call \in Submitters(r)' <=> call \in Submitters(r),
           \A t \in Workers : worker'[t].pc = "claim" /\ worker'[t].job = r =>
               worker'[t] = worker[t]
    PROVE  OneSubmission(r)'
<1>1. Submissions(r)' = Submissions(r) /\ Submitters(r)' = Submitters(r)
  OBVIOUS
<1>2. \A t \in Workers : worker'[t].pc = "claim" /\ worker'[t].job = r =>
          /\ worker[t].pc = "claim" /\ worker[t].job = r /\ worker'[t].snap = worker[t].snap
  OBVIOUS
<1>. QED  BY <1>1, <1>2 DEF OneSubmission, At, Job, Snap

\* A run that is nowhere on its way to the pool.
LEMMA NoSubmission ==
    ASSUME NEW r \in Runs, Submissions(r) = {}, Submitters(r) = {}
    PROVE  OneSubmission(r)
BY DEF OneSubmission

\* A driven or claimed row is not on its way to the pool any more.
LEMMA DrivenUnsubmitted ==
    ASSUME Inductive, NEW t \in Workers, worker[t].pc \in Holding, Fresh(t),
           OneSubmission(Job(t))
    PROVE  Submissions(Job(t)) = {} /\ Submitters(Job(t)) = {}
<1>1. Job(t) \in Runs /\ Snap(t) = run[Job(t)]
  BY FreshCopy
<1>2. CASE At(t, "claim")
  BY <1>1, <1>2 DEF OneSubmission
<1>3. CASE worker[t].pc \in Driving \ {"except"}
  <2>1. run[Job(t)].status \in Active
    BY <1>3, DrivenRow
  <2>2. run[Job(t)].status \notin {"ABSENT", "CREATED", "CANCELLED"} /\ ~Runnable(run[Job(t)])
    BY <2>1 DEF Active, Runnable
  <2>. QED  BY <2>2 DEF OneSubmission
<1>. QED  BY <1>2, <1>3 DEF Holding, At

\* Where a run is in the queue after its head was taken.
LEMMA TailSubmissions ==
    ASSUME queue \in Seq(Runs), queue # <<>>, queue' = Tail(queue), NEW r
    PROVE  /\ \A i \in Submissions(r)' : i + 1 \in Submissions(r) /\ i \in Nat \ {0}
           /\ Head(queue) = r => 1 \in Submissions(r)
<1>1. \A i \in DOMAIN queue' : i + 1 \in DOMAIN queue /\ queue'[i] = queue[i + 1] /\ i \in Nat \ {0}
  OBVIOUS
<1>2. 1 \in DOMAIN queue /\ Head(queue) = queue[1]
  OBVIOUS
<1>. QED  BY <1>1, <1>2 DEF Submissions

\* Where a run is in the queue after a submission.
LEMMA AppendSubmissions ==
    ASSUME queue \in Seq(Runs), NEW s \in Runs, queue' = Append(queue, s), NEW r
    PROVE  /\ r # s => \A i : i \in Submissions(r)' <=> i \in Submissions(r)
           /\ Submissions(s) = {} => \A i, j \in Submissions(s)' : i = j
<1>1. DOMAIN queue = 1..Len(queue) /\ DOMAIN queue' = 1..(Len(queue) + 1) /\ Len(queue) \in Nat
      /\ queue'[Len(queue) + 1] = s
  OBVIOUS
<1>2. \A i \in DOMAIN queue : queue'[i] = queue[i]
  OBVIOUS
<1>3. \A i \in DOMAIN queue' : i \in DOMAIN queue \/ i = Len(queue) + 1
  BY <1>1
<1>4. DOMAIN queue \subseteq DOMAIN queue'
  BY <1>1
<1>. QED  BY <1>1, <1>2, <1>3, <1>4 DEF Submissions

\* Each of the two facts about a run, from the invariant.
LEMMA AnswersKnown ==
    ASSUME SubmittedAnswered, crashes' = 0, conversation' = "active",
           UNCHANGED <<crashes, conversation>>, NEW r \in Runs
    PROVE  OneSubmission(r) /\ AnswersStored(r)
BY DEF SubmittedAnswered

\* A step that adds no call that stores an answer, and none to a run's answers.
LEMMA AnswersKept ==
    ASSUME NEW r \in Runs, AnswersStored(r), UNCHANGED <<replied, calls>>,
           messages'[r].replies = messages[r].replies
    PROVE  AnswersStored(r)'
BY DEF AnswersStored

\* A worker posts no answer of the user and submits no run.
LEMMA WorkerLeavesCalls ==
    ASSUME Inductive, NEW t \in Workers, WorkerStep(t)
    PROVE  /\ UNCHANGED <<crashes, conversation, calls, replied>>
           /\ \A r \in Runs : messages'[r].replies = messages[r].replies
           /\ ~Pick(t) => queue' = queue
<1>1. UNCHANGED <<crashes, conversation, calls, replied>> /\ (~Pick(t) => queue' = queue)
      /\ (~PostMessage(t) => messages' = messages)
  <2>1. CASE Pick(t)
    BY <2>1 DEF Pick, store, history
  <2>2. CASE Drive(t)
    BY <2>2 DEF Drive, Claim, Started, Begin, Context, ContextChecked, Discover, AskStarted, Ask,
       Advance, SettleFault, SettleBlock, SettleQuestion, SettleAnswer, CancelRun, LoseSave, Except,
       FailureChecked, FailRun, store, history
  <2>3. CASE Publishing(t)
    BY <2>3 DEF Publishing, PostMessage, ReadMemory, ReadMemoryRevision, PutMemory, Publish,
       ListCompletions, ListClarifications, RepairNext, RepairDone, store, history
  <2>. QED  BY <2>1, <2>2, <2>3 DEF WorkerStep
<1>2. CASE PostMessage(t)
  <2>1. Job(t) \in Runs /\ messages \in [Runs -> Thread]
    BY <1>2, OwnRuns DEF PostMessage, At, Jobless, Job, Threads, Inductive, TypeOK
  <2>2. \/ messages' = [messages EXCEPT ![Job(t)].prompts = @ \cup {Snap(t).revision}]
        \/ messages' = [messages EXCEPT ![Job(t)].answer = TRUE]
    BY <1>2 DEF PostMessage
  <2> SUFFICES ASSUME NEW r \in Runs
               PROVE  messages'[r].replies = messages[r].replies
    BY <1>1
  <2>3. messages[r] \in Thread
    BY <2>1
  <2>. QED  BY <2>1, <2>2, <2>3 DEF Thread
<1>. QED  BY <1>1, <1>2

\* A worker takes the oldest submission, and with it the only one of its run.
LEMMA PickAnswered ==
    ASSUME Inductive, SubmittedAnswered, NEW t \in Workers, Pick(t)
    PROVE  SubmittedAnswered'
<1> SUFFICES ASSUME crashes' = 0, conversation' = "active", NEW r \in Runs
             PROVE  OneSubmission(r)' /\ AnswersStored(r)'
  BY DEF SubmittedAnswered
<1>1. OneSubmission(r) /\ AnswersStored(r) /\ AnswersStored(r)'
      /\ UNCHANGED <<calls, run>>
  BY WorkerLeavesCalls, AnswersKnown, AnswersKept DEF WorkerStep, Pick, store
<1>2. /\ worker \in [Threads -> Worker] /\ t \in Threads /\ Workers \subseteq Threads
      /\ queue \in Seq(Runs) /\ queue # <<>> /\ queue' = Tail(queue)
  BY DEF Pick, Inductive, TypeOK, Threads
<1>3. /\ \A u \in Workers : u # t => worker'[u] = worker[u]
      /\ worker'[t] = worker[t] \/ worker'[t].job = Head(queue)
  <2>1. CASE UNCHANGED worker
    BY <2>1
  <2>. DEFINE w == [Idle EXCEPT !.pc = "claim", !.job = Head(queue), !.snap = run[Head(queue)]]
  <2>2. CASE Becomes(t, w)
    <3>1. w.job = Head(queue)
      BY DEF Idle
    <3>. HIDE DEF w
    <3>. QED  BY <1>2, <2>2, <3>1 DEF Becomes
  <2>. QED  BY <2>1, <2>2 DEF Pick
<1>4. Submitters(r)' = Submitters(r)
  BY <1>1 DEF Submitters
<1>5. /\ \A i \in Submissions(r)' : i + 1 \in Submissions(r) /\ i \in Nat \ {0}
      /\ Head(queue) = r => 1 \in Submissions(r)
  BY <1>2, TailSubmissions
<1>6. CASE Head(queue) = r
  <2>1. Submissions(r)' = {}
    <3> SUFFICES ASSUME NEW i \in Submissions(r)' PROVE FALSE
      OBVIOUS
    <3>1. i + 1 \in Submissions(r) /\ 1 \in Submissions(r) /\ i \in Nat \ {0}
      BY <1>5, <1>6
    <3>2. i + 1 = 1
      BY <1>1, <3>1 DEF OneSubmission
    <3>. QED  BY <3>1, <3>2
  <2>2. Submitters(r)' = {}
    BY <1>1, <1>4, <1>5, <1>6 DEF OneSubmission
  <2>3. OneSubmission(r)'
    BY <2>1, <2>2 DEF OneSubmission
  <2>. QED  BY <1>1, <2>3
<1>7. CASE Head(queue) # r
  <2>1. \A i, j \in Submissions(r)' : i = j
    <3> SUFFICES ASSUME NEW i \in Submissions(r)', NEW j \in Submissions(r)' PROVE i = j
      OBVIOUS
    <3>1. i + 1 = j + 1 /\ i \in Nat /\ j \in Nat
      BY <1>1, <1>5 DEF OneSubmission
    <3>. QED  BY <3>1
  <2>2. Submissions(r)' # {} => Submissions(r) # {}
    BY <1>5
  <2>3. \A u \in Workers : worker'[u].pc = "claim" /\ worker'[u].job = r =>
            /\ worker[u].pc = "claim" /\ worker[u].job = r /\ worker'[u].snap = worker[u].snap
    BY <1>3, <1>7
  <2>4. OneSubmission(r)'
    BY <1>1, <1>4, <2>1, <2>2, <2>3 DEF OneSubmission, At, Job, Snap
  <2>. QED  BY <1>1, <2>4
<1>. QED  BY <1>6, <1>7

\* A worker writes only rows that are on their way to nobody.
LEMMA WorkerAnswered ==
    ASSUME Inductive, Inductive', Attended, SubmittedAnswered, NEW t \in Workers, WorkerStep(t)
    PROVE  SubmittedAnswered'
<1>1. CASE Pick(t)
  BY <1>1, PickAnswered
<1>2. CASE ~Pick(t)
  <2> SUFFICES ASSUME crashes' = 0, conversation' = "active", NEW r \in Runs
               PROVE  OneSubmission(r)' /\ AnswersStored(r)'
    BY DEF SubmittedAnswered
  <2>1. OneSubmission(r) /\ AnswersStored(r)' /\ UNCHANGED <<calls, queue>>
    BY <1>2, WorkerLeavesCalls, AnswersKnown, AnswersKept
  <2>2. /\ worker \in [Threads -> Worker] /\ t \in Threads /\ Workers \subseteq Threads
        /\ run \in [Runs -> Row]
    BY DEF Inductive, TypeOK, Threads
  <2>3. Submitters(r)' = Submitters(r) /\ Submissions(r)' = Submissions(r)
    BY <2>1 DEF Submitters, Submissions
  <2>4. ASSUME NEW w, Becomes(t, w), run' = run, w.pc # "claim"
        PROVE  OneSubmission(r)'
    <3>1. worker'[t] = w /\ \A u \in Workers : u # t => worker'[u] = worker[u]
      BY <2>2, <2>4 DEF Becomes
    <3>. QED  BY <2>1, <2>3, <2>4, <3>1, SameSubmission
  <2>5. ASSUME NEW row, NEW w, Saves(t, row, w), Proceeds(t, row, w)
        PROVE  OneSubmission(r)'
    <3>1. /\ run' = [run EXCEPT ![Job(t)] = row] /\ Becomes(t, w) /\ w.pc # "claim"
          /\ worker[t].pc \in Holding /\ Fresh(t)
      BY <2>5 DEF Saves, Proceeds
    <3>2. CASE r = Job(t)
      <4>1. Submitters(r)' = {} /\ Submissions(r)' = {}
        BY <2>1, <2>3, <3>1, <3>2, DrivenUnsubmitted
      <4>. QED  BY <4>1 DEF OneSubmission
    <3>3. CASE r # Job(t)
      <4>1. run'[r] = run[r]
        BY <2>2, <3>1, <3>3
      <4>2. worker'[t] = w /\ \A u \in Workers : u # t => worker'[u] = worker[u]
        BY <2>2, <3>1 DEF Becomes
      <4>. QED  BY <2>1, <2>3, <3>1, <4>1, <4>2, SameSubmission
    <3>. QED  BY <3>2, <3>3
  <2>6. ASSUME AskStarted(t)
        PROVE  OneSubmission(r)'
    <3>. DEFINE next == [worker[t] EXCEPT !.pc = "ask"]
    <3>1. CheckCancel(t, next) /\ run' = run
      BY <2>6 DEF AskStarted, store
    <3>2. next.pc = "ask"
      BY Relabelled
    <3>. HIDE DEF next
    <3>3. PICK w : Becomes(t, w) /\ (w = next \/ w.pc \notin BeforeAsk \cup {"claim"})
      BY <3>1, CheckPlace
    <3>4. w.pc # "claim"
      BY <3>2, <3>3
    <3>. QED  BY <2>4, <3>1, <3>3, <3>4
  <2>7. ASSUME NEW w, Defers(t, w)
        PROVE  OneSubmission(r)'
    <3>1. Becomes(t, w) /\ run' = run /\ (w.pc = "claim" => worker[t].pc = "idle")
      BY <2>7 DEF Defers
    <3>2. worker[t].pc # "idle"
      BY <1>2 DEF WorkerStep, Drive, Claim, Started, Begin, Context, ContextChecked, Discover,
         AskStarted, Ask, Advance, SettleFault, SettleBlock, SettleQuestion, SettleAnswer, CancelRun,
         LoseSave, Except, FailureChecked, FailRun, Publishing, PostMessage, ReadMemory,
         ReadMemoryRevision, PutMemory, Publish, ListCompletions, ListClarifications, RepairNext,
         RepairDone, At
    <3>. QED  BY <2>4, <3>1, <3>2
  <2>8. OneSubmission(r)'
    BY <2>5, <2>6, <2>7, WorkerKinds
  <2>. QED  BY <2>1, <2>8
<1>. QED  BY <1>1, <1>2


\* A call goes on to its next transaction: it still is the only one of its run.
LEMMA ContinueSubmits ==
    ASSUME Inductive, NEW call \in calls, call.op # "event", NEW op \in {"post", "submit"},
           Continue(call, op), OneSubmission(call.run)
    PROVE  /\ Submissions(call.run) = {}
           /\ \A a, b \in Submitters(call.run)' : a = b
           /\ \A r \in Runs : r # call.run => Submitters(r)' = Submitters(r)
           /\ \A r \in Runs : Storing(r) \in calls'
                <=> Storing(r) \in calls /\ Storing(r) # call
<1>. DEFINE next == [call EXCEPT !.op = op]
<1>1. call \in Call /\ calls' = (calls \ {call}) \cup {next}
  BY DEF Inductive, TypeOK, Continue
<1>2. next.run = call.run /\ next.op = op
  BY <1>1 DEF Call
<1>3. \A r \in Runs : next # Storing(r)
  BY <1>2 DEF Storing
<1>. HIDE DEF next
<1>4. call \in Submitters(call.run)
  BY DEF Submitters
<1>5. \A other \in Submitters(call.run) : other = call
  BY <1>4 DEF OneSubmission
<1>6. Submissions(call.run) = {}
  BY <1>4 DEF OneSubmission
<1>7. \A a \in Submitters(call.run)' : a = next
  BY <1>1, <1>5 DEF Submitters
<1>8. \A r \in Runs : r # call.run => Submitters(r)' = Submitters(r)
  BY <1>1, <1>2 DEF Submitters
<1>. QED  BY <1>1, <1>3, <1>6, <1>7, <1>8

\* A run on its way keeps its row and its claims while its call goes on.
LEMMA MovedSubmission ==
    ASSUME NEW r \in Runs, OneSubmission(r), UNCHANGED <<run, worker>>,
           Submitters(r) # {} \/ Submissions(r) # {},
           \A a, b \in Submitters(r)' : a = b,
           \A i, j \in Submissions(r)' : i = j,
           Submitters(r)' = {} \/ Submissions(r)' = {}
    PROVE  OneSubmission(r)'
BY DEF OneSubmission, At, Job, Snap

\* The later transactions of the calls: the row, the question or the answer, the submission.
LEMMA CallStepAnswered ==
    ASSUME Inductive, Inductive', SubmittedAnswered, CallStep
    PROVE  SubmittedAnswered'
<1> SUFFICES ASSUME NEW call \in calls,
                    \/ InsertRun(call) \/ PostQuestion(call) \/ PostReply(call)
                    \/ Submit(call) \/ PublishCancel(call),
                    crashes' = 0, conversation' = "active"
             PROVE  \A r \in Runs : OneSubmission(r)' /\ AnswersStored(r)'
  BY DEF CallStep, SubmittedAnswered
<1>1. /\ call \in Call /\ call.run \in Runs /\ run \in [Runs -> Row]
      /\ messages \in [Runs -> Thread] /\ queue \in Seq(Runs) /\ replied \in [Runs -> Nat]
      /\ Workers \subseteq Threads
  BY DEF Inductive, TypeOK, Call, Threads
<1>2. UNCHANGED <<worker, conversation, crashes, replied>>
  BY DEF InsertRun, PostQuestion, PostReply, Submit, PublishCancel, store, history
<1>3. \A r \in Runs : OneSubmission(r) /\ AnswersStored(r)
  BY <1>2, AnswersKnown
<1>4. CASE InsertRun(call)
  <2>1. /\ call.op = "insert" /\ Continue(call, "post") /\ UNCHANGED <<messages, queue>>
        /\ run' = [run EXCEPT ![call.run] = NewRow] /\ ~Present(run[call.run])
    BY <1>4 DEF InsertRun, Inductive, OnlyBornRuns
  <2>2. /\ Submissions(call.run) = {}
        /\ \A a, b \in Submitters(call.run)' : a = b
        /\ \A r \in Runs : r # call.run => Submitters(r)' = Submitters(r)
        /\ \A r \in Runs : Storing(r) \in calls' <=> Storing(r) \in calls
    <3>1. \A r \in Runs : Storing(r) # call
      BY <2>1 DEF Storing
    <3>. QED  BY <1>1, <1>3, <2>1, <3>1, ContinueSubmits
  <2>3. \A r \in Runs : AnswersStored(r)'
    BY <1>2, <1>3, <2>1, <2>2 DEF AnswersStored
  <2>4. \A t \in Workers : Job(t) # call.run
    BY <1>1, <2>1, DrivenBorn DEF BornRuns
  <2>5. Submissions(call.run)' = {}
    BY <2>1, <2>2 DEF Submissions
  <2>6. run'[call.run] = NewRow /\ NewRow.status = "CREATED"
    BY <1>1, <2>1 DEF NewRow, NoRow
  <2>7. OneSubmission(call.run)'
    BY <1>2, <2>2, <2>4, <2>5, <2>6 DEF OneSubmission, Job
  <2>8. ASSUME NEW r \in Runs, r # call.run
        PROVE  OneSubmission(r)'
    <3>1. run'[r] = run[r] /\ Submissions(r)' = Submissions(r)
      BY <1>1, <2>1, <2>8 DEF Submissions
    <3>. QED  BY <1>2, <1>3, <2>2, <2>8, <3>1, SameSubmission
  <2>. QED  BY <2>3, <2>7, <2>8
<1>5. CASE PostQuestion(call) \/ PostReply(call)
  <2>1. /\ call.op \in {"post", "reply"} /\ Continue(call, "submit") /\ UNCHANGED <<run, queue>>
    BY <1>5 DEF PostQuestion, PostReply
  <2>2. /\ Submissions(call.run) = {}
        /\ \A a, b \in Submitters(call.run)' : a = b
        /\ \A r \in Runs : r # call.run => Submitters(r)' = Submitters(r)
        /\ \A r \in Runs : Storing(r) \in calls'
                <=> Storing(r) \in calls /\ Storing(r) # call
    BY <1>1, <1>3, <2>1, ContinueSubmits
  <2>3. \A r \in Runs : Submissions(r)' = Submissions(r)
    BY <2>1 DEF Submissions
  <2>4. call \in Submitters(call.run)
    BY <2>1 DEF Submitters
  <2>5. OneSubmission(call.run)'
    BY <1>1, <1>2, <1>3, <2>1, <2>2, <2>3, <2>4, MovedSubmission
  <2>6. \A r \in Runs : r # call.run => OneSubmission(r)'
    BY <1>2, <1>3, <2>1, <2>2, <2>3, SameSubmission
  <2>7. ASSUME NEW r \in Runs
        PROVE  AnswersStored(r)'
    <3>1. messages[r] \in Thread /\ messages[r].replies \in Nat /\ replied[r] \in Nat
      BY <1>1 DEF Thread
    <3>2. CASE PostReply(call) /\ r = call.run
      <4>1. Storing(r) = call
        BY <1>1, <3>2 DEF PostReply, Call, Storing
      <4>2. messages'[r].replies = messages[r].replies + 1
        BY <1>1, <3>1, <3>2 DEF PostReply, Thread
      <4>. QED  BY <1>2, <1>3, <2>2, <3>1, <4>1, <4>2 DEF AnswersStored
    <3>3. CASE ~(PostReply(call) /\ r = call.run)
      <4>1. messages'[r].replies = messages[r].replies
        <5>1. CASE PostQuestion(call)
          BY <1>1, <3>1, <5>1 DEF PostQuestion, Thread
        <5>2. CASE PostReply(call) /\ r # call.run
          BY <1>1, <5>2 DEF PostReply
        <5>. QED  BY <1>5, <3>3, <5>1, <5>2
      <4>2. Storing(r) # call
        <5>1. CASE PostQuestion(call)
          BY <5>1 DEF PostQuestion, Storing
        <5>2. CASE r # call.run
          BY <5>2 DEF Storing
        <5>. QED  BY <1>5, <3>3, <5>1, <5>2
      <4>3. Storing(r) \in calls' <=> Storing(r) \in calls
        BY <2>2, <4>2
      <4>. QED  BY <1>2, <1>3, <4>1, <4>3 DEF AnswersStored
    <3>. QED  BY <3>2, <3>3
  <2>. QED  BY <2>5, <2>6, <2>7
<1>6. CASE Submit(call) \/ PublishCancel(call)
  <2>1. /\ call.op \in {"submit", "event"} /\ calls' = calls \ {call} /\ UNCHANGED <<run, messages>>
    BY <1>6 DEF Submit, PublishCancel, store
  <2>2. \A r \in Runs : AnswersStored(r)'
    <3>1. \A r \in Runs : Storing(r) # call
      BY <2>1 DEF Storing
    <3>. QED  BY <1>2, <1>3, <2>1, <3>1 DEF AnswersStored
  <2>3. CASE PublishCancel(call)
    <3>1. call.op = "event" /\ queue' = queue
      BY <2>3 DEF PublishCancel
    <3>2. \A r \in Runs : Submitters(r)' = Submitters(r) /\ Submissions(r)' = Submissions(r)
      BY <2>1, <3>1 DEF Submitters, Submissions
    <3>. QED  BY <1>2, <1>3, <2>1, <2>2, <3>2, SameSubmission
  <2>4. CASE Submit(call)
    <3>1. call.op = "submit" /\ queue' = Append(queue, call.run)
      BY <2>4 DEF Submit
    <3>2. call \in Submitters(call.run)
      BY <3>1 DEF Submitters
    <3>3. Submissions(call.run) = {} /\ \A other \in Submitters(call.run) : other = call
      BY <1>1, <1>3, <3>2 DEF OneSubmission
    <3>4. Submitters(call.run)' = {}
      BY <2>1, <3>3 DEF Submitters
    <3>5. \A i, j \in Submissions(call.run)' : i = j
      BY <1>1, <3>1, <3>3, AppendSubmissions
    <3>6. OneSubmission(call.run)'
      BY <1>1, <1>2, <1>3, <2>1, <3>2, <3>4, <3>5, MovedSubmission
    <3>7. ASSUME NEW r \in Runs, r # call.run
          PROVE  OneSubmission(r)'
      <4>1. \A i : i \in Submissions(r)' <=> i \in Submissions(r)
        BY <1>1, <3>1, <3>7, AppendSubmissions
      <4>2. Submitters(r)' = Submitters(r)
        BY <2>1, <3>7 DEF Submitters
      <4>. QED  BY <1>2, <1>3, <2>1, <4>1, <4>2, SameSubmission
    <3>. QED  BY <2>2, <3>6, <3>7
  <2>. QED  BY <1>6, <2>3, <2>4
<1>. QED  BY <1>4, <1>5, <1>6

\* As long as the process has not died, nothing restarts.
LEMMA BootAnswered ==
    ASSUME Inductive, Attended, SubmittedAnswered, BootStep \/ Crash
    PROVE  SubmittedAnswered'
<1>1. crashes \in Nat
  BY DEF Inductive, TypeOK
<1>2. CASE Crash
  BY <1>1, <1>2 DEF Crash, SubmittedAnswered
<1>3. CASE BootStep
  <2>1. crashes' = crashes
    BY ZenonT(60), <1>3 DEF BootStep, Interrupt, Resubmit, Publishing, PostMessage, ReadMemory,
       ReadMemoryRevision, PutMemory, Publish, ListCompletions, ListClarifications, RepairNext,
       RepairDone, history
  <2>2. ~Up
    BY ZenonT(60), <1>3 DEF BootStep, Interrupt, Resubmit, Publishing, PostMessage, ReadMemory,
       ReadMemoryRevision, PutMemory, Publish, ListCompletions, ListClarifications, RepairNext,
       RepairDone, Up, At
  <2>3. crashes > 0
    BY <2>2 DEF Attended, RestartGetsThrough
  <2>4. crashes' # 0
    BY <1>1, <2>1, <2>3
  <2>. QED  BY <2>4 DEF SubmittedAnswered
<1>. QED  BY <1>2, <1>3

\* A client's write of one row: of a run on its way, it leaves it where it may still be
\* claimed, and a claim that read it before is lost.
LEMMA RewrittenSubmission ==
    ASSUME Inductive, NEW r \in Runs, Present(run[r]), NEW row, row.revision = run[r].revision + 1,
           run' = [run EXCEPT ![r] = row], UNCHANGED <<worker, queue>>, OneSubmission(r),
           \A a, b \in Submitters(r)' : a = b,
           Submitters(r)' = {} \/ Submissions(r) = {},
           Submitters(r)' # {} \/ Submissions(r) # {} =>
               row.status \in {"ABSENT", "CREATED", "CANCELLED"} \/ Runnable(row)
    PROVE  OneSubmission(r)'
<1>1. run'[r] = row
  BY DEF Inductive, TypeOK
<1>2. Submissions(r)' = Submissions(r)
  BY DEF Submissions
<1>3. \A t \in Workers : At(t, "claim") /\ Job(t) = r => Snap(t) # row
  BY StaleClaim
<1>. QED  BY <1>1, <1>2, <1>3 DEF OneSubmission, At, Job, Snap

\* The first transactions of the calls: only a run that nobody is about to submit is resumed.
LEMMA ClientStepAnswered ==
    ASSUME Inductive, Inductive', SubmittedAnswered, ClientStep
    PROVE  SubmittedAnswered'
<1> SUFFICES ASSUME crashes' = 0, conversation' = "active"
             PROVE  \A r \in Runs : OneSubmission(r)' /\ AnswersStored(r)'
  BY DEF SubmittedAnswered
<1>1. /\ run \in [Runs -> Row] /\ messages \in [Runs -> Thread] /\ replied \in [Runs -> Nat]
      /\ queue \in Seq(Runs) /\ Workers \subseteq Threads
  BY DEF Inductive, TypeOK, Threads
<1> SUFFICES ASSUME NEW r \in Runs,
                    \/ CreateRun(r) \/ CancelWaiting(r) \/ RequestCancel(r)
                    \/ Clarify(r) \/ Retry(r)
             PROVE  \A s \in Runs : OneSubmission(s)' /\ AnswersStored(s)'
  BY DEF ClientStep, DeleteConversation
<1>2. UNCHANGED <<worker, queue, messages, conversation, crashes>>
  BY DEF CreateRun, CancelWaiting, RequestCancel, Clarify, Retry, store, process, history
<1>3. \A s \in Runs : OneSubmission(s) /\ AnswersStored(s)
  BY <1>2, AnswersKnown
<1>4. \A s \in Runs : Submissions(s)' = Submissions(s)
  BY <1>2 DEF Submissions
<1>5. ASSUME NEW op \in {"insert", "submit", "reply", "event"},
             calls' = calls \cup {[op |-> op, run |-> r]},
             \A s \in Runs : s # r => run'[s] = run[s]
      PROVE  /\ \A s \in Runs : s # r => OneSubmission(s)'
             /\ op # "event" /\ Submitters(r) = {} => \A a, b \in Submitters(r)' : a = b
             /\ op = "event" => Submitters(r)' = Submitters(r)
             /\ op # "reply" /\ replied' = replied => \A s \in Runs : AnswersStored(s)'
  <2>. DEFINE call == [op |-> op, run |-> r]
  <2>1. call.op = op /\ call.run = r /\ calls' = calls \cup {call}
    BY <1>5
  <2>2. op # "reply" => \A s \in Runs : Storing(s) # call
    BY DEF Storing
  <2>. HIDE DEF call
  <2>3. \A s \in Runs : s # r => Submitters(s)' = Submitters(s)
    BY <2>1 DEF Submitters
  <2>4. \A s \in Runs : s # r => OneSubmission(s)'
    BY <1>2, <1>3, <1>4, <1>5, <2>3, SameSubmission
  <2>5. op # "event" /\ Submitters(r) = {} => \A a, b \in Submitters(r)' : a = b
    BY <2>1 DEF Submitters
  <2>6. op = "event" => Submitters(r)' = Submitters(r)
    BY <2>1 DEF Submitters
  <2>7. op # "reply" /\ replied' = replied => \A s \in Runs : AnswersStored(s)'
    BY <1>2, <1>3, <2>1, <2>2 DEF AnswersStored
  <2>. QED  BY <2>4, <2>5, <2>6, <2>7
<1>6. CASE CreateRun(r)
  <2>1. /\ UNCHANGED <<run, replied>> /\ conversation = "active" /\ ~Present(run[r])
        /\ calls' = calls \cup {[op |-> "insert", run |-> r]} /\ Submitters(r) = {}
    BY <1>6 DEF CreateRun, store, history, Submitters
  <2>2. r \notin BornRuns
    BY <2>1 DEF BornRuns
  <2>3. Submissions(r) = {}
    BY <2>2 DEF Submissions, Inductive, OnlyBornRuns
  <2>4. \A t \in Workers : Job(t) # r
    BY <2>2, DrivenBorn
  <2>5. run[r].status = "ABSENT"
    BY <2>1 DEF Present
  <2>6. \A a, b \in Submitters(r)' : a = b
    BY <1>5, <2>1
  <2>7. OneSubmission(r)'
    BY <1>2, <1>4, <2>1, <2>3, <2>4, <2>5, <2>6 DEF OneSubmission, Job
  <2>. QED  BY <1>5, <2>1, <2>7
<1>7. CASE CancelWaiting(r)
  <2>. DEFINE row == Transition(run[r], "CANCELLED")
  <2>1. row \in Row /\ row.status = "CANCELLED" /\ row.revision = run[r].revision
    BY ZenonT(60), <1>1 DEF Transition, Row, RunStatus, Terminal, Settled
  <2>2. /\ run' = [run EXCEPT ![r] = Saved(row)] /\ replied' = replied /\ Present(run[r])
        /\ calls' = calls \cup {[op |-> "event", run |-> r]}
    BY <1>7 DEF CancelWaiting, Present
  <2>. HIDE DEF row
  <2>3. Saved(row).status = "CANCELLED" /\ Saved(row).revision = run[r].revision + 1
    BY <2>1, SavedPlace
  <2>4. \A s \in Runs : s # r => run'[s] = run[s]
    BY <1>1, <2>2
  <2>5. Submitters(r)' = Submitters(r)
    BY <1>5, <2>2, <2>4
  <2>6. /\ \A a, b \in Submitters(r)' : a = b
        /\ Submitters(r)' = {} \/ Submissions(r) = {}
    BY <1>3, <2>5 DEF OneSubmission
  <2>7. OneSubmission(r)'
    BY <1>2, <1>3, <2>2, <2>3, <2>6, RewrittenSubmission
  <2>. QED  BY <1>5, <2>2, <2>4, <2>7
<1>8. CASE RequestCancel(r)
  <2>. DEFINE row == [run[r] EXCEPT !.cancel = TRUE]
  <2>1. /\ row \in Row /\ row.status = run[r].status /\ row.queued = run[r].queued
        /\ row.revision = run[r].revision
    BY ZenonT(60), <1>1 DEF Row
  <2>2. /\ run' = [run EXCEPT ![r] = Saved(row)] /\ replied' = replied /\ Present(run[r])
        /\ calls' = calls
    BY <1>8 DEF RequestCancel, process
  <2>. HIDE DEF row
  <2>3. /\ Saved(row).status = run[r].status /\ Saved(row).queued = run[r].queued
        /\ Saved(row).revision = run[r].revision + 1
    BY <2>1, SavedPlace
  <2>4. \A s \in Runs : s # r => run'[s] = run[s]
    BY <1>1, <2>2
  <2>5. \A s \in Runs : Submitters(s)' = Submitters(s)
    BY <2>2 DEF Submitters
  <2>6. /\ \A a, b \in Submitters(r)' : a = b
        /\ Submitters(r)' = {} \/ Submissions(r) = {}
        /\ Submitters(r)' # {} \/ Submissions(r) # {} =>
               run[r].status \in {"ABSENT", "CREATED", "CANCELLED"} \/ Runnable(run[r])
    BY <1>3, <2>5 DEF OneSubmission
  <2>7. OneSubmission(r)'
    <3>1. Runnable(run[r]) => Runnable(Saved(row))
      BY <2>3 DEF Runnable
    <3>. QED  BY <1>2, <1>3, <2>2, <2>3, <2>6, <3>1, RewrittenSubmission
  <2>8. \A s \in Runs : s # r => OneSubmission(s)'
    BY <1>2, <1>3, <1>4, <2>4, <2>5, SameSubmission
  <2>9. \A s \in Runs : AnswersStored(s)'
    BY <1>2, <1>3, <2>2 DEF AnswersStored
  <2>. QED  BY <2>7, <2>8, <2>9
<1>9. CASE Clarify(r) \/ Retry(r)
  <2>. DEFINE row == [run[r] EXCEPT !.queued = TRUE]
  <2>1. /\ row \in Row /\ row.status = run[r].status /\ row.queued
        /\ row.revision = run[r].revision
    BY ZenonT(60), <1>1 DEF Row
  <2>2. /\ run' = [run EXCEPT ![r] = Saved(row)] /\ run[r].status \in {"WAITING_USER", "FAILED"}
        /\ ~run[r].queued
    BY <1>9 DEF Clarify, Retry
  <2>. HIDE DEF row
  <2>3. /\ Saved(row).status = run[r].status /\ Saved(row).queued
        /\ Saved(row).revision = run[r].revision + 1
    BY <2>1, SavedPlace
  <2>4. Present(run[r]) /\ Runnable(Saved(row)) /\ ~Runnable(run[r])
        /\ run[r].status \notin {"ABSENT", "CREATED", "CANCELLED"}
    BY <2>2, <2>3 DEF Present, Runnable
  <2>5. Submitters(r) = {} /\ Submissions(r) = {}
    BY <1>3, <2>4 DEF OneSubmission
  <2>6. \A s \in Runs : s # r => run'[s] = run[s]
    BY <1>1, <2>2
  <2>7. PICK op \in {"reply", "submit"} :
            /\ calls' = calls \cup {[op |-> op, run |-> r]}
            /\ op = "submit" => replied' = replied
            /\ op = "reply" => replied' = [replied EXCEPT ![r] = @ + 1]
    BY <1>9 DEF Clarify, Retry
  <2>8. \A a, b \in Submitters(r)' : a = b
    BY <1>5, <2>5, <2>6, <2>7
  <2>9. OneSubmission(r)'
    BY <1>2, <1>3, <2>2, <2>3, <2>4, <2>5, <2>8, RewrittenSubmission
  <2>10. \A s \in Runs : s # r => OneSubmission(s)'
    BY <1>5, <2>6, <2>7
  <2>11. \A s \in Runs : AnswersStored(s)'
    <3>1. CASE op = "submit"
      BY <1>5, <2>6, <2>7, <3>1
    <3>2. CASE op = "reply"
      <4>1. calls' = calls \cup {Storing(r)} /\ replied' = [replied EXCEPT ![r] = @ + 1]
        BY <2>7, <3>2 DEF Storing
      <4>2. Storing(r).run = r /\ Storing(r).op = "reply" /\ \A s \in Runs : Storing(s).run = s
        BY DEF Storing
      <4>3. Storing(r) \notin calls
        BY <2>5, <4>2 DEF Submitters
      <4>4. messages[r].replies = replied[r]
        BY <1>3, <4>3 DEF AnswersStored
      <4>5. AnswersStored(r)'
        BY <1>1, <1>2, <4>1, <4>4 DEF AnswersStored
      <4>6. ASSUME NEW s \in Runs, s # r
            PROVE  AnswersStored(s)'
        <5>1. Storing(s) \in calls' <=> Storing(s) \in calls
          BY <4>1, <4>2, <4>6
        <5>2. replied'[s] = replied[s]
          BY <1>1, <4>1, <4>6
        <5>. QED  BY <1>2, <1>3, <5>1, <5>2 DEF AnswersStored
      <4>. QED  BY <4>5, <4>6
    <3>. QED  BY <2>7, <3>1, <3>2
  <2>. QED  BY <2>9, <2>10, <2>11
<1>. QED  BY <1>6, <1>7, <1>8, <1>9

\* Before the first run nobody has answered.
LEMMA InitAnswered == Init => SubmittedAnswered
<1> SUFFICES ASSUME Init, NEW r \in Runs PROVE OneSubmission(r) /\ AnswersStored(r)
  BY DEF SubmittedAnswered
<1>1. calls = {} /\ queue = <<>> /\ messages[r] = NoThread /\ replied[r] = 0
  BY DEF Init
<1>2. Submitters(r) = {} /\ Submissions(r) = {}
  BY <1>1 DEF Submitters, Submissions
<1>3. NoThread.replies = 0
  BY DEF NoThread
<1>. QED  BY <1>1, <1>2, <1>3, NoSubmission DEF AnswersStored

\* Every step keeps a run's answer ahead of its submission.
LEMMA NextAnswered ==
    ASSUME Inductive, Inductive', Attended, SubmittedAnswered, [Next]_vars
    PROVE  SubmittedAnswered'
<1>1. CASE UNCHANGED vars
  BY <1>1 DEF vars, store, process, history, SubmittedAnswered, OneSubmission, AnswersStored,
     Submitters, Submissions, At, Job, Snap
<1>. QED  BY <1>1, WorkerAnswered, BootAnswered, CallStepAnswered, ClientStepAnswered DEF Next

\* A conversation that still exists has existed.
LEMMA StillActive ==
    ASSUME [Next]_vars, conversation' = "active"
    PROVE  conversation = "active"
<1>1. CASE UNCHANGED vars
  BY <1>1 DEF vars, store
<1>2. CASE \E t \in Workers : WorkerStep(t)
  <2>1. PICK t \in Workers : WorkerStep(t)
    BY <1>2
  <2>2. CASE Pick(t)
    BY <2>2 DEF Pick, store
  <2>3. CASE Drive(t)
    BY ZenonT(60), <2>3 DEF Drive, Claim, Started, Begin, Context, ContextChecked, Discover, AskStarted, Ask,
       Advance, SettleFault, SettleBlock, SettleQuestion, SettleAnswer, CancelRun, LoseSave, Except,
       FailureChecked, FailRun, store
  <2>4. CASE Publishing(t)
    BY ZenonT(60), <2>4 DEF Publishing, PostMessage, ReadMemory, ReadMemoryRevision, PutMemory, Publish,
       ListCompletions, ListClarifications, RepairNext, RepairDone, store
  <2>. QED  BY <2>1, <2>2, <2>3, <2>4 DEF WorkerStep
<1>3. CASE BootStep \/ Crash
  BY ZenonT(60), <1>3 DEF BootStep, Crash, Interrupt, Resubmit, Publishing, PostMessage, ReadMemory,
     ReadMemoryRevision, PutMemory, Publish, ListCompletions, ListClarifications, RepairNext,
     RepairDone, store
<1>4. CASE CallStep
  BY <1>4 DEF CallStep, InsertRun, PostQuestion, PostReply, Submit, PublishCancel, store
<1>5. CASE ClientStep
  BY ZenonT(60), <1>5 DEF ClientStep, CreateRun, CancelWaiting, RequestCancel, Clarify, Retry,
     DeleteConversation, store
<1>. QED  BY <1>1, <1>2, <1>3, <1>4, <1>5 DEF Next

\* A drive that goes on to its context has every answer of its run: its conversation exists,
\* and its run is active, so that no call is about to store one.
LEMMA BeginAnswered ==
    ASSUME Inductive, Inductive', Attended', SubmittedAnswered, [Next]_vars, NEW t \in Workers,
           At(t, "begin"), worker'[t].pc = "context", crashes = 0
    PROVE  messages[Job(t)].replies = replied[Job(t)]
<1>1. conversation' # "deleted"
  BY DEF Attended, NobodyAnswersTheDeleted, Driving, Early
<1>2. conversation = "active"
  BY <1>1, StillActive DEF Inductive, TypeOK
<1>3. Job(t) \in Runs /\ run[Job(t)].status \in Active
  BY DrivenRow DEF At, Driving
<1>4. OneSubmission(Job(t)) /\ AnswersStored(Job(t))
  BY <1>2, <1>3 DEF SubmittedAnswered
<1>5. Submitters(Job(t)) = {}
  <2>1. run[Job(t)].status \notin {"ABSENT", "CREATED", "CANCELLED"} /\ ~Runnable(run[Job(t)])
    BY <1>3 DEF Active, Runnable
  <2>. QED  BY <1>4, <2>1 DEF OneSubmission
<1>6. Storing(Job(t)) \notin calls
  BY <1>5 DEF Storing, Submitters
<1>. QED  BY <1>4, <1>6 DEF AnswersStored

\* An answered run is not driven before its answer is stored, unless the process died
\* between the two transactions of clarify().
THEOREM AnswersComeFirst == Spec => AnswerBeforeResume
<1>1. Init => Inductive /\ Attended /\ SubmittedAnswered
  BY InitInductive, InitAttended, InitAnswered
<1>2. Inductive /\ Attended /\ SubmittedAnswered /\ [Next]_vars
        => (Inductive /\ Attended /\ SubmittedAnswered)'
  BY NextInductive, NextAttended, NextAnswered
<1>3. ASSUME Inductive, SubmittedAnswered, Inductive', Attended', [Next]_vars
      PROVE  \A t \in Workers : At(t, "begin") /\ worker'[t].pc = "context" /\ crashes = 0 =>
                messages[Job(t)].replies = replied[Job(t)]
  BY <1>3, BeginAnswered
<1>4. (Inductive /\ Attended /\ SubmittedAnswered)
        /\ (Inductive /\ Attended /\ SubmittedAnswered)' /\ [Next]_vars
        => [\A t \in Workers : At(t, "begin") /\ worker'[t].pc = "context" /\ crashes = 0 =>
                messages[Job(t)].replies = replied[Job(t)]]_vars
  BY <1>3
<1>. QED  BY <1>1, <1>2, <1>4, PTL DEF Spec, AnswerBeforeResume

-----------------------------------------------------------------------------
(* What the runtime does to the row and the events of a run *)

\* A step that inserts and deletes no run.
RowsKept == \A r \in Runs : Present(run'[r]) <=> Present(run[r])

\* A step that writes nothing into the event table, or one event.
Logs ==
    \/ log' = log
    \/ \E r \in Runs, event \in EventType : AppendEvent(r, event)

\* The events of a run after a step: those it had, and then some.
Longer(old, new) ==
    /\ Len(old) <= Len(new)
    /\ \A i \in 1..Len(old) : new[i] = old[i]

\* append_event writes behind what is there.
LEMMA LogsGrow ==
    ASSUME Inductive, Logs, NEW r \in Runs
    PROVE  Longer(log[r], log'[r])
<1>1. log \in [Runs -> Seq(EventType)]
  BY DEF Inductive, TypeOK
<1>2. log[r] \in Seq(EventType)
  BY <1>1
<1>3. CASE log' = log
  BY <1>2, <1>3 DEF Longer
<1>4. ASSUME NEW s \in Runs, NEW event \in EventType, AppendEvent(s, event)
      PROVE  Longer(log[r], log'[r])
  <2>1. log'[r] = log[r] \/ log'[r] = Append(log[r], event)
    BY <1>1, <1>4 DEF AppendEvent
  <2>2. CASE log'[r] = log[r]
    BY <1>2, <2>2 DEF Longer
  <2>3. CASE log'[r] = Append(log[r], event)
    BY <1>2, <2>3, AppendProperties DEF Longer
  <2>. QED  BY <2>1, <2>2, <2>3
<1>. QED  BY <1>3, <1>4 DEF Logs

\* A worker's step keeps every row, and announces at most one event.
LEMMA WorkerLogs ==
    ASSUME Inductive, NEW t \in Workers, Drive(t) \/ Pick(t)
    PROVE  Logs
<1>1. t \in Threads /\ ThreadSound(worker[t]) /\ {"RUN_STARTED", "PROGRESS"} \subseteq EventType
  BY OwnRuns DEF Threads, EventType
<1>2. worker[t].pc \in {"started", "context", "advance"} => Job(t) \in Runs
  BY <1>1 DEF ThreadSound, Jobless, Job
<1>3. CASE Started(t)
  BY <1>1, <1>2, <1>3 DEF Started, At, Logs
<1>4. CASE Context(t)
  BY <1>1, <1>2, <1>4 DEF Context, At, Logs
<1>5. CASE Advance(t)
  BY <1>1, <1>2, <1>5 DEF Advance, At, Logs
<1>6. CASE Claim(t) \/ Discover(t) \/ SettleBlock(t) \/ SettleQuestion(t) \/ SettleAnswer(t)
           \/ CancelRun(t) \/ FailRun(t)
  <2>1. log' = log
    BY <1>6 DEF Claim, Discover, SettleBlock, SettleQuestion, SettleAnswer, CancelRun, FailRun
  <2>. QED  BY <2>1 DEF Logs
<1>7. CASE \/ Begin(t) \/ ContextChecked(t) \/ AskStarted(t) \/ Ask(t) \/ SettleFault(t)
           \/ LoseSave(t) \/ Except(t) \/ FailureChecked(t) \/ Pick(t)
  <2>1. log' = log
    BY <1>7 DEF Begin, ContextChecked, AskStarted, Ask, SettleFault, LoseSave, Except,
           FailureChecked, Pick, store
  <2>. QED  BY <2>1 DEF Logs
<1>. QED  BY <1>3, <1>4, <1>5, <1>6, <1>7 DEF Drive

\* What a worker's handler and the constructor both run announces at most one outcome.
LEMMA PublishingLogs ==
    ASSUME Inductive, NEW t \in Threads, Publishing(t)
    PROVE  Logs /\ run' = run /\ UNCHANGED <<conversation, calls>>
<1>1. run' = run /\ UNCHANGED <<conversation, calls>>
  BY DEF Publishing, PostMessage, ReadMemory, ReadMemoryRevision, PutMemory, Publish,
         ListCompletions, ListClarifications, RepairNext, RepairDone, store
<1>2. CASE Publish(t)
  <2>1. worker[t].pc = "publish" /\ AppendEvent(Job(t), EventOf[worker[t].outcome])
    BY <1>2 DEF Publish, At
  <2>2. ThreadSound(worker[t])
    BY OwnRuns
  <2>3. Job(t) \in Runs /\ EventOf[worker[t].outcome] \in EventType
    BY <2>1, <2>2 DEF ThreadSound, Jobless, Job, EventOf, EventType, Outcome, Fault, Reply
  <2>. QED  BY <1>1, <2>1, <2>3 DEF Logs
<1>3. CASE ~Publish(t)
  <2>1. log' = log
    BY <1>3 DEF Publishing, PostMessage, ReadMemory, ReadMemoryRevision, PutMemory,
         ListCompletions, ListClarifications, RepairNext, RepairDone, store
  <2>. QED  BY SMTT(60), <1>1, <2>1 DEF Logs
<1>. QED  BY SMTT(60), <1>2, <1>3

\* A worker keeps every row it does not save, and the one it saves.
LEMMA WorkerKeepsRows ==
    ASSUME Inductive, Inductive', Attended, NEW t \in Workers, WorkerStep(t)
    PROVE  Logs /\ RowsKept /\ UNCHANGED <<conversation, calls>>
<1>1. t \in Threads
  BY DEF Threads
<1>2. Logs
  BY <1>1, WorkerLogs, PublishingLogs DEF WorkerStep
<1>3. ASSUME NEW row, NEW w, Saves(t, row, w), Settles(t, row)
      PROVE  RowsKept /\ UNCHANGED <<conversation, calls>>
  <2>1. /\ run' = [run EXCEPT ![Job(t)] = row] /\ Present(row) /\ UNCHANGED <<conversation, calls>>
        /\ worker[t].pc \in Holding /\ Fresh(t)
    BY <1>3 DEF Saves, Settles
  <2>2. Present(run[Job(t)]) /\ run \in [Runs -> Row]
    BY <2>1, FreshCopy DEF Inductive, TypeOK
  <2>. QED  BY <2>1, <2>2 DEF RowsKept
<1>4. CASE AskStarted(t)
  BY <1>2, <1>4 DEF AskStarted, store, RowsKept
<1>5. ASSUME NEW w, Defers(t, w)
      PROVE  RowsKept /\ UNCHANGED <<conversation, calls>>
  BY <1>5 DEF Defers, RowsKept
<1>6. \/ \E row, w : Saves(t, row, w) /\ Settles(t, row)
      \/ AskStarted(t)
      \/ \E w : Defers(t, w)
  BY WorkerKinds
<1>. QED  BY <1>2, <1>3, <1>4, <1>5, <1>6

\* The constructor and a crash keep every row; a crash forgets the calls.
LEMMA BootKeepsRows ==
    ASSUME Inductive, BootStep \/ Crash
    PROVE  Logs /\ RowsKept /\ conversation' = conversation /\ calls' \subseteq calls
<1>1. run \in [Runs -> Row] /\ Boot \in Threads
  BY DEF Inductive, TypeOK, Threads
<1>2. CASE Interrupt
  <2>1. \A r \in Runs : \/ run'[r] = run[r]
                        \/ run[r].status \in Active /\ run'[r] = Saved(Interrupted(run[r]))
    BY <1>1, <1>2 DEF Interrupt
  <2>2. RowsKept
    BY <1>1, <2>1, InterruptedRow, RunStatusFacts DEF RowsKept
  <2>. QED  BY <1>2, <2>2 DEF Interrupt, Logs
<1>3. CASE Resubmit \/ Crash
  BY <1>3 DEF Resubmit, Crash, store, Logs, RowsKept
<1>4. CASE Publishing(Boot)
  BY <1>1, <1>4, PublishingLogs DEF RowsKept
<1>. QED  BY <1>2, <1>3, <1>4 DEF BootStep

\* A call inserts its run, which was not there, or announces its cancellation.
LEMMA CallKeepsRows ==
    ASSUME Inductive, NEW call \in calls,
           \/ InsertRun(call) \/ PostQuestion(call) \/ PostReply(call)
           \/ Submit(call) \/ PublishCancel(call)
    PROVE  /\ Logs /\ conversation' = conversation
           /\ \A other \in calls' : other.op = "insert" => other \in calls
           /\ \A r \in Runs :
                \/ run'[r] = run[r]
                \/ Present(run'[r]) /\ call.op = "insert" /\ call.run = r
<1>1. call.run \in Runs /\ run \in [Runs -> Row] /\ call \in Call /\ "RUN_CANCELLED" \in EventType
  BY Calls DEF Inductive, TypeOK, EventType
<1>2. conversation' = conversation
  BY DEF InsertRun, PostQuestion, PostReply, Submit, PublishCancel, store
<1>3. Logs
  <2>1. CASE PublishCancel(call)
    BY <1>1, <2>1 DEF PublishCancel, Logs
  <2>2. CASE ~PublishCancel(call)
    <3>1. log' = log
      BY <2>2 DEF InsertRun, PostQuestion, PostReply, Submit, store
    <3>. QED  BY <3>1 DEF Logs
  <2>. QED  BY <2>1, <2>2
<1>4. \A other \in calls' : other.op = "insert" => other \in calls
  <2>1. CASE InsertRun(call) \/ PostQuestion(call) \/ PostReply(call)
    <3>1. PICK op \in {"post", "submit"} : Continue(call, op)
      BY <2>1 DEF InsertRun, PostQuestion, PostReply
    <3>2. [call EXCEPT !.op = op].op = op
      BY <1>1 DEF Call
    <3>. QED  BY <3>1, <3>2 DEF Continue
  <2>2. CASE Submit(call) \/ PublishCancel(call)
    BY <2>2 DEF Submit, PublishCancel
  <2>. QED  BY <2>1, <2>2
<1>5. \A r \in Runs : \/ run'[r] = run[r]
                      \/ Present(run'[r]) /\ call.op = "insert" /\ call.run = r
  <2>1. CASE InsertRun(call)
    <3>1. Present(NewRow)
      BY DEF NewRow, NoRow
    <3>. QED  BY <1>1, <2>1, <3>1 DEF InsertRun
  <2>2. CASE ~InsertRun(call)
    <3>1. run' = run
      BY <2>2 DEF PostQuestion, PostReply, Submit, PublishCancel, store
    <3>. QED  BY <3>1
  <2>. QED  BY <2>1, <2>2
<1>. QED  BY <1>2, <1>3, <1>4, <1>5

\* A client's write keeps every row, and a run about to be inserted is none that was.
LEMMA ClientKeepsRows ==
    ASSUME Inductive, NEW r \in Runs,
           CreateRun(r) \/ CancelWaiting(r) \/ RequestCancel(r) \/ Clarify(r) \/ Retry(r)
    PROVE  /\ Logs /\ RowsKept /\ conversation' = conversation
           /\ \A call \in calls' :
                call.op = "insert" => call \in calls \/ call.run \notin BornRuns
<1>1. run \in [Runs -> Row]
  BY DEF Inductive, TypeOK
<1>2. log' = log /\ conversation' = conversation
  BY DEF CreateRun, CancelWaiting, RequestCancel, Clarify, Retry, store
<1>3. CASE CreateRun(r)
  <2>1. /\ run' = run /\ conversation = "active" /\ ~Present(run[r])
        /\ calls' = calls \cup {[op |-> "insert", run |-> r]}
    BY <1>3 DEF CreateRun, store
  <2>. QED  BY <1>2, <2>1 DEF Logs, RowsKept, BornRuns
<1>4. CASE ~CreateRun(r)
  <2>1. /\ Present(run[r]) /\ \A s \in Runs : s # r => run'[s] = run[s]
        /\ \A call \in calls' : call.op = "insert" => call \in calls
    BY <1>1, <1>4 DEF CancelWaiting, RequestCancel, Clarify, Retry, process
  <2>2. Present(run'[r])
    <3>1. PICK row : row \in Row /\ Present(row) /\ run'[r] = Saved(row)
      <4>1. Transition(run[r], "CANCELLED") \in Row /\ Transition(run[r], "CANCELLED").status = "CANCELLED"
        BY ZenonT(60), <1>1 DEF Transition, Row, RunStatus, Terminal, Settled
      <4>2. ASSUME NEW row, row = [run[r] EXCEPT !.cancel = TRUE] \/ row = [run[r] EXCEPT !.queued = TRUE]
            PROVE  row \in Row /\ row.status = run[r].status
        BY ZenonT(60), <1>1, <4>2 DEF Row
      <4>3. CASE CancelWaiting(r)
        BY <1>1, <4>1, <4>3 DEF CancelWaiting
      <4>4. CASE RequestCancel(r) \/ Clarify(r) \/ Retry(r)
        <5>1. PICK row : /\ row = [run[r] EXCEPT !.cancel = TRUE] \/ row = [run[r] EXCEPT !.queued = TRUE]
                         /\ run' = [run EXCEPT ![r] = Saved(row)]
          BY <4>4 DEF RequestCancel, Clarify, Retry
        <5>. QED  BY <1>1, <2>1, <4>2, <5>1
      <4>. QED  BY <1>4, <4>3, <4>4
    <3>. QED  BY <3>1, SavedPlace
  <2>3. RowsKept
    BY <2>1, <2>2 DEF RowsKept
  <2>. QED  BY <1>2, <2>1, <2>3 DEF Logs
<1>. QED  BY <1>3, <1>4

\* A run that was inserted stays so, and is there after a step only if it was there before,
\* with its events and perhaps more of them.
LEMMA RunsGoOn ==
    ASSUME Inductive, Inductive', Attended, [Next]_vars, NEW r \in Runs, r \in BornRuns
    PROVE  /\ r \in BornRuns'
           /\ Present(run'[r]) => Present(run[r]) /\ Longer(log[r], log'[r])
<1>1. ASSUME RowsKept, conversation' = conversation, Logs,
             \A call \in calls' : call.op = "insert" => call \in calls \/ call.run \notin BornRuns
      PROVE  /\ r \in BornRuns'
             /\ Present(run'[r]) => Present(run[r]) /\ Longer(log[r], log'[r])
  BY <1>1, LogsGrow DEF RowsKept, BornRuns
<1>2. CASE UNCHANGED vars
  BY <1>1, <1>2 DEF vars, store, process, RowsKept, Logs
<1>3. ASSUME NEW t \in Workers, WorkerStep(t)
      PROVE  /\ r \in BornRuns'
             /\ Present(run'[r]) => Present(run[r]) /\ Longer(log[r], log'[r])
  BY <1>1, <1>3, WorkerKeepsRows
<1>4. CASE BootStep \/ Crash
  BY <1>1, <1>4, BootKeepsRows
<1>5. CASE CallStep
  <2>1. PICK call \in calls : \/ InsertRun(call) \/ PostQuestion(call) \/ PostReply(call)
                              \/ Submit(call) \/ PublishCancel(call)
    BY <1>5 DEF CallStep
  <2>2. /\ Logs /\ conversation' = conversation
        /\ \A other \in calls' : other.op = "insert" => other \in calls
        /\ run'[r] = run[r] \/ (call.op = "insert" /\ call.run = r)
    BY <2>1, CallKeepsRows
  <2>3. run'[r] = run[r]
    BY <2>2 DEF BornRuns
  <2>. QED  BY <2>2, <2>3, LogsGrow DEF BornRuns
<1>6. CASE ClientStep
  <2>1. CASE DeleteConversation
    <3>1. conversation' = "deleted" /\ calls' = calls /\ run'[r] = NoRow
      BY <2>1 DEF DeleteConversation, process
    <3>. QED  BY <3>1, InitialRows DEF BornRuns
  <2>2. ASSUME NEW s \in Runs,
               CreateRun(s) \/ CancelWaiting(s) \/ RequestCancel(s) \/ Clarify(s) \/ Retry(s)
        PROVE  /\ r \in BornRuns'
               /\ Present(run'[r]) => Present(run[r]) /\ Longer(log[r], log'[r])
    BY <1>1, <2>2, ClientKeepsRows
  <2>. QED  BY <1>6, <2>1, <2>2 DEF ClientStep
<1>. QED  BY <1>2, <1>3, <1>4, <1>5, <1>6 DEF Next

-----------------------------------------------------------------------------
(* What the page has, while the runtime goes on *)

\* The records of a connection and of a subscription.
StreamRecord == [pc : {"off", "events", "status", "last", "done", "broken"}, cursor : Nat,
                 expects : SettledEvents \cup {"none"}, waited : BOOLEAN]

PageRecord == [pc : {"off", "connect", "read", "ended", "failed", "refused"}, cursor : Nat,
               settled : BOOLEAN, acting : BOOLEAN, shown : Seq(Nat)]

\* The invariant, read field by field.
LEMMA FollowingParts ==
    ASSUME Inductive, Following
    PROVE  /\ stream \in StreamRecord /\ page \in PageRecord /\ wire \in Seq(Nat)
           /\ Watched \in Runs /\ log[Watched] \in Seq(EventType)
           /\ page.cursor \in Nat /\ page.shown \in Seq(Nat)
           /\ page.pc = "read" <=> stream.pc # "off"
           /\ page.pc # "read" => wire = <<>>
           /\ page.shown = [i \in DOMAIN page.shown |-> i] /\ page.cursor = Len(page.shown)
           /\ page.pc = "off" => page = NewPage
           /\ page.pc # "off" => Watched \in BornRuns
BY WatchedAssumption DEF Following, StreamTypeOK, StreamRecord, PageRecord, TimelineIsWhole,
   Inductive, TypeOK

\* A page that has not been opened has nothing.
LEMMA NewPageFields ==
    /\ NewPage \in PageRecord /\ NewPage.pc = "off" /\ NewPage.cursor = 0
    /\ NewPage.shown = <<>> /\ ~NewPage.settled /\ ~NewPage.acting
    /\ NoStream \in StreamRecord /\ NoStream.pc = "off"
<1>1. <<>> \in Seq(Nat)
  OBVIOUS
<1>. QED  BY <1>1 DEF NewPage, PageRecord, NoStream, StreamRecord

\* A crash is not forgotten.
LEMMA CrashesStay ==
    ASSUME Inductive, [Next]_vars, crashes > 0
    PROVE  crashes' > 0
<1>1. CASE UNCHANGED vars
  BY <1>1 DEF vars, history
<1>2. ASSUME NEW t, Publishing(t)
      PROVE  crashes' = crashes
  BY ZenonT(60), <1>2 DEF Publishing, PostMessage, ReadMemory, ReadMemoryRevision, PutMemory, Publish,
     ListCompletions, ListClarifications, RepairNext, RepairDone, history
<1>3. ASSUME NEW t \in Workers, Drive(t)
      PROVE  crashes' = crashes
  BY ZenonT(60), <1>3 DEF Drive, Claim, Started, Begin, Context, ContextChecked, Discover, AskStarted,
     Ask, Advance, SettleFault, SettleBlock, SettleQuestion, SettleAnswer, CancelRun, LoseSave, Except,
     FailureChecked, FailRun, history
<1>4. ASSUME NEW t \in Workers, WorkerStep(t)
      PROVE  crashes' = crashes
  <2>1. Pick(t) => crashes' = crashes
    BY DEF Pick, history
  <2>. QED  BY <1>2, <1>3, <1>4, <2>1 DEF WorkerStep
<1>5. CASE BootStep
  <2>1. Interrupt => crashes' = crashes
    BY DEF Interrupt, history
  <2>2. Resubmit => crashes' = crashes
    BY DEF Resubmit, history
  <2>3. crashes' = crashes
    BY <1>2, <1>5, <2>1, <2>2 DEF BootStep
  <2>. QED  BY <2>3
<1>6. CASE CallStep
  <2>1. crashes' = crashes
    BY ZenonT(60), <1>6 DEF CallStep, InsertRun, PostQuestion, PostReply, Submit, PublishCancel, history
  <2>. QED  BY <2>1
<1>7. CASE ClientStep
  <2>1. crashes' = crashes
    BY ZenonT(60), <1>7 DEF ClientStep, CreateRun, CancelWaiting, RequestCancel, Clarify, Retry,
       DeleteConversation, history
  <2>. QED  BY <2>1
<1>8. CASE Crash
  BY <1>8 DEF Crash, Inductive, TypeOK
<1>. QED  BY <1>1, <1>4, <1>5, <1>6, <1>7, <1>8 DEF Next

\* Whatever step the runtime takes, the events a page has are still the first of its run.
LEMMA StillLogged ==
    ASSUME Inductive, Inductive', Attended, Following, [Next]_vars
    PROVE  /\ log'[Watched] \in Seq(EventType)
           /\ page.pc # "off" => Watched \in BornRuns'
           /\ Present(run'[Watched]) =>
                /\ page.cursor <= Len(log'[Watched])
                /\ page.pc # "off" =>
                    Present(run[Watched]) /\ Longer(log[Watched], log'[Watched])
<1>1. log'[Watched] \in Seq(EventType)
  BY WatchedAssumption DEF Inductive, TypeOK
<1>2. CASE page.pc = "off"
  <2>1. page.cursor = 0
    BY <1>2, FollowingParts, NewPageFields
  <2>2. Len(log'[Watched]) \in Nat
    BY <1>1
  <2>. QED  BY <1>1, <1>2, <2>1, <2>2
<1>3. CASE page.pc # "off"
  <2>1. /\ Watched \in BornRuns'
        /\ Present(run'[Watched]) => Present(run[Watched]) /\ Longer(log[Watched], log'[Watched])
    BY <1>3, FollowingParts, RunsGoOn
  <2>2. Present(run[Watched]) => page.cursor <= Len(log[Watched])
    BY DEF Following, TimelineIsWhole, Exists, Events
  <2>3. page.cursor \in Nat /\ Len(log[Watched]) \in Nat /\ Len(log'[Watched]) \in Nat
    BY <1>1, FollowingParts
  <2>. QED  BY <1>1, <1>3, <2>1, <2>2, <2>3 DEF Longer
<1>. QED  BY <1>2, <1>3

\* What has settled the run among the events a page has, still has.
LEMMA StillSettled ==
    ASSUME Inductive, Inductive', Attended, Following, [Next]_vars, page.pc # "off",
           Present(run'[Watched]), NEW i \in 1..page.cursor
    PROVE  log'[Watched][i] = log[Watched][i]
<1>1. Present(run[Watched]) /\ Longer(log[Watched], log'[Watched])
  BY StillLogged
<1>2. page.cursor <= Len(log[Watched])
  BY <1>1 DEF Following, TimelineIsWhole, Exists, Events
<1>3. page.cursor \in Nat /\ Len(log[Watched]) \in Nat
  BY FollowingParts
<1>. QED  BY <1>1, <1>2, <1>3 DEF Longer

\* A step that leaves the page's events alone: its timeline stays whole, and an end it has
\* earned stays earned.
LEMMA StillWhole ==
    ASSUME Inductive, Inductive', Attended, Following, [Next]_vars,
           page' \in PageRecord, page'.cursor = page.cursor, page'.shown = page.shown,
           page'.pc \in {"ended", "failed"} => page'.pc = page.pc,
           page'.pc = "refused" => page.pc = "refused" \/ crashes > 0
    PROVE  TimelineIsWhole' /\ EndsAreEarned'
<1>1. TimelineIsWhole'
  BY FollowingParts, StillLogged DEF TimelineIsWhole, Exists, Events
<1>2. ASSUME Present(run'[Watched]), page'.pc = "ended"
      PROVE  \E i \in DOMAIN page'.shown : log'[Watched][i] \in SettledEvents
  <2>1. page.pc = "ended" /\ Present(run[Watched])
    BY <1>2, StillLogged
  <2>2. PICK i \in DOMAIN page.shown : log[Watched][i] \in SettledEvents
    BY <2>1 DEF Following, EndsAreEarned, Exists, Events
  <2>3. i \in 1..page.cursor
    BY FollowingParts
  <2>4. log'[Watched][i] = log[Watched][i]
    BY <1>2, <2>1, <2>3, StillSettled
  <2>. QED  BY <2>2, <2>4
<1>3. page'.pc = "failed" => ~Present(run'[Watched])
  BY StillLogged DEF Following, EndsAreEarned, Exists
<1>4. page'.pc = "refused" => crashes' > 0
  BY CrashesStay DEF Following, EndsAreEarned
<1>5. EndsAreEarned'
  BY <1>2, <1>3, <1>4 DEF EndsAreEarned, Exists, Events
<1>. QED  BY <1>1, <1>5

\* A step of the runtime, with or without the page's call.
LEMMA RuntimeFollows ==
    ASSUME Inductive, Inductive', Attended, Following, [Next]_vars, UNCHANGED <<stream, wire>>,
           \/ page' = page
           \/ page.pc # "off" /\ page' = [page EXCEPT !.acting = TRUE]
    PROVE  Following'
<1>1. /\ page' \in PageRecord /\ page'.pc = page.pc /\ page'.cursor = page.cursor
      /\ page'.settled = page.settled /\ page'.shown = page.shown
      /\ page.pc = "off" => page' = page
  BY FollowingParts DEF PageRecord
<1>2. StreamTypeOK'
  BY <1>1, FollowingParts DEF StreamTypeOK, StreamRecord, PageRecord
<1>3. TimelineIsWhole' /\ EndsAreEarned'
  BY <1>1, StillWhole
<1>4. IF page'.pc = "off" THEN page' = NewPage ELSE Watched \in BornRuns'
  BY <1>1, FollowingParts, StillLogged
<1>5. WireFollows'
  <2>1. \A i \in 1..Len(wire) : wire[i] = page.cursor + i
    BY DEF Following, WireFollows
  <2>2. ASSUME page.pc = "read"
        PROVE  /\ stream.cursor = page.cursor + Len(wire)
               /\ Present(run'[Watched]) => stream.cursor <= Len(log'[Watched])
    <3>1. /\ stream.cursor = page.cursor + Len(wire)
          /\ Present(run[Watched]) => stream.cursor <= Len(log[Watched])
      BY <2>2 DEF Following, WireFollows, Exists, Events
    <3>2. stream.cursor \in Nat /\ Len(log[Watched]) \in Nat /\ Len(log'[Watched]) \in Nat
      BY FollowingParts, StillLogged DEF StreamRecord
    <3>. QED  BY <2>2, <3>1, <3>2, StillLogged DEF Longer
  <2>. QED  BY <1>1, <2>1, <2>2 DEF WireFollows, Exists, Events
<1>6. SettledByEvent'
  <2> SUFFICES ASSUME page.settled, Present(run'[Watched])
               PROVE  page.cursor > 0 /\ log'[Watched][page.cursor] \in SettledEvents
    BY <1>1 DEF SettledByEvent, Exists, Events
  <2>1. page.pc # "off"
    BY FollowingParts, NewPageFields
  <2>2. Present(run[Watched])
    BY <2>1, StillLogged
  <2>3. page.cursor > 0 /\ log[Watched][page.cursor] \in SettledEvents
    BY <2>2 DEF Following, SettledByEvent, Exists, Events
  <2>4. page.cursor \in 1..page.cursor
    BY <2>3, FollowingParts
  <2>. QED  BY <2>1, <2>3, <2>4, StillSettled
<1>. QED  BY <1>2, <1>3, <1>4, <1>5, <1>6 DEF Following

\* A page without a connection keeps what it has.
LEMMA DisconnectedFollows ==
    ASSUME Inductive, Inductive', Attended, Following, [Next]_vars, stream' = NoStream, wire' = <<>>,
           page' \in PageRecord, page'.cursor = page.cursor, page'.shown = page.shown,
           ~page'.settled \/ (page'.settled = page.settled /\ run' = run /\ log' = log),
           page'.pc # "read", page'.pc \in {"ended", "failed"} => page'.pc = page.pc,
           page'.pc = "refused" => page.pc = "refused" \/ crashes > 0,
           IF page'.pc = "off" THEN page' = NewPage ELSE Watched \in BornRuns'
    PROVE  Following'
<1>1. TimelineIsWhole' /\ EndsAreEarned'
  BY StillWhole
<1>2. StreamTypeOK'
  BY NewPageFields DEF StreamTypeOK, StreamRecord, PageRecord
<1>3. WireFollows'
  BY DEF WireFollows
<1>4. SettledByEvent'
  BY DEF Following, SettledByEvent, Exists, Events
<1>. QED  BY <1>1, <1>2, <1>3, <1>4 DEF Following

-----------------------------------------------------------------------------
(* Connections that come and go *)

\* A step of the page or of its connection is none of the runtime.
LEMMA ObserverStep ==
    ASSUME UNCHANGED vars
    PROVE  [Next]_vars /\ run' = run /\ log' = log /\ BornRuns' = BornRuns
BY DEF vars, store, process, BornRuns

\* The cursor of the page goes to the server, or there is no run to serve.
LEMMA OpenStreamFollows ==
    ASSUME Inductive, Inductive', Attended, Following, OpenStream
    PROVE  Following'
<1>1. /\ page.pc = "connect" /\ wire' = wire /\ wire = <<>> /\ stream.pc = "off"
      /\ [Next]_vars /\ run' = run /\ log' = log /\ BornRuns' = BornRuns
  BY ObserverStep, FollowingParts DEF OpenStream
<1>2. stream \in StreamRecord /\ page \in PageRecord /\ Watched \in BornRuns
  BY <1>1, FollowingParts
<1>3. CASE Exists
  <2>1. /\ stream' = [NoStream EXCEPT !.pc = "events", !.cursor = page.cursor]
        /\ page' = [page EXCEPT !.pc = "read"]
    BY <1>3 DEF OpenStream
  <2>2. stream' \in StreamRecord /\ stream'.pc = "events" /\ stream'.cursor = page.cursor
    BY <1>2, <2>1, FollowingParts DEF NoStream, StreamRecord
  <2>3. /\ page' \in PageRecord /\ page'.pc = "read" /\ page'.cursor = page.cursor
        /\ page'.shown = page.shown /\ page'.settled = page.settled
    BY <1>2, <2>1 DEF PageRecord
  <2>4. TimelineIsWhole' /\ EndsAreEarned'
    BY <1>1, <2>3, StillWhole
  <2>5. StreamTypeOK'
    BY <1>1, <2>2, <2>3 DEF StreamTypeOK, StreamRecord, PageRecord
  <2>6. WireFollows'
    <3>1. page.cursor \in Nat /\ Len(wire) = 0
      BY <1>1, FollowingParts
    <3>2. Present(run[Watched]) => page.cursor <= Len(log[Watched])
      BY DEF Following, TimelineIsWhole, Exists, Events
    <3>. QED  BY <1>1, <2>2, <2>3, <3>1, <3>2 DEF WireFollows, Exists, Events
  <2>7. SettledByEvent'
    BY <1>1, <2>3 DEF Following, SettledByEvent, Exists, Events
  <2>. QED  BY <1>1, <1>2, <2>3, <2>4, <2>5, <2>6, <2>7 DEF Following
<1>4. CASE ~Exists
  <2>1. page' = [page EXCEPT !.pc = "failed"] /\ stream' = stream
    BY <1>4 DEF OpenStream
  <2>2. /\ page' \in PageRecord /\ page'.pc = "failed" /\ page'.cursor = page.cursor
        /\ page'.shown = page.shown /\ page'.settled = page.settled
    BY <1>2, <2>1 DEF PageRecord
  <2>3. StreamTypeOK'
    BY <1>1, <1>2, <2>1, <2>2 DEF StreamTypeOK, StreamRecord, PageRecord
  <2>4. TimelineIsWhole' /\ EndsAreEarned'
    BY <1>1, <1>4, <2>2 DEF Following, TimelineIsWhole, EndsAreEarned, Exists, Events
  <2>5. WireFollows' /\ SettledByEvent'
    BY <1>1, <2>2 DEF Following, WireFollows, SettledByEvent, Exists, Events
  <2>. QED  BY <1>1, <1>2, <2>2, <2>3, <2>4, <2>5 DEF Following
<1>. QED  BY <1>3, <1>4

\* A proxy's answer for a backend that is down: the process has died before.
LEMMA RefusedFollows ==
    ASSUME Inductive, Inductive', Attended, Following, ProxyRefuses
    PROVE  Following'
<1>1. /\ page.pc = "connect" /\ ~Up /\ page' = [page EXCEPT !.pc = "refused"]
      /\ UNCHANGED <<stream, wire>>
      /\ [Next]_vars /\ run' = run /\ log' = log /\ BornRuns' = BornRuns
  BY ObserverStep DEF ProxyRefuses
<1>2. /\ page \in PageRecord /\ stream \in StreamRecord /\ stream.pc = "off" /\ wire = <<>>
      /\ Watched \in BornRuns
  BY <1>1, FollowingParts
<1>3. /\ page' \in PageRecord /\ page'.pc = "refused" /\ page'.cursor = page.cursor
      /\ page'.shown = page.shown /\ page'.settled = page.settled
  BY <1>1, <1>2 DEF PageRecord
<1>4. crashes > 0
  BY <1>1 DEF Attended, RestartGetsThrough
<1>5. TimelineIsWhole' /\ EndsAreEarned'
  BY <1>1, <1>3, <1>4, StillWhole
<1>6. StreamTypeOK'
  BY <1>1, <1>2, <1>3 DEF StreamTypeOK, StreamRecord, PageRecord
<1>7. WireFollows' /\ SettledByEvent'
  BY <1>1, <1>2, <1>3 DEF Following, WireFollows, SettledByEvent, Exists, Events
<1>. QED  BY <1>1, <1>2, <1>3, <1>5, <1>6, <1>7 DEF Following

\* Two subscriptions that agree in every field are one.
LEMMA SamePage ==
    ASSUME NEW p \in PageRecord, NEW q \in PageRecord, p.pc = q.pc, p.cursor = q.cursor,
           p.settled = q.settled, p.acting = q.acting, p.shown = q.shown
    PROVE  p = q
BY DEF PageRecord

\* A connection that breaks, by itself or with the process.
LEMMA BreakFollows ==
    ASSUME Inductive, Inductive', Attended, Following, Drop \/ CrashWatched
    PROVE  Following'
<1>. DEFINE broken == [page EXCEPT !.pc = IF page.pc = "read" THEN "connect" ELSE page.pc,
                                   !.settled = FALSE]
            cleared == [broken EXCEPT !.acting = FALSE]
<1>1. page \in PageRecord /\ stream' = NoStream /\ wire' = <<>>
  BY FollowingParts DEF Drop, CrashWatched
<1>2. /\ broken \in PageRecord /\ broken.cursor = page.cursor /\ broken.shown = page.shown
      /\ broken.settled = FALSE /\ broken.acting = page.acting
      /\ broken.pc = IF page.pc = "read" THEN "connect" ELSE page.pc
  BY <1>1 DEF PageRecord
<1>3. Broken = broken
  BY DEF Broken
<1>. HIDE DEF broken
<1>4. /\ cleared \in PageRecord /\ cleared.cursor = page.cursor /\ cleared.shown = page.shown
      /\ cleared.settled = FALSE /\ cleared.acting = FALSE /\ cleared.pc = broken.pc
  BY <1>2 DEF PageRecord
<1>5. page.pc = "off" => broken = page /\ cleared = page
  <2>1. page.pc = "off" => page.settled = FALSE /\ page.acting = FALSE
    BY FollowingParts DEF NewPage
  <2>. HIDE DEF cleared
  <2>. QED  BY <1>1, <1>2, <1>4, <2>1, SamePage
<1>6. page' = broken \/ page' = cleared
  BY <1>3 DEF Drop, CrashWatched
<1>. HIDE DEF cleared
<1>7. [Next]_vars
  BY ObserverStep DEF Drop, CrashWatched, Next
<1>8. IF page'.pc = "off" THEN page' = NewPage ELSE Watched \in BornRuns'
  BY <1>2, <1>4, <1>5, <1>6, <1>7, FollowingParts, StillLogged
<1>9. /\ page' \in PageRecord /\ page'.cursor = page.cursor /\ page'.shown = page.shown
      /\ ~page'.settled /\ page'.pc # "read"
      /\ page'.pc \in {"ended", "failed", "refused"} => page'.pc = page.pc
  BY <1>1, <1>2, <1>4, <1>6
<1>. QED  BY <1>1, <1>7, <1>8, <1>9, DisconnectedFollows

\* A page opened anew has nothing and claims nothing.
LEMMA ReloadFollows ==
    ASSUME Inductive, Following, Reload
    PROVE  Following'
<1>1. /\ stream' = NoStream /\ wire' = <<>> /\ page' = NewPage /\ run' = run /\ log' = log
  BY ObserverStep DEF Reload
<1>2. StreamTypeOK'
  BY <1>1, NewPageFields DEF StreamTypeOK, StreamRecord, PageRecord
<1>3. TimelineIsWhole' /\ EndsAreEarned'
  <2>1. Len(log[Watched]) \in Nat
    BY FollowingParts
  <2>2. <<>> = [i \in DOMAIN <<>> |-> i] /\ Len(<<>>) = 0
    OBVIOUS
  <2>. QED  BY <1>1, <2>1, <2>2, NewPageFields DEF TimelineIsWhole, EndsAreEarned, Exists, Events
<1>4. WireFollows' /\ SettledByEvent'
  BY <1>1, NewPageFields DEF WireFollows, SettledByEvent
<1>. QED  BY <1>1, <1>2, <1>3, <1>4, NewPageFields DEF Following

\* A page subscribes to a run it was shown, or to one it has acted on.
LEMMA ObserveFollows ==
    ASSUME Inductive, Inductive', Attended, Following, Observe
    PROVE  Following'
<1>. DEFINE next == [Connecting EXCEPT !.acting = FALSE]
<1>1. /\ stream' = NoStream /\ wire' = <<>> /\ page' = next
      /\ [Next]_vars /\ run' = run /\ log' = log /\ BornRuns' = BornRuns
  BY ObserverStep DEF Observe
<1>2. /\ next \in PageRecord /\ next.cursor = page.cursor /\ next.shown = page.shown
      /\ ~next.settled /\ next.pc = "connect"
  <2>1. page \in PageRecord
    BY FollowingParts
  <2>2. /\ Connecting \in PageRecord /\ Connecting.pc = "connect" /\ ~Connecting.settled
        /\ Connecting.cursor = page.cursor /\ Connecting.shown = page.shown
    BY <2>1 DEF Connecting, PageRecord
  <2>. QED  BY <2>2 DEF PageRecord
<1>. HIDE DEF next
<1>3. Watched \in BornRuns
  <2>1. CASE page.pc = "off" /\ Exists
    BY <2>1, WatchedAssumption, PresentBorn DEF Exists
  <2>2. CASE page.acting
    BY <2>2, FollowingParts, NewPageFields
  <2>. QED  BY <2>1, <2>2 DEF Observe
<1>. QED  BY <1>1, <1>2, <1>3, DisconnectedFollows

-----------------------------------------------------------------------------
(* What is sent and received *)

\* What the server decides about its connection sends nothing.
LEMMA DecideFollows ==
    ASSUME Inductive, Inductive', Attended, Following, ReadStatus \/ ReadLast
    PROVE  Following'
<1>1. /\ [Next]_vars /\ run' = run /\ log' = log /\ BornRuns' = BornRuns
      /\ page' = page /\ wire' = wire /\ stream.pc \in {"status", "last"}
  BY ObserverStep DEF ReadStatus, ReadLast
<1>2. stream \in StreamRecord /\ page.pc = "read"
  BY <1>1, FollowingParts
<1>3. stream' \in StreamRecord /\ stream'.cursor = stream.cursor /\ stream'.pc # "off"
  <2>1. ASSUME NEW label \in {"broken", "events", "done"}, NEW w \in BOOLEAN
        PROVE  \A next \in {[stream EXCEPT !.pc = label],
                            [stream EXCEPT !.pc = label, !.waited = w]} :
                 next \in StreamRecord /\ next.cursor = stream.cursor /\ next.pc # "off"
    BY <1>2 DEF StreamRecord
  <2>2. ASSUME NEW event \in SettledEvents
        PROVE  LET next == [stream EXCEPT !.pc = "last", !.expects = event]
               IN  next \in StreamRecord /\ next.cursor = stream.cursor /\ next.pc # "off"
    BY <1>2 DEF StreamRecord
  <2>3. CASE ReadLast
    BY <2>1, <2>3 DEF ReadLast
  <2>4. CASE ReadStatus
    <3>1. run[Watched].status \in Terminal => TerminalEvent[run[Watched].status] \in SettledEvents
      BY DEF TerminalEvent, Terminal, Settled, SettledEvents
    <3>. QED  BY <2>1, <2>2, <2>4, <3>1 DEF ReadStatus
  <2>. QED  BY <2>3, <2>4
<1>4. StreamTypeOK'
  BY <1>1, <1>2, <1>3, FollowingParts DEF StreamTypeOK, StreamRecord, PageRecord
<1>5. TimelineIsWhole' /\ EndsAreEarned'
  BY <1>1, FollowingParts, StillWhole
<1>6. WireFollows' /\ SettledByEvent'
  BY <1>1, <1>3 DEF Following, WireFollows, SettledByEvent, Exists, Events
<1>. QED  BY <1>1, <1>4, <1>5, <1>6, FollowingParts DEF Following

\* A batch of events goes behind what is on the way.
LEMMA SendEventsFollows ==
    ASSUME Inductive, Inductive', Attended, Following, SendEvents
    PROVE  Following'
<1>. DEFINE count == Len(log[Watched]) - stream.cursor
            batch == [i \in 1..count |-> stream.cursor + i]
<1>1. /\ [Next]_vars /\ run' = run /\ log' = log /\ BornRuns' = BornRuns
      /\ page' = page /\ stream.pc = "events" /\ wire' = wire \o batch
      /\ stream' = [stream EXCEPT !.pc = "status",
                        !.cursor = IF Len(log[Watched]) > stream.cursor THEN Len(log[Watched])
                                   ELSE stream.cursor]
  BY ObserverStep DEF SendEvents, Events
<1>2. /\ stream \in StreamRecord /\ page.pc = "read" /\ stream.cursor \in Nat
      /\ Len(log[Watched]) \in Nat /\ wire \in Seq(Nat) /\ page.cursor \in Nat
  BY <1>1, FollowingParts DEF StreamRecord
<1>3. /\ stream' \in StreamRecord /\ stream'.pc = "status"
      /\ stream'.cursor = IF Len(log[Watched]) > stream.cursor THEN Len(log[Watched])
                          ELSE stream.cursor
  BY <1>1, <1>2 DEF StreamRecord
<1>4. /\ batch \in Seq(Nat)
      /\ \A i \in 1..Len(batch) : batch[i] = stream.cursor + i
      /\ stream'.cursor = stream.cursor + Len(batch)
  <2>1. CASE count > 0
    <3>1. count \in Nat /\ \A i \in 1..count : stream.cursor + i \in Nat
      BY <1>2, <2>1
    <3>2. batch \in [1..count -> Nat]
      BY <3>1
    <3>. HIDE DEF batch, count
    <3>3. batch \in Seq(Nat) /\ Len(batch) = count
      BY <3>1, <3>2
    <3>. USE DEF batch, count
    <3>. QED  BY SMTT(60), <1>2, <1>3, <2>1, <3>3
  <2>2. CASE ~(count > 0)
    <3>1. 1..count = {}
      BY <1>2, <2>2
    <3>2. batch = <<>>
      BY <3>1
    <3>4. stream'.cursor = stream.cursor
      BY <1>2, <1>3, <2>2
    <3>. HIDE DEF batch, count
    <3>3. batch \in Seq(Nat) /\ Len(batch) = 0
      BY <3>2
    <3>. QED  BY <1>2, <3>3, <3>4
  <2>. QED  BY <2>1, <2>2
<1>. HIDE DEF batch
<1>5. /\ wire' \in Seq(Nat) /\ Len(wire') = Len(wire) + Len(batch)
      /\ \A i \in 1..Len(wire) + Len(batch) :
            wire'[i] = IF i <= Len(wire) THEN wire[i] ELSE batch[i - Len(wire)]
  BY <1>1, <1>2, <1>4, ConcatProperties
<1>6. stream.cursor = page.cursor + Len(wire) /\ \A i \in 1..Len(wire) : wire[i] = page.cursor + i
  BY <1>2 DEF Following, WireFollows
<1>7. \A i \in 1..Len(wire') : wire'[i] = page.cursor + i
  <2> SUFFICES ASSUME NEW i \in 1..Len(wire') PROVE wire'[i] = page.cursor + i
    OBVIOUS
  <2>1. Len(wire) \in Nat /\ Len(batch) \in Nat
    BY <1>2, <1>4
  <2>2. CASE i <= Len(wire)
    BY <1>5, <1>6, <2>1, <2>2
  <2>3. CASE ~(i <= Len(wire))
    <3>1. i - Len(wire) \in 1..Len(batch) /\ wire'[i] = batch[i - Len(wire)]
      BY <1>5, <2>1, <2>3
    <3>2. batch[i - Len(wire)] = stream.cursor + (i - Len(wire))
      BY <1>4, <3>1
    <3>. QED  BY <1>2, <1>6, <2>1, <3>1, <3>2
  <2>. QED  BY <2>2, <2>3
<1>8. WireFollows'
  <2>1. Len(wire) \in Nat /\ Len(batch) \in Nat
    BY <1>2, <1>4
  <2>2. stream'.cursor = page.cursor + Len(wire')
    BY <1>2, <1>4, <1>5, <1>6, <2>1
  <2>3. Present(run[Watched]) => stream.cursor <= Len(log[Watched])
    BY <1>2 DEF Following, WireFollows, Exists, Events
  <2>4. Present(run[Watched]) => stream'.cursor <= Len(log[Watched])
    BY <1>2, <1>3, <2>3
  <2>. QED  BY <1>1, <1>7, <2>2, <2>4 DEF WireFollows, Exists, Events
<1>9. StreamTypeOK'
  BY <1>1, <1>2, <1>3, <1>5, FollowingParts DEF StreamTypeOK, StreamRecord, PageRecord
<1>10. TimelineIsWhole' /\ EndsAreEarned'
  BY <1>1, FollowingParts, StillWhole
<1>11. SettledByEvent'
  BY <1>1 DEF Following, SettledByEvent, Exists, Events
<1>. QED  BY <1>1, <1>8, <1>9, <1>10, <1>11, FollowingParts DEF Following

\* The event that is received is the one after those the page has.
LEMMA ReceiveFollows ==
    ASSUME Inductive, Inductive', Attended, Following, Receive
    PROVE  Following'
<1>. DEFINE n == Head(wire)
            settles == Exists /\ log[Watched][n] \in SettledEvents
            next == [page EXCEPT !.cursor = n, !.shown = Append(page.shown, n),
                                 !.settled = settles]
<1>1. /\ run' = run /\ log' = log /\ BornRuns' = BornRuns
      /\ page.pc = "read" /\ wire # <<>>
  BY ObserverStep DEF Receive
<1>2. /\ page \in PageRecord /\ page.cursor \in Nat /\ page.shown \in Seq(Nat)
      /\ wire \in Seq(Nat) /\ stream \in StreamRecord /\ stream.pc # "off"
      /\ page.cursor = Len(page.shown) /\ page.shown = [i \in DOMAIN page.shown |-> i]
      /\ Watched \in BornRuns
  BY <1>1, FollowingParts
<1>3. Len(wire) \in Nat /\ Len(wire) > 0 /\ wire[1] = n
  BY <1>1, <1>2
<1>4. n = page.cursor + 1 /\ n \in Nat
  <2>1. wire[1] = page.cursor + 1
    BY <1>3 DEF Following, WireFollows
  <2>. QED  BY <1>2, <1>3, <2>1
<1>5. page' = next /\ wire' = Tail(wire) /\ stream' = stream
  <2>1. ~(n <= page.cursor)
    BY <1>2, <1>4
  <2>. QED  BY <2>1 DEF Receive, Events
<1>6. /\ Append(page.shown, n) \in Seq(Nat) /\ Len(Append(page.shown, n)) = page.cursor + 1
      /\ \A i \in 1..page.cursor : Append(page.shown, n)[i] = page.shown[i]
      /\ Append(page.shown, n)[page.cursor + 1] = n
  BY <1>2, <1>4, AppendProperties
<1>7. settles \in BOOLEAN
  BY DEF Exists
<1>8. /\ page' \in PageRecord /\ page'.pc = "read" /\ page'.cursor = n
      /\ page'.shown = Append(page.shown, n) /\ page'.settled = settles
  <2>. HIDE DEF settles, n
  <2>. QED  BY <1>1, <1>2, <1>4, <1>5, <1>6, <1>7 DEF PageRecord
<1>9. /\ wire' \in Seq(Nat) /\ Len(wire') = Len(wire) - 1
      /\ \A i \in 1..Len(wire') : wire'[i] = wire[i + 1]
  BY <1>1, <1>2, <1>5, HeadTailProperties
<1>. HIDE DEF n, next, settles
<1>10. StreamTypeOK'
  BY <1>2, <1>5, <1>8, <1>9 DEF StreamTypeOK, StreamRecord, PageRecord
<1>11. WireFollows'
  <2>1. \A i \in 1..Len(wire') : wire'[i] = page'.cursor + i
    <3> SUFFICES ASSUME NEW i \in 1..Len(wire') PROVE wire'[i] = page'.cursor + i
      OBVIOUS
    <3>1. i + 1 \in 1..Len(wire) /\ wire'[i] = wire[i + 1]
      BY SMTT(60), <1>3, <1>9
    <3>2. wire[i + 1] = page.cursor + (i + 1)
      BY <3>1 DEF Following, WireFollows
    <3>3. i \in Int /\ page'.cursor = page.cursor + 1 /\ page.cursor \in Nat
      BY <1>2, <1>4, <1>8
    <3>4. page.cursor + (i + 1) = (page.cursor + 1) + i
      BY <3>3
    <3>. QED  BY <3>1, <3>2, <3>3, <3>4
  <2>2. stream.cursor = page.cursor + Len(wire)
        /\ (Present(run[Watched]) => stream.cursor <= Len(log[Watched]))
    BY <1>1 DEF Following, WireFollows, Exists, Events
  <2>3. stream.cursor = page'.cursor + Len(wire')
    BY <1>2, <1>3, <1>4, <1>8, <1>9, <2>2
  <2>. QED  BY <1>1, <1>5, <2>1, <2>2, <2>3 DEF WireFollows, Exists, Events
<1>12. TimelineIsWhole'
  <2>1. DOMAIN page'.shown = 1..(page.cursor + 1) /\ DOMAIN page.shown = 1..page.cursor
    BY <1>2, <1>6, <1>8
  <2>2. \A i \in 1..(page.cursor + 1) : page'.shown[i] = i
    <3> SUFFICES ASSUME NEW i \in 1..(page.cursor + 1) PROVE page'.shown[i] = i
      OBVIOUS
    <3>1. CASE i = page.cursor + 1
      BY <1>4, <1>6, <1>8, <3>1
    <3>2. CASE i # page.cursor + 1
      <4>1. i \in DOMAIN page.shown /\ i \in 1..page.cursor
        BY <1>2, <2>1, <3>2
      <4>2. page.shown[i] = i
        BY <1>2, <4>1
      <4>. QED  BY <1>6, <1>8, <4>1, <4>2
    <3>. QED  BY <3>1, <3>2
  <2>3. page'.shown = [i \in DOMAIN page'.shown |-> i]
    <3>. DEFINE whole == [i \in 1..(page.cursor + 1) |-> i]
    <3>1. page'.shown \in [1..(page.cursor + 1) -> Nat]
      BY ZenonT(60), <1>6, <1>8, LenProperties
    <3>2. page'.shown = whole
      BY <2>2, <3>1
    <3>. QED  BY <2>1, <3>2
  <2>4. Present(run[Watched]) => n <= Len(log[Watched])
    <3>1. stream.cursor = page.cursor + Len(wire)
          /\ (Present(run[Watched]) => stream.cursor <= Len(log[Watched]))
      BY <1>1 DEF Following, WireFollows, Exists, Events
    <3>2. Len(log[Watched]) \in Nat
      BY FollowingParts
    <3>. QED  BY <1>2, <1>3, <1>4, <3>1, <3>2
  <2>5. page'.cursor = Len(page'.shown)
    BY <1>4, <1>6, <1>8
  <2>. QED  BY <1>1, <1>8, <2>3, <2>4, <2>5 DEF TimelineIsWhole, Exists, Events
<1>13. EndsAreEarned'
  BY <1>8 DEF EndsAreEarned
<1>14. SettledByEvent'
  <2>1. page'.settled => log[Watched][n] \in SettledEvents
    BY <1>8 DEF settles
  <2>2. page'.cursor = n /\ n > 0
    BY <1>2, <1>4, <1>8
  <2>. QED  BY <1>1, <2>1, <2>2 DEF SettledByEvent, Exists, Events
<1>. QED  BY <1>1, <1>2, <1>8, <1>10, <1>11, <1>12, <1>13, <1>14 DEF Following

\* A subscription that ends has received an event that settles its run.
LEMMA StreamEndsFollows ==
    ASSUME Inductive, Inductive', Attended, Following, StreamEnds
    PROVE  Following'
<1>1. /\ [Next]_vars /\ run' = run /\ log' = log /\ BornRuns' = BornRuns
      /\ page.pc = "read" /\ stream' = NoStream /\ wire' = <<>>
  BY ObserverStep DEF StreamEnds
<1>2. page \in PageRecord /\ Watched \in BornRuns
  BY <1>1, FollowingParts
<1>3. CASE page' = Connecting
  <2>1. /\ page' \in PageRecord /\ page'.pc = "connect" /\ ~page'.settled
        /\ page'.cursor = page.cursor /\ page'.shown = page.shown
    BY <1>2, <1>3 DEF Connecting, PageRecord
  <2>. QED  BY <1>1, <1>2, <2>1, DisconnectedFollows
<1>4. CASE page.settled /\ page' = [page EXCEPT !.pc = "ended"]
  <2>1. /\ page' \in PageRecord /\ page'.pc = "ended" /\ page'.settled = page.settled
        /\ page'.cursor = page.cursor /\ page'.shown = page.shown
    BY <1>2, <1>4 DEF PageRecord
  <2>2. Exists => \E i \in DOMAIN page.shown : log[Watched][i] \in SettledEvents
    <3>1. Exists => page.cursor > 0 /\ log[Watched][page.cursor] \in SettledEvents
      BY <1>4 DEF Following, SettledByEvent, Events
    <3>2. page.cursor > 0 => page.cursor \in DOMAIN page.shown
      BY FollowingParts
    <3>. QED  BY <3>1, <3>2
  <2>3. TimelineIsWhole' /\ EndsAreEarned'
    BY <1>1, <2>1, <2>2 DEF Following, TimelineIsWhole, EndsAreEarned, Exists, Events
  <2>4. StreamTypeOK'
    BY <1>1, <2>1, NewPageFields DEF StreamTypeOK, StreamRecord, PageRecord
  <2>5. WireFollows' /\ SettledByEvent'
    BY <1>1, <2>1 DEF Following, WireFollows, SettledByEvent, Exists, Events
  <2>. QED  BY <1>1, <1>2, <2>1, <2>3, <2>4, <2>5 DEF Following
<1>. QED  BY <1>3, <1>4 DEF StreamEnds

-----------------------------------------------------------------------------
(* The composition *)

\* What the runtime and the page start with.
LEMMA InitFollowing == StreamInit => Inductive /\ Attended /\ Following
<1> SUFFICES ASSUME StreamInit PROVE Inductive /\ Attended /\ Following
  OBVIOUS
<1>1. Inductive /\ Attended
  BY InitInductive, InitAttended DEF StreamInit
<1>2. stream = NoStream /\ wire = <<>> /\ page = NewPage
  BY DEF StreamInit
<1>3. StreamTypeOK
  BY <1>2, NewPageFields DEF StreamTypeOK, StreamRecord, PageRecord
<1>4. TimelineIsWhole /\ EndsAreEarned
  <2>1. Len(log[Watched]) \in Nat
    BY <1>1, WatchedAssumption DEF Inductive, TypeOK
  <2>2. <<>> = [i \in DOMAIN <<>> |-> i] /\ Len(<<>>) = 0
    OBVIOUS
  <2>. QED  BY <1>2, <2>1, <2>2, NewPageFields DEF TimelineIsWhole, EndsAreEarned, Exists, Events
<1>5. WireFollows /\ SettledByEvent
  BY <1>2, NewPageFields DEF WireFollows, SettledByEvent
<1>. QED  BY <1>1, <1>2, <1>3, <1>4, <1>5, NewPageFields DEF Following

\* Every step of the composition is a step of the runtime or leaves it alone.
LEMMA StreamStep ==
    ASSUME [StreamNext]_allVars
    PROVE  [Next]_vars
<1>1. CASE UNCHANGED vars
  BY <1>1
<1>2. CASE RunStep \/ CrashWatched
  BY <1>2 DEF RunStep, CrashWatched, Next
<1>3. CASE Act
  BY <1>3, WatchedAssumption DEF Act, Next, ClientStep
<1>4. CASE Serve \/ Watch \/ ProxyRefuses \/ Drop \/ Reload \/ UNCHANGED allVars
  <2>1. UNCHANGED vars
    BY <1>4 DEF Serve, Watch, ProxyRefuses, SendEvents, ReadStatus, ReadLast, OpenStream, Observe, Receive,
                StreamEnds, Drop, Reload, allVars
  <2>. QED  BY <2>1
<1>. QED  BY <1>2, <1>3, <1>4 DEF StreamNext

\* Every step of the runtime, of the server and of the page.
LEMMA NextFollowing ==
    ASSUME Inductive, Inductive', Attended, Following, [StreamNext]_allVars
    PROVE  Following'
<1>1. [Next]_vars
  BY StreamStep
<1>2. CASE RunStep \/ UNCHANGED allVars
  <2>1. UNCHANGED <<stream, wire, page>>
    BY <1>2 DEF RunStep, allVars, observer
  <2>. QED  BY <1>1, <2>1, RuntimeFollows
<1>3. CASE Act
  <2>1. page.pc # "off" /\ page' = [page EXCEPT !.acting = TRUE] /\ UNCHANGED <<stream, wire>>
    BY <1>3 DEF Act
  <2>. QED  BY <1>1, <2>1, RuntimeFollows
<1>4. CASE Serve
  BY <1>4, SendEventsFollows, DecideFollows DEF Serve
<1>5. CASE Watch
  BY <1>5, OpenStreamFollows, ObserveFollows, ReceiveFollows, StreamEndsFollows DEF Watch
<1>6. CASE CrashWatched \/ Drop \/ Reload \/ ProxyRefuses
  BY <1>6, BreakFollows, ReloadFollows, RefusedFollows
<1>. QED  BY <1>2, <1>3, <1>4, <1>5, <1>6 DEF StreamNext

\* The timeline of a page is the log of its run from the first event on, none missing and none
\* twice, whatever connections break, processes die and pages are opened anew ("reconnects
\* from the last accepted persisted sequence", runStream.js).
THEOREM TimelinesAreWhole == StreamSpec => []Following
<1>1. Inductive /\ Attended /\ Following /\ [StreamNext]_allVars
        => (Inductive /\ Attended /\ Following)'
  BY StreamStep, NextInductive, NextAttended, NextFollowing
<1>. QED  BY <1>1, InitFollowing, PTL DEF StreamSpec

\* A subscription only ends with an event that settles the run, with the run itself, or, since
\* the first crash, with a proxy's answer for a backend that is down (runStream.js: any answer
\* that is not ok ends it).
THEOREM SubscriptionsEarnTheirEnd == StreamSpec => []EndsAreEarned
<1>1. Following => EndsAreEarned
  BY DEF Following
<1>. QED  BY <1>1, TimelinesAreWhole, PTL

-----------------------------------------------------------------------------
(* A restart repairs every completion *)

\* What was published stays in the log.
LEMMA PublishedStays ==
    ASSUME Inductive, Inductive', Logs, NEW r \in Runs, NEW event, Published(r, event)
    PROVE  Published(r, event)'
<1>1. Longer(log[r], log'[r]) /\ log[r] \in Seq(EventType)
  BY LogsGrow DEF Inductive, TypeOK
<1>2. PICK i \in 1..Len(log[r]) : log[r][i] = event
  BY DEF Published
<1>3. Len(log'[r]) \in Nat /\ Len(log[r]) \in Nat
  <2>1. log'[r] \in Seq(EventType)
    BY DEF Inductive, TypeOK
  <2>. QED  BY <1>1, <2>1
<1>. QED  BY <1>1, <1>2, <1>3 DEF Longer, Published

\* A step that keeps every answer, announces only what is answered, and goes past the posting
\* of an answer only with it.
LEMMA AnnouncedKept ==
    ASSUME Inductive, AnnouncedAreAnswered,
           conversation' = "active" =>
               /\ conversation = "active"
               /\ \A r \in Runs : messages[r].answer => messages'[r].answer
               /\ \A r \in Runs : Published(r, "RUN_COMPLETED")' =>
                    Published(r, "RUN_COMPLETED") \/ messages'[r].answer
               /\ \A t \in Threads : HasAnswered(worker'[t]) =>
                    \/ HasAnswered(worker[t]) /\ worker'[t].job = Job(t)
                    \/ messages'[worker'[t].job].answer
    PROVE  AnnouncedAreAnswered'
<1> SUFFICES ASSUME conversation' = "active"
             PROVE  /\ \A r \in Runs : Published(r, "RUN_COMPLETED")' => messages'[r].answer
                    /\ \A t \in Threads : HasAnswered(worker'[t]) => messages'[worker'[t].job].answer
  BY DEF AnnouncedAreAnswered, Job
<1>1. \A t \in Threads : HasAnswered(worker[t]) => Job(t) \in Runs
  BY OwnRuns DEF HasAnswered, Jobless, Job
<1>. QED  BY <1>1 DEF AnnouncedAreAnswered

\* A thread goes on, to a place before its answer or beside it.
Quiets(t) == \E w : Becomes(t, w) /\ ~HasAnswered(w)

\* An exception leads to its handler, or ends the thread.
LEMMA RaiseQuiets ==
    ASSUME Inductive, NEW t \in Threads, NEW fault, Raise(t, fault)
    PROVE  Quiets(t)
<1>. DEFINE w == [worker[t] EXCEPT !.pc = "except", !.outcome = fault]
<1>1. worker[t] \in Worker
  BY OwnRuns
<1>2. w.pc = "except" /\ Idle.pc = "idle"
  BY <1>1 DEF Worker, Idle
<1>3. Becomes(t, w) \/ Becomes(t, Idle)
  BY DEF Raise
<1>. HIDE DEF w
<1>. QED  BY <1>2, <1>3 DEF HasAnswered, Quiets

\* A cancel check goes on before the answer, or cancels.
LEMMA CheckQuiets ==
    ASSUME Inductive, NEW t \in Workers, NEW next, CheckCancel(t, next), ~HasAnswered(next)
    PROVE  Quiets(t)
<1>. DEFINE w == [worker[t] EXCEPT !.pc = "cancel", !.snap = run[Job(t)]]
<1>1. worker[t] \in Worker
  BY OwnRuns DEF Threads
<1>2. w.pc = "cancel" /\ Idle.pc = "idle"
  BY <1>1 DEF Worker, Idle
<1>3. Becomes(t, next) \/ Becomes(t, Idle) \/ Becomes(t, w)
  BY DEF CheckCancel
<1>. HIDE DEF w
<1>. QED  BY <1>2, <1>3 DEF HasAnswered, Quiets

\* A save leads to a place before the answer.
LEMMA WriteQuiets ==
    ASSUME Inductive, NEW t \in Threads, NEW row, NEW label, Write(t, row, label),
           label \notin {"memory", "revision", "put"},
           label = "publish" => worker[t].outcome \notin {"query", "listing"}
    PROVE  Quiets(t)
<1>. DEFINE w == [worker[t] EXCEPT !.snap = Saved(row), !.pc = label]
<1>1. worker[t] \in Worker
  BY OwnRuns
<1>2. w.pc = label /\ w.outcome = worker[t].outcome
  BY <1>1 DEF Worker
<1>3. Becomes(t, w)
  BY DEF Write
<1>. HIDE DEF w
<1>. QED  BY <1>2, <1>3 DEF HasAnswered, Quiets

\* No step of a drive gets past the posting of its answer.
LEMMA DriveQuiets ==
    ASSUME Inductive, NEW t \in Workers, Drive(t)
    PROVE  Quiets(t)
<1>1. t \in Threads /\ worker[t] \in Worker /\ ThreadSound(worker[t])
  BY OwnRuns DEF Threads
<1>2. ASSUME NEW label, label \in {"begin", "context", "discover", "ask", "advance", "fail"}
      PROVE  ~HasAnswered([worker[t] EXCEPT !.pc = label])
  BY <1>2, Relabelled DEF HasAnswered
<1>3. ~HasAnswered(Idle)
  BY DEF Idle, HasAnswered
<1>4. CASE Claim(t)
  BY <1>1, <1>3, <1>4, WriteQuiets DEF Claim, Release, Quiets
<1>5. CASE Started(t)
  BY <1>2, <1>5 DEF Started, Goto, Quiets
<1>6. CASE Begin(t)
  BY <1>1, <1>2, <1>6, CheckQuiets, RaiseQuiets DEF Begin
<1>7. CASE Context(t)
  BY <1>1, <1>7, WriteQuiets, RaiseQuiets DEF Context
<1>8. CASE ContextChecked(t)
  BY <1>2, <1>8, CheckQuiets DEF ContextChecked
<1>9. CASE Discover(t)
  <2>1. PICK w : Becomes(t, w) /\ w.pc \in {"check_ask", "settle", "except"}
    <3>1. \A row, label : [worker[t] EXCEPT !.snap = row, !.pc = label].pc = label
      BY <1>1 DEF Worker
    <3>3. CASE Becomes(t, [worker[t] EXCEPT !.snap = Saved(Moved(t)), !.pc = "check_ask"])
      BY <3>1, <3>3
    <3>4. ASSUME NEW outcome,
                 Becomes(t, [worker[t] EXCEPT !.snap = Saved(Moved(t)), !.outcome = outcome,
                                 !.pc = IF outcome = "question" THEN "settle" ELSE "except"])
          PROVE  \E w : Becomes(t, w) /\ w.pc \in {"check_ask", "settle", "except"}
      <4>. DEFINE label == IF outcome = "question" THEN "settle" ELSE "except"
      <4>1. label \in {"settle", "except"}
        OBVIOUS
      <4>. DEFINE w == [worker[t] EXCEPT !.snap = Saved(Moved(t)), !.outcome = outcome, !.pc = label]
      <4>2. Becomes(t, w)
        BY <3>4
      <4>. HIDE DEF label
      <4>3. w.pc = label
        BY <1>1 DEF Worker
      <4>. HIDE DEF w
      <4>. QED  BY <4>1, <4>2, <4>3
    <3>. QED  BY <1>9, <3>3, <3>4 DEF Discover
  <2>. QED  BY <2>1 DEF HasAnswered, Quiets
<1>10. CASE AskStarted(t)
  BY <1>2, <1>10, CheckQuiets DEF AskStarted
<1>11. CASE Ask(t)
  <2>1. \A outcome : ~HasAnswered([worker[t] EXCEPT !.pc = "settle", !.outcome = outcome])
    BY Relabelled DEF HasAnswered
  <2>. QED  BY <1>2, <1>11, <2>1, CheckQuiets DEF Ask
<1>12. CASE Advance(t)
  BY <1>1, <1>12, WriteQuiets DEF Advance
<1>13. CASE SettleFault(t) \/ LoseSave(t)
  BY <1>1, <1>13, RaiseQuiets DEF SettleFault, LoseSave
<1>14. CASE SettleBlock(t)
  BY <1>1, <1>14, WriteQuiets DEF SettleBlock
<1>15. CASE SettleQuestion(t)
  BY <1>1, <1>15, WriteQuiets DEF SettleQuestion
<1>16. CASE SettleAnswer(t)
  <2>1. AfterAnswer(t) \in {"message", "settle"}
    BY DEF AfterAnswer
  <2>. DEFINE done == [Moved(t) EXCEPT !.response = worker[t].outcome, !.completed = clock + 1]
  <2>2. Write(t, done, AfterAnswer(t)) \/ Write(t, Moved(t), AfterAnswer(t))
    BY <1>16 DEF SettleAnswer
  <2>. HIDE DEF done
  <2>. QED  BY <1>1, <2>1, <2>2, WriteQuiets
<1>17. CASE CancelRun(t)
  <2>. DEFINE w == [worker[t] EXCEPT !.snap = Saved(Moved(t)), !.pc = "publish", !.outcome = "cancel"]
  <2>1. w.pc = "publish" /\ w.outcome = "cancel"
    BY <1>1 DEF Worker
  <2>2. Becomes(t, w)
    BY <1>17 DEF CancelRun
  <2>. HIDE DEF w
  <2>. QED  BY <2>1, <2>2 DEF HasAnswered, Quiets
<1>18. CASE Except(t)
  <2>1. PICK w : Becomes(t, w) /\ w.pc \in {"idle", "repair_completions", "repair_clarifications",
                                            "check_failure"}
    <3>1. \A row, label :
            [worker[t] EXCEPT !.mode = "handle", !.snap = row, !.pc = label].pc = label
      BY <1>1 DEF Worker
    <3>2. Idle.pc = "idle"
      BY DEF Idle
    <3>. DEFINE label == CASE run[Job(t)].status = "COMPLETED"    -> "repair_completions"
                           [] run[Job(t)].status = "WAITING_USER" -> "repair_clarifications"
                           [] OTHER                               -> "check_failure"
    <3>3. label \in {"repair_completions", "repair_clarifications", "check_failure"}
      OBVIOUS
    <3>4. \/ Becomes(t, Idle)
          \/ Becomes(t, [worker[t] EXCEPT !.mode = "handle", !.snap = run[Job(t)], !.pc = label])
      BY <1>18 DEF Except
    <3>. HIDE DEF label
    <3>. QED  BY <3>1, <3>2, <3>3, <3>4
  <2>. QED  BY <2>1 DEF HasAnswered, Quiets
<1>19. CASE FailureChecked(t)
  BY <1>2, <1>19, CheckQuiets DEF FailureChecked
<1>20. CASE FailRun(t)
  <2>1. worker[t].outcome \in Fault
    BY <1>1, <1>20 DEF ThreadSound, FailRun, At
  <2>2. worker[t].outcome \notin {"query", "listing"}
    BY <2>1 DEF Fault
  <2>. QED  BY <1>1, <1>3, <1>20, <2>2, WriteQuiets DEF FailRun, Release, Quiets
<1>. QED  BY ZenonT(60), <1>4, <1>5, <1>6, <1>7, <1>8, <1>9, <1>10, <1>11, <1>12, <1>13, <1>14,
             <1>15, <1>16, <1>17, <1>18, <1>19, <1>20 DEF Drive

\* One thread goes on, having posted the answer it is past of.
LEMMA OneAnswers ==
    ASSUME Inductive, AnnouncedAreAnswered, NEW t \in Threads, NEW w, Becomes(t, w),
           conversation' = conversation,
           \A r \in Runs : messages[r].answer => messages'[r].answer,
           \A r \in Runs : Published(r, "RUN_COMPLETED")' =>
                Published(r, "RUN_COMPLETED") \/ (r = Job(t) /\ HasAnswered(worker[t])),
           HasAnswered(w) =>
                (HasAnswered(worker[t]) /\ w.job = Job(t)) \/ messages'[w.job].answer
    PROVE  AnnouncedAreAnswered'
<1>1. worker'[t] = w /\ \A u \in Threads : u # t => worker'[u] = worker[u]
  BY DEF Inductive, TypeOK, Becomes
<1>2. \A u \in Threads : HasAnswered(worker'[u]) =>
            \/ HasAnswered(worker[u]) /\ worker'[u].job = Job(u)
            \/ messages'[worker'[u].job].answer
  BY <1>1 DEF Job
<1>3. conversation = "active" /\ HasAnswered(worker[t]) => messages[Job(t)].answer
  BY DEF AnnouncedAreAnswered
<1>. QED  BY <1>2, <1>3, AnnouncedKept

\* A thread that stays before its answer or beside it, and announces no completion.
LEMMA QuietAnswers ==
    ASSUME Inductive, AnnouncedAreAnswered, NEW t \in Threads, Quiets(t),
           UNCHANGED <<conversation, messages>>,
           \A r \in Runs : Published(r, "RUN_COMPLETED")' => Published(r, "RUN_COMPLETED")
    PROVE  AnnouncedAreAnswered'
BY OneAnswers DEF Quiets

\* What is published stays the same while nothing is appended.
LEMMA SameLog ==
    ASSUME log' = log
    PROVE  \A r \in Runs : \A event : Published(r, event)' <=> Published(r, event)
BY DEF Published

\* The steps of a drive announce no completion.
LEMMA DriveAnswers ==
    ASSUME Inductive, AnnouncedAreAnswered, NEW t \in Workers, Drive(t)
    PROVE  AnnouncedAreAnswered'
<1>1. t \in Threads /\ {"RUN_STARTED", "PROGRESS"} \subseteq EventType
  BY DEF Threads, EventType
<1>2. UNCHANGED <<conversation, messages>>
      /\ (log' = log \/ AppendEvent(Job(t), "RUN_STARTED") \/ AppendEvent(Job(t), "PROGRESS"))
  BY ZenonT(60) DEF Drive, Claim, Started, Begin, Context, ContextChecked, Discover, AskStarted, Ask,
       Advance, SettleFault, SettleBlock, SettleQuestion, SettleAnswer, CancelRun, LoseSave, Except,
       FailureChecked, FailRun, store
<1>3. \A r \in Runs : Published(r, "RUN_COMPLETED")' => Published(r, "RUN_COMPLETED")
  BY <1>1, <1>2, AppendPublishes, SameLog
<1>. QED  BY <1>1, <1>2, <1>3, DriveQuiets, QuietAnswers

\* The answer is posted before anything tells of it.
LEMMA PostMessageAnswers ==
    ASSUME Inductive, AnnouncedAreAnswered, NEW t \in Threads, PostMessage(t)
    PROVE  AnnouncedAreAnswered'
<1>1. /\ UNCHANGED <<log, conversation>> /\ worker[t] \in Worker /\ Job(t) \in Runs
      /\ messages \in [Runs -> Thread]
  BY OwnRuns DEF PostMessage, At, Jobless, Job, Inductive, TypeOK
<1>2. PICK label \in {"memory", "publish"} : Goto(t, label)
  BY DEF PostMessage
<1>. DEFINE w == [worker[t] EXCEPT !.pc = label]
<1>3. Becomes(t, w) /\ w.pc = label /\ w.outcome = worker[t].outcome /\ w.job = Job(t)
      /\ (worker[t].outcome = "question" => label = "publish")
  <2>1. worker[t].outcome = "question" => Goto(t, "publish")
    BY DEF PostMessage
  <2>2. Goto(t, "publish") => label = "publish"
    BY <1>1, <1>2 DEF Goto, Becomes, Inductive, TypeOK, Worker
  <2>. QED  BY <1>1, <1>2, <2>1, <2>2 DEF Goto, Worker, Job
<1>. HIDE DEF w
<1>4. CASE worker[t].outcome = "question"
  <2>1. \A r \in Runs : messages[r].answer => messages'[r].answer
    <3> SUFFICES ASSUME NEW r \in Runs, messages[r].answer
                 PROVE  messages'[r].answer
      OBVIOUS
    <3>1. messages' = [messages EXCEPT ![Job(t)].prompts = @ \cup {Snap(t).revision}]
      BY <1>4 DEF PostMessage
    <3>2. messages[r] \in Thread
      BY <1>1
    <3>. QED  BY <1>1, <3>1, <3>2 DEF Thread
  <2>2. ~HasAnswered(w)
    BY <1>3, <1>4 DEF HasAnswered
  <2>. QED  BY <1>1, <1>3, <2>1, <2>2, SameLog, OneAnswers
<1>5. CASE worker[t].outcome # "question"
  <2>1. messages' = [messages EXCEPT ![Job(t)].answer = TRUE]
    BY <1>5 DEF PostMessage
  <2>2. messages'[Job(t)].answer
    <3>1. messages[Job(t)] \in Thread
      BY <1>1
    <3>. QED  BY <1>1, <2>1, <3>1 DEF Thread
  <2>3. \A r \in Runs : messages[r].answer => messages'[r].answer
    BY <1>1, <2>1, <2>2
  <2>. QED  BY <1>1, <1>3, <2>2, <2>3, SameLog, OneAnswers
<1>. QED  BY <1>4, <1>5

\* The memory is written after the answer, and the completion announced after both.
LEMMA MemoryAnswers ==
    ASSUME Inductive, AnnouncedAreAnswered, NEW t \in Threads,
           ReadMemory(t) \/ ReadMemoryRevision(t) \/ PutMemory(t)
    PROVE  AnnouncedAreAnswered'
<1>1. /\ UNCHANGED <<log, conversation, messages>> /\ worker[t] \in Worker
      /\ HasAnswered(worker[t])
  BY OwnRuns DEF ReadMemory, ReadMemoryRevision, PutMemory, At, store, HasAnswered
<1>2. ASSUME NEW w, Becomes(t, w), w.job = Job(t)
      PROVE  AnnouncedAreAnswered'
  BY <1>1, <1>2, SameLog, OneAnswers
<1>3. ASSUME NEW fault, Raise(t, fault)
      PROVE  AnnouncedAreAnswered'
  BY <1>1, <1>3, SameLog, RaiseQuiets, QuietAnswers
<1>4. CASE Goto(t, "publish")
  <2>1. [worker[t] EXCEPT !.pc = "publish"].job = Job(t)
    BY <1>1 DEF Worker, Job
  <2>. QED  BY <1>2, <1>4, <2>1 DEF Goto
<1>5. CASE Becomes(t, [worker[t] EXCEPT !.pc = "revision", !.stamp = clock])
  <2>1. [worker[t] EXCEPT !.pc = "revision", !.stamp = clock].job = Job(t)
    BY <1>1 DEF Worker, Job
  <2>. QED  BY <1>2, <1>5, <2>1
<1>6. CASE Becomes(t, [worker[t] EXCEPT !.pc = "put", !.expected = memory.revision])
  <2>1. [worker[t] EXCEPT !.pc = "put", !.expected = memory.revision].job = Job(t)
    BY <1>1 DEF Worker, Job
  <2>. QED  BY <1>2, <1>6, <2>1
<1>. QED  BY <1>3, <1>4, <1>5, <1>6 DEF ReadMemory, ReadMemoryRevision, PutMemory

\* A completion is announced by a thread that has posted its answer.
LEMMA PublishAnswers ==
    ASSUME Inductive, AnnouncedAreAnswered, NEW t \in Threads, Publish(t)
    PROVE  AnnouncedAreAnswered'
<1>. DEFINE event == EventOf[worker[t].outcome]
<1>1. /\ worker[t].pc = "publish" /\ AppendEvent(Job(t), event)
      /\ UNCHANGED <<messages, conversation>>
  BY DEF Publish, At
<1>2. worker[t] \in Worker /\ ThreadSound(worker[t])
  BY OwnRuns
<1>3. worker[t].outcome \in Outcome \cup {"cancel"}
  BY <1>1, <1>2 DEF ThreadSound
<1>4. event \in EventType /\ (event = "RUN_COMPLETED" => worker[t].outcome \in {"query", "listing"})
  BY <1>3 DEF EventOf, EventType, Outcome, Fault, Reply
<1>. HIDE DEF event
<1>5. \A r \in Runs : Published(r, "RUN_COMPLETED")' =>
            Published(r, "RUN_COMPLETED") \/ (r = Job(t) /\ HasAnswered(worker[t]))
  BY <1>1, <1>4, AppendPublishes DEF HasAnswered
<1>6. Quiets(t)
  <2>1. PICK label \in {"repair", "interrupt", "idle"} :
            \/ Goto(t, label)
            \/ label = "idle" /\ Becomes(t, Idle)
    BY DEF Publish, Release
  <2>2. [worker[t] EXCEPT !.pc = label].pc = label /\ Idle.pc = "idle"
    BY <1>2 DEF Worker, Idle
  <2>. QED  BY <2>1, <2>2 DEF Goto, HasAnswered, Quiets
<1>. QED  BY <1>1, <1>5, <1>6, OneAnswers DEF Quiets

\* A list of repairs is made, and each repair begins, before the answer.
LEMMA RepairAnswers ==
    ASSUME Inductive, AnnouncedAreAnswered, NEW t \in Threads,
           ListCompletions(t) \/ ListClarifications(t) \/ RepairNext(t) \/ RepairDone(t)
    PROVE  AnnouncedAreAnswered'
<1>1. UNCHANGED <<log, conversation, messages>> /\ worker[t] \in Worker
  BY OwnRuns DEF ListCompletions, ListClarifications, RepairNext, RepairDone, store
<1>2. \E w : Becomes(t, w) /\ w.pc \in {"repair", "message", "idle", "repair_clarifications", "resubmit"}
  <2>1. ASSUME NEW mode, NEW rs, ListRepairs(t, mode, rs)
        PROVE  \E w : Becomes(t, w) /\ w.pc = "repair"
    <3>. DEFINE w == [worker[t] EXCEPT !.pc = "repair", !.mode = mode,
                            !.todo = {[job |-> r, snap |-> run[r]] : r \in rs}]
    <3>1. Becomes(t, w)
      BY <2>1 DEF ListRepairs
    <3>2. w.pc = "repair"
      BY <1>1 DEF Worker
    <3>. HIDE DEF w
    <3>. QED  BY <3>1, <3>2
  <2>2. CASE ListCompletions(t) \/ ListClarifications(t)
    BY <2>1, <2>2 DEF ListCompletions, ListClarifications
  <2>3. CASE RepairNext(t)
    <3>1. PICK item \in worker[t].todo :
            Becomes(t, [worker[t] EXCEPT !.pc = "message", !.job = item.job,
                !.snap = item.snap, !.outcome = item.snap.response, !.todo = @ \ {item}])
      BY <2>3 DEF RepairNext
    <3>. DEFINE w == [worker[t] EXCEPT !.pc = "message", !.job = item.job,
                !.snap = item.snap, !.outcome = item.snap.response, !.todo = @ \ {item}]
    <3>2. Becomes(t, w) /\ w.pc = "message"
      BY <1>1, <3>1 DEF Worker
    <3>. HIDE DEF w
    <3>. QED  BY <3>2
  <2>4. CASE RepairDone(t)
    <3>1. PICK label \in {"idle", "repair_clarifications", "resubmit"} :
            Becomes(t, [Idle EXCEPT !.pc = label])
      <4>1. Idle = [Idle EXCEPT !.pc = "idle"]
        BY DEF Idle
      <4>. QED  BY <2>4, <4>1 DEF RepairDone, Release
    <3>2. [Idle EXCEPT !.pc = label].pc = label
      BY DEF Idle
    <3>. QED  BY <3>1, <3>2
  <2>. QED  BY <2>2, <2>3, <2>4
<1>3. Quiets(t)
  BY <1>2 DEF HasAnswered, Quiets
<1>. QED  BY <1>1, <1>3, SameLog, QuietAnswers

\* Every step stores an answer before it announces a completion.
LEMMA NextAnswers ==
    ASSUME Inductive, AnnouncedAreAnswered, [Next]_vars
    PROVE  AnnouncedAreAnswered'
<1>1. CASE UNCHANGED vars
  BY <1>1 DEF vars, store, process, AnnouncedAreAnswered, Published, Job
<1>2. worker \in [Threads -> Worker] /\ Boot \in Threads /\ Workers \subseteq Threads
      /\ messages \in [Runs -> Thread] /\ ~HasAnswered(Idle)
  BY DEF Inductive, TypeOK, Threads, Idle, HasAnswered
<1>3. ASSUME NEW t \in Threads, Publishing(t)
      PROVE  AnnouncedAreAnswered'
  BY <1>3, PostMessageAnswers, MemoryAnswers, PublishAnswers, RepairAnswers DEF Publishing
<1>4. ASSUME NEW t \in Workers, Pick(t)
      PROVE  AnnouncedAreAnswered'
  <2>1. UNCHANGED <<log, messages, conversation>>
    BY <1>4 DEF Pick, store
  <2>2. CASE UNCHANGED worker
    BY <2>1, <2>2 DEF AnnouncedAreAnswered, Published, Job
  <2>. DEFINE w == [Idle EXCEPT !.pc = "claim", !.job = Head(queue), !.snap = run[Head(queue)]]
  <2>3. CASE Becomes(t, w)
    <3>1. w.pc = "claim"
      BY DEF Idle
    <3>. HIDE DEF w
    <3>. QED  BY <1>2, <2>1, <2>3, <3>1, SameLog, QuietAnswers DEF HasAnswered, Quiets
  <2>. QED  BY <1>4, <2>2, <2>3 DEF Pick
<1>5. CASE Interrupt
  <2>1. UNCHANGED <<log, messages, conversation>>
    BY <1>5 DEF Interrupt
  <2>2. ASSUME NEW r, NEW failed,
               Becomes(Boot, [Idle EXCEPT !.pc = "publish", !.mode = "interrupted",
                                   !.job = r, !.snap = failed, !.outcome = "transient"])
        PROVE  Quiets(Boot)
    <3>. DEFINE w == [Idle EXCEPT !.pc = "publish", !.mode = "interrupted",
                                   !.job = r, !.snap = failed, !.outcome = "transient"]
    <3>1. w.outcome = "transient" /\ w.pc = "publish" /\ Becomes(Boot, w)
      BY <2>2 DEF Idle
    <3>. HIDE DEF w
    <3>. QED  BY <3>1 DEF HasAnswered, Quiets
  <2>3. ASSUME Becomes(Boot, [Idle EXCEPT !.pc = "repair_completions"])
        PROVE  Quiets(Boot)
    <3>. DEFINE w == [Idle EXCEPT !.pc = "repair_completions"]
    <3>1. w.pc = "repair_completions" /\ Becomes(Boot, w)
      BY <2>3 DEF Idle
    <3>. HIDE DEF w
    <3>. QED  BY <3>1 DEF HasAnswered, Quiets
  <2>4. Quiets(Boot)
    <3>1. \/ Becomes(Boot, [Idle EXCEPT !.pc = "repair_completions"])
          \/ \E r \in Runs : \E failed :
                Becomes(Boot, [Idle EXCEPT !.pc = "publish", !.mode = "interrupted",
                                   !.job = r, !.snap = failed, !.outcome = "transient"])
      BY ZenonT(30), <1>5 DEF Interrupt
    <3>. QED  BY <2>2, <2>3, <3>1
  <2>. QED  BY <1>2, <2>1, <2>4, SameLog, QuietAnswers
<1>6. CASE Resubmit
  BY <1>2, <1>6, SameLog, QuietAnswers DEF Resubmit, Release, store, Quiets
<1>7. CASE Crash
  <2>1. \A t \in Threads : worker'[t].pc \in {"idle", "interrupt"}
    BY <1>7 DEF Crash, Idle
  <2>2. UNCHANGED <<log, messages, conversation>>
    BY <1>7 DEF Crash, store
  <2>. QED  BY <2>1, <2>2 DEF AnnouncedAreAnswered, HasAnswered, Published
<1>8. CASE CallStep
  <2> SUFFICES ASSUME NEW call \in calls,
                      \/ InsertRun(call) \/ PostQuestion(call) \/ PostReply(call)
                      \/ Submit(call) \/ PublishCancel(call)
               PROVE  AnnouncedAreAnswered'
    BY <1>8 DEF CallStep
  <2>1. call.run \in Runs /\ UNCHANGED <<worker, conversation>>
    BY Calls DEF InsertRun, PostQuestion, PostReply, Submit, PublishCancel, store
  <2>2. \A r \in Runs : messages[r].answer => messages'[r].answer
    <3> SUFFICES ASSUME NEW r \in Runs, messages[r].answer
                 PROVE  messages'[r].answer
      OBVIOUS
    <3>1. messages[r] \in Thread /\ messages[call.run] \in Thread
      BY <1>2, <2>1
    <3>2. CASE PostQuestion(call)
      BY <1>2, <2>1, <3>1, <3>2 DEF PostQuestion, Thread
    <3>3. CASE PostReply(call)
      BY <1>2, <2>1, <3>1, <3>3 DEF PostReply, Thread
    <3>4. CASE InsertRun(call) \/ Submit(call) \/ PublishCancel(call)
      BY <3>4 DEF InsertRun, Submit, PublishCancel, store
    <3>. QED  BY <3>2, <3>3, <3>4
  <2>3. \A r \in Runs : Published(r, "RUN_COMPLETED")' => Published(r, "RUN_COMPLETED")
    <3>1. log' = log \/ AppendEvent(call.run, "RUN_CANCELLED")
      BY DEF InsertRun, PostQuestion, PostReply, Submit, PublishCancel, store
    <3>2. "RUN_CANCELLED" \in EventType
      BY DEF EventType
    <3>. QED  BY <3>1, <3>2, AppendPublishes, SameLog
  <2>. QED  BY <2>1, <2>2, <2>3, AnnouncedKept DEF Job
<1>9. CASE ClientStep
  <2>1. \/ UNCHANGED <<worker, conversation, messages, log>>
        \/ conversation' = "deleted"
    BY ZenonT(60), <1>9 DEF ClientStep, CreateRun, CancelWaiting, RequestCancel, Clarify, Retry,
       DeleteConversation, store, process
  <2>. QED  BY <2>1 DEF AnnouncedAreAnswered, Published, Job
<1>. QED  BY <1>1, <1>2, <1>3, <1>4, <1>5, <1>6, <1>7, <1>8, <1>9, DriveAnswers
          DEF Next, WorkerStep, BootStep

\* Nobody but the constructor acts before it has returned.
LEMMA OnlyBootActs ==
    ASSUME Inductive, ~Up, [Next]_vars
    PROVE  BootStep \/ Crash \/ UNCHANGED vars
<1>1. (\A t \in Workers : worker[t].pc = "idle") /\ queue = <<>> /\ calls = {}
  BY DEF Inductive, QuietRestart
<1>2. ASSUME NEW t \in Workers, WorkerStep(t)
      PROVE  FALSE
  BY ZenonT(60), <1>1, <1>2 DEF WorkerStep, Pick, Drive, Claim, Started, Begin, Context,
     ContextChecked, Discover, AskStarted, Ask, Advance, SettleFault, SettleBlock, SettleQuestion,
     SettleAnswer, CancelRun, LoseSave, Except, FailureChecked, FailRun, Publishing, PostMessage,
     ReadMemory, ReadMemoryRevision, PutMemory, Publish, ListCompletions, ListClarifications,
     RepairNext, RepairDone, At
<1>3. ~CallStep
  BY <1>1 DEF CallStep
<1>4. ~ClientStep
  BY DEF ClientStep, CreateRun, CancelWaiting, RequestCancel, Clarify, Retry, DeleteConversation
<1>. QED  BY <1>2, <1>3, <1>4 DEF Next

\* While others act the constructor stays returned.
LEMMA OthersKeepUp ==
    ASSUME Inductive, Up, [Next]_vars, ~BootStep, ~Crash
    PROVE  Up'
<1>1. worker \in [Threads -> Worker] /\ Boot \in Threads /\ Workers \subseteq Threads
      /\ \A t \in Workers : t # Boot
  BY ThreadsAssumption DEF Inductive, TypeOK, Threads
<1>2. ASSUME NEW t \in Workers, WorkerStep(t)
      PROVE  worker'[Boot] = worker[Boot]
  <2>1. \A w : Becomes(t, w) => worker'[Boot] = worker[Boot]
    BY <1>1 DEF Becomes
  <2>2. CASE Pick(t)
    BY <2>1, <2>2 DEF Pick
  <2>3. CASE Drive(t)
    BY <2>1, <2>3, DriveQuiets DEF Quiets
  <2>4. CASE Publishing(t)
    BY ZenonT(60), <2>1, <2>4 DEF Publishing, PostMessage, ReadMemory, ReadMemoryRevision, PutMemory,
       Publish, ListCompletions, ListClarifications, RepairNext, RepairDone, ListRepairs, Goto,
       Release, Raise
  <2>. QED  BY <1>2, <2>2, <2>3, <2>4 DEF WorkerStep
<1>3. CallStep \/ ClientStep \/ UNCHANGED vars => worker' = worker
  BY ZenonT(60) DEF CallStep, InsertRun, PostQuestion, PostReply, Submit, PublishCancel, ClientStep,
     CreateRun, CancelWaiting, RequestCancel, Clarify, Retry, DeleteConversation, process, vars
<1>4. worker'[Boot] = worker[Boot]
  BY <1>2, <1>3 DEF Next
<1>. QED  BY <1>4 DEF Up, At

\* While the runs stay as they are, no completion becomes incomplete.
LEMMA FewerIncomplete ==
    ASSUME Inductive, Inductive', Logs, run' = run
    PROVE  IncompleteCompletions' \subseteq IncompleteCompletions
<1> SUFFICES ASSUME NEW r \in Runs, run[r].status = "COMPLETED", ~Published(r, "RUN_COMPLETED")'
             PROVE  ~Published(r, "RUN_COMPLETED")
  BY DEF IncompleteCompletions
<1>. QED  BY PublishedStays

\* The constructor goes on, and still knows of every completion it has listed.
LEMMA BootKnows ==
    ASSUME Inductive, NEW w, Becomes(Boot, w), RepairsComplete(w),
           \/ Interrupting(w) \/ w.pc = "repair_completions"
           \/ \A r \in IncompleteCompletions' : Repairs(w, r)
    PROVE  RepairsKnown'
<1>1. worker'[Boot] = w
  BY DEF Inductive, TypeOK, Threads, Becomes
<1>. QED  BY <1>1 DEF RepairsKnown, At

\* What the constructor knows when it is not at one of its first two steps.
LEMMA BootKnown ==
    ASSUME Inductive, Attended, RepairsKnown, worker[Boot].pc # "idle",
           ~Interrupting(worker[Boot]), worker[Boot].pc # "repair_completions"
    PROVE  /\ RepairsComplete(worker[Boot])
           /\ \A r \in IncompleteCompletions : Repairs(worker[Boot], r)
BY DEF RepairsKnown, Up, At

\* From the posting of the answer to the event the constructor keeps its list and its run.
LEMMA TellingKnown ==
    ASSUME Inductive, Inductive', Attended, RepairsKnown, Logs, run' = run,
           worker[Boot].pc \in Telling, ~Interrupting(worker[Boot]),
           NEW w, Becomes(Boot, w), w.pc \in Telling, w.mode = worker[Boot].mode,
           w.job = Job(Boot), w.todo = worker[Boot].todo, w.outcome = worker[Boot].outcome
    PROVE  RepairsKnown'
<1>1. worker[Boot].pc \notin {"idle", "repair_completions"}
  BY DEF Telling
<1>2. /\ RepairsComplete(worker[Boot])
      /\ \A r \in IncompleteCompletions : Repairs(worker[Boot], r)
  BY <1>1, BootKnown
<1>3. RepairsComplete(w)
  BY <1>2 DEF RepairsComplete
<1>4. \A r \in IncompleteCompletions' : Repairs(w, r)
  BY <1>2, FewerIncomplete DEF Repairs, Job
<1>. QED  BY <1>3, <1>4, BootKnows

\* The answer and the memory of a repair.
LEMMA RepairTells ==
    ASSUME Inductive, Inductive', Attended, RepairsKnown, Logs, run' = run,
           PostMessage(Boot) \/ ReadMemory(Boot) \/ ReadMemoryRevision(Boot) \/ PutMemory(Boot)
    PROVE  RepairsKnown'
<1>1. worker[Boot].pc \in {"message", "memory", "revision", "put"}
  BY DEF PostMessage, ReadMemory, ReadMemoryRevision, PutMemory, At
<1>2. /\ worker[Boot].pc \in Telling /\ ~Interrupting(worker[Boot])
      /\ conversation = "active" /\ worker[Boot] \in Worker
      /\ At(Boot, "put") => worker[Boot].expected = memory.revision
  BY <1>1, BootDuties DEF Telling, Interrupting, Inductive, TypeOK, Threads
<1>3. ASSUME NEW label \in {"memory", "publish"}, Goto(Boot, label)
      PROVE  RepairsKnown'
  <2>. DEFINE w == [worker[Boot] EXCEPT !.pc = label]
  <2>1. /\ w.pc = label /\ w.mode = worker[Boot].mode /\ w.job = Job(Boot)
        /\ w.todo = worker[Boot].todo /\ w.outcome = worker[Boot].outcome /\ Becomes(Boot, w)
    BY <1>2, <1>3 DEF Worker, Job, Goto
  <2>2. w.pc \in Telling
    BY <2>1 DEF Telling
  <2>. HIDE DEF w
  <2>. QED  BY <1>2, <2>1, <2>2, TellingKnown
<1>4. CASE PostMessage(Boot)
  BY <1>3, <1>4 DEF PostMessage
<1>5. CASE ReadMemory(Boot)
  <2>1. CASE Becomes(Boot, [worker[Boot] EXCEPT !.pc = "revision", !.stamp = clock])
    <3>. DEFINE w == [worker[Boot] EXCEPT !.pc = "revision", !.stamp = clock]
    <3>1. /\ w.pc = "revision" /\ w.mode = worker[Boot].mode /\ w.job = Job(Boot)
          /\ w.todo = worker[Boot].todo /\ w.outcome = worker[Boot].outcome /\ Becomes(Boot, w)
      BY <1>2, <2>1 DEF Worker, Job
    <3>2. w.pc \in Telling
      BY <3>1 DEF Telling
    <3>. HIDE DEF w
    <3>. QED  BY <1>2, <3>1, <3>2, TellingKnown
  <2>. QED  BY <1>2, <1>3, <1>5, <2>1 DEF ReadMemory
<1>6. CASE ReadMemoryRevision(Boot)
  <2>. DEFINE w == [worker[Boot] EXCEPT !.pc = "put", !.expected = memory.revision]
  <2>1. /\ w.pc = "put" /\ w.mode = worker[Boot].mode /\ w.job = Job(Boot)
        /\ w.todo = worker[Boot].todo /\ w.outcome = worker[Boot].outcome
    BY <1>2 DEF Worker, Job
  <2>2. w.pc \in Telling /\ Becomes(Boot, w)
    BY <1>2, <1>6, <2>1 DEF Telling, ReadMemoryRevision
  <2>. HIDE DEF w
  <2>. QED  BY <1>2, <2>1, <2>2, TellingKnown
<1>7. CASE PutMemory(Boot)
  BY <1>2, <1>3, <1>7 DEF PutMemory, At
<1>. QED  BY <1>4, <1>5, <1>6, <1>7

\* An event of a repair takes its run off what is left.
LEMMA PublishKnown ==
    ASSUME Inductive, Inductive', Attended, RepairsKnown, Logs, run' = run, Publish(Boot)
    PROVE  RepairsKnown'
<1>1. worker[Boot].pc = "publish" /\ AppendEvent(Job(Boot), EventOf[worker[Boot].outcome])
      /\ worker[Boot] \in Worker
  BY DEF Publish, At, Inductive, TypeOK, Threads
<1>2. worker[Boot].mode \in {"completions", "clarifications", "interrupted"}
  BY <1>1, BootDuties DEF Restarting
<1>3. CASE worker[Boot].mode = "interrupted"
  <2>. DEFINE w == [worker[Boot] EXCEPT !.pc = "interrupt"]
  <2>1. Becomes(Boot, w) /\ w.pc = "interrupt" /\ w.mode = "interrupted"
    BY <1>1, <1>3 DEF Publish, Goto, Worker
  <2>. HIDE DEF w
  <2>. QED  BY <2>1, BootKnows DEF Interrupting, RepairsComplete
<1>4. CASE worker[Boot].mode # "interrupted"
  <2>. DEFINE w == [worker[Boot] EXCEPT !.pc = "repair"]
  <2>1. /\ w.pc = "repair" /\ w.mode = worker[Boot].mode /\ w.todo = worker[Boot].todo
        /\ Becomes(Boot, w)
    BY <1>1, <1>2, <1>4 DEF Publish, Goto, Worker
  <2>. HIDE DEF w
  <2>2. /\ RepairsComplete(worker[Boot])
        /\ \A r \in IncompleteCompletions : Repairs(worker[Boot], r)
    BY <1>1, <1>4, BootKnown DEF Interrupting
  <2>3. RepairsComplete(w)
    BY <2>1, <2>2 DEF RepairsComplete, Telling
  <2>4. ASSUME NEW r \in IncompleteCompletions'
        PROVE  Repairs(w, r)
    <3>1. Repairs(worker[Boot], r) /\ r \in Runs /\ ~Published(r, "RUN_COMPLETED")'
      BY <2>2, <2>4, FewerIncomplete DEF IncompleteCompletions
    <3>2. Job(Boot) # r
      <4> SUFFICES ASSUME Job(Boot) = r
                   PROVE  FALSE
        OBVIOUS
      <4>1. EventOf[worker[Boot].outcome] = "RUN_COMPLETED"
        BY <1>1, <2>2, <3>1 DEF Repairs, RepairsComplete, Telling, EventOf
      <4>2. log'[r] = Append(log[r], "RUN_COMPLETED") /\ log[r] \in Seq(EventType)
        BY <1>1, <3>1, <4>1 DEF AppendEvent, Inductive, TypeOK
      <4>3. Len(log'[r]) = Len(log[r]) + 1 /\ log'[r][Len(log[r]) + 1] = "RUN_COMPLETED"
            /\ Len(log[r]) \in Nat
        BY <4>2
      <4>. QED  BY <3>1, <4>3 DEF Published
    <3>. QED  BY <1>1, <2>1, <3>1, <3>2 DEF Repairs, Telling, Job
  <2>. QED  BY <2>1, <2>3, <2>4, BootKnows
<1>. QED  BY <1>3, <1>4

\* The list of completions holds every one that was not announced.
LEMMA ListCompletionsKnown ==
    ASSUME Inductive, Inductive', Attended, RepairsKnown, Logs, run' = run, ListCompletions(Boot)
    PROVE  RepairsKnown'
<1>. DEFINE items == {[job |-> r, snap |-> run[r]] : r \in IncompleteCompletions}
            w == [worker[Boot] EXCEPT !.pc = "repair", !.mode = "completions", !.todo = items]
<1>1. worker[Boot] \in Worker
  BY DEF Inductive, TypeOK, Threads
<1>2. /\ w.pc = "repair" /\ w.mode = "completions" /\ w.todo = items /\ Becomes(Boot, w)
  BY <1>1 DEF ListCompletions, ListRepairs, Worker
<1>3. \A item \in items : item.snap.response \in {"query", "listing"}
  BY DEF IncompleteCompletions, Inductive, RowsSound, RowSound
<1>4. ASSUME NEW r \in IncompleteCompletions
      PROVE  \E item \in items : item.job = r
  <2>. DEFINE item == [job |-> r, snap |-> run[r]]
  <2>1. item \in items /\ item.job = r
    BY <1>4
  <2>. QED  BY <2>1
<1>. HIDE DEF w, items
<1>5. RepairsComplete(w)
  BY <1>2, <1>3 DEF RepairsComplete, Telling
<1>6. \A r \in IncompleteCompletions' : Repairs(w, r)
  BY <1>2, <1>4, FewerIncomplete DEF Repairs
<1>. QED  BY <1>2, <1>5, <1>6, BootKnows

\* When the clarifications are listed every completion is announced.
LEMMA ListClarificationsKnown ==
    ASSUME Inductive, Inductive', Attended, RepairsKnown, Logs, run' = run, ListClarifications(Boot)
    PROVE  RepairsKnown'
<1>. DEFINE items == {[job |-> r, snap |-> run[r]] : r \in IncompleteClarifications}
            w == [worker[Boot] EXCEPT !.pc = "repair", !.mode = "clarifications", !.todo = items]
<1>1. worker[Boot] \in Worker /\ worker[Boot].pc = "repair_clarifications"
  BY DEF Inductive, TypeOK, Threads, ListClarifications, At
<1>2. w.mode = "clarifications" /\ Becomes(Boot, w)
  BY <1>1 DEF ListClarifications, ListRepairs, Worker
<1>. HIDE DEF w
<1>3. \A r \in IncompleteCompletions : Repairs(worker[Boot], r)
  BY <1>1, BootKnown DEF Interrupting
<1>4. IncompleteCompletions' = {}
  BY <1>1, <1>3, FewerIncomplete DEF Repairs, Telling
<1>5. RepairsComplete(w)
  BY <1>2 DEF RepairsComplete
<1>. QED  BY <1>2, <1>4, <1>5, BootKnows

\* The next repair is taken off the list, into the constructor's hands.
LEMMA RepairNextKnown ==
    ASSUME Inductive, Inductive', Attended, RepairsKnown, Logs, run' = run, RepairNext(Boot)
    PROVE  RepairsKnown'
<1>1. worker[Boot] \in Worker /\ worker[Boot].pc = "repair"
  BY DEF Inductive, TypeOK, Threads, RepairNext, At
<1>2. PICK item \in worker[Boot].todo :
        Becomes(Boot, [worker[Boot] EXCEPT !.pc = "message", !.job = item.job,
            !.snap = item.snap, !.outcome = item.snap.response, !.todo = @ \ {item}])
  BY DEF RepairNext
<1>. DEFINE w == [worker[Boot] EXCEPT !.pc = "message", !.job = item.job,
            !.snap = item.snap, !.outcome = item.snap.response, !.todo = @ \ {item}]
<1>3. /\ w.pc = "message" /\ w.mode = worker[Boot].mode /\ w.job = item.job
      /\ w.outcome = item.snap.response /\ w.todo = worker[Boot].todo \ {item} /\ Becomes(Boot, w)
  BY <1>1, <1>2 DEF Worker
<1>. HIDE DEF w
<1>4. /\ RepairsComplete(worker[Boot])
      /\ \A r \in IncompleteCompletions : Repairs(worker[Boot], r)
  BY <1>1, BootKnown DEF Interrupting
<1>5. RepairsComplete(w)
  BY <1>2, <1>3, <1>4 DEF RepairsComplete
<1>6. ASSUME NEW r, Repairs(worker[Boot], r)
      PROVE  Repairs(w, r)
  <2>1. PICK other \in worker[Boot].todo : other.job = r
    BY <1>1, <1>6 DEF Repairs, Telling
  <2>2. CASE other = item
    BY <1>3, <1>6, <2>1, <2>2 DEF Repairs, Telling
  <2>3. CASE other # item
    BY <1>3, <1>6, <2>1, <2>3 DEF Repairs, Telling
  <2>. QED  BY <2>2, <2>3
<1>7. \A r \in IncompleteCompletions' : Repairs(w, r)
  BY <1>4, <1>6, FewerIncomplete
<1>. QED  BY <1>3, <1>5, <1>7, BootKnows

\* A list that is done leaves no completion unannounced.
LEMMA RepairDoneKnown ==
    ASSUME Inductive, Inductive', Attended, RepairsKnown, Logs, run' = run, RepairDone(Boot)
    PROVE  RepairsKnown'
<1>1. worker[Boot].pc = "repair" /\ worker[Boot].todo = {}
  BY DEF RepairDone, At
<1>2. PICK label : Becomes(Boot, [Idle EXCEPT !.pc = label])
  BY DEF RepairDone
<1>. DEFINE w == [Idle EXCEPT !.pc = label]
<1>3. w.mode = "drive" /\ Becomes(Boot, w)
  BY <1>2 DEF Idle
<1>. HIDE DEF w
<1>4. \A r \in IncompleteCompletions : Repairs(worker[Boot], r)
  BY <1>1, BootKnown DEF Interrupting
<1>5. IncompleteCompletions' = {}
  BY <1>1, <1>4, FewerIncomplete DEF Repairs, Telling
<1>6. RepairsComplete(w)
  BY <1>3 DEF RepairsComplete
<1>. QED  BY <1>3, <1>5, <1>6, BootKnows

\* recover_interrupted() has not listed the completions yet.
LEMMA InterruptKnown ==
    ASSUME Inductive, Interrupt
    PROVE  RepairsKnown'
<1>1. ASSUME NEW r \in Runs, NEW failed,
             Becomes(Boot, [Idle EXCEPT !.pc = "publish", !.mode = "interrupted",
                                 !.job = r, !.snap = failed, !.outcome = "transient"])
      PROVE  RepairsKnown'
  <2>. DEFINE w == [Idle EXCEPT !.pc = "publish", !.mode = "interrupted",
                                 !.job = r, !.snap = failed, !.outcome = "transient"]
  <2>1. w.pc = "publish" /\ w.mode = "interrupted" /\ Becomes(Boot, w)
    BY <1>1 DEF Idle
  <2>. HIDE DEF w
  <2>. QED  BY <2>1, BootKnows DEF Interrupting, RepairsComplete
<1>2. ASSUME Becomes(Boot, [Idle EXCEPT !.pc = "repair_completions"])
      PROVE  RepairsKnown'
  <2>. DEFINE w == [Idle EXCEPT !.pc = "repair_completions"]
  <2>1. w.pc = "repair_completions" /\ w.mode = "drive" /\ Becomes(Boot, w)
    BY <1>2 DEF Idle
  <2>. HIDE DEF w
  <2>. QED  BY <2>1, BootKnows DEF RepairsComplete
<1>3. \/ Becomes(Boot, [Idle EXCEPT !.pc = "repair_completions"])
      \/ \E r \in Runs : \E failed :
            Becomes(Boot, [Idle EXCEPT !.pc = "publish", !.mode = "interrupted",
                               !.job = r, !.snap = failed, !.outcome = "transient"])
  BY ZenonT(30) DEF Interrupt
<1>. QED  BY <1>1, <1>2, <1>3

\* Every step of the constructor knows of every completion it has listed.
LEMMA BootStepKnown ==
    ASSUME Inductive, Inductive', Attended, RepairsKnown, BootStep
    PROVE  RepairsKnown'
<1>1. CASE Resubmit
  <2>1. worker'[Boot] = Idle
    BY <1>1 DEF Resubmit, Release, Becomes, Inductive, TypeOK, Threads
  <2>. QED  BY <2>1 DEF RepairsKnown, Up, At, Idle
<1>2. CASE Publishing(Boot)
  <2>1. Logs /\ run' = run
    BY <1>2, PublishingLogs DEF Threads
  <2>. QED  BY <1>2, <2>1, RepairTells, PublishKnown, ListCompletionsKnown, ListClarificationsKnown,
               RepairNextKnown, RepairDoneKnown DEF Publishing
<1>. QED  BY <1>1, <1>2, InterruptKnown DEF BootStep

\* Every step keeps what is known of the completions after a restart.
LEMMA NextKnown ==
    ASSUME Inductive, Inductive', Attended, RepairsKnown, [Next]_vars
    PROVE  RepairsKnown'
<1>1. CASE BootStep
  BY <1>1, BootStepKnown
<1>2. CASE Crash
  <2>1. worker'[Boot].pc = "interrupt" /\ worker'[Boot].mode = "drive"
    BY <1>2 DEF Crash, Idle, Threads
  <2>. QED  BY <2>1 DEF RepairsKnown, Interrupting, RepairsComplete
<1>3. CASE UNCHANGED vars
  BY <1>3 DEF vars, store, process, RepairsKnown, Up, At, IncompleteCompletions, Published
<1>4. CASE Up /\ ~BootStep /\ ~Crash
  BY <1>4, OthersKeepUp DEF RepairsKnown
<1>. QED  BY <1>1, <1>2, <1>3, <1>4, OnlyBootActs

\* The steps that keep the inductive invariant of the repair.
LEMMA NextRepaired ==
    ASSUME Inductive, Inductive', Attended, Repaired, [Next]_vars
    PROVE  Repaired'
BY NextAnswers, NextKnown DEF Repaired

\* Nothing is announced and the constructor of the first start has nothing to repair.
LEMMA InitRepaired == Init => Repaired
<1> SUFFICES ASSUME Init
             PROVE  Repaired
  OBVIOUS
<1>1. Up /\ \A t \in Threads : worker[t] = Idle
  BY DEF Init, Up, At, Idle, Threads
<1>2. \A r \in Runs : log[r] = <<>>
  BY DEF Init
<1>3. \A r \in Runs : ~Published(r, "RUN_COMPLETED")
  BY <1>2 DEF Published
<1>4. ~HasAnswered(Idle)
  BY DEF Idle, HasAnswered
<1>. QED  BY <1>1, <1>3, <1>4 DEF Repaired, AnnouncedAreAnswered, RepairsKnown

\* The constructor returns by submitting the queued runs again, and by nothing else.
LEMMA ReturnsResubmitting ==
    ASSUME Inductive, Inductive', Attended, ~Up, Up', [Next]_vars
    PROVE  Resubmit
<1>1. Boot \in Threads /\ worker \in [Threads -> Worker] /\ worker[Boot].pc # "idle"
  BY DEF Threads, Inductive, TypeOK, Up, At
<1>2. CASE Publishing(Boot)
  <2>1. PICK w : Announces(Boot, w) /\ Recovers(w)
    BY SMTT(60), <1>1, <1>2, PublishingAnnounces
  <2>2. worker'[Boot] = w /\ w.pc # "idle"
    BY <1>1, <2>1 DEF Announces, Recovers, Becomes
  <2>. QED  BY <2>2 DEF Up, At
<1>3. CASE Interrupt
  <2>1. ASSUME NEW r, NEW failed,
               Becomes(Boot, [Idle EXCEPT !.pc = "publish", !.mode = "interrupted",
                                   !.job = r, !.snap = failed, !.outcome = "transient"])
        PROVE  worker'[Boot].pc = "publish"
    BY <1>1, <2>1 DEF Becomes, Idle
  <2>2. ASSUME Becomes(Boot, [Idle EXCEPT !.pc = "repair_completions"])
        PROVE  worker'[Boot].pc = "repair_completions"
    BY <1>1, <2>2 DEF Becomes, Idle
  <2>3. worker'[Boot].pc \in {"publish", "repair_completions"}
    <3>1. \/ Becomes(Boot, [Idle EXCEPT !.pc = "repair_completions"])
          \/ \E r \in Runs : \E failed :
                Becomes(Boot, [Idle EXCEPT !.pc = "publish", !.mode = "interrupted",
                                   !.job = r, !.snap = failed, !.outcome = "transient"])
      BY ZenonT(30), <1>3 DEF Interrupt
    <3>. QED  BY <2>1, <2>2, <3>1
  <2>. QED  BY <2>3 DEF Up, At
<1>4. CASE Crash
  BY <1>4 DEF Crash, Idle, Threads, Up, At
<1>5. CASE UNCHANGED vars
  BY <1>5 DEF vars, process, Up, At
<1>. QED  BY <1>2, <1>3, <1>4, <1>5, OnlyBootActs DEF BootStep

\* When it does, every completion has its answer and its event and no run is active.
LEMMA ReturnsRepaired ==
    ASSUME Inductive, Inductive', Attended, Repaired, ~Up, Up', [Next]_vars
    PROVE  \A r \in Runs :
            /\ run[r].status = "COMPLETED" => messages[r].answer /\ Published(r, "RUN_COMPLETED")
            /\ run[r].status \notin Active
<1>1. worker[Boot].pc = "resubmit"
  BY ReturnsResubmitting DEF Resubmit, At
<1>2. \A r \in Runs : run[r].status \notin Active
  BY <1>1, BootDuties DEF Interrupting
<1>3. \A r \in IncompleteCompletions : Repairs(worker[Boot], r)
  BY <1>1, BootKnown DEF Interrupting, Repaired
<1>4. IncompleteCompletions = {}
  BY <1>1, <1>3 DEF Repairs, Telling
<1>5. ASSUME NEW r \in Runs, run[r].status = "COMPLETED"
      PROVE  messages[r].answer /\ Published(r, "RUN_COMPLETED")
  <2>1. Published(r, "RUN_COMPLETED")
    BY <1>4, <1>5 DEF IncompleteCompletions
  <2>2. conversation = "active"
    BY <1>5 DEF Attended, NobodyAnswersTheDeleted, Inductive, TypeOK
  <2>. QED  BY <2>1, <2>2 DEF Repaired, AnnouncedAreAnswered
<1>. QED  BY <1>2, <1>5

\* When the constructor returns, every completed run has its answer and its event and no run
\* is active, wherever the crash (or a crash during an earlier repair) happened
\* (recover_interrupted(), _recover_completions()).
THEOREM RestartRepairsCompletions == Spec => CompletionsRepaired
<1>. DEFINE Returned ==
        \A r \in Runs :
            /\ run[r].status = "COMPLETED" => messages[r].answer /\ Published(r, "RUN_COMPLETED")
            /\ run[r].status \notin Active
<1>1. Init => Inductive /\ Attended /\ Repaired
  BY InitInductive, InitAttended, InitRepaired
<1>2. Inductive /\ Attended /\ Repaired /\ [Next]_vars => (Inductive /\ Attended /\ Repaired)'
  BY NextInductive, NextAttended, NextRepaired
<1>3. ASSUME Inductive, Attended, Repaired, Inductive', [Next]_vars
      PROVE  ~Up /\ Up' => Returned
  BY <1>3, ReturnsRepaired
<1>4. (Inductive /\ Attended /\ Repaired) /\ (Inductive /\ Attended /\ Repaired)' /\ [Next]_vars
        => [~Up /\ Up' => Returned]_vars
  BY <1>3
<1>. QED  BY <1>1, <1>2, <1>4, PTL DEF Spec, CompletionsRepaired

=============================================================================
