-------------------------- MODULE DiagnosticProofs --------------------------
(***************************************************************************)
(* DiagnosticInductive is an inductive invariant of DiagnosticRun: what    *)
(* diagnoses rest on holds for every number of runs, threads and sources,  *)
(* and every budget.                                                       *)
(***************************************************************************)
EXTENDS DiagnosticProperties, FiniteSetTheorems, WellFoundedInduction, TLAPS

USE DEF At, Job, Snap, Ck, Becomes, history, store

-----------------------------------------------------------------------------
(* Places, tasks and budgets *)

\* There are finitely many places.
LEMMA FinitePlaces == IsFiniteSet(Places) /\ \A S \in SUBSET Places : IsFiniteSet(S)
<1>1. IsFiniteSet(1..MaxRounds) /\ IsFiniteSet(1..PerRound)
  BY BudgetAssumption, FS_Interval
<1>2. IsFiniteSet(Places)
  BY <1>1, FS_Product DEF Places
<1>. QED  BY <1>2, FS_Subset

\* A place of a round is none outside the rounds, and none of the special places.
LEMMA PlaceFacts ==
    ASSUME NEW p \in Places
    PROVE  /\ p[1] \in 1..MaxRounds /\ p[2] \in 1..PerRound /\ p = <<p[1], p[2]>>
           /\ p # Planner /\ p # NoPlace
BY BudgetAssumption DEF Places, Planner, NoPlace

\* A round and an ordinal of it make a place.
LEMMA PlaceOf ==
    ASSUME NEW n \in 1..MaxRounds, NEW o \in 1..PerRound
    PROVE  <<n, o>> \in Places /\ <<n, o>>[1] = n /\ <<n, o>>[2] = o
BY DEF Places

\* Counting completed tasks.
LEMMA DoneCount ==
    ASSUME NEW tasks
    PROVE  /\ Done(tasks) \subseteq Places /\ Verified(tasks) \subseteq Done(tasks)
           /\ Cardinality(Done(tasks)) \in Nat
BY FinitePlaces, FS_CardinalityType DEF Done, Verified

\* The records of nobody and of nothing.
LEMMA Nothings ==
    /\ NoRow \in Row /\ NoTask \in Task /\ NewTask \in Task /\ NewCheckpoint \in Checkpoint
    /\ Idle \in Worker /\ NoRun \notin Runs /\ NoSource \notin Sources
<1>1. NoRow \in Row
  BY DEF NoRow, Row, Response
<1>2. NoTask \in Task /\ NewTask \in Task
  BY DEF NoTask, NewTask, Task, TaskStatus
<1>3. NewCheckpoint \in Checkpoint
  BY BudgetAssumption DEF NewCheckpoint, Checkpoint
<1>4. Idle \in Worker
  <2>1. [o \in 1..PerRound |-> NoTask] \in [1..PerRound -> Task]
    BY <1>2
  <2>. HIDE DEF NoRow, NoTask, NewCheckpoint, NoPlace
  <2>. QED  BY <1>1, <1>3, <2>1 DEF Idle, Worker, PC, Subject
<1>. QED  BY <1>1, <1>2, <1>3, <1>4, RunsAssumption, SourcesAssumption

\* What is numbered, and how far.
LEMMA Numbers ==
    /\ \A run \in Row : run.revision \in Nat
    /\ \A held \in Task : held.revision \in Nat
    /\ \A c \in Checkpoint :
           /\ c.revision \in Nat /\ c.completed \in Nat
           /\ c.round \in Nat /\ c.round <= MaxRounds
           /\ c.remaining \in Nat /\ c.remaining <= MaxQuestions
    /\ {MaxQuestions, MaxRounds, PerRound} \subseteq Nat \ {0}
<1>1. \A run \in Row : run.revision \in Nat
  BY DEF Row
<1>2. \A held \in Task : held.revision \in Nat
  BY DEF Task
<1>3. \A c \in Checkpoint :
          /\ c.revision \in Nat /\ c.completed \in Nat
          /\ c.round \in Nat /\ c.round <= MaxRounds
          /\ c.remaining \in Nat /\ c.remaining <= MaxQuestions
  BY BudgetAssumption DEF Checkpoint
<1>. QED  BY <1>1, <1>2, <1>3, BudgetAssumption

\* An idle thread is sound and has seen nothing.
LEMMA IdleSound ==
    /\ ThreadSound(Idle) /\ ~Drives(Idle) /\ Idle.run = NoRun /\ Idle.pc = "idle"
    /\ Idle.seen = {} /\ Idle.repairs = {} /\ Idle \in Worker
<1>1. /\ Idle.run = NoRun /\ Idle.pc = "idle" /\ Idle.seen = {} /\ Idle.repairs = {}
      /\ Idle.repairing = FALSE
  BY DEF Idle
<1>. QED  BY <1>1, Nothings
          DEF ThreadSound, Drives, Entering, InRound, OnTask, Executing, Asked

\* The fields of a thread that only moves on.
LEMMA MovedOn ==
    ASSUME NEW w \in Worker, NEW label \in PC, NEW k, k = [w EXCEPT !.pc = label]
    PROVE  /\ k \in Worker /\ k.pc = label /\ k.run = w.run /\ k.snap = w.snap /\ k.ck = w.ck
           /\ k.tasks = w.tasks /\ k.todo = w.todo /\ k.place = w.place /\ k.seen = w.seen
           /\ k.found = w.found /\ k.outcome = w.outcome /\ k.then = w.then
           /\ k.expected = w.expected /\ k.repairs = w.repairs /\ k.repairing = w.repairing
BY DEF Worker

-----------------------------------------------------------------------------
(* One thread makes a step *)

\* What a step may do to the row, the tasks and the checkpoint of a run, so that the copies
\* other threads hold are still copies: whatever changes gets a higher revision, a new task
\* is of a new round, and what is completed stays.
Evolves(run, tasks, stored, run1, tasks1, stored1) ==
    /\ run1 = run \/ run1.revision > run.revision
    /\ Present(run1)
    /\ run.status = "COMPLETED" => run1.status = "COMPLETED"
    /\ stored1 = stored \/ stored1.revision > stored.revision
    /\ stored1.round >= stored.round
    /\ \A p \in Places : \/ tasks1[p] = tasks[p]
                         \/ tasks1[p].revision > tasks[p].revision
                         \/ p[1] > stored.round
    /\ \A p \in Places : tasks[p].status = "COMPLETED" => tasks1[p] = tasks[p]

\* Evidence that was verified stays so.
LEMMA VerifiedStays ==
    ASSUME NEW tasks, NEW tasks1,
           \A p \in Places : tasks[p].status = "COMPLETED" => tasks1[p] = tasks[p]
    PROVE  Verified(tasks) \subseteq Verified(tasks1)
BY DEF Verified, Done

\* A save of the checkpoint, with or without tasks, moves its run forward.
LEMMA CheckpointEvolves ==
    ASSUME NEW run, Present(run), NEW tasks, NEW tasks1, NEW stored, NEW stored1,
           stored1.revision > stored.revision, stored1.round >= stored.round,
           \A p \in Places : tasks1[p] = tasks[p] \/ p[1] > stored.round,
           \A p \in Places : tasks[p].status = "COMPLETED" => tasks1[p] = tasks[p]
    PROVE  Evolves(run, tasks, stored, run, tasks1, stored1)
BY ZenonT(60) DEF Evolves

\* A step on its run leaves the copies of another thread copies.
LEMMA CopiesStay ==
    ASSUME NEW w \in Worker, ThreadSound(w),
           NEW run \in Row, NEW tasks \in [Places -> Task], NEW stored \in Checkpoint,
           NEW run1 \in Row, NEW tasks1 \in [Places -> Task], NEW stored1 \in Checkpoint,
           HoldsCopies(w, run, tasks, stored),
           Evolves(run, tasks, stored, run1, tasks1, stored1)
    PROVE  HoldsCopies(w, run1, tasks1, stored1)
<1>1. Verified(tasks) # {} => Verified(tasks1) # {}
  <2>1. \A p \in Places : tasks[p].status = "COMPLETED" => tasks1[p] = tasks[p]
    BY DEF Evolves
  <2>. QED  BY <2>1, VerifiedStays
<1>2. /\ w.snap.revision \in Nat /\ run.revision \in Nat /\ run1.revision \in Nat
      /\ w.ck.revision \in Nat /\ stored.revision \in Nat /\ stored1.revision \in Nat
      /\ w.ck.round \in Nat /\ stored.round \in Nat /\ stored1.round \in Nat
      /\ w.ck.round <= MaxRounds /\ MaxRounds \in Nat
  BY Numbers DEF Worker
<1>3. /\ Present(run1)
      /\ w.pc \in Saving => /\ w.snap.revision <= run1.revision
                            /\ w.snap.revision = run1.revision => w.snap = run1
      /\ w.ck.round <= stored1.round
  BY <1>2 DEF HoldsCopies, Evolves
<1>4. Looping(w) => /\ w.ck.revision <= stored1.revision
                    /\ w.ck.revision = stored1.revision =>
                         /\ w.ck.round = stored1.round /\ w.ck.remaining = stored1.remaining
                         /\ w.pc # "repair" => w.ck = stored1
  BY <1>2 DEF HoldsCopies, Evolves
<1>5. ASSUME InRound(w), NEW o \in 1..PerRound, w.tasks[o].status # "ABSENT"
      PROVE  /\ w.tasks[o].revision <= tasks1[<<w.ck.round, o>>].revision
             /\ w.tasks[o].revision = tasks1[<<w.ck.round, o>>].revision =>
                    w.tasks[o] = tasks1[<<w.ck.round, o>>]
  <2>1. <<w.ck.round, o>> \in Places /\ <<w.ck.round, o>>[1] = w.ck.round
    BY <1>2, <1>5, PlaceOf DEF ThreadSound
  <2>2. PICK p \in Places : p = <<w.ck.round, o>>
    BY <2>1
  <2>3. /\ w.tasks[o].revision <= tasks[p].revision
        /\ w.tasks[o].revision = tasks[p].revision => w.tasks[o] = tasks[p]
        /\ ~(p[1] > stored.round)
    BY <1>2, <1>5, <2>1, <2>2 DEF HoldsCopies
  <2>4. w.tasks[o].revision \in Nat /\ tasks[p].revision \in Nat /\ tasks1[p].revision \in Nat
    BY DEF Worker, Task
  <2>5. tasks1[p] = tasks[p] \/ tasks1[p].revision > tasks[p].revision
    BY <2>3 DEF Evolves
  <2>. QED  BY <2>2, <2>3, <2>4, <2>5
<1>6. w.pc \in Announcing => run1.status = "COMPLETED"
  BY DEF HoldsCopies, Evolves
<1>. QED  BY <1>1, <1>3, <1>4, <1>5, <1>6 DEF HoldsCopies

\* What the invariant says of a thread and the run it works on.
LEMMA Knowing ==
    ASSUME DiagnosticInductive, NEW t \in Workers
    PROVE  /\ worker[t] \in Worker /\ ThreadSound(worker[t])
           /\ worker[t].seen \subseteq Grounded
           /\ \A q \in worker[t].repairs : q \in Runs /\ row[q].status = "COMPLETED"
           /\ Job(t) \in Runs =>
                 /\ HoldsCopies(worker[t], row[Job(t)], task[Job(t)], checkpoint[Job(t)])
                 /\ Job(t) \notin overrun /\ Drives(worker[t]) =>
                       DriveInOrder(worker[t], row[Job(t)], task[Job(t)], checkpoint[Job(t)])
<1>1. worker[t] \in Worker
  BY DEF DiagnosticInductive, DiagnosticTypeOK
<1>2. worker[t].repairs \subseteq Runs
  BY <1>1 DEF Worker
<1>. QED  BY <1>1, <1>2
          DEF DiagnosticInductive, ThreadsSound, CopiesHold, DrivesInOrder, FindingsGrounded

\* What it says of a run.
LEMMA KnowingRun ==
    ASSUME DiagnosticInductive, NEW r \in Runs
    PROVE  /\ row[r] \in Row /\ task[r] \in [Places -> Task] /\ checkpoint[r] \in Checkpoint
           /\ Paid(task[r], checkpoint[r])
           /\ row[r].status = "FAILED" /\ row[r].queued => row[r].retryable
           /\ r \notin overrun => RunInOrder(row[r], task[r], checkpoint[r])
BY DEF DiagnosticInductive, DiagnosticTypeOK, RunsPaid, RetriesAllowed, RunsInOrder

\* Runs whose findings are grounded stay so.
LEMMA GroundedStays ==
    ASSUME NEW r \in Runs, NEW run1, NEW tasks1,
           row \in [Runs -> Row], task \in [Runs -> [Places -> Task]],
           row' = [row EXCEPT ![r] = run1], task' = [task EXCEPT ![r] = tasks1],
           row[r].status = "COMPLETED" => run1.status = "COMPLETED",
           \A p \in Places : task[r][p].status = "COMPLETED" => tasks1[p] = task[r][p]
    PROVE  /\ Grounded \subseteq Grounded'
           /\ \A q \in Runs : row[q].status = "COMPLETED" => row'[q].status = "COMPLETED"
<1>1. Verified(task[r]) \subseteq Verified(tasks1)
  BY VerifiedStays
<1>2. \A q \in Runs : row[q].status = "COMPLETED" => row'[q].status = "COMPLETED"
  OBVIOUS
<1>3. \A q \in Runs : Verified(task[q]) \subseteq Verified(task'[q])
  BY <1>1
<1>4. ASSUME NEW q \in Grounded PROVE q \in Grounded'
  BY <1>2, <1>3 DEF Grounded, Verified, Done
<1>. QED  BY <1>2, <1>4

\* Thread t, as k, leaves run r in order, unless a drive has overrun it.
Orderly(t, k, r, run1, tasks1, stored1, over) ==
    r \notin over =>
        /\ RunInOrder(run1, tasks1, stored1)
        /\ k.run = r /\ Drives(k) => DriveInOrder(k, run1, tasks1, stored1)
        /\ \/ Job(t) = r /\ Drives(worker[t])
           \/ /\ run1 = row[r] /\ tasks1 = task[r] /\ stored1 = checkpoint[r]
              /\ k.run = r => ~Drives(k)
           \/ \A u \in Workers : Job(u) = r => ~Drives(worker[u])

\* A step of one thread on one run keeps the invariant, if the thread is sound afterwards, the
\* run evolves, and, where no drive has overrun the run, either the thread was the one that
\* drives it, or it leaves the run alone, or takes up a run that nobody drives.
LEMMA ThreadStep ==
    ASSUME DiagnosticInductive, NEW t \in Workers, NEW r \in Runs, NEW k \in Worker, Becomes(t, k),
           NEW run1 \in Row, NEW tasks1 \in [Places -> Task], NEW stored1 \in Checkpoint,
           row' = [row EXCEPT ![r] = run1], task' = [task EXCEPT ![r] = tasks1],
           checkpoint' = [checkpoint EXCEPT ![r] = stored1],
           Evolves(row[r], task[r], checkpoint[r], run1, tasks1, stored1),
           memory' \in [findings: SUBSET Runs, revision: Nat], memory'.findings \subseteq Grounded,
           announced' \subseteq Runs, events' \in Nat,
           overrun \subseteq overrun', overrun' \subseteq Runs,
           ThreadSound(k), k.run \in {r, NoRun},
           k.run = r => HoldsCopies(k, run1, tasks1, stored1),
           k.seen \subseteq Grounded, \A q \in k.repairs : row[q].status = "COMPLETED",
           Paid(tasks1, stored1), run1.status = "FAILED" /\ run1.queued => run1.retryable,
           Orderly(t, k, r, run1, tasks1, stored1, overrun')
    PROVE  DiagnosticInductive'
<1>1. worker'[t] = k /\ \A u \in Workers : u # t => worker'[u] = worker[u]
  BY DEF DiagnosticInductive, DiagnosticTypeOK
<1>2. /\ row \in [Runs -> Row] /\ task \in [Runs -> [Places -> Task]]
      /\ checkpoint \in [Runs -> Checkpoint]
  BY DEF DiagnosticInductive, DiagnosticTypeOK
<1>3. /\ row'[r] = run1 /\ task'[r] = tasks1 /\ checkpoint'[r] = stored1
      /\ \A q \in Runs : q # r => row'[q] = row[q] /\ task'[q] = task[q]
                                 /\ checkpoint'[q] = checkpoint[q]
  BY <1>2
<1>4. DiagnosticTypeOK'
  BY DEF DiagnosticInductive, DiagnosticTypeOK
<1>5. ThreadsSound'
  BY <1>1 DEF DiagnosticInductive, ThreadsSound
<1>6. NoRun \notin Runs /\ (k.run \in Runs => k.run = r)
  BY RunsAssumption
<1>7. CopiesHold'
  <2>. SUFFICES ASSUME NEW u \in Workers, worker'[u].run \in Runs
                PROVE  HoldsCopies(worker'[u], row'[worker'[u].run], task'[worker'[u].run],
                                   checkpoint'[worker'[u].run])
    BY DEF CopiesHold
  <2>1. CASE u = t
    BY <1>1, <1>3, <1>6, <2>1
  <2>2. CASE u # t /\ Job(u) = r
    <3>1. /\ worker[u] \in Worker /\ ThreadSound(worker[u])
          /\ HoldsCopies(worker[u], row[r], task[r], checkpoint[r])
      BY <2>2, Knowing
    <3>2. HoldsCopies(worker[u], run1, tasks1, stored1)
      BY <1>2, <3>1, CopiesStay
    <3>. QED  BY <1>1, <1>3, <2>2, <3>2
  <2>3. CASE u # t /\ Job(u) # r
    BY <1>1, <1>3, <2>3, Knowing
  <2>. QED  BY <2>1, <2>2, <2>3
<1>8. RunsPaid' /\ RetriesAllowed'
  BY <1>3 DEF DiagnosticInductive, RunsPaid, RetriesAllowed
<1>9. RunsInOrder'
  BY <1>3 DEF DiagnosticInductive, RunsInOrder, Orderly
<1>10. ASSUME NEW u \in Workers, u # t, Drives(worker[u]), Job(u) = r, r \notin overrun'
       PROVE  /\ run1 = row[r] /\ tasks1 = task[r] /\ stored1 = checkpoint[r]
              /\ k.run = r => ~Drives(k)
  BY <1>10 DEF DiagnosticInductive, OneDrive, Orderly
<1>11. DrivesInOrder'
  <2>. SUFFICES ASSUME NEW u \in Workers, Drives(worker'[u]), worker'[u].run \notin overrun'
                PROVE  DriveInOrder(worker'[u], row'[worker'[u].run], task'[worker'[u].run],
                                    checkpoint'[worker'[u].run])
    BY DEF DrivesInOrder
  <2>1. worker'[u].run \in Runs
    BY <1>5 DEF ThreadsSound, ThreadSound, Drives
  <2>2. CASE u = t
    BY <1>1, <1>3, <1>6, <2>1, <2>2 DEF Orderly
  <2>3. CASE u # t
    <3>1. DriveInOrder(worker[u], row[Job(u)], task[Job(u)], checkpoint[Job(u)])
      BY <1>1, <2>3 DEF DiagnosticInductive, DrivesInOrder
    <3>. QED  BY <1>1, <1>3, <1>10, <2>1, <2>3, <3>1
  <2>. QED  BY <2>2, <2>3
<1>12. OneDrive'
  <2>. SUFFICES ASSUME NEW u \in Workers, NEW v \in Workers, Drives(worker'[u]), Drives(worker'[v]),
                       worker'[u].run = worker'[v].run, worker'[u].run \notin overrun', u # v
                PROVE  FALSE
    BY DEF OneDrive
  <2>1. worker'[u].run \in Runs
    BY <1>5 DEF ThreadsSound, ThreadSound, Drives
  <2>2. CASE u = t
    BY <1>1, <1>6, <1>10, <2>1, <2>2
  <2>3. CASE v = t
    BY <1>1, <1>6, <1>10, <2>1, <2>3
  <2>4. CASE u # t /\ v # t
    BY <1>1, <2>4 DEF DiagnosticInductive, OneDrive
  <2>. QED  BY <2>2, <2>3, <2>4
<1>13. FindingsGrounded'
  <2>1. /\ Grounded \subseteq Grounded'
        /\ \A q \in Runs : row[q].status = "COMPLETED" => row'[q].status = "COMPLETED"
    BY ZenonT(60), <1>2, GroundedStays DEF Evolves
  <2>. QED  BY <1>1, <2>1 DEF DiagnosticInductive, FindingsGrounded
<1>. QED  BY <1>4, <1>5, <1>7, <1>8, <1>9, <1>11, <1>12, <1>13 DEF DiagnosticInductive

\* What thread t may become while the tables stay as they are.
Fits(t, k, over) ==
    /\ k \in Worker /\ ThreadSound(k)
    /\ k.seen \subseteq Grounded
    /\ \A q \in k.repairs : row[q].status = "COMPLETED"
    /\ k.run \in Runs => HoldsCopies(k, row[k.run], task[k.run], checkpoint[k.run])
    /\ Drives(k) /\ k.run \notin over =>
           /\ k.run = Job(t) /\ Drives(worker[t])
           /\ DriveInOrder(k, row[k.run], task[k.run], checkpoint[k.run])

\* A step that saves nothing of a run.
LEMMA FittingStep ==
    ASSUME DiagnosticInductive, NEW t \in Workers, NEW k, Becomes(t, k),
           row' = row, task' = task, checkpoint' = checkpoint,
           memory' \in [findings: SUBSET Runs, revision: Nat], memory'.findings \subseteq Grounded,
           announced' \subseteq Runs, events' = events,
           overrun \subseteq overrun', overrun' \subseteq Runs, Fits(t, k, overrun')
    PROVE  DiagnosticInductive'
<1>1. worker'[t] = k /\ \A u \in Workers : u # t => worker'[u] = worker[u]
  BY DEF DiagnosticInductive, DiagnosticTypeOK
<1>2. DiagnosticTypeOK'
  BY DEF DiagnosticInductive, DiagnosticTypeOK, Fits
<1>3. ThreadsSound' /\ RunsPaid' /\ RetriesAllowed' /\ RunsInOrder'
  BY <1>1 DEF DiagnosticInductive, ThreadsSound, RunsPaid, RetriesAllowed, RunsInOrder, Fits
<1>4. CopiesHold'
  BY <1>1 DEF DiagnosticInductive, CopiesHold, Fits
<1>5. DrivesInOrder'
  <2>. SUFFICES ASSUME NEW u \in Workers, Drives(worker'[u]), worker'[u].run \notin overrun'
                PROVE  DriveInOrder(worker'[u], row[worker'[u].run], task[worker'[u].run],
                                    checkpoint[worker'[u].run])
    BY DEF DrivesInOrder
  <2>1. CASE u = t
    BY <1>1, <2>1 DEF Fits
  <2>2. CASE u # t
    BY <1>1, <2>2 DEF DiagnosticInductive, DrivesInOrder
  <2>. QED  BY <2>1, <2>2
<1>6. OneDrive'
  BY <1>1 DEF DiagnosticInductive, OneDrive, Fits
<1>7. FindingsGrounded'
  <2>1. Grounded' = Grounded
    BY DEF Grounded
  <2>. QED  BY <1>1, <2>1 DEF DiagnosticInductive, FindingsGrounded, Fits
<1>. QED  BY <1>2, <1>3, <1>4, <1>5, <1>6, <1>7 DEF DiagnosticInductive

\* A step that reads the tables only.
LEMMA LocalStep ==
    ASSUME DiagnosticInductive, NEW t \in Workers, NEW k, Becomes(t, k),
           row' = row, task' = task, checkpoint' = checkpoint, memory' = memory,
           announced' = announced, events' = events,
           overrun \subseteq overrun', overrun' \subseteq Runs, Fits(t, k, overrun')
    PROVE  DiagnosticInductive'
<1>1. /\ memory' \in [findings: SUBSET Runs, revision: Nat] /\ memory'.findings \subseteq Grounded
      /\ announced' \subseteq Runs
  BY DEF DiagnosticInductive, DiagnosticTypeOK, FindingsGrounded
<1>. HIDE DEF Becomes
<1>. QED  BY <1>1, FittingStep

\* A thread may always give up.
LEMMA IdleFits ==
    ASSUME NEW t, NEW over
    PROVE  Fits(t, Idle, over)
BY IdleSound, Nothings DEF Fits

\* The record of a thread whose exception has reached the handler.
LEMMA RaisedRecord ==
    ASSUME NEW r \in Runs, NEW fault \in Fault
    PROVE  /\ Raised(r, fault) \in Worker /\ Raised(r, fault).pc = "except"
           /\ Raised(r, fault).run = r /\ Raised(r, fault).outcome = fault
           /\ Raised(r, fault).ck = NewCheckpoint /\ Raised(r, fault).seen = {}
           /\ Raised(r, fault).repairs = {} /\ ~Raised(r, fault).repairing
           /\ ThreadSound(Raised(r, fault))
<1>1. /\ Raised(r, fault) \in Worker /\ Raised(r, fault).pc = "except"
      /\ Raised(r, fault).run = r /\ Raised(r, fault).outcome = fault
      /\ Raised(r, fault).ck = NewCheckpoint /\ Raised(r, fault).seen = {}
      /\ Raised(r, fault).repairs = {} /\ ~Raised(r, fault).repairing
  <2>1. PICK k : k = Raised(r, fault)
    OBVIOUS
  <2>2. k \in Worker
    BY ZenonT(60), <2>1, Nothings DEF Raised, Worker, PC
  <2>3. /\ k.pc = "except" /\ k.run = r /\ k.outcome = fault /\ k.ck = Idle.ck
        /\ k.seen = Idle.seen /\ k.repairs = Idle.repairs /\ k.repairing = Idle.repairing
    BY <2>1, Nothings DEF Raised, Worker
  <2>4. Idle.ck = NewCheckpoint /\ Idle.repairing = FALSE
    BY DEF Idle
  <2>. QED  BY <2>1, <2>2, <2>3, <2>4, IdleSound
<1>2. ThreadSound(Raised(r, fault))
  BY <1>1 DEF ThreadSound, Entering, InRound, OnTask, Executing, Asked
<1>. QED  BY <1>1, <1>2

\* What a raised exception leaves to the handler.
LEMMA RaisedHolds ==
    ASSUME NEW r \in Runs, NEW fault \in Fault, NEW run, Present(run), NEW tasks,
           NEW stored \in Checkpoint
    PROVE  HoldsCopies(Raised(r, fault), run, tasks, stored)
<1>1. NewCheckpoint.round <= stored.round
  BY Numbers DEF NewCheckpoint
<1>. QED  BY <1>1, RaisedRecord
          DEF HoldsCopies, Saving, Looping, Entering, InRound, OnTask, Executing, Asked, Announcing

\* And what it leaves of the order of its drive: a run whose task is RUNNING does not fail
\* with a fault that can be retried.
LEMMA RaisedInOrder ==
    ASSUME NEW r \in Runs, NEW fault \in Fault, NEW run, NEW tasks, NEW stored,
           run.status \in Active \cup {"CANCELLED", "COMPLETED"},
           fault # "transient" \/ \A p \in Places : tasks[p].status # "RUNNING"
    PROVE  DriveInOrder(Raised(r, fault), run, tasks, stored)
BY RaisedRecord
   DEF DriveInOrder, Failing, Concluded, Looping, Entering, InRound, OnTask, Executing, Asked

\* The row of a run that a thread drives.
LEMMA DrivenRow ==
    ASSUME NEW w \in Worker, NEW run, NEW tasks, NEW stored,
           HoldsCopies(w, run, tasks, stored), DriveInOrder(w, run, tasks, stored)
    PROVE  run.status \in Active \cup {"CANCELLED", "COMPLETED"} /\ ~Resumable(run)
<1>1. run.status \in Active \cup {"CANCELLED", "COMPLETED"}
  BY DEF HoldsCopies, DriveInOrder
<1>. QED  BY <1>1 DEF Resumable, Active

\* Raising an exception that no retry follows keeps the invariant.
LEMMA RaiseFits ==
    ASSUME DiagnosticInductive, NEW t \in Workers, NEW fault \in {"blocked", "permanent"},
           worker[t].pc \notin {"idle", "repairs", "after"}, ~worker[t].repairing
    PROVE  Fits(t, Raised(Job(t), fault), overrun)
<1>1. Job(t) \in Runs /\ fault \in Fault /\ Drives(worker[t])
  BY Knowing DEF ThreadSound, Fault, Drives, Parked
<1>2. HoldsCopies(worker[t], row[Job(t)], task[Job(t)], checkpoint[Job(t)])
  BY <1>1, Knowing
<1>3. HoldsCopies(Raised(Job(t), fault), row[Job(t)], task[Job(t)], checkpoint[Job(t)])
  BY SMTT(60), <1>1, <1>2, KnowingRun, RaisedHolds DEF HoldsCopies
<1>4. ASSUME Job(t) \notin overrun
      PROVE  DriveInOrder(Raised(Job(t), fault), row[Job(t)], task[Job(t)], checkpoint[Job(t)])
  <2>1. row[Job(t)].status \in Active \cup {"CANCELLED", "COMPLETED"}
    BY <1>1, <1>2, <1>4, Knowing, DrivenRow
  <2>. QED  BY <1>1, <2>1, RaisedInOrder
<1>. QED  BY <1>1, <1>3, <1>4, RaisedRecord DEF Fits

\* The same for Raise, which ends a repair.
LEMMA RaiseStep ==
    ASSUME DiagnosticInductive, NEW t \in Workers, NEW fault \in {"blocked", "permanent"},
           worker[t].pc \notin {"idle", "repairs", "after"}, Raise(t, fault),
           row' = row, task' = task, checkpoint' = checkpoint, memory' = memory,
           announced' = announced, overrun' = overrun, events' = events
    PROVE  DiagnosticInductive'
<1>1. overrun \subseteq Runs
  BY DEF DiagnosticInductive, DiagnosticTypeOK
<1>2. CASE worker[t].repairing
  <2>1. Becomes(t, Idle)
    BY <1>2 DEF Raise
  <2>2. Fits(t, Idle, overrun')
    BY IdleFits
  <2>. HIDE DEF Becomes
  <2>. QED  BY <1>1, <2>1, <2>2, LocalStep
<1>3. CASE ~worker[t].repairing
  <2>1. PICK k : k = Raised(Job(t), fault)
    OBVIOUS
  <2>2. Becomes(t, k)
    BY <1>3, <2>1 DEF Raise
  <2>3. Fits(t, k, overrun')
    BY <1>3, <2>1, RaiseFits
  <2>. HIDE DEF Becomes
  <2>. QED  BY <1>1, <2>2, <2>3, LocalStep
<1>. QED  BY <1>2, <1>3

\* A check that found a request to cancel: the thread will save a cancellation.
LEMMA CancelFits ==
    ASSUME DiagnosticInductive, NEW t \in Workers, NEW then \in {"idle", "skip"},
           worker[t].pc \in {"round", "next", "ask", "ended", "synthesize", "check_failure"},
           then = "skip" <=> worker[t].pc \in {"ask", "ended"},
           row[Job(t)].status \notin Terminal
    PROVE  Fits(t, [worker[t] EXCEPT !.pc = "cancel", !.snap = row[Job(t)], !.then = then], overrun)
<1>. DEFINE w == worker[t]
<1>1. PICK k : k = [w EXCEPT !.pc = "cancel", !.snap = row[Job(t)], !.then = then]
  OBVIOUS
<1>2. /\ w \in Worker /\ ThreadSound(w) /\ Job(t) \in Runs /\ Drives(w) /\ ~w.repairing
      /\ HoldsCopies(w, row[Job(t)], task[Job(t)], checkpoint[Job(t)])
  BY Knowing DEF ThreadSound, Drives, Parked, Announcing
<1>3. /\ k \in Worker /\ k.pc = "cancel" /\ k.then = then /\ k.run = w.run /\ k.snap = row[Job(t)]
      /\ k.ck = w.ck /\ k.tasks = w.tasks /\ k.todo = w.todo /\ k.place = w.place
      /\ k.seen = w.seen /\ k.found = w.found /\ k.repairs = w.repairs /\ ~k.repairing
  BY ZenonT(60), <1>1, <1>2, KnowingRun DEF Worker, PC
<1>4. /\ Executing(k) <=> then = "skip"
      /\ InRound(k) <=> then = "skip"
      /\ OnTask(k) <=> then = "skip"
      /\ Looping(k) <=> then = "skip"
      /\ ~Asked(k) /\ HeldBy(k) = HeldBy(w)
      /\ Executing(k) => Executing(w) /\ InRound(w) /\ OnTask(w) /\ Looping(w)
  BY <1>3 DEF Executing, InRound, OnTask, Looping, Entering, Asked, HeldBy
<1>5. ThreadSound(k)
  BY <1>2, <1>3, <1>4 DEF ThreadSound, Entering, Announcing
<1>6. HoldsCopies(k, row[Job(t)], task[Job(t)], checkpoint[Job(t)])
  BY <1>2, <1>3, <1>4, KnowingRun, Numbers DEF HoldsCopies, Announcing
<1>7. ASSUME Job(t) \notin overrun
      PROVE  DriveInOrder(k, row[Job(t)], task[Job(t)], checkpoint[Job(t)])
  <2>1. DriveInOrder(w, row[Job(t)], task[Job(t)], checkpoint[Job(t)])
    BY <1>2, <1>7, Knowing
  <2>2. row[Job(t)].status \in Active
    BY <1>2, <2>1, DrivenRow DEF Terminal, Settled
  <2>. QED  BY <1>3, <1>4, <2>1, <2>2 DEF DriveInOrder, Failing, Concluded, Leaving
<1>. QED  BY <1>1, <1>2, <1>3, <1>5, <1>6, <1>7, Knowing DEF Fits

\* A check that found the run over: an asked task is skipped.
LEMMA SkipFits ==
    ASSUME DiagnosticInductive, NEW t \in Workers,
           worker[t].pc \in {"ask", "ended"}, row[Job(t)].status \in Terminal
    PROVE  Fits(t, [worker[t] EXCEPT !.pc = "skip"], overrun)
<1>. DEFINE w == worker[t]
<1>1. PICK k : k = [w EXCEPT !.pc = "skip"]
  OBVIOUS
<1>2. /\ w \in Worker /\ ThreadSound(w) /\ Job(t) \in Runs /\ Drives(w) /\ ~w.repairing
      /\ HoldsCopies(w, row[Job(t)], task[Job(t)], checkpoint[Job(t)])
  BY Knowing DEF ThreadSound, Drives, Parked, Announcing
<1>3. /\ k \in Worker /\ k.pc = "skip" /\ k.run = w.run /\ k.ck = w.ck
      /\ k.tasks = w.tasks /\ k.todo = w.todo /\ k.place = w.place
      /\ k.seen = w.seen /\ k.found = w.found /\ k.repairs = w.repairs /\ ~k.repairing
  BY <1>1, <1>2, MovedOn DEF PC
<1>4. /\ Executing(k) /\ InRound(k) /\ OnTask(k) /\ Looping(k) /\ ~Asked(k) /\ HeldBy(k) = HeldBy(w)
      /\ Executing(w) /\ InRound(w) /\ OnTask(w) /\ Looping(w)
  BY <1>3 DEF Executing, InRound, OnTask, Looping, Entering, Asked, HeldBy
<1>5. ThreadSound(k)
  BY SMTT(60), <1>2, <1>3, <1>4 DEF ThreadSound, Entering, Announcing
<1>6. HoldsCopies(k, row[Job(t)], task[Job(t)], checkpoint[Job(t)])
  BY <1>2, <1>3, <1>4 DEF HoldsCopies, Announcing, Saving
<1>7. Job(t) \in overrun
  <2>1. Job(t) \notin overrun => row[Job(t)].status \in Active
    BY <1>2, Knowing DEF DriveInOrder, Failing, Announcing
  <2>. QED  BY <2>1 DEF Active, Terminal, Settled
<1>. QED  BY <1>1, <1>2, <1>3, <1>5, <1>6, <1>7, Knowing DEF Fits

\* A check keeps the invariant if what the thread does without a request does.
LEMMA CheckStep ==
    ASSUME DiagnosticInductive, NEW t \in Workers, NEW then \in {"idle", "skip"}, NEW next,
           worker[t].pc \in {"round", "next", "ask", "ended", "synthesize", "check_failure"},
           then = "skip" <=> worker[t].pc \in {"ask", "ended"},
           CheckCancel(t, then, next),
           ~row[Job(t)].cancel => Fits(t, next, overrun),
           UNCHANGED <<store, history>>
    PROVE  DiagnosticInductive'
<1>1. overrun \subseteq Runs
  BY DEF DiagnosticInductive, DiagnosticTypeOK
<1>2. PICK k : Becomes(t, k) /\ Fits(t, k, overrun)
  <2>1. CASE ~row[Job(t)].cancel
    BY <2>1 DEF CheckCancel
  <2>2. CASE row[Job(t)].cancel /\ row[Job(t)].status \in Terminal /\ then = "idle"
    BY <2>2, IdleFits DEF CheckCancel, Step
  <2>3. CASE row[Job(t)].cancel /\ row[Job(t)].status \in Terminal /\ then = "skip"
    BY ZenonT(60), <2>3, SkipFits DEF CheckCancel, Step
  <2>4. CASE row[Job(t)].cancel /\ row[Job(t)].status \notin Terminal
    BY <2>4, CancelFits DEF CheckCancel
  <2>. QED  BY <2>1, <2>2, <2>3, <2>4
<1>3. Fits(t, k, overrun')
  BY <1>2
<1>. HIDE DEF Becomes
<1>. QED  BY <1>1, <1>2, <1>3, LocalStep

-----------------------------------------------------------------------------
(* Steps that read the tables only *)

\* What the invariant says of a thread at work.
LEMMA Here ==
    ASSUME DiagnosticInductive, NEW t \in Workers, worker[t].pc \notin {"idle", "repairs"}
    PROVE  /\ worker[t] \in Worker /\ ThreadSound(worker[t]) /\ Job(t) \in Runs
           /\ HoldsCopies(worker[t], row[Job(t)], task[Job(t)], checkpoint[Job(t)])
           /\ row[Job(t)] \in Row /\ task[Job(t)] \in [Places -> Task]
           /\ checkpoint[Job(t)] \in Checkpoint
           /\ worker[t].seen \subseteq Grounded
           /\ \A q \in worker[t].repairs : row[q].status = "COMPLETED"
           /\ worker[t].pc \notin Announcing => ~worker[t].repairing
           /\ worker[t].pc \notin Announcing \cup {"after"} => Drives(worker[t])
           /\ Job(t) \notin overrun /\ Drives(worker[t]) =>
                /\ DriveInOrder(worker[t], row[Job(t)], task[Job(t)], checkpoint[Job(t)])
                /\ RunInOrder(row[Job(t)], task[Job(t)], checkpoint[Job(t)])
           /\ Paid(task[Job(t)], checkpoint[Job(t)])
<1>1. Job(t) \in Runs
  BY Knowing DEF ThreadSound
<1>. QED  BY <1>1, Knowing, KnowingRun DEF ThreadSound, Drives, Parked

\* A driver's rounds and budget are the stored ones.
LEMMA DriversCheckpoint ==
    ASSUME NEW w \in Worker, NEW run, NEW tasks, NEW stored,
           HoldsCopies(w, run, tasks, stored), DriveInOrder(w, run, tasks, stored), Looping(w)
    PROVE  /\ w.ck.round = stored.round /\ w.ck.remaining = stored.remaining
           /\ w.pc # "repair" => w.ck = stored
BY DEF HoldsCopies, DriveInOrder

\* When the current round is at rest, all tasks are.
LEMMA RoundAtRest ==
    ASSUME NEW run, NEW tasks \in [Places -> Task], NEW stored \in Checkpoint,
           RunInOrder(run, tasks, stored), Paid(tasks, stored),
           \A o \in 1..PerRound : stored.round > 0 => AtRest(tasks[<<stored.round, o>>])
    PROVE  \A p \in Places : AtRest(tasks[p])
<1>. SUFFICES ASSUME NEW p \in Places PROVE AtRest(tasks[p])
  OBVIOUS
<1>1. /\ p[1] \in Nat /\ p[1] > 0 /\ p[2] \in 1..PerRound /\ p = <<p[1], p[2]>>
      /\ stored.round \in Nat
  BY PlaceFacts, Numbers
<1>2. CASE p[1] < stored.round
  BY <1>2 DEF RunInOrder
<1>3. CASE p[1] = stored.round
  BY <1>1, <1>3
<1>4. CASE p[1] > stored.round
  <2>1. ~(p[1] <= stored.round)
    BY <1>1, <1>4
  <2>2. tasks[p].status = "ABSENT"
    BY <2>1 DEF Paid
  <2>. QED  BY <2>2 DEF AtRest
<1>. QED  BY <1>1, <1>2, <1>3, <1>4

\* The tasks of a round, as a drive reads them.
LEMMA ReadTasks ==
    ASSUME NEW r \in Runs, task[r] \in [Places -> Task], NEW n \in 0..MaxRounds, NEW ts,
           ts = TasksOfRound(r, n)
    PROVE  /\ ts \in [1..PerRound -> Task]
           /\ \A o \in 1..PerRound : ts[o] = IF n = 0 THEN NoTask ELSE task[r][<<n, o>>]
           /\ Stored(ts) \subseteq 1..PerRound
           /\ \A o \in 1..PerRound : o \in Stored(ts) <=> ts[o].status # "ABSENT"
           /\ Unfinished(ts) => n > 0
           /\ ~Unfinished(ts) => \A o \in 1..PerRound : AtRest(ts[o])
<1>1. \A o \in 1..PerRound : ts[o] = IF n = 0 THEN NoTask ELSE task[r][<<n, o>>]
  BY DEF TasksOfRound
<1>2. \A o \in 1..PerRound : n # 0 => <<n, o>> \in Places
  BY BudgetAssumption, PlaceOf
<1>3. ts \in [1..PerRound -> Task]
  BY <1>1, <1>2, Nothings DEF TasksOfRound
<1>4. NoTask.status = "ABSENT"
  BY DEF NoTask
<1>5. DOMAIN ts = 1..PerRound
  BY <1>3
<1>6. Unfinished(ts) => n # 0
  BY <1>1, <1>4, <1>5 DEF Unfinished
<1>7. n # 0 => n > 0
  BY BudgetAssumption
<1>. QED  BY <1>1, <1>3, <1>5, <1>6, <1>7 DEF Stored, Unfinished, AtRest

\* Leaving the loop, with all tasks at rest.
LEMMA ConcludingFits ==
    ASSUME DiagnosticInductive, NEW t \in Workers,
           worker[t].pc \in {"tasks", "plan", "planned", "next"},
           Job(t) \notin overrun => \A p \in Places : AtRest(task[Job(t)][p])
    PROVE  Fits(t, Concluding(t), overrun)
<1>. DEFINE w == worker[t]
<1>1. PICK k : k = Concluding(t)
  OBVIOUS
<1>2. /\ w \in Worker /\ Job(t) \in Runs /\ w.seen \subseteq Grounded /\ Drives(w)
      /\ HoldsCopies(w, row[Job(t)], task[Job(t)], checkpoint[Job(t)])
      /\ checkpoint[Job(t)] \in Checkpoint
  BY Here DEF Announcing
<1>3. /\ k \in Worker /\ k.pc = "synthesize" /\ k.run = Job(t) /\ k.seen = w.seen
      /\ k.ck = Idle.ck /\ k.repairs = Idle.repairs /\ k.repairing = Idle.repairing
  BY ZenonT(60), <1>1, <1>2, Nothings DEF Concluding, Worker, PC
<1>4. Idle.ck = NewCheckpoint /\ Idle.repairing = FALSE /\ Idle.repairs = {}
  BY DEF Idle
<1>5. ThreadSound(k)
  BY <1>2, <1>3, <1>4 DEF ThreadSound, Entering, InRound, OnTask, Executing, Asked
<1>6. HoldsCopies(k, row[Job(t)], task[Job(t)], checkpoint[Job(t)])
  <2>1. NewCheckpoint.round <= checkpoint[Job(t)].round
    BY <1>2, Numbers DEF NewCheckpoint
  <2>. QED  BY <1>2, <1>3, <1>4, <2>1
            DEF HoldsCopies, Saving, Looping, Entering, InRound, OnTask, Executing, Asked, Announcing
<1>7. ASSUME Job(t) \notin overrun
      PROVE  DriveInOrder(k, row[Job(t)], task[Job(t)], checkpoint[Job(t)])
  <2>1. DriveInOrder(w, row[Job(t)], task[Job(t)], checkpoint[Job(t)])
    BY <1>2, <1>7, Here
  <2>2. row[Job(t)].status \in Active /\ Tallied(task[Job(t)], checkpoint[Job(t)])
    BY <2>1 DEF DriveInOrder, Failing, Announcing, Leaving
  <2>. QED  BY <1>3, <1>7, <2>2
            DEF DriveInOrder, Failing, Looping, Entering, InRound, OnTask, Executing, Asked,
                Leaving, AtRest
<1>. QED  BY <1>1, <1>2, <1>3, <1>4, <1>5, <1>6, <1>7 DEF Fits

\* The next round begins with a look for a request to cancel.
LEMMA CheckRoundStep ==
    ASSUME DiagnosticInductive, NEW t \in Workers, CheckRound(t)
    PROVE  DiagnosticInductive'
<1>. DEFINE w == worker[t]
<1>1. PICK k : k = [w EXCEPT !.pc = "tasks"]
  OBVIOUS
<1>2. w.pc = "round"
  BY DEF CheckRound
<1>3. /\ k \in Worker /\ k.pc = "tasks" /\ k.run = w.run /\ k.ck = w.ck /\ k.tasks = w.tasks
      /\ k.todo = w.todo /\ k.seen = w.seen /\ k.repairs = w.repairs /\ k.repairing = w.repairing
  BY <1>1, <1>2, Here, MovedOn DEF PC
<1>4. Fits(t, k, overrun)
  <2>1. ThreadSound(k)
    BY SMTT(60), <1>2, <1>3, Here
       DEF ThreadSound, Entering, InRound, OnTask, Executing, Asked, Announcing
  <2>2. HoldsCopies(k, row[Job(t)], task[Job(t)], checkpoint[Job(t)])
    BY <1>2, <1>3, Here
       DEF HoldsCopies, Saving, Looping, Entering, InRound, OnTask, Executing, Asked, Announcing
  <2>3. ASSUME Job(t) \notin overrun
        PROVE  DriveInOrder(k, row[Job(t)], task[Job(t)], checkpoint[Job(t)])
    <3>1. DriveInOrder(w, row[Job(t)], task[Job(t)], checkpoint[Job(t)])
      BY SMTT(60), <1>2, <2>3, Here DEF Announcing
    <3>. QED  BY <1>2, <1>3, <3>1
              DEF DriveInOrder, Failing, Announcing, Concluded, Looping, Entering, InRound, OnTask,
                  Executing, Asked, Leaving
  <2>. QED  BY <1>2, <1>3, <2>1, <2>2, <2>3, Here DEF Fits, Announcing
<1>. QED  BY <1>1, <1>2, <1>4, CheckStep DEF CheckRound

\* A drive goes on with the tasks of its round as they are stored.
LEMMA NextFits ==
    ASSUME DiagnosticInductive, NEW t \in Workers, worker[t].pc \in {"tasks", "planned"},
           NEW ts, ts = TasksOfRound(Job(t), Ck(t).round), Ck(t).round > 0,
           NEW k, k = [worker[t] EXCEPT !.pc = "next", !.tasks = ts, !.todo = Stored(ts)]
    PROVE  Fits(t, k, overrun)
<1>. DEFINE w == worker[t]
<1>1. /\ w \in Worker /\ ThreadSound(w) /\ Job(t) \in Runs /\ Drives(w) /\ ~w.repairing
      /\ HoldsCopies(w, row[Job(t)], task[Job(t)], checkpoint[Job(t)])
      /\ row[Job(t)] \in Row /\ task[Job(t)] \in [Places -> Task]
      /\ checkpoint[Job(t)] \in Checkpoint /\ w.ck \in Checkpoint
  BY Here DEF Announcing, Worker
<1>2. w.ck.round \in 0..MaxRounds /\ w.ck.round \in Nat /\ w.ck.round > 0
  BY <1>1, Numbers DEF Checkpoint
<1>3. /\ ts \in [1..PerRound -> Task]
      /\ \A o \in 1..PerRound : ts[o] = task[Job(t)][<<w.ck.round, o>>]
      /\ Stored(ts) \subseteq 1..PerRound
      /\ \A o \in 1..PerRound : o \in Stored(ts) <=> ts[o].status # "ABSENT"
  BY SMTT(60), <1>1, <1>2, ReadTasks
<1>4. /\ k \in Worker /\ k.pc = "next" /\ k.run = w.run /\ k.ck = w.ck /\ k.tasks = ts
      /\ k.todo = Stored(ts) /\ k.seen = w.seen /\ k.repairs = w.repairs
      /\ k.repairing = w.repairing
  BY ZenonT(60), <1>1, <1>3 DEF Worker, PC
<1>5. InRound(k) /\ ~OnTask(k) /\ ~Executing(k) /\ ~Asked(k) /\ Looping(k) /\ Looping(w)
  BY <1>4 DEF InRound, OnTask, Executing, Asked, Looping, Entering
<1>6. ThreadSound(k)
  BY <1>1, <1>2, <1>3, <1>4, <1>5 DEF ThreadSound, Entering, Announcing
<1>7. HoldsCopies(k, row[Job(t)], task[Job(t)], checkpoint[Job(t)])
  <2>1. \A o \in 1..PerRound : task[Job(t)][<<w.ck.round, o>>] \in Task
    BY <1>3
  <2>2. \A o \in 1..PerRound :
            task[Job(t)][<<w.ck.round, o>>].revision <= task[Job(t)][<<w.ck.round, o>>].revision
    BY <2>1, Numbers
  <2>3. w.pc # "repair"
    OBVIOUS
  <2>. QED  BY ZenonT(60), <1>1, <1>3, <1>4, <1>5, <2>2, <2>3 DEF HoldsCopies, Announcing, Saving
<1>8. ASSUME Job(t) \notin overrun
      PROVE  DriveInOrder(k, row[Job(t)], task[Job(t)], checkpoint[Job(t)])
  <2>1. DriveInOrder(w, row[Job(t)], task[Job(t)], checkpoint[Job(t)])
    BY <1>1, <1>8, Here
  <2>2. \A o \in 1..PerRound : o \in k.todo \/ AtRest(k.tasks[o])
    BY <1>3, <1>4 DEF AtRest
  <2>3. ~Executing(w) /\ ~Leaving(w)
    BY DEF Executing, Leaving
  <2>. QED  BY <1>3, <1>4, <1>5, <2>1, <2>2, <2>3
            DEF DriveInOrder, Failing, Concluded, Announcing, Leaving
<1>. QED  BY <1>1, <1>4, <1>6, <1>7, <1>8, Here DEF Fits

\* The tasks of the round are read: on with them, with another round, or to the end.
LEMMA ReadRoundStep ==
    ASSUME DiagnosticInductive, NEW t \in Workers, ReadRound(t)
    PROVE  DiagnosticInductive'
<1>. DEFINE w == worker[t]
            ts == TasksOfRound(Job(t), Ck(t).round)
<1>1. /\ w.pc = "tasks" /\ w \in Worker /\ ThreadSound(w) /\ Job(t) \in Runs /\ Drives(w)
      /\ HoldsCopies(w, row[Job(t)], task[Job(t)], checkpoint[Job(t)]) /\ ~w.repairing
      /\ task[Job(t)] \in [Places -> Task] /\ checkpoint[Job(t)] \in Checkpoint
      /\ w.ck \in Checkpoint
  BY Here DEF ReadRound, Announcing, Worker
<1>2. w.ck.round \in 0..MaxRounds
  BY <1>1 DEF Checkpoint
<1>3. /\ Unfinished(ts) => w.ck.round > 0
      /\ ~Unfinished(ts) => \A o \in 1..PerRound : AtRest(ts[o])
      /\ \A o \in 1..PerRound : w.ck.round # 0 => ts[o] = task[Job(t)][<<w.ck.round, o>>]
  BY <1>1, <1>2, ReadTasks
<1>4. ASSUME ~Unfinished(ts), Job(t) \notin overrun
      PROVE  \A p \in Places : AtRest(task[Job(t)][p])
  <2>1. Looping(w)
    BY <1>1 DEF Looping, Entering
  <2>2. w.ck.round = checkpoint[Job(t)].round
    BY <1>1, <1>4, <2>1, Here, DriversCheckpoint
  <2>3. \A o \in 1..PerRound : checkpoint[Job(t)].round > 0 =>
            AtRest(task[Job(t)][<<checkpoint[Job(t)].round, o>>])
    <3>1. w.ck.round > 0 => w.ck.round # 0
      OBVIOUS
    <3>. QED  BY <1>3, <1>4, <2>2, <3>1 DEF AtRest
  <2>. QED  BY ZenonT(60), <1>1, <1>4, <2>3, Here, RoundAtRest
<1>5. CASE Unfinished(ts)
  <2>1. PICK k : k = [w EXCEPT !.pc = "next", !.tasks = ts, !.todo = Stored(ts)]
    OBVIOUS
  <2>2. Becomes(t, k)
    BY <1>5, <2>1 DEF ReadRound
  <2>3. Fits(t, k, overrun)
    BY <1>1, <1>3, <1>5, <2>1, NextFits
  <2>. QED  BY ZenonT(60), <2>2, <2>3, LocalStep
               DEF ReadRound, DiagnosticInductive, DiagnosticTypeOK
<1>6. CASE ~Unfinished(ts) /\ (w.ck.round >= MaxRounds \/ w.ck.remaining = 0)
  <2>1. PICK k : k = Concluding(t)
    OBVIOUS
  <2>2. Becomes(t, k)
    BY <1>6, <2>1 DEF ReadRound
  <2>3. Fits(t, k, overrun)
    BY <1>1, <1>4, <1>6, <2>1, ConcludingFits
  <2>. QED  BY <2>2, <2>3, LocalStep DEF ReadRound, DiagnosticInductive, DiagnosticTypeOK
<1>7. CASE ~Unfinished(ts) /\ ~(w.ck.round >= MaxRounds \/ w.ck.remaining = 0)
  <2>1. PICK k : k = [w EXCEPT !.pc = "plan"]
    OBVIOUS
  <2>2. Becomes(t, k)
    BY <1>7, <2>1 DEF ReadRound
  <2>3. /\ k \in Worker /\ k.pc = "plan" /\ k.run = w.run /\ k.ck = w.ck /\ k.tasks = w.tasks
        /\ k.seen = w.seen /\ k.repairs = w.repairs /\ k.repairing = w.repairing
    BY <1>1, <2>1, MovedOn DEF PC
  <2>4. w.ck.round < MaxRounds /\ w.ck.remaining > 0
    BY <1>1, <1>7, Numbers
  <2>5. ThreadSound(k)
    BY <1>1, <2>3, <2>4 DEF ThreadSound, Entering, InRound, OnTask, Executing, Asked, Announcing
  <2>6. HoldsCopies(k, row[Job(t)], task[Job(t)], checkpoint[Job(t)])
    BY <1>1, <2>3
       DEF HoldsCopies, Saving, Looping, Entering, InRound, OnTask, Executing, Asked, Announcing
  <2>7. ASSUME Job(t) \notin overrun
        PROVE  DriveInOrder(k, row[Job(t)], task[Job(t)], checkpoint[Job(t)])
    <3>1. DriveInOrder(w, row[Job(t)], task[Job(t)], checkpoint[Job(t)])
      BY <1>1, <2>7, Here
    <3>2. \A p \in Places : AtRest(task[Job(t)][p])
      BY <1>4, <1>7, <2>7
    <3>. QED  BY <1>1, <2>3, <3>1, <3>2
              DEF DriveInOrder, Failing, Announcing, Concluded, Looping, Entering, InRound, OnTask,
                  Executing, Asked, Leaving
  <2>8. Fits(t, k, overrun)
    BY <1>1, <2>3, <2>5, <2>6, <2>7, Here DEF Fits
  <2>. QED  BY <2>2, <2>8, LocalStep DEF ReadRound, DiagnosticInductive, DiagnosticTypeOK
<1>. QED  BY <1>5, <1>6, <1>7

\* The model's decision.
LEMMA PlanStep ==
    ASSUME DiagnosticInductive, NEW t \in Workers, Plan(t)
    PROVE  DiagnosticInductive'
<1>. DEFINE w == worker[t]
<1>1. /\ w.pc = "plan" /\ w \in Worker /\ ThreadSound(w) /\ Job(t) \in Runs /\ Drives(w)
      /\ HoldsCopies(w, row[Job(t)], task[Job(t)], checkpoint[Job(t)]) /\ ~w.repairing
      /\ checkpoint[Job(t)] \in Checkpoint /\ w.ck \in Checkpoint /\ w.seen \subseteq Grounded
      /\ \A q \in w.repairs : row[q].status = "COMPLETED"
      /\ Job(t) \notin overrun =>
            DriveInOrder(w, row[Job(t)], task[Job(t)], checkpoint[Job(t)])
  BY Here DEF Plan, Announcing, Worker
<1>2. Job(t) \notin overrun => \A p \in Places : AtRest(task[Job(t)][p])
  BY <1>1 DEF DriveInOrder
<1>3. overrun \subseteq Runs
  BY DEF DiagnosticInductive, DiagnosticTypeOK
<1>4. ASSUME NEW n \in Selectable(w.ck), Becomes(t, [w EXCEPT !.pc = "plan_round", !.todo = 1..n])
      PROVE  DiagnosticInductive'
  <2>1. PICK k : k = [w EXCEPT !.pc = "plan_round", !.todo = 1..n]
    OBVIOUS
  <2>2. /\ n \in Nat /\ n <= PerRound /\ n <= w.ck.remaining /\ 1..n \subseteq 1..PerRound
        /\ Cardinality(1..n) = n
    <3>1. n \in Nat /\ n <= PerRound /\ n <= w.ck.remaining /\ 1..n \subseteq 1..PerRound
      BY BudgetAssumption DEF Selectable
    <3>. QED  BY <3>1, FS_Interval
  <2>3. /\ k \in Worker /\ k.pc = "plan_round" /\ k.run = w.run /\ k.ck = w.ck /\ k.tasks = w.tasks
        /\ k.todo = 1..n /\ k.seen = w.seen /\ k.repairs = w.repairs /\ k.repairing = w.repairing
    BY ZenonT(60), <1>1, <2>1, <2>2 DEF Worker, PC
  <2>4. ThreadSound(k)
    BY <1>1, <2>2, <2>3 DEF ThreadSound, Entering, InRound, OnTask, Executing, Asked, Announcing
  <2>5. HoldsCopies(k, row[Job(t)], task[Job(t)], checkpoint[Job(t)])
    BY <1>1, <2>3
       DEF HoldsCopies, Saving, Looping, Entering, InRound, OnTask, Executing, Asked, Announcing
  <2>6. Job(t) \notin overrun => DriveInOrder(k, row[Job(t)], task[Job(t)], checkpoint[Job(t)])
    BY <1>1, <2>3
       DEF DriveInOrder, Failing, Announcing, Concluded, Looping, Entering, InRound, OnTask,
           Executing, Asked, Leaving
  <2>7. Fits(t, k, overrun)
    BY <1>1, <2>3, <2>4, <2>5, <2>6 DEF Fits
  <2>. QED  BY <1>3, <1>4, <2>1, <2>7, LocalStep DEF Plan
<1>5. ASSUME Becomes(t, [Idle EXCEPT !.pc = "wait", !.run = Job(t), !.place = Planner])
      PROVE  DiagnosticInductive'
  <2>1. PICK k : k = [Idle EXCEPT !.pc = "wait", !.run = Job(t), !.place = Planner]
    OBVIOUS
  <2>2. /\ k \in Worker /\ k.pc = "wait" /\ k.run = Job(t) /\ k.place = Planner
        /\ k.ck = Idle.ck /\ k.seen = Idle.seen /\ k.repairs = Idle.repairs
        /\ k.repairing = Idle.repairing
    BY ZenonT(60), <1>1, <2>1, Nothings DEF Worker, PC, Subject
  <2>3. Idle.ck = NewCheckpoint /\ Idle.repairing = FALSE
    BY DEF Idle
  <2>4. ThreadSound(k)
    BY <1>1, <2>2, <2>3, IdleSound
       DEF ThreadSound, Entering, InRound, OnTask, Executing, Asked
  <2>5. HoldsCopies(k, row[Job(t)], task[Job(t)], checkpoint[Job(t)])
    <3>1. NewCheckpoint.round <= checkpoint[Job(t)].round
      BY <1>1, Numbers DEF NewCheckpoint
    <3>. QED  BY <1>1, <2>2, <2>3, <3>1
       DEF HoldsCopies, Saving, Looping, Entering, InRound, OnTask, Executing, Asked, Announcing
  <2>6. Job(t) \notin overrun => DriveInOrder(k, row[Job(t)], task[Job(t)], checkpoint[Job(t)])
    BY <1>1, <1>2, <2>2
       DEF DriveInOrder, Failing, Announcing, Concluded, Looping, Entering, InRound, OnTask,
           Executing, Asked, Leaving, AtRest
  <2>7. Fits(t, k, overrun)
    BY <1>1, <2>2, <2>4, <2>5, <2>6, IdleSound DEF Fits
  <2>. QED  BY <1>3, <1>5, <2>1, <2>7, LocalStep DEF Plan
<1>6. ASSUME Becomes(t, Concluding(t))
      PROVE  DiagnosticInductive'
  <2>1. PICK k : k = Concluding(t)
    OBVIOUS
  <2>2. Fits(t, k, overrun)
    BY <1>1, <1>2, <2>1, ConcludingFits
  <2>. QED  BY <1>3, <1>6, <2>1, <2>2, LocalStep DEF Plan
<1>7. ASSUME Raise(t, "blocked")
      PROVE  DiagnosticInductive'
  <2>. HIDE DEF Becomes
  <2>. QED  BY <1>1, <1>7, RaiseStep DEF Plan
<1>. QED  BY ZenonT(60), <1>4, <1>5, <1>6, <1>7 DEF Plan

\* The planned tasks are read: on with them, or to the end if there are none.
LEMMA ReadPlannedStep ==
    ASSUME DiagnosticInductive, NEW t \in Workers, ReadPlanned(t)
    PROVE  DiagnosticInductive'
<1>. DEFINE w == worker[t]
            ts == TasksOfRound(Job(t), Ck(t).round)
<1>1. w.pc = "planned" /\ overrun \subseteq Runs /\ ThreadSound(w)
  BY Here DEF ReadPlanned, DiagnosticInductive, DiagnosticTypeOK
<1>2. CASE w.todo = {}
  <2>1. PICK k : k = Concluding(t)
    OBVIOUS
  <2>2. Job(t) \notin overrun => \A p \in Places : AtRest(task[Job(t)][p])
    BY <1>1, <1>2, Here DEF DriveInOrder, Announcing
  <2>3. Fits(t, k, overrun)
    BY <1>1, <2>1, <2>2, ConcludingFits
  <2>. QED  BY <1>1, <1>2, <2>1, <2>3, LocalStep DEF ReadPlanned
<1>3. CASE w.todo # {}
  <2>1. PICK k : k = [w EXCEPT !.pc = "next", !.tasks = ts, !.todo = Stored(ts)]
    OBVIOUS
  <2>2. w.ck.round > 0
    BY <1>1 DEF ThreadSound
  <2>3. Fits(t, k, overrun)
    BY <1>1, <2>1, <2>2, NextFits
  <2>. QED  BY <1>1, <1>3, <2>1, <2>3, LocalStep DEF ReadPlanned
<1>. QED  BY <1>2, <1>3

\* Whatever the Ask of a task says, the thread goes on with that task.
LEMMA AskedFits ==
    ASSUME DiagnosticInductive, NEW t \in Workers, worker[t].pc \in {"ask", "ended"},
           NEW k \in Worker, k.pc \in {"advance", "ended", "fail", "park", "complete"},
           k.run = worker[t].run, k.snap = worker[t].snap, k.ck = worker[t].ck,
           k.tasks = worker[t].tasks, k.todo = worker[t].todo, k.place = worker[t].place,
           k.seen = worker[t].seen, k.repairs = worker[t].repairs,
           k.repairing = worker[t].repairing,
           k.pc = "advance" => k.snap.status = "DISCOVERING",
           k.pc = "complete" => k.found = NoSource \/ k.ck.source \in {NoSource, k.found}
    PROVE  Fits(t, k, overrun)
<1>. DEFINE w == worker[t]
<1>1. /\ w \in Worker /\ ThreadSound(w) /\ Job(t) \in Runs /\ Drives(w) /\ ~w.repairing
      /\ HoldsCopies(w, row[Job(t)], task[Job(t)], checkpoint[Job(t)])
      /\ w.seen \subseteq Grounded /\ \A q \in w.repairs : row[q].status = "COMPLETED"
      /\ Job(t) \notin overrun =>
            DriveInOrder(w, row[Job(t)], task[Job(t)], checkpoint[Job(t)])
  BY Here DEF Announcing
<1>2. /\ Executing(k) /\ InRound(k) /\ OnTask(k) /\ Looping(k) /\ ~Asked(k) /\ HeldBy(k) = HeldBy(w)
      /\ Executing(w) /\ InRound(w) /\ OnTask(w) /\ Looping(w) /\ ~Leaving(k) /\ ~Leaving(w)
  BY DEF Executing, InRound, OnTask, Looping, Entering, Asked, HeldBy, Leaving
<1>3. ThreadSound(k)
  BY SMTT(60), <1>1, <1>2 DEF ThreadSound, Entering, Announcing
<1>4. HoldsCopies(k, row[Job(t)], task[Job(t)], checkpoint[Job(t)])
  BY SMTT(60), <1>1, <1>2 DEF HoldsCopies, Announcing, Saving
<1>5. Job(t) \notin overrun => DriveInOrder(k, row[Job(t)], task[Job(t)], checkpoint[Job(t)])
  BY <1>1, <1>2 DEF DriveInOrder, Failing, Announcing, Concluded
<1>. QED  BY <1>1, <1>3, <1>4, <1>5 DEF Fits

\* The next record of an Ask.
LEMMA AskStep ==
    ASSUME DiagnosticInductive, NEW t \in Workers, Ask(t)
    PROVE  DiagnosticInductive'
<1>. DEFINE w == worker[t]
<1>1. w.pc = "ask" /\ w \in Worker
  BY Here DEF Ask
<1>2. ASSUME w.snap.status = "DISCOVERING", CheckCancel(t, "skip", [w EXCEPT !.pc = "advance"])
      PROVE  DiagnosticInductive'
  <2>1. PICK k : k = [w EXCEPT !.pc = "advance"]
    OBVIOUS
  <2>2. Fits(t, k, overrun)
    BY <1>1, <1>2, <2>1, MovedOn, AskedFits DEF PC
  <2>. QED  BY <1>1, <1>2, <2>1, <2>2, CheckStep DEF Ask
<1>3. ASSUME NEW fault \in {"transient", "permanent"},
             CheckCancel(t, "skip", [w EXCEPT !.pc = "fail", !.outcome = fault])
      PROVE  DiagnosticInductive'
  <2>1. PICK k : k = [w EXCEPT !.pc = "fail", !.outcome = fault]
    OBVIOUS
  <2>2. k \in Worker /\ k.pc = "fail"
    BY ZenonT(60), <1>1, <2>1 DEF Worker, PC, Fault
  <2>3. Fits(t, k, overrun)
    BY <1>1, <2>1, <2>2, AskedFits DEF Worker
  <2>. QED  BY <1>1, <1>3, <2>1, <2>3, CheckStep DEF Ask
<1>4. ASSUME CheckCancel(t, "skip", [w EXCEPT !.pc = "ended"])
      PROVE  DiagnosticInductive'
  <2>1. PICK k : k = [w EXCEPT !.pc = "ended"]
    OBVIOUS
  <2>2. Fits(t, k, overrun)
    BY <1>1, <2>1, MovedOn, AskedFits DEF PC
  <2>. QED  BY <1>1, <1>4, <2>1, <2>2, CheckStep DEF Ask
<1>. QED  BY <1>2, <1>3, <1>4 DEF Ask

\* What the response of an Ask says.
LEMMA AskEndedStep ==
    ASSUME DiagnosticInductive, NEW t \in Workers, AskEnded(t)
    PROVE  DiagnosticInductive'
<1>. DEFINE w == worker[t]
<1>1. w.pc = "ended" /\ w \in Worker /\ UNCHANGED <<store, history>>
  BY Here DEF AskEnded
<1>2. ASSUME CheckCancel(t, "skip", [w EXCEPT !.pc = "park"])
      PROVE  DiagnosticInductive'
  <2>1. PICK k : k = [w EXCEPT !.pc = "park"]
    OBVIOUS
  <2>2. Fits(t, k, overrun)
    BY <1>1, <2>1, MovedOn, AskedFits DEF PC
  <2>. QED  BY <1>1, <1>2, <2>1, <2>2, CheckStep
<1>3. ASSUME CheckCancel(t, "skip", [w EXCEPT !.pc = "complete", !.found = NoSource])
      PROVE  DiagnosticInductive'
  <2>1. PICK k : k = [w EXCEPT !.pc = "complete", !.found = NoSource]
    OBVIOUS
  <2>2. k \in Worker /\ k.pc = "complete" /\ k.found = NoSource
    BY ZenonT(60), <1>1, <2>1 DEF Worker, PC
  <2>3. Fits(t, k, overrun)
    BY <1>1, <2>1, <2>2, AskedFits DEF Worker
  <2>. QED  BY <1>1, <1>3, <2>1, <2>3, CheckStep
<1>4. ASSUME NEW fault \in {"transient", "permanent", "blocked"},
             CheckCancel(t, "skip", [w EXCEPT !.pc = "fail", !.outcome = fault])
      PROVE  DiagnosticInductive'
  <2>1. PICK k : k = [w EXCEPT !.pc = "fail", !.outcome = fault]
    OBVIOUS
  <2>2. k \in Worker /\ k.pc = "fail"
    BY ZenonT(60), <1>1, <2>1 DEF Worker, PC, Fault
  <2>3. Fits(t, k, overrun)
    BY <1>1, <2>1, <2>2, AskedFits DEF Worker
  <2>. QED  BY <1>1, <1>4, <2>1, <2>3, CheckStep
<1>5. ASSUME NEW source \in Sources, ~Mismatch(w.ck, source),
             CheckCancel(t, "skip", [w EXCEPT !.pc = "complete", !.found = source])
      PROVE  DiagnosticInductive'
  <2>1. PICK k : k = [w EXCEPT !.pc = "complete", !.found = source]
    OBVIOUS
  <2>2. k \in Worker /\ k.pc = "complete" /\ k.found = source /\ k.ck = w.ck
    BY ZenonT(60), <1>1, <2>1 DEF Worker, PC
  <2>3. k.ck.source \in {NoSource, k.found}
    BY <1>5, <2>2 DEF Mismatch
  <2>4. Fits(t, k, overrun)
    BY <1>1, <2>1, <2>2, <2>3, AskedFits DEF Worker
  <2>. QED  BY <1>1, <1>5, <2>1, <2>4, CheckStep
<1>. QED  BY <1>2, <1>3, <1>4, <1>5 DEF AskEnded

\* The next task of a round.
LEMMA TakeTurnStep ==
    ASSUME DiagnosticInductive, NEW t \in Workers, TakeTurn(t)
    PROVE  DiagnosticInductive'
<1>. DEFINE w == worker[t]
<1>1. /\ w.pc = "next" /\ w \in Worker /\ ThreadSound(w) /\ Job(t) \in Runs /\ Drives(w)
      /\ HoldsCopies(w, row[Job(t)], task[Job(t)], checkpoint[Job(t)]) /\ ~w.repairing
      /\ row[Job(t)] \in Row /\ task[Job(t)] \in [Places -> Task]
      /\ checkpoint[Job(t)] \in Checkpoint /\ w.ck \in Checkpoint /\ w.seen \subseteq Grounded
      /\ \A q \in w.repairs : row[q].status = "COMPLETED"
      /\ overrun \subseteq Runs
  BY ZenonT(60), Here DEF TakeTurn, Announcing, Worker, DiagnosticInductive, DiagnosticTypeOK
<1>2. ASSUME Job(t) \notin overrun
      PROVE  /\ DriveInOrder(w, row[Job(t)], task[Job(t)], checkpoint[Job(t)])
             /\ RunInOrder(row[Job(t)], task[Job(t)], checkpoint[Job(t)])
             /\ Paid(task[Job(t)], checkpoint[Job(t)])
  BY <1>1, <1>2, Here
<1>3. InRound(w) /\ Looping(w) /\ ~OnTask(w) /\ ~Executing(w) /\ ~Asked(w) /\ ~Leaving(w)
  BY <1>1 DEF InRound, Looping, OnTask, Executing, Asked, Leaving
<1>4. w.ck.round > 0 /\ w.ck.round \in 1..MaxRounds
  BY <1>1, <1>3, Numbers DEF ThreadSound
<1>5. CASE w.todo = {} /\ w.ck.round >= MaxRounds
  <2>1. PICK k : k = Concluding(t)
    OBVIOUS
  <2>2. Job(t) \notin overrun => \A p \in Places : AtRest(task[Job(t)][p])
    <3>1. SUFFICES ASSUME Job(t) \notin overrun
                   PROVE  \A o \in 1..PerRound : checkpoint[Job(t)].round > 0 =>
                              AtRest(task[Job(t)][<<checkpoint[Job(t)].round, o>>])
      BY <1>1, <1>2, RoundAtRest
    <3>2. w.ck.round = checkpoint[Job(t)].round
      BY <1>1, <1>2, <1>3, <3>1, DriversCheckpoint
    <3>3. \A o \in 1..PerRound : /\ w.tasks[o] = task[Job(t)][<<w.ck.round, o>>]
                                 /\ AtRest(w.tasks[o])
      BY <1>2, <1>3, <1>5, <3>1 DEF DriveInOrder
    <3>. QED  BY <3>2, <3>3 DEF AtRest
  <2>3. Fits(t, k, overrun)
    BY <1>1, <2>1, <2>2, ConcludingFits
  <2>. QED  BY <1>1, <1>5, <2>1, <2>3, LocalStep DEF TakeTurn
<1>6. CASE w.todo = {} /\ ~(w.ck.round >= MaxRounds)
  <2>1. PICK k : k = [w EXCEPT !.pc = "round", !.tasks = Idle.tasks, !.place = NoPlace]
    OBVIOUS
  <2>2. /\ k \in Worker /\ k.pc = "round" /\ k.run = w.run /\ k.ck = w.ck /\ k.tasks = Idle.tasks
        /\ k.seen = w.seen /\ k.repairs = w.repairs /\ k.repairing = w.repairing
    BY ZenonT(60), <1>1, <2>1, Nothings DEF Worker, PC, Subject
  <2>3. ThreadSound(k)
    BY <1>1, <2>2 DEF ThreadSound, Entering, InRound, OnTask, Executing, Asked, Announcing
  <2>4. HoldsCopies(k, row[Job(t)], task[Job(t)], checkpoint[Job(t)])
    BY <1>1, <1>3, <2>2
       DEF HoldsCopies, Saving, Looping, Entering, InRound, OnTask, Executing, Asked, Announcing
  <2>5. Job(t) \notin overrun => DriveInOrder(k, row[Job(t)], task[Job(t)], checkpoint[Job(t)])
    BY <1>1, <1>2, <1>3, <2>2
       DEF DriveInOrder, Failing, Announcing, Concluded, Looping, Entering, InRound, OnTask,
           Executing, Asked, Leaving
  <2>6. Fits(t, k, overrun)
    BY <1>1, <2>2, <2>3, <2>4, <2>5 DEF Fits
  <2>. QED  BY <1>1, <1>6, <2>1, <2>6, LocalStep DEF TakeTurn
<1>7. ASSUME NEW o \in w.todo, CheckCancel(t, "idle", Turn(t, o))
      PROVE  DiagnosticInductive'
  <2>1. /\ o \in 1..PerRound /\ w.tasks[o] \in Task /\ w.tasks[o].status # "ABSENT"
        /\ <<w.ck.round, o>> \in Places
        /\ <<w.ck.round, o>>[1] = w.ck.round /\ <<w.ck.round, o>>[2] = o
    <3>1. o \in 1..PerRound /\ w.tasks[o] \in Task
      BY <1>1 DEF Worker
    <3>2. w.tasks[o].status # "ABSENT"
      BY <1>1, <1>3 DEF ThreadSound
    <3>. QED  BY <1>4, <3>1, <3>2, PlaceOf
  <2>2. Fits(t, Turn(t, o), overrun)
    <3>1. CASE w.tasks[o].status \in {"COMPLETED", "SKIPPED"}
      <4>1. PICK k : k = [w EXCEPT !.todo = @ \ {o}]
        OBVIOUS
      <4>2. /\ k \in Worker /\ k.pc = "next" /\ k.run = w.run /\ k.ck = w.ck /\ k.tasks = w.tasks
            /\ k.todo = w.todo \ {o} /\ k.seen = w.seen /\ k.repairs = w.repairs
            /\ k.repairing = w.repairing
        BY <1>1, <4>1 DEF Worker
      <4>3. InRound(k) /\ Looping(k) /\ ~OnTask(k) /\ ~Executing(k) /\ ~Asked(k) /\ ~Leaving(k)
        BY <4>2 DEF InRound, Looping, OnTask, Executing, Asked, Leaving
      <4>4. ThreadSound(k)
        BY <1>1, <1>3, <4>2, <4>3 DEF ThreadSound, Entering, Announcing
      <4>5. HoldsCopies(k, row[Job(t)], task[Job(t)], checkpoint[Job(t)])
        BY <1>1, <1>3, <4>2, <4>3 DEF HoldsCopies, Saving, Announcing
      <4>6. Job(t) \notin overrun => DriveInOrder(k, row[Job(t)], task[Job(t)], checkpoint[Job(t)])
        BY <1>1, <1>2, <1>3, <3>1, <4>2, <4>3
           DEF DriveInOrder, Failing, Announcing, Concluded, AtRest
      <4>7. Turn(t, o) = k
        BY <3>1, <4>1 DEF Turn
      <4>. QED  BY <1>1, <4>2, <4>4, <4>5, <4>6, <4>7 DEF Fits
    <3>2. CASE w.tasks[o].status = "FAILED" /\ ~w.tasks[o].retryable
      <4>1. Turn(t, o) = Raised(Job(t), "permanent")
        BY <3>2 DEF Turn
      <4>. QED  BY <1>1, <4>1, RaiseFits
    <3>3. CASE /\ w.tasks[o].status \notin {"COMPLETED", "SKIPPED"}
               /\ ~(w.tasks[o].status = "FAILED" /\ ~w.tasks[o].retryable)
      <4>1. PICK k : k = [w EXCEPT !.pc = "start", !.place = <<w.ck.round, o>>, !.snap = row[Job(t)]]
        OBVIOUS
      <4>2. /\ k \in Worker /\ k.pc = "start" /\ k.run = w.run /\ k.ck = w.ck /\ k.tasks = w.tasks
            /\ k.todo = w.todo /\ k.seen = w.seen /\ k.repairs = w.repairs
            /\ k.repairing = w.repairing /\ k.place = <<w.ck.round, o>> /\ k.snap = row[Job(t)]
        BY ZenonT(60), <1>1, <2>1, <4>1 DEF Worker, PC, Subject
      <4>3. /\ InRound(k) /\ Looping(k) /\ OnTask(k) /\ ~Executing(k) /\ ~Asked(k) /\ ~Leaving(k)
            /\ HeldBy(k) = w.tasks[o]
        BY <2>1, <4>2 DEF InRound, Looping, OnTask, Executing, Asked, Leaving, HeldBy
      <4>4. ThreadSound(k)
        BY <1>1, <1>3, <2>1, <3>3, <4>2, <4>3 DEF ThreadSound, Entering, Announcing, AtRest
      <4>5. HoldsCopies(k, row[Job(t)], task[Job(t)], checkpoint[Job(t)])
        BY <1>1, <1>3, <4>2, <4>3, Numbers DEF HoldsCopies, Announcing
      <4>6. Job(t) \notin overrun => DriveInOrder(k, row[Job(t)], task[Job(t)], checkpoint[Job(t)])
        BY <1>1, <1>2, <1>3, <4>2, <4>3
           DEF DriveInOrder, Failing, Announcing, Concluded
      <4>7. Turn(t, o) = k
        BY <3>3, <4>1 DEF Turn
      <4>. QED  BY <1>1, <4>2, <4>4, <4>5, <4>6, <4>7 DEF Fits
    <3>. QED  BY <3>1, <3>2, <3>3
  <2>. QED  BY <1>1, <1>7, <2>2, CheckStep DEF TakeTurn
<1>. QED  BY <1>5, <1>6, <1>7 DEF TakeTurn

\* The row is read before it waits.
LEMMA ReadWaitStep ==
    ASSUME DiagnosticInductive, NEW t \in Workers, ReadWait(t)
    PROVE  DiagnosticInductive'
<1>. DEFINE w == worker[t]
<1>1. /\ w.pc = "wait" /\ w \in Worker /\ ThreadSound(w) /\ Job(t) \in Runs /\ Drives(w)
      /\ HoldsCopies(w, row[Job(t)], task[Job(t)], checkpoint[Job(t)]) /\ ~w.repairing
      /\ row[Job(t)] \in Row /\ w.seen \subseteq Grounded
      /\ \A q \in w.repairs : row[q].status = "COMPLETED"
      /\ Job(t) \notin overrun =>
            DriveInOrder(w, row[Job(t)], task[Job(t)], checkpoint[Job(t)])
      /\ overrun \subseteq Runs
  BY Here DEF ReadWait, Announcing, DiagnosticInductive, DiagnosticTypeOK
<1>2. PICK k : k = [w EXCEPT !.pc = "waiting", !.snap = row[Job(t)]]
  OBVIOUS
<1>3. /\ k \in Worker /\ k.pc = "waiting" /\ k.run = w.run /\ k.snap = row[Job(t)]
      /\ k.ck = w.ck /\ k.tasks = w.tasks /\ k.todo = w.todo /\ k.place = w.place
      /\ k.seen = w.seen /\ k.found = w.found /\ k.repairs = w.repairs /\ ~k.repairing
  BY ZenonT(60), <1>1, <1>2 DEF Worker, PC
<1>4. /\ ~Executing(w) /\ ~Executing(k) /\ Asked(k) = Asked(w) /\ InRound(k) = InRound(w)
      /\ OnTask(k) = OnTask(w) /\ Looping(k) = Looping(w) /\ HeldBy(k) = HeldBy(w)
      /\ ~Leaving(w) /\ ~Leaving(k)
  BY <1>1, <1>3 DEF Executing, InRound, OnTask, Looping, Entering, Asked, HeldBy, Leaving
<1>5. ThreadSound(k)
  BY <1>1, <1>3, <1>4 DEF ThreadSound, Entering
<1>6. HoldsCopies(k, row[Job(t)], task[Job(t)], checkpoint[Job(t)])
  BY <1>1, <1>3, <1>4, Numbers DEF HoldsCopies, Announcing
<1>7. Job(t) \notin overrun => DriveInOrder(k, row[Job(t)], task[Job(t)], checkpoint[Job(t)])
  BY <1>1, <1>3, <1>4 DEF DriveInOrder, Failing, Announcing, Concluded
<1>8. Fits(t, k, overrun)
  BY <1>1, <1>3, <1>5, <1>6, <1>7 DEF Fits
<1>. QED  BY <1>1, <1>2, <1>8, LocalStep DEF ReadWait

\* A drive looks whether its task waits; one that goes on after parking it overruns the run.
LEMMA AfterTaskStep ==
    ASSUME DiagnosticInductive, NEW t \in Workers, AfterTask(t)
    PROVE  DiagnosticInductive'
<1>. DEFINE w == worker[t]
<1>1. /\ w.pc = "after" /\ w \in Worker /\ ThreadSound(w) /\ Job(t) \in Runs /\ ~w.repairing
      /\ HoldsCopies(w, row[Job(t)], task[Job(t)], checkpoint[Job(t)])
      /\ w.seen \subseteq Grounded /\ \A q \in w.repairs : row[q].status = "COMPLETED"
      /\ overrun \subseteq Runs
  BY Here DEF AfterTask, Announcing, DiagnosticInductive, DiagnosticTypeOK
<1>2. overrun \subseteq overrun' /\ overrun' \subseteq Runs
  BY <1>1 DEF AfterTask
<1>3. CASE row[Job(t)].status = "WAITING_USER"
  <2>1. Fits(t, Idle, overrun') /\ Becomes(t, Idle)
    BY <1>3, IdleFits DEF AfterTask
  <2>. QED  BY <1>2, <2>1, LocalStep DEF AfterTask
<1>4. CASE row[Job(t)].status # "WAITING_USER"
  <2>1. PICK k : k = [w EXCEPT !.pc = "next", !.todo = @ \ {w.place[2]}, !.found = NoSource]
    OBVIOUS
  <2>2. /\ k \in Worker /\ k.pc = "next" /\ k.run = w.run /\ k.ck = w.ck /\ k.tasks = w.tasks
        /\ k.todo = w.todo \ {w.place[2]} /\ k.seen = w.seen /\ k.repairs = w.repairs
        /\ ~k.repairing
    BY ZenonT(60), <1>1, <2>1 DEF Worker, PC
  <2>3. /\ InRound(k) /\ Looping(k) /\ ~OnTask(k) /\ ~Executing(k) /\ ~Asked(k) /\ ~Leaving(k)
        /\ InRound(w) /\ Looping(w) /\ OnTask(w) /\ ~Executing(w) /\ ~Leaving(w)
    BY <1>1, <2>2 DEF InRound, Looping, OnTask, Executing, Asked, Leaving
  <2>4. ThreadSound(k)
    BY <1>1, <2>2, <2>3 DEF ThreadSound, Entering
  <2>5. HoldsCopies(k, row[Job(t)], task[Job(t)], checkpoint[Job(t)])
    BY <1>1, <2>2, <2>3 DEF HoldsCopies, Saving, Announcing
  <2>6. ASSUME Job(t) \notin overrun'
        PROVE  Drives(w) /\ DriveInOrder(k, row[Job(t)], task[Job(t)], checkpoint[Job(t)])
    <3>1. Job(t) \notin overrun /\ HeldBy(w).status # "WAITING_USER"
      BY <1>4, <2>6 DEF AfterTask, Held, HeldBy
    <3>2. HeldBy(w).status = "COMPLETED" /\ Drives(w)
      BY <1>1, <3>1 DEF ThreadSound, Drives, Parked
    <3>3. DriveInOrder(w, row[Job(t)], task[Job(t)], checkpoint[Job(t)])
      BY <1>1, <3>1, <3>2, Here
    <3>4. \A o \in 1..PerRound : o \in k.todo \/ AtRest(k.tasks[o])
      BY <2>2, <2>3, <3>2, <3>3 DEF DriveInOrder, HeldBy, AtRest
    <3>. QED  BY <1>1, <2>2, <2>3, <3>2, <3>3, <3>4
              DEF DriveInOrder, Failing, Announcing, Concluded
  <2>7. Fits(t, k, overrun')
    BY <1>1, <2>2, <2>4, <2>5, <2>6 DEF Fits
  <2>. QED  BY <1>2, <1>4, <2>1, <2>7, LocalStep DEF AfterTask
<1>. QED  BY <1>3, <1>4

\* The observations are read, the answer is written, and a request to cancel is looked for.
LEMMA SynthesizeStep ==
    ASSUME DiagnosticInductive, NEW t \in Workers, Synthesize(t)
    PROVE  DiagnosticInductive'
<1>. DEFINE w == worker[t]
<1>1. /\ w.pc = "synthesize" /\ w \in Worker /\ ThreadSound(w) /\ Job(t) \in Runs /\ Drives(w)
      /\ HoldsCopies(w, row[Job(t)], task[Job(t)], checkpoint[Job(t)]) /\ ~w.repairing
      /\ w.seen \subseteq Grounded /\ \A q \in w.repairs : row[q].status = "COMPLETED"
      /\ Job(t) \notin overrun =>
            DriveInOrder(w, row[Job(t)], task[Job(t)], checkpoint[Job(t)])
  BY Here DEF Synthesize, Announcing
<1>2. CASE ~Conclusive(task[Job(t)])
  <2>. HIDE DEF Becomes
  <2>. QED  BY <1>1, <1>2, RaiseStep DEF Synthesize
<1>3. CASE Conclusive(task[Job(t)])
  <2>1. PICK k : k = [w EXCEPT !.pc = "reread"]
    OBVIOUS
  <2>2. /\ k \in Worker /\ k.pc = "reread" /\ k.run = w.run /\ k.ck = w.ck /\ k.tasks = w.tasks
        /\ k.todo = w.todo /\ k.seen = w.seen /\ k.repairs = w.repairs /\ ~k.repairing
    BY <1>1, <2>1, MovedOn DEF PC
  <2>3. ThreadSound(k)
    BY <1>1, <2>2 DEF ThreadSound, Entering, InRound, OnTask, Executing, Asked
  <2>4. HoldsCopies(k, row[Job(t)], task[Job(t)], checkpoint[Job(t)])
    BY <1>1, <1>3, <2>2
       DEF HoldsCopies, Saving, Looping, Entering, InRound, OnTask, Executing, Asked, Announcing,
           Conclusive
  <2>5. Job(t) \notin overrun => DriveInOrder(k, row[Job(t)], task[Job(t)], checkpoint[Job(t)])
    BY <1>1, <2>2
       DEF DriveInOrder, Failing, Announcing, Concluded, Looping, Entering, InRound, OnTask,
           Executing, Asked, Leaving
  <2>6. Fits(t, k, overrun)
    BY <1>1, <2>2, <2>3, <2>4, <2>5 DEF Fits
  <2>. QED  BY <1>1, <1>3, <2>1, <2>6, CheckStep DEF Synthesize
<1>. QED  BY <1>2, <1>3

\* The row is read for the last time.
LEMMA RereadStep ==
    ASSUME DiagnosticInductive, NEW t \in Workers, Reread(t)
    PROVE  DiagnosticInductive'
<1>. DEFINE w == worker[t]
<1>1. /\ w.pc = "reread" /\ w \in Worker /\ ThreadSound(w) /\ Job(t) \in Runs /\ Drives(w)
      /\ HoldsCopies(w, row[Job(t)], task[Job(t)], checkpoint[Job(t)]) /\ ~w.repairing
      /\ row[Job(t)] \in Row
      /\ w.seen \subseteq Grounded /\ \A q \in w.repairs : row[q].status = "COMPLETED"
      /\ Job(t) \notin overrun =>
            DriveInOrder(w, row[Job(t)], task[Job(t)], checkpoint[Job(t)])
      /\ overrun \subseteq Runs
  BY Here DEF Reread, Announcing, DiagnosticInductive, DiagnosticTypeOK
<1>2. PICK k : k = [w EXCEPT !.pc = "finish", !.snap = row[Job(t)]]
  OBVIOUS
<1>3. /\ k \in Worker /\ k.pc = "finish" /\ k.run = w.run /\ k.snap = row[Job(t)] /\ k.ck = w.ck
      /\ k.seen = w.seen /\ k.repairs = w.repairs /\ ~k.repairing
  BY ZenonT(60), <1>1, <1>2 DEF Worker, PC
<1>4. ThreadSound(k)
  BY <1>1, <1>3 DEF ThreadSound, Entering, InRound, OnTask, Executing, Asked
<1>5. HoldsCopies(k, row[Job(t)], task[Job(t)], checkpoint[Job(t)])
  BY <1>1, <1>3, Numbers
     DEF HoldsCopies, Looping, Entering, InRound, OnTask, Executing, Asked, Announcing
<1>6. Job(t) \notin overrun => DriveInOrder(k, row[Job(t)], task[Job(t)], checkpoint[Job(t)])
  BY <1>1, <1>3
     DEF DriveInOrder, Failing, Announcing, Concluded, Looping, Entering, InRound, OnTask,
         Executing, Asked, Leaving
<1>7. Fits(t, k, overrun)
  BY <1>1, <1>3, <1>4, <1>5, <1>6 DEF Fits
<1>. QED  BY <1>1, <1>2, <1>7, LocalStep DEF Reread

\* A thread that announces a completion goes on announcing it.
LEMMA AnnouncingFits ==
    ASSUME DiagnosticInductive, NEW t \in Workers, worker[t].pc \in Announcing,
           NEW k \in Worker, k.pc \in {"put", "publish"},
           k.pc = "put" => worker[t].pc = "record",
           k.run = worker[t].run, k.ck = worker[t].ck, k.seen = worker[t].seen,
           k.repairs = worker[t].repairs, k.repairing = worker[t].repairing
    PROVE  Fits(t, k, overrun)
<1>. DEFINE w == worker[t]
<1>1. /\ ThreadSound(w) /\ Job(t) \in Runs /\ (~w.repairing => Drives(w))
      /\ HoldsCopies(w, row[Job(t)], task[Job(t)], checkpoint[Job(t)])
      /\ w.seen \subseteq Grounded /\ \A q \in w.repairs : row[q].status = "COMPLETED"
      /\ Job(t) \notin overrun /\ Drives(w) =>
            DriveInOrder(w, row[Job(t)], task[Job(t)], checkpoint[Job(t)])
  BY Here DEF Announcing, Drives, Parked
<1>2. /\ k.pc \in Announcing /\ ~InRound(k) /\ ~OnTask(k) /\ ~Executing(k) /\ ~Asked(k)
      /\ ~Looping(k) /\ ~Executing(w) /\ ~Leaving(w) /\ ~Leaving(k)
  BY DEF Announcing, InRound, OnTask, Executing, Asked, Looping, Entering, Leaving
<1>3. ThreadSound(k)
  BY SMTT(60), <1>1, <1>2 DEF ThreadSound, Entering, Announcing
<1>4. HoldsCopies(k, row[Job(t)], task[Job(t)], checkpoint[Job(t)])
  BY SMTT(60), <1>1, <1>2 DEF HoldsCopies, Saving, Announcing
<1>5. ASSUME Job(t) \notin overrun, ~w.repairing
      PROVE  DriveInOrder(k, row[Job(t)], task[Job(t)], checkpoint[Job(t)])
  BY <1>1, <1>2, <1>5 DEF DriveInOrder, Failing, Announcing, Concluded
<1>. QED  BY <1>1, <1>3, <1>4, <1>5 DEF Fits, Drives

\* A finding is recorded unless the thread has seen it.
LEMMA RecordStep ==
    ASSUME DiagnosticInductive, NEW t \in Workers, Record(t)
    PROVE  DiagnosticInductive'
<1>. DEFINE w == worker[t]
<1>1. /\ w.pc = "record" /\ w \in Worker /\ overrun \subseteq Runs /\ memory.revision \in Nat
  BY Here DEF Record, DiagnosticInductive, DiagnosticTypeOK
<1>2. CASE Job(t) \in w.seen
  <2>1. PICK k : k = [w EXCEPT !.pc = "publish"]
    OBVIOUS
  <2>2. Fits(t, k, overrun)
    BY <1>1, <2>1, MovedOn, AnnouncingFits DEF PC, Announcing
  <2>3. Becomes(t, k)
    BY <1>2, <2>1 DEF Record, Goto, Step
  <2>. QED  BY <1>1, <2>2, <2>3, LocalStep DEF Record
<1>3. CASE Job(t) \notin w.seen
  <2>1. PICK k : k = [w EXCEPT !.pc = "put", !.expected = memory.revision]
    OBVIOUS
  <2>2. k \in Worker /\ k.pc = "put"
    BY ZenonT(60), <1>1, <2>1 DEF Worker, PC
  <2>3. Fits(t, k, overrun)
    BY <1>1, <2>1, <2>2, AnnouncingFits DEF Worker, Announcing
  <2>. QED  BY <1>1, <1>3, <2>1, <2>3, LocalStep DEF Record
<1>. QED  BY <1>2, <1>3

\* The handler sees what became of the run.
LEMMA ExceptStep ==
    ASSUME DiagnosticInductive, NEW t \in Workers, Except(t)
    PROVE  DiagnosticInductive'
<1>. DEFINE w == worker[t]
<1>1. /\ w.pc = "except" /\ w \in Worker /\ ThreadSound(w) /\ Job(t) \in Runs /\ Drives(w)
      /\ HoldsCopies(w, row[Job(t)], task[Job(t)], checkpoint[Job(t)]) /\ ~w.repairing
      /\ row[Job(t)] \in Row
      /\ w.seen \subseteq Grounded /\ \A q \in w.repairs : row[q].status = "COMPLETED"
      /\ Job(t) \notin overrun =>
            DriveInOrder(w, row[Job(t)], task[Job(t)], checkpoint[Job(t)])
      /\ overrun \subseteq Runs
  BY Here DEF Except, Announcing, DiagnosticInductive, DiagnosticTypeOK
<1>2. CASE row[Job(t)].status = "COMPLETED"
  <2>1. PICK k : k = [Idle EXCEPT !.pc = "repairs", !.repairing = TRUE,
                                  !.repairs = IncompleteCompletions]
    OBVIOUS
  <2>2. IncompleteCompletions \subseteq Runs
        /\ \A q \in IncompleteCompletions : row[q].status = "COMPLETED"
    BY DEF IncompleteCompletions
  <2>3. /\ k \in Worker /\ k.pc = "repairs" /\ k.repairing /\ k.repairs = IncompleteCompletions
        /\ k.run = Idle.run /\ k.seen = Idle.seen /\ k.ck = Idle.ck
    BY ZenonT(60), <2>1, <2>2, Nothings DEF Worker, PC
  <2>4. ThreadSound(k) /\ k.run = NoRun /\ k.seen = {} /\ ~Drives(k)
    BY <2>3, IdleSound
       DEF ThreadSound, Entering, InRound, OnTask, Executing, Asked, Idle, Drives
  <2>5. Fits(t, k, overrun)
    BY <2>2, <2>3, <2>4, RunsAssumption DEF Fits
  <2>6. Becomes(t, k)
    BY <1>2, <2>1 DEF Except
  <2>. QED  BY <1>1, <2>5, <2>6, LocalStep DEF Except
<1>3. CASE row[Job(t)].status = "WAITING_USER"
  <2>1. Fits(t, Idle, overrun) /\ Becomes(t, Idle)
    BY <1>3, IdleFits DEF Except
  <2>. QED  BY <1>1, <2>1, LocalStep DEF Except
<1>4. CASE row[Job(t)].status \notin {"COMPLETED", "WAITING_USER"}
  <2>1. PICK k : k = [w EXCEPT !.pc = "check_failure", !.snap = row[Job(t)]]
    OBVIOUS
  <2>2. /\ k \in Worker /\ k.pc = "check_failure" /\ k.run = w.run /\ k.snap = row[Job(t)]
        /\ k.ck = w.ck /\ k.outcome = w.outcome
        /\ k.seen = w.seen /\ k.repairs = w.repairs /\ ~k.repairing
    BY ZenonT(60), <1>1, <2>1 DEF Worker, PC
  <2>3. ThreadSound(k)
    BY <1>1, <2>2 DEF ThreadSound, Entering, InRound, OnTask, Executing, Asked
  <2>4. HoldsCopies(k, row[Job(t)], task[Job(t)], checkpoint[Job(t)])
    BY <1>1, <2>2, Numbers
       DEF HoldsCopies, Looping, Entering, InRound, OnTask, Executing, Asked, Announcing
  <2>5. Job(t) \notin overrun => DriveInOrder(k, row[Job(t)], task[Job(t)], checkpoint[Job(t)])
    BY <1>1, <1>4, <2>2
       DEF DriveInOrder, Failing, Announcing, Concluded, Looping, Entering, InRound, OnTask,
           Executing, Asked, Leaving
  <2>6. Fits(t, k, overrun)
    BY <1>1, <2>2, <2>3, <2>4, <2>5 DEF Fits
  <2>7. Becomes(t, k)
    BY <1>4, <2>1 DEF Except
  <2>. QED  BY <1>1, <2>6, <2>7, LocalStep DEF Except
<1>. QED  BY <1>2, <1>3, <1>4

\* The handler looks for a request to cancel.
LEMMA CheckFailureStep ==
    ASSUME DiagnosticInductive, NEW t \in Workers, CheckFailure(t)
    PROVE  DiagnosticInductive'
<1>. DEFINE w == worker[t]
<1>1. /\ w.pc = "check_failure" /\ w \in Worker /\ ThreadSound(w) /\ Job(t) \in Runs /\ Drives(w)
      /\ HoldsCopies(w, row[Job(t)], task[Job(t)], checkpoint[Job(t)]) /\ ~w.repairing
      /\ w.seen \subseteq Grounded /\ \A q \in w.repairs : row[q].status = "COMPLETED"
      /\ Job(t) \notin overrun =>
            DriveInOrder(w, row[Job(t)], task[Job(t)], checkpoint[Job(t)])
  BY Here DEF CheckFailure, Announcing
<1>2. Fits(t, Step(w, IF w.snap.status \in Terminal THEN "idle" ELSE "fail_run"), overrun)
  <2>1. CASE w.snap.status \in Terminal
    BY <2>1, IdleFits DEF Step
  <2>2. CASE w.snap.status \notin Terminal
    <3>1. PICK k : k = [w EXCEPT !.pc = "fail_run"]
      OBVIOUS
    <3>2. /\ k \in Worker /\ k.pc = "fail_run" /\ k.run = w.run /\ k.snap = w.snap
          /\ k.ck = w.ck /\ k.outcome = w.outcome
          /\ k.seen = w.seen /\ k.repairs = w.repairs /\ ~k.repairing
      BY <1>1, <3>1, MovedOn DEF PC
    <3>3. ThreadSound(k)
      BY <1>1, <3>2 DEF ThreadSound, Entering, InRound, OnTask, Executing, Asked
    <3>4. HoldsCopies(k, row[Job(t)], task[Job(t)], checkpoint[Job(t)])
      BY <1>1, <3>2
         DEF HoldsCopies, Saving, Looping, Entering, InRound, OnTask, Executing, Asked, Announcing
    <3>5. Job(t) \notin overrun => DriveInOrder(k, row[Job(t)], task[Job(t)], checkpoint[Job(t)])
      BY <1>1, <3>2
         DEF DriveInOrder, Failing, Announcing, Concluded, Looping, Entering, InRound, OnTask,
             Executing, Asked, Leaving
    <3>6. Fits(t, k, overrun)
      BY <1>1, <3>2, <3>3, <3>4, <3>5 DEF Fits
    <3>. QED  BY <2>2, <3>1, <3>6 DEF Step
  <2>. QED  BY <2>1, <2>2
<1>. QED  BY <1>1, <1>2, CheckStep DEF CheckFailure

\* The next completion to repair.
LEMMA RepairNextStep ==
    ASSUME DiagnosticInductive, NEW t \in Workers, RepairNext(t)
    PROVE  DiagnosticInductive'
<1>. DEFINE w == worker[t]
<1>1. /\ w.pc = "repairs" /\ w \in Worker /\ ThreadSound(w) /\ overrun \subseteq Runs
      /\ w.repairing /\ w.ck = NewCheckpoint
      /\ \A q \in w.repairs : q \in Runs /\ row[q].status = "COMPLETED"
      /\ memory.findings \subseteq Grounded /\ memory.findings \in SUBSET Runs
  BY Knowing
     DEF RepairNext, ThreadSound, DiagnosticInductive, DiagnosticTypeOK, FindingsGrounded
<1>2. CASE w.repairs = {}
  <2>1. Fits(t, Idle, overrun) /\ Becomes(t, Idle)
    BY <1>2, IdleFits DEF RepairNext
  <2>. QED  BY <1>1, <2>1, LocalStep DEF RepairNext
<1>3. ASSUME NEW r \in w.repairs,
             Becomes(t, [w EXCEPT !.run = r, !.repairs = @ \ {r}, !.seen = memory.findings,
                                  !.pc = IF Conclusive(task[r]) THEN "record" ELSE "publish"])
      PROVE  DiagnosticInductive'
  <2>1. PICK label \in {"record", "publish"} :
            label = IF Conclusive(task[r]) THEN "record" ELSE "publish"
    OBVIOUS
  <2>2. PICK k : k = [w EXCEPT !.run = r, !.repairs = @ \ {r}, !.seen = memory.findings,
                               !.pc = label]
    OBVIOUS
  <2>3. /\ k \in Worker /\ k.run = r /\ k.pc = label /\ k.repairs = w.repairs \ {r}
        /\ k.seen = memory.findings /\ k.repairing = w.repairing /\ k.ck = w.ck
    BY ZenonT(60), <1>1, <2>2 DEF Worker, PC
  <2>4. ThreadSound(k) /\ ~Drives(k)
    BY <1>1, <2>3
       DEF ThreadSound, Entering, InRound, OnTask, Executing, Asked, Announcing, Drives
  <2>5. HoldsCopies(k, row[r], task[r], checkpoint[r])
    <3>1. NewCheckpoint.round <= checkpoint[r].round /\ Present(row[r])
      BY <1>1, KnowingRun, Numbers DEF NewCheckpoint, Present
    <3>. QED  BY <1>1, <2>1, <2>3, <3>1
              DEF HoldsCopies, Saving, Looping, Entering, InRound, OnTask, Executing, Asked,
                  Announcing, Conclusive
  <2>6. Fits(t, k, overrun)
    BY <1>1, <2>3, <2>4, <2>5 DEF Fits
  <2>. QED  BY <1>1, <1>3, <2>1, <2>2, <2>6, LocalStep DEF RepairNext
<1>. QED  BY ZenonT(60), <1>2, <1>3 DEF RepairNext

-----------------------------------------------------------------------------
(* The repair of a checkpoint *)

\* A set of numbers has a least one.
LEMMA LeastOf ==
    ASSUME NEW S \in SUBSET Nat, S # {}
    PROVE  \E n \in S : \A m \in S : n <= m
<1>1. PICK n \in S : \A m \in S : <<m, n>> \notin OpToRel(<, Nat)
  <2>. HIDE DEF OpToRel
  <2>1. IsWellFoundedOn(OpToRel(<, Nat), Nat)
    BY NatLessThanWellFounded
  <2>. QED  BY <2>1, WFMin
<1>2. \A m \in S : ~(m < n)
  BY <1>1 DEF OpToRel
<1>. QED  BY <1>2

\* Evidence has a first place.
LEMMA FirstOf ==
    ASSUME NEW S \in SUBSET Places, S # {}
    PROVE  First(S) \in S
<1>1. \A p \in S : p[1] \in Nat /\ p[2] \in Nat
  BY PlaceFacts
<1>. DEFINE rounds == {p[1] : p \in S}
<1>2. PICK n \in rounds : \A m \in rounds : n <= m
  <2>1. rounds \subseteq Nat /\ rounds # {}
    BY <1>1
  <2>. HIDE DEF rounds
  <2>. QED  BY <2>1, LeastOf
<1>. DEFINE ordinals == {p[2] : p \in {q \in S : q[1] = n}}
<1>3. PICK o \in ordinals : \A m \in ordinals : o <= m
  <2>1. ordinals \subseteq Nat /\ ordinals # {}
    BY <1>1, <1>2
  <2>. HIDE DEF ordinals
  <2>. QED  BY <2>1, LeastOf
<1>4. PICK p \in S : p[1] = n /\ p[2] = o
  BY <1>3
<1>5. ASSUME NEW q \in S, Before(q, p)
      PROVE  FALSE
  <2>1. n <= q[1] /\ n \in Nat /\ o \in Nat /\ q[1] \in Nat /\ q[2] \in Nat
    BY <1>1, <1>2, <1>4
  <2>2. q[1] = n /\ q[2] < o
    BY <1>4, <1>5, <2>1 DEF Before
  <2>3. o <= q[2]
    BY <1>3, <2>2
  <2>. QED  BY <2>1, <2>2, <2>3
<1>. QED  BY <1>4, <1>5 DEF First

\* What a repaired checkpoint says.
LEMMA RepairedCheckpoint ==
    ASSUME NEW ck \in Checkpoint, NEW tasks \in [Places -> Task]
    PROVE  /\ Repaired(ck, tasks) \in Checkpoint /\ Tallied(tasks, Repaired(ck, tasks))
           /\ Repaired(ck, tasks).round = ck.round
           /\ Repaired(ck, tasks).remaining = ck.remaining
           /\ Repaired(ck, tasks).revision = ck.revision
           /\ Verified(tasks) # {} => Repaired(ck, tasks).source # NoSource
           /\ \/ Repaired(ck, tasks).source = ck.source
              \/ /\ ck.source = NoSource
                 /\ \E p \in Verified(tasks) : Repaired(ck, tasks).source = tasks[p].source
<1>1. Verified(tasks) \subseteq Places /\ Cardinality(Done(tasks)) \in Nat
  BY DoneCount
<1>2. \A p \in Verified(tasks) : tasks[p].source \in Sources /\ tasks[p].source # NoSource
  <2>1. \A p \in Verified(tasks) : tasks[p].source \in Sources \cup {NoSource}
    BY <1>1 DEF Task
  <2>. QED  BY <2>1 DEF Verified
<1>3. /\ RepairedSource(ck, tasks) \in Sources \cup {NoSource}
      /\ Verified(tasks) # {} => RepairedSource(ck, tasks) # NoSource
      /\ \/ RepairedSource(ck, tasks) = ck.source
         \/ /\ ck.source = NoSource
            /\ \E p \in Verified(tasks) : RepairedSource(ck, tasks) = tasks[p].source
  <2>1. Verified(tasks) # {} => First(Verified(tasks)) \in Verified(tasks)
    BY <1>1, FirstOf
  <2>. QED  BY <1>2, <2>1 DEF RepairedSource, Checkpoint
<1>4. PICK new : new = Repaired(ck, tasks)
  OBVIOUS
<1>5. /\ new \in Checkpoint /\ new.round = ck.round /\ new.remaining = ck.remaining
      /\ new.revision = ck.revision /\ new.source = RepairedSource(ck, tasks)
      /\ new.completed = Cardinality(Done(tasks)) /\ new.refs = Verified(tasks)
  BY <1>1, <1>3, <1>4 DEF Repaired, Checkpoint
<1>. QED  BY <1>3, <1>4, <1>5 DEF Tallied

\* The checkpoint is compared with the tasks.
LEMMA CompareStep ==
    ASSUME DiagnosticInductive, NEW t \in Workers, Compare(t)
    PROVE  DiagnosticInductive'
<1>. DEFINE w == worker[t]
            tasks == task[Job(t)]
            stored == checkpoint[Job(t)]
<1>1. /\ w.pc = "compare" /\ w \in Worker /\ ThreadSound(w) /\ Job(t) \in Runs /\ Drives(w)
      /\ HoldsCopies(w, row[Job(t)], tasks, stored) /\ ~w.repairing
      /\ tasks \in [Places -> Task] /\ stored \in Checkpoint /\ w.ck \in Checkpoint
      /\ w.seen \subseteq Grounded /\ \A q \in w.repairs : row[q].status = "COMPLETED"
      /\ overrun \subseteq Runs
  BY Here DEF Compare, Announcing, DiagnosticInductive, DiagnosticTypeOK, Worker
<1>2. Job(t) \notin overrun =>
         /\ DriveInOrder(w, row[Job(t)], tasks, stored) /\ RunInOrder(row[Job(t)], tasks, stored)
         /\ w.ck = stored
  <2>1. Looping(w)
    BY <1>1 DEF Looping, Entering
  <2>. QED  BY <1>1, <2>1, Here, DriversCheckpoint
<1>3. CASE w.ck.completed # Cardinality(Done(tasks)) \/ w.ck.refs # Verified(tasks)
  <2>1. PICK new : new = Repaired(w.ck, tasks)
    OBVIOUS
  <2>2. /\ new \in Checkpoint /\ Tallied(tasks, new) /\ new.round = w.ck.round
        /\ new.remaining = w.ck.remaining /\ new.revision = w.ck.revision
    BY <1>1, <2>1, RepairedCheckpoint
  <2>3. PICK k : k = [w EXCEPT !.pc = "repair", !.ck = new]
    OBVIOUS
  <2>4. /\ k \in Worker /\ k.pc = "repair" /\ k.run = w.run /\ k.ck = new /\ k.tasks = w.tasks
        /\ k.seen = w.seen /\ k.repairs = w.repairs /\ ~k.repairing
    BY ZenonT(60), <1>1, <2>2, <2>3 DEF Worker, PC
  <2>5. /\ ~InRound(k) /\ ~OnTask(k) /\ ~Executing(k) /\ ~Asked(k) /\ ~Leaving(k) /\ Looping(k)
        /\ ~Executing(w) /\ ~Leaving(w) /\ Looping(w)
    BY <1>1, <2>4 DEF InRound, OnTask, Executing, Asked, Leaving, Looping, Entering
  <2>6. ThreadSound(k)
    BY <1>1, <2>4, <2>5 DEF ThreadSound, Entering
  <2>7. HoldsCopies(k, row[Job(t)], tasks, stored)
    BY <1>1, <2>2, <2>4, <2>5 DEF HoldsCopies, Saving, Announcing
  <2>8. ASSUME Job(t) \notin overrun
        PROVE  DriveInOrder(k, row[Job(t)], tasks, stored)
    <3>1. \A p \in Verified(tasks) : tasks[p].source = new.source
      BY <1>1, <1>2, <2>1, <2>8, RepairedCheckpoint DEF RunInOrder
    <3>. QED  BY <1>1, <1>2, <2>2, <2>4, <2>5, <2>8, <3>1
              DEF DriveInOrder, Failing, Announcing, Concluded
  <2>9. Fits(t, k, overrun)
    BY <1>1, <2>4, <2>6, <2>7, <2>8 DEF Fits
  <2>. QED  BY <1>1, <1>3, <2>1, <2>3, <2>9, LocalStep DEF Compare
<1>4. CASE w.ck.completed = Cardinality(Done(tasks)) /\ w.ck.refs = Verified(tasks)
  <2>1. PICK k : k = [w EXCEPT !.pc = "begin"]
    BY ZenonT(60)
  <2>2. /\ k \in Worker /\ k.pc = "begin" /\ k.run = w.run /\ k.ck = w.ck /\ k.tasks = w.tasks
        /\ k.seen = w.seen /\ k.repairs = w.repairs /\ ~k.repairing
    BY <1>1, <2>1, MovedOn DEF PC
  <2>3. /\ ~InRound(k) /\ ~OnTask(k) /\ ~Executing(k) /\ ~Asked(k) /\ ~Leaving(k) /\ Looping(k)
        /\ ~Executing(w) /\ ~Leaving(w) /\ Looping(w)
    BY <1>1, <2>2 DEF InRound, OnTask, Executing, Asked, Leaving, Looping, Entering
  <2>4. ThreadSound(k)
    BY SMTT(60), <1>1, <2>2, <2>3 DEF ThreadSound, Entering
  <2>5. HoldsCopies(k, row[Job(t)], tasks, stored)
    BY <1>1, <2>2, <2>3 DEF HoldsCopies, Saving, Announcing
  <2>6. ASSUME Job(t) \notin overrun
        PROVE  DriveInOrder(k, row[Job(t)], tasks, stored)
    <3>1. Tallied(tasks, stored)
      BY <1>2, <1>4, <2>6 DEF Tallied
    <3>. QED  BY <1>1, <1>2, <2>2, <2>3, <2>6, <3>1
              DEF DriveInOrder, Failing, Announcing, Concluded
  <2>7. Fits(t, k, overrun)
    BY <1>1, <2>2, <2>4, <2>5, <2>6 DEF Fits
  <2>8. Becomes(t, k)
    BY <1>4, <2>1 DEF Compare, Goto, Step
  <2>. QED  BY <1>1, <2>7, <2>8, LocalStep DEF Compare
<1>. QED  BY <1>3, <1>4

-----------------------------------------------------------------------------
(* Steps that save *)

\* A thread saves something of the run it works on.
LEMMA SavingStep ==
    ASSUME DiagnosticInductive, NEW t \in Workers, NEW k \in Worker, Becomes(t, k),
           worker[t].pc \notin {"idle", "repairs"},
           NEW run1 \in Row, NEW tasks1 \in [Places -> Task], NEW stored1 \in Checkpoint,
           row' = [row EXCEPT ![Job(t)] = run1], task' = [task EXCEPT ![Job(t)] = tasks1],
           checkpoint' = [checkpoint EXCEPT ![Job(t)] = stored1],
           memory' = memory, announced' = announced, overrun' = overrun, events' = events,
           Evolves(row[Job(t)], task[Job(t)], checkpoint[Job(t)], run1, tasks1, stored1),
           ThreadSound(k), k.run \in {Job(t), NoRun},
           k.run = Job(t) => HoldsCopies(k, run1, tasks1, stored1),
           k.seen \subseteq worker[t].seen, k.repairs \subseteq worker[t].repairs,
           Paid(tasks1, stored1), run1.status = "FAILED" /\ run1.queued => run1.retryable,
           Job(t) \notin overrun =>
               /\ Drives(worker[t]) /\ RunInOrder(run1, tasks1, stored1)
               /\ k.run = Job(t) /\ Drives(k) => DriveInOrder(k, run1, tasks1, stored1)
    PROVE  DiagnosticInductive'
<1>1. PICK r : r = Job(t)
  OBVIOUS
<1>2. /\ r \in Runs /\ worker[t].seen \subseteq Grounded
      /\ \A q \in worker[t].repairs : row[q].status = "COMPLETED"
  BY <1>1, Here
<1>3. /\ memory' \in [findings: SUBSET Runs, revision: Nat] /\ memory'.findings \subseteq Grounded
      /\ announced' \subseteq Runs /\ events' \in Nat /\ overrun \subseteq overrun'
      /\ overrun' \subseteq Runs
  BY DEF DiagnosticInductive, DiagnosticTypeOK, FindingsGrounded
<1>4. k.seen \subseteq Grounded /\ \A q \in k.repairs : row[q].status = "COMPLETED"
  BY <1>2
<1>5. Orderly(t, k, r, run1, tasks1, stored1, overrun')
  BY SMTT(60), <1>1 DEF Orderly
<1>. HIDE DEF Becomes
<1>. QED  BY <1>1, <1>2, <1>3, <1>4, <1>5, ThreadStep

\* A checkpoint is saved over the one its thread holds.
LEMMA CheckpointSaved ==
    ASSUME DiagnosticInductive, NEW t \in Workers,
           NEW label, \/ worker[t].pc = "repair" /\ label = "begin"
                      \/ worker[t].pc = "begin" /\ label = "round"
                      \/ worker[t].pc = "pend" /\ label = "ask"
                      \/ worker[t].pc = "count" /\ label = "after",
           NEW stored1 \in Checkpoint, stored1.round = Ck(t).round,
           Ck(t).revision = checkpoint[Job(t)].revision,
           stored1.revision = checkpoint[Job(t)].revision + 1,
           checkpoint' = [checkpoint EXCEPT ![Job(t)] = stored1],
           NEW k, k = [worker[t] EXCEPT !.pc = label, !.ck = stored1], Becomes(t, k),
           UNCHANGED <<row, task, memory, announced, history>>,
           stored1.round = 0 => stored1.remaining \in {0, MaxQuestions},
           stored1.round > 0 => stored1.remaining = Ck(t).remaining,
           Job(t) \notin overrun =>
               /\ RunInOrder(row[Job(t)], task[Job(t)], stored1)
               /\ Tallied(task[Job(t)], stored1)
    PROVE  DiagnosticInductive'
<1>. DEFINE w == worker[t]
            r == Job(t)
<1>1. /\ w \in Worker /\ ThreadSound(w) /\ r \in Runs /\ Drives(w) /\ ~w.repairing
      /\ HoldsCopies(w, row[r], task[r], checkpoint[r])
      /\ row[r] \in Row /\ task[r] \in [Places -> Task] /\ checkpoint[r] \in Checkpoint
      /\ w.seen \subseteq Grounded /\ \A q \in w.repairs : row[q].status = "COMPLETED"
      /\ r \notin overrun => DriveInOrder(w, row[r], task[r], checkpoint[r])
      /\ overrun \subseteq Runs /\ events \in Nat
      /\ Paid(task[r], checkpoint[r])
      /\ row[r].status = "FAILED" /\ row[r].queued => row[r].retryable
      /\ memory \in [findings: SUBSET Runs, revision: Nat] /\ memory.findings \subseteq Grounded
      /\ announced \subseteq Runs
  BY Here, KnowingRun DEF Announcing, DiagnosticInductive, DiagnosticTypeOK, FindingsGrounded
<1>2. /\ k \in Worker /\ k.pc = label /\ k.run = r /\ k.ck = stored1 /\ k.snap = w.snap
      /\ k.tasks = w.tasks /\ k.todo = w.todo /\ k.place = w.place /\ k.seen = w.seen
      /\ k.found = w.found /\ k.repairs = w.repairs /\ ~k.repairing
  BY ZenonT(60), <1>1 DEF Worker, PC
<1>3. /\ Looping(w) /\ Looping(k) /\ ~Leaving(w) /\ ~Leaving(k) /\ ~Asked(k)
      /\ HeldBy(k) = HeldBy(w)
      /\ InRound(k) <=> label \in {"ask", "after"}
      /\ OnTask(k) <=> label \in {"ask", "after"}
      /\ InRound(k) => InRound(w) /\ OnTask(w)
      /\ Executing(k) <=> label = "ask"
      /\ Executing(w) <=> w.pc = "pend"
  BY <1>2 DEF Looping, Leaving, Asked, HeldBy, InRound, OnTask, Executing, Entering
<1>4. w.ck.round = checkpoint[r].round /\ w.ck.remaining = checkpoint[r].remaining
  BY <1>1, <1>3 DEF HoldsCopies
<1>5. checkpoint[r].revision \in Nat /\ checkpoint[r].round \in Nat
  BY SMTT(60), <1>1, Numbers
<1>6. Evolves(row[r], task[r], checkpoint[r], row[r], task[r], stored1)
  <2>1. Present(row[r])
    BY <1>1 DEF HoldsCopies
  <2>2. stored1.revision > checkpoint[r].revision /\ stored1.round >= checkpoint[r].round
    BY <1>4, <1>5
  <2>. HIDE DEF r
  <2>. QED  BY <2>1, <2>2, CheckpointEvolves
<1>7. ThreadSound(k)
  BY SMTT(60), <1>1, <1>2, <1>3 DEF ThreadSound, Entering
<1>8. HoldsCopies(k, row[r], task[r], stored1)
  <2>1. stored1.revision <= stored1.revision /\ stored1.round <= stored1.round
    BY Numbers
  <2>2. k.pc \notin {"repair", "reread", "finish", "record", "put", "publish"}
        /\ k.pc \in Saving => w.pc \in Saving
    BY <1>2 DEF Saving
  <2>3. ASSUME InRound(k), NEW o \in 1..PerRound, k.tasks[o].status # "ABSENT"
        PROVE  /\ k.tasks[o].revision <= task[r][<<k.ck.round, o>>].revision
               /\ k.tasks[o].revision = task[r][<<k.ck.round, o>>].revision =>
                    k.tasks[o] = task[r][<<k.ck.round, o>>]
    <3>1. k.tasks = w.tasks /\ k.ck.round = w.ck.round /\ InRound(w)
      BY SMTT(60), <1>2, <1>3, <2>3
    <3>2. /\ w.tasks[o].revision <= task[r][<<w.ck.round, o>>].revision
          /\ w.tasks[o].revision = task[r][<<w.ck.round, o>>].revision =>
                    w.tasks[o] = task[r][<<w.ck.round, o>>]
      BY SMTT(60), <1>1, <2>3, <3>1 DEF HoldsCopies
    <3>. QED  BY <3>1, <3>2
  <2>. QED  BY <1>1, <1>2, <1>3, <2>1, <2>2, <2>3 DEF HoldsCopies, Announcing
<1>9. Paid(task[r], stored1)
  BY SMTT(60), <1>1, <1>4 DEF Paid
<1>10. ASSUME r \notin overrun
       PROVE  DriveInOrder(k, row[r], task[r], stored1)
  <2>1. DriveInOrder(w, row[r], task[r], checkpoint[r])
    BY SMTT(60), <1>1, <1>10
  <2>2. \A p \in Places : task[r][p].status = "RUNNING" => Executing(k) /\ p = k.place
    BY <1>2, <1>3, <2>1 DEF DriveInOrder, Failing
  <2>3. InRound(k) => \A o \in 1..PerRound :
            /\ k.tasks[o] = task[r][<<k.ck.round, o>>]
            /\ o \in k.todo \/ AtRest(k.tasks[o])
    <3>1. InRound(k) => InRound(w) /\ k.tasks = w.tasks /\ k.ck.round = w.ck.round
                        /\ k.todo = w.todo
      BY <1>2, <1>3
    <3>2. InRound(w) => \A o \in 1..PerRound :
            /\ w.tasks[o] = task[r][<<w.ck.round, o>>]
            /\ o \in w.todo \/ AtRest(w.tasks[o])
      BY <2>1 DEF DriveInOrder
    <3>. QED  BY ZenonT(60), <3>1, <3>2
  <2>4. row[r].status \in Active
    BY <2>1 DEF DriveInOrder, Failing, Announcing
  <2>. QED  BY <1>2, <1>3, <1>10, <2>2, <2>3, <2>4
            DEF DriveInOrder, Failing, Announcing, Concluded
<1>11. row \in [Runs -> Row] /\ task \in [Runs -> [Places -> Task]]
  BY DEF DiagnosticInductive, DiagnosticTypeOK
<1>12. PICK run, tasks : run = row[r] /\ tasks = task[r]
  OBVIOUS
<1>13. /\ row' = [row EXCEPT ![r] = run] /\ task' = [task EXCEPT ![r] = tasks]
       /\ memory' = memory /\ announced' = announced /\ events' = events /\ overrun' = overrun
  BY <1>11, <1>12
<1>14. w.pc \notin {"idle", "repairs"} /\ k.seen \subseteq w.seen /\ k.repairs \subseteq w.repairs
       /\ k.run = r
  BY <1>2
<1>. HIDE DEF Becomes
<1>. QED
  BY ZenonT(60), <1>1, <1>2, <1>6, <1>7, <1>8, <1>9, <1>10, <1>12, <1>13, <1>14, SavingStep

\* A checkpoint with its next revision.
LEMMA Renumbered ==
    ASSUME NEW new \in Checkpoint, NEW saved, saved = [new EXCEPT !.revision = @ + 1]
    PROVE  /\ saved \in Checkpoint /\ saved.round = new.round /\ saved.remaining = new.remaining
           /\ saved.completed = new.completed /\ saved.source = new.source
           /\ saved.refs = new.refs /\ saved.revision = new.revision + 1
BY DEF Checkpoint

\* A checkpoint with the budget of a new diagnosis.
LEMMA Budgeted ==
    ASSUME NEW ck \in Checkpoint, NEW new,
           new = [ck EXCEPT !.remaining = MaxQuestions, !.source = Scope]
    PROVE  /\ new \in Checkpoint /\ new.round = ck.round /\ new.remaining = MaxQuestions
           /\ new.revision = ck.revision /\ new.refs = ck.refs /\ new.completed = ck.completed
<1>1. MaxQuestions \in 0..MaxQuestions /\ Scope \in Sources \cup {NoSource}
  BY BudgetAssumption, SourcesAssumption
<1>. QED  BY <1>1 DEF Checkpoint

\* A checkpoint that has counted a task without evidence.
LEMMA CountedNothing ==
    ASSUME NEW ck \in Checkpoint, NEW new, new = [ck EXCEPT !.completed = @ + 1]
    PROVE  /\ new \in Checkpoint /\ new.round = ck.round /\ new.remaining = ck.remaining
           /\ new.revision = ck.revision /\ new.completed = ck.completed + 1
           /\ new.source = ck.source /\ new.refs = ck.refs
BY DEF Checkpoint

\* save_checkpoint() with what the order of a run wants of the new checkpoint.
LEMMA SaveCheckpointStep ==
    ASSUME DiagnosticInductive, NEW t \in Workers,
           NEW label, \/ worker[t].pc = "repair" /\ label = "begin"
                      \/ worker[t].pc = "begin" /\ label = "round"
                      \/ worker[t].pc = "pend" /\ label = "ask"
                      \/ worker[t].pc = "count" /\ label = "after",
           NEW new \in Checkpoint, SaveCheckpoint(t, new, label),
           new.revision = Ck(t).revision, new.round = Ck(t).round,
           UNCHANGED <<row, task, memory, announced, history>>,
           new.round = 0 /\ Ck(t).remaining \in {0, MaxQuestions} =>
                                new.remaining \in {0, MaxQuestions},
           new.round > 0 => new.remaining = Ck(t).remaining,
           Job(t) \notin overrun =>
               /\ new.source # NoSource =>
                      \A p \in Verified(task[Job(t)]) : task[Job(t)][p].source = new.source
               /\ new.refs # {} => new.source # NoSource
               /\ Tallied(task[Job(t)], new)
    PROVE  DiagnosticInductive'
<1>. DEFINE w == worker[t]
<1>1. /\ w \in Worker /\ ThreadSound(w) /\ Job(t) \in Runs /\ Drives(w)
      /\ HoldsCopies(w, row[Job(t)], task[Job(t)], checkpoint[Job(t)])
      /\ checkpoint[Job(t)] \in Checkpoint /\ Paid(task[Job(t)], checkpoint[Job(t)])
      /\ Job(t) \notin overrun =>
            RunInOrder(row[Job(t)], task[Job(t)], checkpoint[Job(t)])
  BY Here DEF Announcing
<1>2. Looping(w)
  BY SMTT(60) DEF Looping, Entering, InRound, OnTask, Executing
<1>3. CASE checkpoint[Job(t)].revision = new.revision
  <2>1. PICK stored1 : stored1 = [new EXCEPT !.revision = @ + 1]
    OBVIOUS
  <2>2. PICK k : k = [w EXCEPT !.pc = label, !.ck = stored1]
    OBVIOUS
  <2>3. /\ stored1 \in Checkpoint /\ stored1.round = new.round
        /\ stored1.remaining = new.remaining /\ stored1.completed = new.completed
        /\ stored1.source = new.source /\ stored1.refs = new.refs
        /\ stored1.revision = new.revision + 1
    BY <2>1, Renumbered
  <2>4. Becomes(t, k) /\ checkpoint' = [checkpoint EXCEPT ![Job(t)] = stored1]
    BY SMTT(60), <1>3, <2>1, <2>2 DEF SaveCheckpoint
  <2>5. w.ck.round = checkpoint[Job(t)].round /\ w.ck.remaining = checkpoint[Job(t)].remaining
    BY <1>1, <1>2, <1>3 DEF HoldsCopies
  <2>6. stored1.round = 0 => stored1.remaining \in {0, MaxQuestions}
    BY SMTT(60), <1>1, <2>3, <2>5 DEF Paid
  <2>7. ASSUME Job(t) \notin overrun
        PROVE  RunInOrder(row[Job(t)], task[Job(t)], stored1) /\ Tallied(task[Job(t)], stored1)
    BY <1>1, <2>3, <2>5, <2>7 DEF RunInOrder, Tallied
  <2>. HIDE DEF Becomes
  <2>. QED  BY <1>3, <2>2, <2>3, <2>4, <2>5, <2>6, <2>7, CheckpointSaved
<1>4. CASE checkpoint[Job(t)].revision # new.revision
  <2>1. Raise(t, "permanent") /\ checkpoint' = checkpoint
    BY <1>4 DEF SaveCheckpoint
  <2>. HIDE DEF Becomes
  <2>. QED  BY <2>1, RaiseStep
<1>. QED  BY <1>3, <1>4

\* The repaired checkpoint is saved.
LEMMA RepairStep ==
    ASSUME DiagnosticInductive, NEW t \in Workers, Repair(t)
    PROVE  DiagnosticInductive'
<1>1. /\ worker[t].pc = "repair" /\ worker[t] \in Worker /\ Ck(t) \in Checkpoint
      /\ task[Job(t)] \in [Places -> Task]
  BY Here DEF Repair, Worker
<1>2. ASSUME Job(t) \notin overrun
      PROVE  /\ Tallied(task[Job(t)], Ck(t))
             /\ \A p \in Verified(task[Job(t)]) : task[Job(t)][p].source = Ck(t).source
             /\ Ck(t).refs # {} => Ck(t).source # NoSource
  <2>1. /\ Tallied(task[Job(t)], Ck(t))
        /\ \A p \in Verified(task[Job(t)]) : task[Job(t)][p].source = Ck(t).source
    BY <1>1, <1>2, Here DEF DriveInOrder, Announcing
  <2>. QED  BY <2>1 DEF Tallied, Verified
<1>. HIDE DEF Becomes
<1>. QED  BY <1>1, <1>2, SaveCheckpointStep DEF Repair

\* A new diagnosis gets its budget.
LEMMA BeginStep ==
    ASSUME DiagnosticInductive, NEW t \in Workers, Begin(t)
    PROVE  DiagnosticInductive'
<1>. DEFINE w == worker[t]
            tasks == task[Job(t)]
            stored == checkpoint[Job(t)]
<1>1. /\ w.pc = "begin" /\ w \in Worker /\ ThreadSound(w) /\ Job(t) \in Runs /\ Drives(w)
      /\ HoldsCopies(w, row[Job(t)], tasks, stored) /\ ~w.repairing
      /\ tasks \in [Places -> Task] /\ stored \in Checkpoint /\ w.ck \in Checkpoint
      /\ w.seen \subseteq Grounded /\ \A q \in w.repairs : row[q].status = "COMPLETED"
      /\ overrun \subseteq Runs /\ Paid(tasks, stored)
  BY Here DEF Begin, Announcing, DiagnosticInductive, DiagnosticTypeOK, Worker
<1>2. Job(t) \notin overrun =>
         /\ DriveInOrder(w, row[Job(t)], tasks, stored) /\ RunInOrder(row[Job(t)], tasks, stored)
         /\ w.ck = stored
  <2>1. Looping(w)
    BY <1>1 DEF Looping, Entering
  <2>. QED  BY <1>1, <2>1, Here, DriversCheckpoint
<1>3. CASE w.ck.round = 0 /\ w.ck.remaining = 0
  <2>1. PICK new : new = [w.ck EXCEPT !.remaining = MaxQuestions, !.source = Scope]
    OBVIOUS
  <2>2. /\ new \in Checkpoint /\ new.round = 0 /\ new.remaining = MaxQuestions
        /\ new.revision = w.ck.revision /\ new.refs = w.ck.refs
        /\ new.completed = w.ck.completed
    BY <1>1, <1>3, <2>1, Budgeted
  <2>3. ASSUME Job(t) \notin overrun
        PROVE  Verified(tasks) = {} /\ Tallied(tasks, new) /\ new.refs = {}
    <3>1. Tallied(tasks, stored) /\ w.ck = stored
      BY <1>1, <1>2, <2>3 DEF DriveInOrder, Failing, Leaving
    <3>2. \A p \in Places : tasks[p].status = "ABSENT"
      <4>1. ASSUME NEW p \in Places PROVE ~(p[1] <= 0)
        BY PlaceFacts
      <4>. QED  BY <1>1, <1>3, <3>1, <4>1 DEF Paid
    <3>3. Verified(tasks) = {}
      BY <3>2 DEF Verified, Done
    <3>. QED  BY <2>2, <3>1, <3>3 DEF Tallied
  <2>4. SaveCheckpoint(t, new, "round")
    BY <1>3, <2>1 DEF Begin
  <2>5. ~(new.round > 0)
    BY <2>2
  <2>6. UNCHANGED <<row, task, memory, announced, history>>
    BY DEF Begin
  <2>. HIDE DEF Becomes
  <2>. QED  BY <1>1, <1>3, <2>2, <2>3, <2>4, <2>5, <2>6, SaveCheckpointStep
<1>4. CASE ~(w.ck.round = 0 /\ w.ck.remaining = 0)
  <2>1. PICK k : k = [w EXCEPT !.pc = "round"]
    BY ZenonT(60)
  <2>2. /\ k \in Worker /\ k.pc = "round" /\ k.run = w.run /\ k.ck = w.ck /\ k.tasks = w.tasks
        /\ k.seen = w.seen /\ k.repairs = w.repairs /\ ~k.repairing
    BY <1>1, <2>1, MovedOn DEF PC
  <2>3. /\ ~InRound(k) /\ ~OnTask(k) /\ ~Executing(k) /\ ~Asked(k) /\ ~Leaving(k) /\ Looping(k)
        /\ ~Executing(w) /\ ~Leaving(w) /\ Looping(w)
    BY <1>1, <2>2 DEF InRound, OnTask, Executing, Asked, Leaving, Looping, Entering
  <2>4. ThreadSound(k)
    BY SMTT(60), <1>1, <2>2, <2>3 DEF ThreadSound, Entering
  <2>5. HoldsCopies(k, row[Job(t)], tasks, stored)
    BY <1>1, <2>2, <2>3 DEF HoldsCopies, Saving, Announcing
  <2>6. ASSUME Job(t) \notin overrun
        PROVE  DriveInOrder(k, row[Job(t)], tasks, stored)
    BY <1>1, <1>2, <2>2, <2>3, <2>6 DEF DriveInOrder, Failing, Announcing, Concluded
  <2>7. Fits(t, k, overrun)
    BY <1>1, <2>2, <2>4, <2>5, <2>6 DEF Fits
  <2>8. Becomes(t, k)
    BY <1>4, <2>1 DEF Begin, Goto, Step
  <2>. QED  BY <1>1, <1>4, <2>7, <2>8, LocalStep DEF Begin
<1>. QED  BY <1>3, <1>4

\* The pending task is noted.
LEMMA SetPendingStep ==
    ASSUME DiagnosticInductive, NEW t \in Workers, SetPending(t)
    PROVE  DiagnosticInductive'
<1>. DEFINE w == worker[t]
<1>1. w.pc = "pend" /\ w \in Worker /\ w.ck \in Checkpoint /\ Looping(w) /\ ~Leaving(w)
  BY Here DEF SetPending, Worker, Looping, InRound, OnTask, Executing, Leaving
<1>2. ASSUME Job(t) \notin overrun
      PROVE  /\ Tallied(task[Job(t)], w.ck)
             /\ w.ck.source # NoSource =>
                    \A p \in Verified(task[Job(t)]) : task[Job(t)][p].source = w.ck.source
             /\ w.ck.refs # {} => w.ck.source # NoSource
  <2>1. /\ DriveInOrder(w, row[Job(t)], task[Job(t)], checkpoint[Job(t)])
        /\ RunInOrder(row[Job(t)], task[Job(t)], checkpoint[Job(t)])
        /\ w.ck = checkpoint[Job(t)]
    BY <1>1, <1>2, Here, DriversCheckpoint DEF Announcing
  <2>. QED  BY <1>1, <2>1 DEF DriveInOrder, RunInOrder, Failing
<1>3. SaveCheckpoint(t, w.ck, "ask") /\ UNCHANGED <<row, task, memory, announced, history>>
  BY DEF SetPending
<1>. HIDE DEF Becomes
<1>. QED  BY <1>1, <1>2, <1>3, SaveCheckpointStep

\* A completion is counted and its source pinned.
LEMMA CountTaskStep ==
    ASSUME DiagnosticInductive, NEW t \in Workers, CountTask(t)
    PROVE  DiagnosticInductive'
<1>. DEFINE w == worker[t]
            tasks == task[Job(t)]
            stored == checkpoint[Job(t)]
<1>1. /\ w.pc = "count" /\ w \in Worker /\ w.ck \in Checkpoint /\ ThreadSound(w)
      /\ tasks \in [Places -> Task] /\ OnTask(w) /\ InRound(w) /\ Looping(w)
      /\ w.found \in Sources \cup {NoSource}
  BY Here DEF CountTask, Worker, Looping, InRound, OnTask
<1>2. /\ w.place \in Places /\ w.place[1] = w.ck.round /\ w.place[2] \in 1..PerRound
      /\ HeldBy(w).status = "COMPLETED" /\ HeldBy(w).source = w.found
  BY <1>1, PlaceFacts DEF ThreadSound
<1>3. PICK new : new = Counted(t)
  OBVIOUS
<1>4. /\ new \in Checkpoint /\ new.round = w.ck.round /\ new.remaining = w.ck.remaining
      /\ new.revision = w.ck.revision /\ new.completed = w.ck.completed + 1
      /\ new.source = IF w.found = NoSource THEN w.ck.source ELSE w.found
      /\ new.refs = w.ck.refs \cup (IF w.found = NoSource THEN {} ELSE {w.place})
  <2>1. CASE w.found = NoSource
    <3>1. new = [w.ck EXCEPT !.completed = @ + 1]
      BY <1>3, <2>1 DEF Counted
    <3>. QED  BY <1>1, <2>1, <3>1, CountedNothing
  <2>2. CASE w.found # NoSource
    <3>1. new = [w.ck EXCEPT !.completed = w.ck.completed + 1, !.source = w.found,
                             !.refs = w.ck.refs \cup {w.place}]
      BY <1>1, <1>3, <2>2 DEF Counted, Checkpoint
    <3>2. w.found \in Sources
      BY <1>1, <2>2
    <3>3. /\ new \in Checkpoint /\ new.round = w.ck.round /\ new.remaining = w.ck.remaining
          /\ new.revision = w.ck.revision /\ new.completed = w.ck.completed + 1
          /\ new.source = w.found /\ new.refs = w.ck.refs \cup {w.place}
      <4>1. PICK ck \in Checkpoint, found \in Sources, place \in Places :
                ck = w.ck /\ found = w.found /\ place = w.place
        BY <1>1, <1>2, <3>2
      <4>2. new = [ck EXCEPT !.completed = ck.completed + 1, !.source = found,
                             !.refs = ck.refs \cup {place}]
        BY <3>1, <4>1
      <4>3. /\ new \in Checkpoint /\ new.round = ck.round /\ new.remaining = ck.remaining
            /\ new.revision = ck.revision /\ new.completed = ck.completed + 1
            /\ new.source = found /\ new.refs = ck.refs \cup {place}
        <5>1. ck.refs \cup {place} \in SUBSET Places /\ ck.completed + 1 \in Nat
          BY DEF Checkpoint
        <5>. QED  BY ZenonT(60), <4>2, <5>1 DEF Checkpoint
      <4>. QED  BY <4>1, <4>3
    <3>. QED  BY <2>2, <3>3
  <2>. QED  BY <2>1, <2>2
<1>5. ASSUME Job(t) \notin overrun
      PROVE  /\ Tallied(tasks, new)
             /\ new.source # NoSource => \A p \in Verified(tasks) : tasks[p].source = new.source
             /\ new.refs # {} => new.source # NoSource
  <2>1. /\ DriveInOrder(w, row[Job(t)], tasks, stored)
        /\ RunInOrder(row[Job(t)], tasks, stored) /\ w.ck = stored
    BY <1>1, <1>5, Here, DriversCheckpoint DEF Announcing
  <2>2. Tallied(tasks, new)
    BY <1>1, <1>4, <2>1 DEF DriveInOrder, Tallied
  <2>3. w.tasks[w.place[2]] = tasks[w.place]
    <3>1. w.place = <<w.ck.round, w.place[2]>>
      BY <1>2, PlaceFacts
    <3>2. w.tasks[w.place[2]] = tasks[<<w.ck.round, w.place[2]>>]
      BY ZenonT(60), <1>1, <1>2, <2>1 DEF DriveInOrder
    <3>. QED  BY <3>1, <3>2
  <2>4. CASE w.found = NoSource
    BY <1>4, <2>1, <2>2, <2>4 DEF RunInOrder
  <2>5. CASE w.found # NoSource
    <3>1. w.place \in Verified(tasks) /\ tasks[w.place].source = w.found
      BY <1>2, <2>3, <2>5 DEF Verified, Done, HeldBy
    <3>2. \A p \in Verified(tasks) : tasks[p].source = w.found
      BY <2>1, <3>1 DEF RunInOrder
    <3>. QED  BY <1>4, <2>2, <2>5, <3>2
  <2>. QED  BY <2>4, <2>5
<1>6. SaveCheckpoint(t, new, "after") /\ UNCHANGED <<row, task, memory, announced, history>>
  BY <1>3 DEF CountTask
<1>. HIDE DEF Becomes
<1>. QED  BY <1>1, <1>4, <1>5, <1>6, SaveCheckpointStep

-----------------------------------------------------------------------------
(* The plan of a round *)

\* As many places as ordinals in a round.
LEMMA RoundCount ==
    ASSUME NEW n \in 1..MaxRounds, NEW todo \in SUBSET (1..PerRound),
           NEW places, places = {p \in Places : p[1] = n /\ p[2] \in todo}
    PROVE  IsFiniteSet(todo) /\ Cardinality(todo) \in Nat /\ Cardinality(places) = Cardinality(todo)
<1>1. IsFiniteSet(todo) /\ Cardinality(todo) \in Nat
  <2>1. IsFiniteSet(1..PerRound)
    BY BudgetAssumption, FS_Interval
  <2>2. IsFiniteSet(todo)
    BY <2>1, FS_Subset
  <2>. QED  BY <2>2, FS_CardinalityType
<1>. DEFINE f == [o \in todo |-> <<n, o>>]
<1>2. f \in Bijection(todo, places)
  <2>1. \A o \in todo : f[o] \in places
    BY PlaceOf
  <2>2. f \in Injection(todo, places)
    BY <2>1 DEF Injection, IsInjective
  <2>3. ASSUME NEW p \in places PROVE \E o \in todo : f[o] = p
    <3>1. p[2] \in todo /\ p = <<n, p[2]>>
      BY PlaceFacts
    <3>. QED  BY <3>1
  <2>4. f \in Surjection(todo, places)
    BY <2>1, <2>3 DEF Surjection
  <2>. QED  BY <2>2, <2>4 DEF Bijection
<1>3. ExistsBijection(todo, places)
  BY <1>2 DEF ExistsBijection
<1>. QED  BY <1>1, <1>3, FS_Bijection

\* The tasks of a run after the plan of its next round.
LEMMA PlannedTasks ==
    ASSUME NEW tasks \in [Places -> Task], NEW stored \in Checkpoint, Paid(tasks, stored),
           stored.round < MaxRounds, NEW todo \in SUBSET (1..PerRound),
           Cardinality(todo) <= stored.remaining, stored.remaining > 0,
           NEW tasks1, tasks1 = [p \in Places |-> IF p[1] = stored.round + 1 /\ p[2] \in todo
                                                  THEN NewTask ELSE tasks[p]],
           NEW stored1 \in Checkpoint, stored1.round = stored.round + 1,
           stored1.remaining = stored.remaining - Cardinality(todo)
    PROVE  /\ tasks1 \in [Places -> Task] /\ Paid(tasks1, stored1)
           /\ \A p \in Places : tasks1[p] = tasks[p] \/ p[1] > stored.round
           /\ \A p \in Places : tasks1[p] = tasks[p] \/ tasks1[p].status = "PLANNED"
           /\ \A p \in Places : p[1] > stored.round => tasks[p].status = "ABSENT"
           /\ todo = {} => tasks1 = tasks
           /\ Done(tasks1) = Done(tasks) /\ Verified(tasks1) = Verified(tasks)
<1>1. /\ stored.round \in Nat /\ stored.remaining \in Nat /\ stored.round + 1 \in 1..MaxRounds
      /\ MaxQuestions \in Nat
  BY Numbers, BudgetAssumption
<1>2. tasks1 \in [Places -> Task]
  BY Nothings
<1>3. \A p \in Places : p[1] > stored.round => tasks[p].status = "ABSENT"
  <2>1. \A p \in Places : p[1] \in Nat
    BY PlaceFacts
  <2>2. \A p \in Places : p[1] > stored.round => ~(p[1] <= stored.round)
    BY <1>1, <2>1
  <2>. QED  BY <2>2 DEF Paid
<1>4. \A p \in Places : tasks1[p] = tasks[p] \/ p[1] = stored.round + 1
  OBVIOUS
<1>5. \A p \in Places : tasks1[p] = tasks[p] \/ p[1] > stored.round
  BY <1>1, <1>4
<1>6. NewTask.status = "PLANNED"
  BY DEF NewTask, NoTask
<1>7. \A p \in Places : tasks1[p] = tasks[p] \/ tasks1[p].status = "PLANNED"
  BY <1>6
<1>8. Done(tasks1) = Done(tasks)
  <2>1. \A p \in Places : tasks1[p].status = "COMPLETED" <=> tasks[p].status = "COMPLETED"
    BY <1>3, <1>5, <1>7
  <2>. QED  BY <2>1 DEF Done
<1>9. Verified(tasks1) = Verified(tasks)
  <2>1. \A p \in Done(tasks) : tasks1[p] = tasks[p]
    BY <1>3, <1>5 DEF Done
  <2>. QED  BY <1>8, <2>1 DEF Verified
<1>10. Paid(tasks1, stored1)
  <2>. DEFINE planned == {p \in Places : tasks[p].status # "ABSENT"}
              planned1 == {p \in Places : tasks1[p].status # "ABSENT"}
              new == {p \in Places : p[1] = stored.round + 1 /\ p[2] \in todo}
  <2>1. planned1 = planned \cup new /\ planned \cap new = {}
    <3>1. \A p \in new : tasks[p].status = "ABSENT" /\ tasks1[p].status # "ABSENT"
      BY <1>1, <1>3, <1>6
    <3>2. \A p \in Places \ new : tasks1[p] = tasks[p]
      OBVIOUS
    <3>. QED  BY <3>1, <3>2
  <2>2. IsFiniteSet(planned) /\ IsFiniteSet(new) /\ Cardinality(planned) \in Nat
        /\ Cardinality(todo) \in Nat /\ Cardinality(new) = Cardinality(todo)
    <3>1. IsFiniteSet(planned) /\ IsFiniteSet(new)
      BY FinitePlaces
    <3>. QED  BY <1>1, <3>1, FS_CardinalityType, RoundCount
  <2>3. Cardinality(planned1) = Cardinality(planned) + Cardinality(todo)
    <3>. HIDE DEF planned, planned1, new
    <3>1. Cardinality(planned \cup new) = Cardinality(planned) + Cardinality(new)
                                          - Cardinality(planned \cap new)
      BY <2>2, FS_Union
    <3>2. Cardinality(planned \cap new) = 0
      BY <2>1, FS_EmptySet
    <3>. QED  BY <2>1, <2>2, <3>1, <3>2
  <2>4. Cardinality(planned) + stored.remaining = MaxQuestions
    <3>1. CASE stored.round = 0
      <4>1. planned = {}
        BY <1>1, <1>3, <3>1, PlaceFacts
      <4>2. stored.remaining = MaxQuestions
        BY <1>1, <3>1 DEF Paid
      <4>3. Cardinality(planned) = 0
        <5>. HIDE DEF planned
        <5>. QED  BY <4>1, FS_EmptySet
      <4>. QED  BY <1>1, <4>2, <4>3
    <3>2. CASE stored.round > 0
      BY <3>2 DEF Paid
    <3>. QED  BY <1>1, <3>1, <3>2
  <2>5. \A p \in planned1 : p[1] <= stored1.round
    <3>1. \A p \in planned : p[1] <= stored.round /\ p[1] \in Nat
      BY PlaceFacts DEF Paid
    <3>. QED  BY <1>1, <2>1, <3>1
  <2>6. stored1.round > 0 /\ stored1.round # 0
    BY <1>1
  <2>7. Cardinality(planned1) + stored1.remaining = MaxQuestions
    BY <1>1, <2>2, <2>3, <2>4
  <2>. QED  BY <2>5, <2>6, <2>7 DEF Paid
<1>11. todo = {} => tasks1 = tasks
  BY <1>2, <1>4
<1>. QED  BY <1>2, <1>3, <1>5, <1>7, <1>8, <1>9, <1>10, <1>11

\* A planned checkpoint counts a round and pays for its questions.
LEMMA PlannedCheckpoint ==
    ASSUME NEW ck \in Checkpoint, NEW n \in Nat, ck.round < MaxRounds, n <= ck.remaining,
           NEW new, new = Planned(ck, n)
    PROVE  /\ new \in Checkpoint /\ new.round = ck.round + 1 /\ new.remaining = ck.remaining - n
           /\ new.revision = ck.revision /\ new.completed = ck.completed
           /\ new.source = ck.source /\ new.refs = ck.refs
<1>1. ck.round + 1 \in 0..MaxRounds /\ ck.remaining - n \in 0..MaxQuestions
  BY Numbers
<1>. QED  BY <1>1 DEF Planned, Checkpoint

\* A run in an active state is neither over nor up for anybody else.
LEMMA ActiveRow ==
    ASSUME NEW run, run.status \in Active
    PROVE  ~Resumable(run) /\ run.status # "COMPLETED" /\ run.status \notin Terminal
BY DEF Resumable, Active, Terminal, Settled

\* The drive of a run between a plan and its tasks.
LEMMA PlannedDrive ==
    ASSUME NEW k, k.pc = "planned", NEW run, run.status \in Active, NEW tasks, NEW stored,
           k.ck.revision = stored.revision, Tallied(tasks, stored),
           \A p \in Places : tasks[p].status # "RUNNING",
           k.todo = {} => \A p \in Places : AtRest(tasks[p])
    PROVE  DriveInOrder(k, run, tasks, stored)
<1>1. ~InRound(k) /\ ~OnTask(k) /\ ~Executing(k) /\ ~Asked(k) /\ ~Leaving(k)
  BY DEF InRound, OnTask, Executing, Asked, Leaving
<1>. QED  BY <1>1 DEF DriveInOrder, Failing, Announcing, Concluded

\* The checkpoint and the tasks of a round are saved together.
LEMMA PlanRoundStep ==
    ASSUME DiagnosticInductive, NEW t \in Workers, PlanRound(t)
    PROVE  DiagnosticInductive'
<1>. DEFINE w == worker[t]
            tasks == task[Job(t)]
            stored == checkpoint[Job(t)]
<1>1. /\ w.pc = "plan_round" /\ w \in Worker /\ ThreadSound(w) /\ Job(t) \in Runs /\ Drives(w)
      /\ HoldsCopies(w, row[Job(t)], tasks, stored) /\ ~w.repairing /\ row[Job(t)] \in Row
      /\ tasks \in [Places -> Task] /\ stored \in Checkpoint /\ w.ck \in Checkpoint
      /\ Paid(tasks, stored) /\ Looping(w) /\ w.todo \in SUBSET (1..PerRound)
      /\ row[Job(t)].status = "FAILED" /\ row[Job(t)].queued => row[Job(t)].retryable
  BY Here, KnowingRun DEF PlanRound, Announcing, Worker, Looping, Entering
<1>2. Job(t) \notin overrun =>
         /\ DriveInOrder(w, row[Job(t)], tasks, stored) /\ RunInOrder(row[Job(t)], tasks, stored)
  BY <1>1, Here
<1>3. /\ w.ck.round < MaxRounds /\ w.ck.remaining > 0 /\ Cardinality(w.todo) <= w.ck.remaining
      /\ Cardinality(w.todo) \in Nat /\ w.tasks = Idle.tasks
  <2>1. 1 \in 1..MaxRounds
    BY BudgetAssumption
  <2>2. Cardinality(w.todo) \in Nat
    BY <1>1, <2>1, RoundCount
  <2>. QED  BY <1>1, <2>2 DEF ThreadSound, Entering
<1>4. PICK new : new = Planned(w.ck, Cardinality(w.todo))
  OBVIOUS
<1>5. /\ new \in Checkpoint /\ new.round = w.ck.round + 1
      /\ new.remaining = w.ck.remaining - Cardinality(w.todo)
      /\ new.revision = w.ck.revision /\ new.completed = w.ck.completed
      /\ new.source = w.ck.source /\ new.refs = w.ck.refs
  BY <1>1, <1>3, <1>4, PlannedCheckpoint
<1>6. /\ SaveCheckpoint(t, new, "planned")
      /\ task' = IF stored.revision = new.revision
                 THEN [task EXCEPT ![Job(t)] = [p \in Places |->
                        IF p[1] = new.round /\ p[2] \in w.todo THEN NewTask ELSE tasks[p]]]
                 ELSE task
      /\ UNCHANGED <<row, memory, announced, history>>
  <2>1. task \in [Runs -> [Places -> Task]]
    BY SMTT(60) DEF DiagnosticInductive, DiagnosticTypeOK
  <2>. QED  BY <1>1, <1>4, <2>1 DEF PlanRound
<1>7. CASE stored.revision = new.revision
  <2>1. w.ck = stored
    BY <1>1, <1>5, <1>7 DEF HoldsCopies
  <2>2. PICK stored1 : stored1 = [new EXCEPT !.revision = @ + 1]
    OBVIOUS
  <2>3. /\ stored1 \in Checkpoint /\ stored1.round = stored.round + 1
        /\ stored1.remaining = stored.remaining - Cardinality(w.todo)
        /\ stored1.completed = stored.completed
        /\ stored1.source = stored.source /\ stored1.refs = stored.refs
        /\ stored1.revision = stored.revision + 1
    BY <1>5, <2>1, <2>2, Renumbered
  <2>4. PICK tasks1 : tasks1 = [p \in Places |-> IF p[1] = stored.round + 1 /\ p[2] \in w.todo
                                                 THEN NewTask ELSE tasks[p]]
    BY ZenonT(60)
  <2>5. /\ tasks1 \in [Places -> Task] /\ Paid(tasks1, stored1)
        /\ \A p \in Places : tasks1[p] = tasks[p] \/ p[1] > stored.round
        /\ \A p \in Places : tasks1[p] = tasks[p] \/ tasks1[p].status = "PLANNED"
        /\ \A p \in Places : p[1] > stored.round => tasks[p].status = "ABSENT"
        /\ w.todo = {} => tasks1 = tasks
        /\ Done(tasks1) = Done(tasks) /\ Verified(tasks1) = Verified(tasks)
    BY SMTT(30), <1>1, <1>3, <2>1, <2>3, <2>4, PlannedTasks
  <2>6. PICK k : k = [w EXCEPT !.pc = "planned", !.ck = stored1]
    OBVIOUS
  <2>7. /\ k \in Worker /\ k.pc = "planned" /\ k.run = Job(t) /\ k.ck = stored1
        /\ k.tasks = w.tasks /\ k.todo = w.todo /\ k.seen = w.seen /\ k.repairs = w.repairs
        /\ ~k.repairing
    BY ZenonT(60), <1>1, <2>3, <2>6 DEF Worker, PC
  <2>8. /\ ~InRound(k) /\ ~OnTask(k) /\ ~Executing(k) /\ ~Asked(k) /\ ~Leaving(k) /\ Looping(k)
        /\ ~Executing(w) /\ ~Leaving(w)
    BY <1>1, <2>7 DEF InRound, OnTask, Executing, Asked, Leaving, Looping, Entering
  <2>9. stored1.round > 0 /\ stored.round \in Nat /\ stored.revision \in Nat
    BY <1>1, <2>3, Numbers
  <2>10. ThreadSound(k)
    BY SMTT(60), <1>1, <1>3, <2>7, <2>8, <2>9 DEF ThreadSound, Entering
  <2>11. HoldsCopies(k, row[Job(t)], tasks1, stored1)
    <3>1. stored1.revision <= stored1.revision /\ stored1.round <= stored1.round
      BY SMTT(60), <2>3, Numbers
    <3>. QED  BY <1>1, <2>7, <2>8, <3>1 DEF HoldsCopies, Saving, Announcing
  <2>12. Evolves(row[Job(t)], tasks, stored, row[Job(t)], tasks1, stored1)
    <3>1. \A p \in Places : tasks[p].status = "COMPLETED" => tasks1[p] = tasks[p]
      BY <2>5
    <3>2. Present(row[Job(t)])
      BY <1>1 DEF HoldsCopies
    <3>3. stored1.revision > stored.revision /\ stored1.round >= stored.round
      BY <2>3, <2>9
    <3>4. \A p \in Places : tasks1[p] = tasks[p] \/ p[1] > stored.round
      BY <2>5
    <3>. HIDE DEF tasks, stored
    <3>. QED  BY ZenonT(60), <3>1, <3>2, <3>3, <3>4, CheckpointEvolves
  <2>13. ASSUME Job(t) \notin overrun
         PROVE  RunInOrder(row[Job(t)], tasks1, stored1)
    <3>1. /\ row[Job(t)].status \in Active
          /\ \A p \in Places : AtRest(tasks[p])
          /\ RunInOrder(row[Job(t)], tasks, stored)
      BY <1>1, <1>2, <2>13 DEF DriveInOrder, Failing, Announcing
    <3>2. \A p \in Places : p[1] < stored1.round => AtRest(tasks1[p])
      <4>1. \A p \in Places : p[1] \in Nat
        BY PlaceFacts
      <4>2. \A p \in Places : p[1] < stored1.round => ~(p[1] > stored.round)
        BY <2>3, <2>9, <4>1
      <4>. QED  BY <2>5, <3>1, <4>2 DEF AtRest
    <3>3. \A p \in Verified(tasks) : tasks1[p] = tasks[p]
      BY <2>5 DEF Verified, Done
    <3>4. ~Resumable(row[Job(t)]) /\ row[Job(t)].status # "COMPLETED"
      BY SMTT(60), <3>1, ActiveRow
    <3>5. /\ \A p, q \in Verified(tasks1) : tasks1[p].source = tasks1[q].source
          /\ stored1.source # NoSource =>
                \A p \in Verified(tasks1) : tasks1[p].source = stored1.source
          /\ stored1.refs # {} => stored1.source # NoSource
      BY <2>3, <2>5, <3>1, <3>3 DEF RunInOrder
    <3>. QED  BY <3>2, <3>4, <3>5 DEF RunInOrder
  <2>14. ASSUME Job(t) \notin overrun
         PROVE  DriveInOrder(k, row[Job(t)], tasks1, stored1)
    <3>1. /\ row[Job(t)].status \in Active
          /\ \A p \in Places : AtRest(tasks[p])
          /\ Tallied(tasks, stored)
      BY <1>1, <1>2, <2>8, <2>14 DEF DriveInOrder, Failing, Announcing
    <3>2. Tallied(tasks1, stored1)
      BY <2>3, <2>5, <3>1 DEF Tallied
    <3>3. \A p \in Places : tasks1[p].status # "RUNNING"
      <4>1. \A p \in Places : tasks[p].status # "RUNNING"
        BY <3>1 DEF AtRest
      <4>. QED  BY <2>5, <4>1
    <3>4. k.todo = {} => \A p \in Places : AtRest(tasks1[p])
      BY <2>5, <2>7, <3>1
    <3>. QED  BY <2>7, <3>1, <3>2, <3>3, <3>4, PlannedDrive
  <2>15. PICK run : run = row[Job(t)]
    OBVIOUS
  <2>16. /\ row' = [row EXCEPT ![Job(t)] = run] /\ task' = [task EXCEPT ![Job(t)] = tasks1]
         /\ checkpoint' = [checkpoint EXCEPT ![Job(t)] = stored1] /\ Becomes(t, k)
         /\ memory' = memory /\ announced' = announced /\ overrun' = overrun /\ events' = events
    <3>1. row \in [Runs -> Row]
      BY DEF DiagnosticInductive, DiagnosticTypeOK
    <3>2. new.round = stored.round + 1
      BY <1>5, <2>1
    <3>3. Becomes(t, k) /\ checkpoint' = [checkpoint EXCEPT ![Job(t)] = stored1]
      BY <1>6, <1>7, <2>2, <2>6 DEF SaveCheckpoint
    <3>. QED  BY <1>6, <1>7, <2>4, <2>15, <3>1, <3>2, <3>3
  <2>17. w.pc \notin {"idle", "repairs"} /\ k.seen \subseteq w.seen /\ k.repairs \subseteq w.repairs
    BY <1>1, <2>7
  <2>. HIDE DEF Becomes
  <2>. QED
    BY ZenonT(60), <1>1, <2>3, <2>5, <2>7, <2>10, <2>11, <2>12, <2>13, <2>14, <2>15, <2>16, <2>17,
       SavingStep
<1>8. CASE stored.revision # new.revision
  <2>1. Raise(t, "permanent") /\ checkpoint' = checkpoint /\ task' = task
    BY <1>6, <1>8 DEF SaveCheckpoint
  <2>. HIDE DEF Becomes
  <2>. QED  BY <1>1, <1>6, <2>1, RaiseStep
<1>. QED  BY <1>7, <1>8

-----------------------------------------------------------------------------
(* Steps that save a task *)

\* What saving a task does to the tasks of its run.
LEMMA TaskSet ==
    ASSUME NEW tasks \in [Places -> Task], NEW place \in Places, NEW saved \in Task,
           saved.status # "ABSENT", tasks[place].status \notin {"ABSENT", "COMPLETED"},
           NEW tasks1 \in [Places -> Task], tasks1[place] = saved,
           \A p \in Places : p # place => tasks1[p] = tasks[p]
    PROVE  /\ \A stored : Paid(tasks, stored) => Paid(tasks1, stored)
           /\ saved.status # "COMPLETED" => Done(tasks1) = Done(tasks)
           /\ saved.status = "COMPLETED" =>
                  Cardinality(Done(tasks1)) = Cardinality(Done(tasks)) + 1
           /\ saved.status # "COMPLETED" \/ saved.source = NoSource =>
                  Verified(tasks1) = Verified(tasks)
           /\ saved.status = "COMPLETED" /\ saved.source # NoSource =>
                  Verified(tasks1) = Verified(tasks) \cup {place}
<1>1. ASSUME NEW stored, Paid(tasks, stored)
      PROVE  Paid(tasks1, stored)
  <2>1. {p \in Places : tasks1[p].status # "ABSENT"} = {p \in Places : tasks[p].status # "ABSENT"}
    OBVIOUS
  <2>. QED  BY <1>1, <2>1 DEF Paid
<1>2. ASSUME saved.status # "COMPLETED"
      PROVE  Done(tasks1) = Done(tasks) /\ Verified(tasks1) = Verified(tasks)
  BY <1>2 DEF Done, Verified
<1>3. ASSUME saved.status = "COMPLETED"
      PROVE  /\ Cardinality(Done(tasks1)) = Cardinality(Done(tasks)) + 1
             /\ saved.source = NoSource => Verified(tasks1) = Verified(tasks)
             /\ saved.source # NoSource => Verified(tasks1) = Verified(tasks) \cup {place}
  <2>1. Done(tasks1) = Done(tasks) \cup {place} /\ place \notin Done(tasks)
    BY <1>3 DEF Done
  <2>2. IsFiniteSet(Done(tasks))
    BY DoneCount, FinitePlaces
  <2>3. Cardinality(Done(tasks) \cup {place}) = Cardinality(Done(tasks)) + 1
    BY <2>1, <2>2, FS_AddElement
  <2>4. /\ saved.source = NoSource => Verified(tasks1) = Verified(tasks)
        /\ saved.source # NoSource => Verified(tasks1) = Verified(tasks) \cup {place}
    BY <2>1 DEF Verified, Done
  <2>. QED  BY <2>1, <2>3, <2>4
<1>. QED  BY <1>1, <1>2, <1>3

\* A task is in a round that goes on, so a change of it leaves the earlier rounds at rest; and
\* evidence it brings is from the source the run has.
LEMMA TaskInOrder ==
    ASSUME NEW run, run.status # "COMPLETED", ~Resumable(run),
           NEW tasks \in [Places -> Task], NEW stored \in Checkpoint,
           RunInOrder(run, tasks, stored),
           NEW place \in Places, place[1] = stored.round, NEW saved \in Task,
           saved.status # "ABSENT", tasks[place].status \notin {"ABSENT", "COMPLETED"},
           NEW tasks1 \in [Places -> Task], tasks1[place] = saved,
           \A p \in Places : p # place => tasks1[p] = tasks[p],
           saved.status = "COMPLETED" =>
               /\ Tallied(tasks, stored)
               /\ saved.source = NoSource \/ stored.source \in {NoSource, saved.source}
    PROVE  RunInOrder(run, tasks1, stored)
<1>1. /\ saved.status # "COMPLETED" \/ saved.source = NoSource =>
                  Verified(tasks1) = Verified(tasks)
      /\ saved.status = "COMPLETED" /\ saved.source # NoSource =>
                  Verified(tasks1) = Verified(tasks) \cup {place}
  BY TaskSet
<1>2. \A p \in Places : p[1] < stored.round => AtRest(tasks1[p])
  <2>1. \A p \in Places : p[1] < stored.round => p # place
    BY Numbers
  <2>. QED  BY <1>1, <2>1 DEF RunInOrder, AtRest
<1>3. \A p \in Verified(tasks) : tasks1[p] = tasks[p] /\ p \in Places
  BY <1>1 DEF Verified, Done
<1>4. /\ \A p, q \in Verified(tasks) : tasks1[p].source = tasks1[q].source
      /\ stored.source # NoSource => \A p \in Verified(tasks) : tasks1[p].source = stored.source
      /\ stored.refs # {} => stored.source # NoSource
  BY <1>3 DEF RunInOrder
<1>5. /\ \A p, q \in Verified(tasks1) : tasks1[p].source = tasks1[q].source
      /\ stored.source # NoSource => \A p \in Verified(tasks1) : tasks1[p].source = stored.source
  <2>1. CASE saved.status # "COMPLETED" \/ saved.source = NoSource
    <3>1. Verified(tasks1) = Verified(tasks)
      BY <1>1, <2>1
    <3>. QED  BY <1>4, <3>1
  <2>2. CASE saved.status = "COMPLETED" /\ saved.source # NoSource
    <3>1. Verified(tasks1) = Verified(tasks) \cup {place}
      BY <1>1, <2>2
    <3>2. CASE stored.source = NoSource
      <4>1. Verified(tasks) = {}
        BY <1>4, <2>2, <3>2 DEF Tallied
      <4>. QED  BY <3>1, <3>2, <4>1
    <3>3. CASE stored.source = saved.source
      BY <1>1, <1>4, <2>2, <3>1, <3>3
    <3>. QED  BY <2>2, <3>2, <3>3
  <2>. QED  BY <2>1, <2>2
<1>. QED  BY <1>2, <1>4, <1>5 DEF RunInOrder

\* A task with its next revision.
LEMMA RenumberedTask ==
    ASSUME NEW new \in Task, NEW saved, saved = [new EXCEPT !.revision = @ + 1]
    PROVE  /\ saved \in Task /\ saved.status = new.status /\ saved.source = new.source
           /\ saved.revision = new.revision + 1
BY DEF Task

\* A thread holds its task as it is stored, or as it was before somebody saved it.
LEMMA HeldTask ==
    ASSUME DiagnosticInductive, NEW t \in Workers,
           worker[t].pc \in {"start", "skip", "fail", "complete", "park"}
    PROVE  /\ worker[t].place \in Places /\ worker[t].place[1] = Ck(t).round
           /\ worker[t].place[2] \in worker[t].todo /\ worker[t].place[2] \in 1..PerRound
           /\ worker[t].place = <<Ck(t).round, worker[t].place[2]>>
           /\ Held(t) \in Task /\ Held(t).status \notin {"ABSENT", "COMPLETED", "SKIPPED"}
           /\ MaySaveTask(t) => Held(t) = task[Job(t)][worker[t].place]
           /\ InRound(worker[t]) /\ Looping(worker[t]) /\ ~Leaving(worker[t])
<1>. DEFINE w == worker[t]
<1>1. /\ w \in Worker /\ ThreadSound(w)
      /\ HoldsCopies(w, row[Job(t)], task[Job(t)], checkpoint[Job(t)])
  BY Here
<1>2. OnTask(w) /\ InRound(w) /\ Looping(w) /\ ~Leaving(w)
      /\ (Executing(w) <=> w.pc # "start")
  BY DEF OnTask, InRound, Looping, Executing, Leaving
<1>3. /\ w.place \in Places /\ w.place[1] = w.ck.round /\ w.place[2] \in w.todo
      /\ w.place[2] \in 1..PerRound /\ w.place = <<w.ck.round, w.place[2]>>
  BY <1>1, <1>2, PlaceFacts DEF ThreadSound
<1>4. Held(t) = HeldBy(w) /\ Held(t) \in Task
  BY ZenonT(60), <1>1, <1>3 DEF Held, HeldBy, Worker
<1>5. Held(t).status \notin {"ABSENT", "COMPLETED", "SKIPPED"}
  BY <1>1, <1>2, <1>4 DEF ThreadSound, AtRest
<1>6. MaySaveTask(t) => Held(t) = task[Job(t)][w.place]
  <2>1. PICK o \in 1..PerRound : o = w.place[2]
    BY SMTT(60), <1>3
  <2>2. w.tasks[o].revision = task[Job(t)][<<w.ck.round, o>>].revision =>
            w.tasks[o] = task[Job(t)][<<w.ck.round, o>>]
    BY <1>1, <1>2, <1>4, <1>5, <2>1 DEF HoldsCopies, HeldBy
  <2>. QED  BY <1>3, <2>1, <2>2 DEF MaySaveTask, Held
<1>. QED  BY <1>2, <1>3, <1>4, <1>5, <1>6

\* The label a thread goes to after saving its task, and what it saves.
Outcome(w, label, saved) ==
    \/ w.pc = "start" /\ label = "pend" /\ saved.status = "RUNNING"
    \/ w.pc = "skip" /\ label = "idle" /\ saved.status = "SKIPPED"
    \/ w.pc = "fail" /\ label = "except" /\ saved.status = "FAILED"
    \/ w.pc = "complete" /\ label = "count" /\ saved.status = "COMPLETED" /\ saved.source = w.found
    \/ w.pc = "park" /\ label = "wait" /\ saved.status = "WAITING_USER"

\* The record of a thread after saving its task.
SavedTaskOf(w, label, saved, k) ==
    /\ k.pc = label /\ k.run = w.run /\ k.ck = w.ck /\ k.snap = w.snap
    /\ k.todo = w.todo /\ k.place = w.place /\ k.seen = w.seen /\ k.found = w.found
    /\ k.outcome = w.outcome /\ k.repairs = w.repairs /\ k.repairing = w.repairing
    /\ \A x \in 1..PerRound : k.tasks[x] = IF x = w.place[2] THEN saved ELSE w.tasks[x]

\* save_task() hands the thread what it saved.
LEMMA SavedTaskRecord ==
    ASSUME NEW w \in Worker, NEW saved \in Task, NEW label \in PC, w.place[2] \in 1..PerRound,
           NEW k, k = [[w EXCEPT !.tasks[w.place[2]] = saved] EXCEPT !.pc = label]
    PROVE  k \in Worker /\ SavedTaskOf(w, label, saved, k)
<1>1. PICK o \in 1..PerRound : o = w.place[2]
  OBVIOUS
<1>2. PICK ts : ts = [w.tasks EXCEPT ![o] = saved]
  OBVIOUS
<1>3. /\ ts \in [1..PerRound -> Task]
      /\ \A x \in 1..PerRound : ts[x] = IF x = o THEN saved ELSE w.tasks[x]
  BY <1>2 DEF Worker
<1>4. PICK k1 : k1 = [w EXCEPT !.tasks = ts]
  OBVIOUS
<1>5. /\ k1 \in Worker /\ k1.run = w.run /\ k1.ck = w.ck /\ k1.snap = w.snap
      /\ k1.todo = w.todo /\ k1.place = w.place /\ k1.seen = w.seen /\ k1.found = w.found
      /\ k1.outcome = w.outcome /\ k1.repairs = w.repairs /\ k1.repairing = w.repairing
      /\ k1.tasks = ts
  BY <1>3, <1>4 DEF Worker
<1>6. k = [k1 EXCEPT !.pc = label]
  <2>1. k1 = [w EXCEPT !.tasks[w.place[2]] = saved]
    BY <1>1, <1>2, <1>4 DEF Worker
  <2>. QED  BY <2>1
<1>7. /\ k \in Worker /\ k.pc = label /\ k.run = k1.run /\ k.ck = k1.ck /\ k.snap = k1.snap
      /\ k.todo = k1.todo /\ k.place = k1.place /\ k.seen = k1.seen /\ k.found = k1.found
      /\ k.outcome = k1.outcome /\ k.repairs = k1.repairs /\ k.repairing = k1.repairing
      /\ k.tasks = k1.tasks
  BY ZenonT(60), <1>5, <1>6 DEF Worker
<1>. QED  BY ZenonT(60), <1>1, <1>3, <1>5, <1>7 DEF SavedTaskOf

\* What a saved task leaves to its thread.
LEMMA SavedTaskFits ==
    ASSUME DiagnosticInductive, NEW t \in Workers,
           NEW label, NEW saved \in Task, Outcome(worker[t], label, saved), label # "idle",
           Held(t) = task[Job(t)][worker[t].place],
           NEW tasks1 \in [Places -> Task], tasks1[worker[t].place] = saved,
           \A p \in Places : p # worker[t].place => tasks1[p] = task[Job(t)][p],
           NEW k \in Worker, SavedTaskOf(worker[t], label, saved, k)
    PROVE  /\ ThreadSound(k) /\ HoldsCopies(k, row[Job(t)], tasks1, checkpoint[Job(t)])
           /\ Job(t) \notin overrun => DriveInOrder(k, row[Job(t)], tasks1, checkpoint[Job(t)])
<1>. DEFINE w == worker[t]
            tasks == task[Job(t)]
            stored == checkpoint[Job(t)]
<1>0. w.pc \in {"start", "fail", "complete", "park"} /\ saved.status # "ABSENT"
  BY DEF Outcome
<1>1. /\ w \in Worker /\ ThreadSound(w) /\ Job(t) \in Runs /\ Drives(w) /\ ~w.repairing
      /\ HoldsCopies(w, row[Job(t)], tasks, stored) /\ row[Job(t)] \in Row
      /\ tasks \in [Places -> Task] /\ stored \in Checkpoint /\ w.ck \in Checkpoint
      /\ Job(t) \notin overrun => DriveInOrder(w, row[Job(t)], tasks, stored)
  BY <1>0, Here DEF Announcing, Worker
<1>2. /\ w.place \in Places /\ w.place[1] = w.ck.round /\ w.place[2] \in w.todo
      /\ w.place[2] \in 1..PerRound /\ w.place = <<w.ck.round, w.place[2]>>
      /\ Held(t).status \notin {"ABSENT", "COMPLETED", "SKIPPED"}
      /\ InRound(w) /\ Looping(w) /\ ~Leaving(w) /\ OnTask(w)
  BY <1>0, HeldTask DEF InRound
<1>3. PICK o \in 1..PerRound : o = w.place[2]
  BY <1>2
<1>5. /\ k \in Worker /\ k.pc = label /\ k.run = w.run /\ k.ck = w.ck /\ k.snap = w.snap
      /\ k.todo = w.todo /\ k.place = w.place /\ k.seen = w.seen /\ k.found = w.found
      /\ k.outcome = w.outcome /\ k.repairs = w.repairs /\ ~k.repairing
      /\ k.tasks[o] = saved /\ \A x \in 1..PerRound : x # o => k.tasks[x] = w.tasks[x]
  BY <1>1, <1>3 DEF SavedTaskOf
<1>6. HeldBy(k) = saved
  BY <1>3, <1>5 DEF HeldBy
<1>7. /\ InRound(k) <=> label # "except"
      /\ Looping(k) <=> label # "except"
      /\ OnTask(k) <=> label # "except"
      /\ Executing(k) <=> label = "pend"
      /\ Asked(k) <=> label = "wait"
      /\ ~Leaving(k) /\ label \in {"pend", "except", "count", "wait"}
  <2>1. w.place # Planner
    BY <1>2, PlaceFacts
  <2>. QED  BY <1>5, <2>1
            DEF Outcome, InRound, Looping, OnTask, Executing, Asked, Leaving, Entering
<1>8. ThreadSound(k)
  <2>1. InRound(k) => \A x \in k.todo : k.tasks[x].status # "ABSENT"
    <3>1. w.todo \subseteq 1..PerRound
      BY <1>1 DEF Worker
    <3>. QED  BY <1>0, <1>1, <1>2, <1>5, <3>1 DEF ThreadSound
  <2>2. k.pc = "count" => HeldBy(k).status = "COMPLETED" /\ HeldBy(k).source = k.found
    BY <1>5, <1>6 DEF Outcome
  <2>3. k.pc \in {"complete", "count"} => k.found = NoSource \/ k.ck.source \in {NoSource, k.found}
    BY <1>1, <1>5 DEF Outcome, ThreadSound
  <2>4. (Executing(k) => HeldBy(k).status = "RUNNING")
        /\ (Asked(k) => HeldBy(k).status = "WAITING_USER")
    BY <1>5, <1>6, <1>7 DEF Outcome
  <2>. QED  BY SMTT(60), <1>1, <1>2, <1>5, <1>7, <2>1, <2>2, <2>3, <2>4 DEF ThreadSound, Entering
<1>9. HoldsCopies(k, row[Job(t)], tasks1, stored)
  <2>1. ASSUME InRound(k), NEW x \in 1..PerRound, k.tasks[x].status # "ABSENT"
        PROVE  /\ k.tasks[x].revision <= tasks1[<<k.ck.round, x>>].revision
               /\ k.tasks[x].revision = tasks1[<<k.ck.round, x>>].revision =>
                    k.tasks[x] = tasks1[<<k.ck.round, x>>]
    <3>1. <<w.ck.round, x>> \in Places
      BY <1>1, <1>2, PlaceFacts, PlaceOf
    <3>2. CASE x = o
      <4>1. k.tasks[x] = tasks1[<<k.ck.round, x>>] /\ k.tasks[x].revision \in Nat
        BY <1>2, <1>3, <1>5, <3>2, Numbers
      <4>. QED  BY <4>1
    <3>3. CASE x # o
      <4>1. <<w.ck.round, x>> # w.place /\ k.tasks[x] = w.tasks[x] /\ k.ck = w.ck
        BY <1>2, <1>3, <1>5, <3>3
      <4>2. tasks1[<<w.ck.round, x>>] = tasks[<<w.ck.round, x>>]
        BY SMTT(60), <3>1, <4>1
      <4>3. /\ w.tasks[x].revision <= tasks[<<w.ck.round, x>>].revision
            /\ w.tasks[x].revision = tasks[<<w.ck.round, x>>].revision =>
                    w.tasks[x] = tasks[<<w.ck.round, x>>]
        BY <1>1, <1>2, <2>1, <4>1 DEF HoldsCopies
      <4>. QED  BY <4>1, <4>2, <4>3
    <3>. QED  BY <3>2, <3>3
  <2>2. k.pc \in Saving => w.pc \in Saving
    BY SMTT(60), <1>7, <1>5 DEF Saving, Outcome
  <2>3. /\ k.pc \in Saving => /\ k.snap.revision <= row[Job(t)].revision
                              /\ k.snap.revision = row[Job(t)].revision => k.snap = row[Job(t)]
        /\ Present(row[Job(t)]) /\ k.ck.round <= stored.round
    BY SMTT(60), <1>1, <1>5, <2>2 DEF HoldsCopies
  <2>4. Looping(k) =>
           /\ k.ck.revision <= stored.revision
           /\ k.ck.revision = stored.revision =>
                 /\ k.ck.round = stored.round /\ k.ck.remaining = stored.remaining
                 /\ k.pc # "repair" => k.ck = stored
    BY <1>0, <1>1, <1>2, <1>5 DEF HoldsCopies
  <2>5. /\ k.pc \in {"reread", "finish", "record", "put"} => Verified(tasks1) # {}
        /\ k.pc \in Announcing => row[Job(t)].status = "COMPLETED"
    BY <1>5, <1>7 DEF Announcing
  <2>6. InRound(k) => \A x \in 1..PerRound : k.tasks[x].status # "ABSENT" =>
            /\ k.tasks[x].revision <= tasks1[<<k.ck.round, x>>].revision
            /\ k.tasks[x].revision = tasks1[<<k.ck.round, x>>].revision =>
                    k.tasks[x] = tasks1[<<k.ck.round, x>>]
    BY <2>1
  <2>. QED  BY <2>3, <2>4, <2>5, <2>6 DEF HoldsCopies
<1>10. ASSUME Job(t) \notin overrun
       PROVE  DriveInOrder(k, row[Job(t)], tasks1, stored)
  <2>1. DriveInOrder(w, row[Job(t)], tasks, stored)
    BY SMTT(60), <1>1, <1>10
  <2>2. row[Job(t)].status \in Active /\ Tallied(tasks, stored)
        /\ w.ck.revision = stored.revision
    BY <1>0, <1>2, <2>1 DEF DriveInOrder, Failing, Announcing
  <2>3. tasks[w.place].status \notin {"ABSENT", "COMPLETED"}
    BY <1>2
  <2>4. /\ label # "count" => Tallied(tasks1, stored)
        /\ label = "count" => /\ Cardinality(Done(tasks1)) = stored.completed + 1
                              /\ Verified(tasks1) = stored.refs \cup
                                     (IF w.found = NoSource THEN {} ELSE {w.place})
    <3>1. /\ saved.status # "COMPLETED" => Done(tasks1) = Done(tasks)
          /\ saved.status = "COMPLETED" =>
                  Cardinality(Done(tasks1)) = Cardinality(Done(tasks)) + 1
          /\ saved.status # "COMPLETED" \/ saved.source = NoSource =>
                  Verified(tasks1) = Verified(tasks)
          /\ saved.status = "COMPLETED" /\ saved.source # NoSource =>
                  Verified(tasks1) = Verified(tasks) \cup {w.place}
      BY SMTT(60), <1>0, <1>1, <1>2, <2>3, TaskSet
    <3>2. label = "count" => saved.status = "COMPLETED" /\ saved.source = w.found
      BY DEF Outcome
    <3>3. label # "count" => saved.status # "COMPLETED"
      BY DEF Outcome
    <3>. QED  BY SMTT(60), <2>2, <3>1, <3>2, <3>3 DEF Tallied
  <2>5. \A p \in Places : tasks1[p].status = "RUNNING" => Executing(k) /\ p = k.place
    <3>1. \A p \in Places : tasks[p].status = "RUNNING" => p = w.place
      BY <1>0, <1>2, <2>1 DEF DriveInOrder, Failing
    <3>2. saved.status = "RUNNING" => label = "pend"
      BY DEF Outcome
    <3>. QED  BY <1>5, <1>7, <3>1, <3>2
  <2>6. ASSUME InRound(k), NEW x \in 1..PerRound
        PROVE  k.tasks[x] = tasks1[<<k.ck.round, x>>] /\ (x \in k.todo \/ AtRest(k.tasks[x]))
    <3>1. <<w.ck.round, x>> \in Places
      BY <1>1, <1>2, PlaceFacts, PlaceOf
    <3>2. w.tasks[x] = tasks[<<w.ck.round, x>>] /\ (x \in w.todo \/ AtRest(w.tasks[x]))
      BY <1>2, <2>1 DEF DriveInOrder
    <3>3. x # o => <<w.ck.round, x>> # w.place
      BY <1>2, <1>3
    <3>. QED  BY SMTT(60), <1>2, <1>3, <1>5, <3>1, <3>2, <3>3
  <2>7. label \notin {"repair", "skip", "check_failure", "fail_run", "plan", "plan_round", "planned"}
                     \cup Concluded
    BY SMTT(60), <1>7 DEF Concluded
  <2>. QED  BY <1>5, <1>7, <2>2, <2>4, <2>5, <2>6, <2>7 DEF DriveInOrder, Failing
<1>. QED  BY <1>8, <1>9, <1>10

\* A task is saved over the one its thread holds.
LEMMA TaskSaved ==
    ASSUME DiagnosticInductive, NEW t \in Workers,
           NEW label, NEW saved \in Task, Outcome(worker[t], label, saved),
           Held(t) = task[Job(t)][worker[t].place], saved.revision = Held(t).revision + 1,
           task' = [task EXCEPT ![Job(t)][worker[t].place] = saved],
           Becomes(t, Step([worker[t] EXCEPT !.tasks[worker[t].place[2]] = saved], label)),
           UNCHANGED <<row, checkpoint, memory, announced, history>>
    PROVE  DiagnosticInductive'
<1>. DEFINE w == worker[t]
            tasks == task[Job(t)]
            stored == checkpoint[Job(t)]
<1>0. /\ w.pc \in {"start", "skip", "fail", "complete", "park"} /\ saved.status # "ABSENT"
      /\ w.pc # "skip" => label # "idle"
      /\ saved.status = "COMPLETED" => w.pc = "complete" /\ saved.source = w.found
  BY DEF Outcome
<1>1. /\ w \in Worker /\ ThreadSound(w) /\ Job(t) \in Runs /\ Drives(w) /\ ~w.repairing
      /\ HoldsCopies(w, row[Job(t)], tasks, stored) /\ row[Job(t)] \in Row
      /\ tasks \in [Places -> Task] /\ stored \in Checkpoint /\ Paid(tasks, stored)
      /\ row[Job(t)].status = "FAILED" /\ row[Job(t)].queued => row[Job(t)].retryable
      /\ Job(t) \notin overrun => /\ DriveInOrder(w, row[Job(t)], tasks, stored)
                                  /\ RunInOrder(row[Job(t)], tasks, stored)
  BY <1>0, Here, KnowingRun DEF Announcing
<1>2. /\ w.place \in Places /\ w.place[1] = w.ck.round
      /\ Held(t).status \notin {"ABSENT", "COMPLETED", "SKIPPED"} /\ Held(t) \in Task
      /\ InRound(w) /\ Looping(w) /\ ~Leaving(w)
  BY <1>0, HeldTask
<1>3. PICK tasks1 : tasks1 = [tasks EXCEPT ![w.place] = saved]
  BY SMTT(60)
<1>4. /\ tasks1 \in [Places -> Task] /\ tasks1[w.place] = saved
      /\ \A p \in Places : p # w.place => tasks1[p] = tasks[p]
  BY <1>1, <1>2, <1>3
<1>5. PICK run, ck : run = row[Job(t)] /\ ck = stored
  OBVIOUS
<1>6. /\ row' = [row EXCEPT ![Job(t)] = run] /\ task' = [task EXCEPT ![Job(t)] = tasks1]
      /\ checkpoint' = [checkpoint EXCEPT ![Job(t)] = ck]
      /\ memory' = memory /\ announced' = announced /\ overrun' = overrun /\ events' = events
  <2>1. /\ row \in [Runs -> Row] /\ checkpoint \in [Runs -> Checkpoint]
        /\ task \in [Runs -> [Places -> Task]]
    BY SMTT(60) DEF DiagnosticInductive, DiagnosticTypeOK
  <2>. QED  BY <1>3, <1>5, <2>1
<1>7. Evolves(row[Job(t)], tasks, stored, run, tasks1, ck)
  <2>1. saved.revision > tasks[w.place].revision
    BY <1>2, Numbers
  <2>2. stored.round >= stored.round
    BY <1>1, Numbers
  <2>3. Present(row[Job(t)])
    BY <1>1 DEF HoldsCopies
  <2>4. \A p \in Places : tasks1[p] = tasks[p] \/ tasks1[p].revision > tasks[p].revision
    BY <1>4, <2>1
  <2>5. \A p \in Places : tasks[p].status = "COMPLETED" => tasks1[p] = tasks[p]
    BY <1>2, <1>4
  <2>. HIDE DEF tasks, stored
  <2>. QED  BY ZenonT(60), <1>5, <2>2, <2>3, <2>4, <2>5 DEF Evolves
<1>8. Paid(tasks1, ck)
  <2>1. tasks[w.place].status \notin {"ABSENT", "COMPLETED"}
    BY SMTT(60), <1>2
  <2>2. \A s : Paid(tasks, s) => Paid(tasks1, s)
    BY SMTT(60), <1>0, <1>1, <1>2, <1>4, <2>1, TaskSet
  <2>. QED  BY <1>1, <1>5, <2>2
<1>9. ASSUME Job(t) \notin overrun
      PROVE  RunInOrder(run, tasks1, ck)
  <2>1. /\ w.ck = stored /\ run.status # "COMPLETED" /\ ~Resumable(run)
        /\ Tallied(tasks, stored)
    <3>1. w.ck = stored
      BY <1>0, <1>1, <1>2, <1>9, DriversCheckpoint
    <3>2. ~Resumable(run)
      BY SMTT(60), <1>1, <1>5, <1>9, DrivenRow
    <3>3. run.status # "COMPLETED"
      <4>1. w.pc = "skip" \/ run.status \in Active
        BY SMTT(60), <1>0, <1>1, <1>5, <1>9 DEF DriveInOrder, Failing, Announcing
      <4>. QED  BY SMTT(60), <1>1, <1>5, <1>9, <4>1, ActiveRow DEF DriveInOrder
    <3>4. Tallied(tasks, stored)
      BY <1>0, <1>1, <1>2, <1>9 DEF DriveInOrder, Failing
    <3>. QED  BY <3>1, <3>2, <3>3, <3>4
  <2>2. saved.status = "COMPLETED" =>
            saved.source = NoSource \/ stored.source \in {NoSource, saved.source}
    BY <1>0, <1>1, <2>1 DEF ThreadSound
  <2>. QED  BY SMTT(60), <1>0, <1>1, <1>2, <1>4, <1>5, <1>9, <2>1, <2>2, TaskInOrder
<1>10. PICK k : k = Step([w EXCEPT !.tasks[w.place[2]] = saved], label)
  OBVIOUS
<1>11. /\ k \in Worker /\ ThreadSound(k) /\ k.run \in {Job(t), NoRun}
       /\ k.run = Job(t) => HoldsCopies(k, run, tasks1, ck)
       /\ k.seen \subseteq w.seen /\ k.repairs \subseteq w.repairs
       /\ Job(t) \notin overrun /\ k.run = Job(t) /\ Drives(k) => DriveInOrder(k, run, tasks1, ck)
  <2>1. CASE label = "idle"
    <3>1. k = Idle
      BY <1>10, <2>1 DEF Step
    <3>. QED  BY <1>1, <3>1, IdleSound, Nothings
  <2>2. CASE label # "idle"
    <3>1. k = [[w EXCEPT !.tasks[w.place[2]] = saved] EXCEPT !.pc = label]
      BY <1>10, <2>2 DEF Step
    <3>2. label \in PC /\ w.place[2] \in 1..PerRound
      BY SMTT(60), <1>2, PlaceFacts DEF Outcome, PC
    <3>3. k \in Worker /\ SavedTaskOf(w, label, saved, k)
      BY <1>1, <3>1, <3>2, SavedTaskRecord
    <3>4. k.run = Job(t) /\ k.seen = w.seen /\ k.repairs = w.repairs
      BY <3>3 DEF SavedTaskOf
    <3>5. /\ ThreadSound(k) /\ HoldsCopies(k, row[Job(t)], tasks1, stored)
          /\ Job(t) \notin overrun => DriveInOrder(k, row[Job(t)], tasks1, stored)
      BY <1>4, <2>2, <3>3, SavedTaskFits
    <3>. QED  BY <1>5, <3>3, <3>4, <3>5
  <2>. QED  BY <2>1, <2>2
<1>12. Becomes(t, k)
  BY <1>10
<1>13. w.pc \notin {"idle", "repairs"} /\ (run.status = "FAILED" /\ run.queued => run.retryable)
  BY <1>0, <1>1, <1>5
<1>14. run \in Row /\ ck \in Checkpoint
  BY <1>1, <1>5
<1>. HIDE DEF Becomes
<1>. QED
  BY ZenonT(60), <1>1, <1>4, <1>6, <1>7, <1>8, <1>9, <1>11, <1>12, <1>13, <1>14, SavingStep

\* save_task() with an outcome.
LEMMA SaveTaskStep ==
    ASSUME DiagnosticInductive, NEW t \in Workers, NEW label, NEW new \in Task,
           Outcome(worker[t], label, new), new.revision = Held(t).revision,
           SaveTask(t, new, label),
           UNCHANGED <<row, checkpoint, memory, announced, history>>
    PROVE  DiagnosticInductive'
<1>0. worker[t].pc \in {"start", "skip", "fail", "complete", "park"}
  BY DEF Outcome
<1>1. PICK saved : saved = [new EXCEPT !.revision = @ + 1]
  BY ZenonT(60)
<1>2. /\ saved \in Task /\ saved.revision = Held(t).revision + 1
      /\ Outcome(worker[t], label, saved)
  BY <1>1, RenumberedTask DEF Outcome
<1>3. CASE MaySaveTask(t)
  <2>1. Held(t) = task[Job(t)][worker[t].place]
    BY <1>0, <1>3, HeldTask
  <2>2. /\ task' = [task EXCEPT ![Job(t)][worker[t].place] = saved]
        /\ Becomes(t, Step([worker[t] EXCEPT !.tasks[worker[t].place[2]] = saved], label))
    BY <1>1, <1>3 DEF SaveTask
  <2>. HIDE DEF Becomes
  <2>. QED  BY <1>2, <2>1, <2>2, TaskSaved
<1>4. CASE ~MaySaveTask(t)
  <2>1. Raise(t, "permanent") /\ task' = task
    BY <1>4 DEF SaveTask
  <2>. HIDE DEF Becomes
  <2>. QED  BY <1>0, <2>1, RaiseStep
<1>. QED  BY <1>3, <1>4

\* The task of a thread starts.
LEMMA StartTaskStep ==
    ASSUME DiagnosticInductive, NEW t \in Workers, StartTask(t)
    PROVE  DiagnosticInductive'
<1>1. PICK new : new = [Held(t) EXCEPT !.status = "RUNNING", !.retryable = FALSE]
  OBVIOUS
<1>2. Held(t) \in Task /\ worker[t].pc = "start"
  BY HeldTask DEF StartTask
<1>3. /\ new \in Task /\ new.revision = Held(t).revision /\ Outcome(worker[t], "pend", new)
  BY <1>1, <1>2 DEF Outcome, Task, TaskStatus
<1>. HIDE DEF Becomes
<1>. QED  BY <1>1, <1>3, SaveTaskStep DEF StartTask

\* The task of a cancelled run is skipped.
LEMMA SkipTaskStep ==
    ASSUME DiagnosticInductive, NEW t \in Workers, SkipTask(t)
    PROVE  DiagnosticInductive'
<1>1. PICK new : new = [Held(t) EXCEPT !.status = "SKIPPED"]
  OBVIOUS
<1>2. Held(t) \in Task /\ worker[t].pc = "skip"
  BY HeldTask DEF SkipTask
<1>3. /\ new \in Task /\ new.revision = Held(t).revision /\ Outcome(worker[t], "idle", new)
  BY <1>1, <1>2 DEF Outcome, Task, TaskStatus
<1>. HIDE DEF Becomes
<1>. QED  BY <1>1, <1>3, SaveTaskStep DEF SkipTask

\* The task of a thread fails.
LEMMA FailTaskStep ==
    ASSUME DiagnosticInductive, NEW t \in Workers, FailTask(t)
    PROVE  DiagnosticInductive'
<1>1. PICK new : new = [Held(t) EXCEPT !.status = "FAILED",
                                       !.retryable = (worker[t].outcome = "transient")]
  OBVIOUS
<1>2. Held(t) \in Task /\ worker[t].pc = "fail"
  BY HeldTask DEF FailTask
<1>3. /\ new \in Task /\ new.revision = Held(t).revision /\ Outcome(worker[t], "except", new)
  BY <1>1, <1>2 DEF Outcome, Task, TaskStatus
<1>. HIDE DEF Becomes
<1>. QED  BY <1>1, <1>3, SaveTaskStep DEF FailTask

\* The task of a thread completes, with the source its evidence came from.
LEMMA CompleteTaskStep ==
    ASSUME DiagnosticInductive, NEW t \in Workers, CompleteTask(t)
    PROVE  DiagnosticInductive'
<1>1. PICK new : new = [Held(t) EXCEPT !.status = "COMPLETED", !.source = worker[t].found]
  OBVIOUS
<1>2. Held(t) \in Task /\ worker[t].pc = "complete" /\ worker[t].found \in Sources \cup {NoSource}
  BY HeldTask, Knowing DEF CompleteTask, Worker
<1>3. /\ new \in Task /\ new.revision = Held(t).revision /\ Outcome(worker[t], "count", new)
  BY <1>1, <1>2 DEF Outcome, Task, TaskStatus
<1>. HIDE DEF Becomes
<1>. QED  BY <1>1, <1>3, SaveTaskStep DEF CompleteTask

\* The task of a thread waits for the user.
LEMMA ParkTaskStep ==
    ASSUME DiagnosticInductive, NEW t \in Workers, ParkTask(t)
    PROVE  DiagnosticInductive'
<1>1. PICK new : new = [Held(t) EXCEPT !.status = "WAITING_USER"]
  OBVIOUS
<1>2. Held(t) \in Task /\ worker[t].pc = "park"
  BY HeldTask DEF ParkTask
<1>3. /\ new \in Task /\ new.revision = Held(t).revision /\ Outcome(worker[t], "wait", new)
  BY <1>1, <1>2 DEF Outcome, Task, TaskStatus
<1>. HIDE DEF Becomes
<1>. QED  BY <1>1, <1>3, SaveTaskStep DEF ParkTask

-----------------------------------------------------------------------------
(* Steps that save a row *)

\* A row as transition() leaves it, and as save() does.
LEMMA RowFields ==
    ASSUME NEW run \in Row, NEW target \in RunStatus
    PROVE  /\ Transition(run, target) \in Row /\ Transition(run, target).status = target
           /\ ~Transition(run, target).queued
           /\ Transition(run, target).revision = run.revision
           /\ Transition(run, target).retryable = run.retryable
           /\ Saved(run) \in Row /\ Saved(run).status = run.status
           /\ Saved(run).queued = run.queued /\ Saved(run).retryable = run.retryable
           /\ Saved(run).revision = run.revision + 1
<1>1. run.revision \in Nat /\ run.revision + 1 \in Nat
  BY Numbers
<1>2. PICK moved : moved = Transition(run, target)
  OBVIOUS
<1>3. /\ moved \in Row /\ moved.status = target /\ ~moved.queued
      /\ moved.revision = run.revision /\ moved.retryable = run.retryable
  BY ZenonT(60), <1>2 DEF Transition, Row
<1>4. PICK saved : saved = Saved(run)
  OBVIOUS
<1>5. /\ saved \in Row /\ saved.status = run.status /\ saved.queued = run.queued
      /\ saved.retryable = run.retryable /\ saved.revision = run.revision + 1
  BY <1>1, <1>4 DEF Saved, Row
<1>. QED  BY <1>2, <1>3, <1>4, <1>5

\* A fresh copy of the row is the row.
LEMMA FreshRow ==
    ASSUME DiagnosticInductive, NEW t \in Workers, worker[t].pc \in Saving, Fresh(t)
    PROVE  Snap(t) = row[Job(t)]
BY Here DEF Saving, HoldsCopies, Fresh

\* The row of a run is saved over the one its thread holds.
LEMMA RowSaved ==
    ASSUME DiagnosticInductive, NEW t \in Workers, NEW k \in Worker, Becomes(t, k),
           worker[t].pc \in Saving, Fresh(t),
           NEW run1 \in Row, run1.revision = Snap(t).revision + 1, run1.status # "ABSENT",
           Snap(t).status = "COMPLETED" => run1.status = "COMPLETED",
           row' = [row EXCEPT ![Job(t)] = run1],
           UNCHANGED <<task, checkpoint, memory, announced, history>>,
           ThreadSound(k), k.run \in {Job(t), NoRun},
           k.run = Job(t) => HoldsCopies(k, run1, task[Job(t)], checkpoint[Job(t)]),
           k.seen \subseteq worker[t].seen, k.repairs \subseteq worker[t].repairs,
           run1.status = "FAILED" /\ run1.queued => run1.retryable,
           Job(t) \notin overrun =>
               /\ Resumable(run1) => \A p \in Places : task[Job(t)][p].status # "RUNNING"
               /\ run1.status = "COMPLETED" => /\ Tallied(task[Job(t)], checkpoint[Job(t)])
                                               /\ \A p \in Places : AtRest(task[Job(t)][p])
               /\ k.run = Job(t) /\ Drives(k) =>
                      DriveInOrder(k, run1, task[Job(t)], checkpoint[Job(t)])
    PROVE  DiagnosticInductive'
<1>1. PICK tasks, stored : tasks = task[Job(t)] /\ stored = checkpoint[Job(t)]
  OBVIOUS
<1>2. /\ worker[t] \in Worker /\ Job(t) \in Runs /\ Drives(worker[t]) /\ row[Job(t)] \in Row
      /\ tasks \in [Places -> Task] /\ stored \in Checkpoint /\ Paid(tasks, stored)
      /\ Job(t) \notin overrun => RunInOrder(row[Job(t)], tasks, stored)
      /\ worker[t].pc \notin {"idle", "repairs"}
  BY <1>1, Here DEF Saving, Announcing
<1>3. Snap(t) = row[Job(t)]
  BY FreshRow
<1>4. Evolves(row[Job(t)], task[Job(t)], checkpoint[Job(t)], run1, tasks, stored)
  <2>1. stored.round >= stored.round /\ run1.revision > row[Job(t)].revision
    BY SMTT(60), <1>2, <1>3, Numbers
  <2>. QED  BY <1>1, <1>3, <2>1 DEF Evolves, Present
<1>5. Job(t) \notin overrun => RunInOrder(run1, tasks, stored)
  BY <1>1, <1>2 DEF RunInOrder
<1>6. /\ task' = [task EXCEPT ![Job(t)] = tasks] /\ checkpoint' = [checkpoint EXCEPT ![Job(t)] = stored]
      /\ memory' = memory /\ announced' = announced /\ overrun' = overrun /\ events' = events
  <2>1. task \in [Runs -> [Places -> Task]] /\ checkpoint \in [Runs -> Checkpoint]
    BY DEF DiagnosticInductive, DiagnosticTypeOK
  <2>. QED  BY <1>1, <2>1
<1>. HIDE DEF Becomes
<1>. QED  BY <1>1, <1>2, <1>4, <1>5, <1>6, SavingStep

\* A request to cancel is saved as a cancellation.
LEMMA CancelRunStep ==
    ASSUME DiagnosticInductive, NEW t \in Workers, CancelRun(t)
    PROVE  DiagnosticInductive'
<1>. DEFINE w == worker[t]
            tasks == task[Job(t)]
            stored == checkpoint[Job(t)]
<1>1. /\ w.pc = "cancel" /\ w \in Worker /\ ThreadSound(w) /\ Job(t) \in Runs /\ Drives(w)
      /\ HoldsCopies(w, row[Job(t)], tasks, stored) /\ row[Job(t)] \in Row /\ ~w.repairing
      /\ Job(t) \notin overrun => DriveInOrder(w, row[Job(t)], tasks, stored)
      /\ w.then \in {"idle", "skip"} /\ Snap(t) \in Row /\ w.pc \in Saving
  BY Here DEF CancelRun, Announcing, Worker, Saving
<1>2. CASE MaySave(t, "CANCELLED")
  <2>1. PICK run1 : run1 = Saved(Transition(Snap(t), "CANCELLED"))
    OBVIOUS
  <2>2. /\ run1 \in Row /\ run1.status = "CANCELLED" /\ run1.revision = Snap(t).revision + 1
    <3>1. "CANCELLED" \in RunStatus
      BY DEF RunStatus, Terminal, Settled
    <3>. QED  BY <1>1, <2>1, <3>1, RowFields
  <2>3. ~Resumable(run1) /\ Present(run1)
    BY <2>2 DEF Resumable, Present
  <2>4. Snap(t).status # "COMPLETED" /\ Fresh(t)
    BY <1>2 DEF MaySave, CanTransition, Allowed
  <2>5. PICK k : k = Step(w, w.then)
    OBVIOUS
  <2>6. row' = [row EXCEPT ![Job(t)] = run1] /\ Becomes(t, k)
    BY <1>2, <2>1, <2>5 DEF CancelRun, SaveRow, Goto
  <2>7. /\ k \in Worker /\ ThreadSound(k) /\ k.run \in {Job(t), NoRun}
        /\ k.seen \subseteq w.seen /\ k.repairs \subseteq w.repairs
        /\ k.run = Job(t) => HoldsCopies(k, run1, tasks, stored)
        /\ Job(t) \notin overrun /\ k.run = Job(t) /\ Drives(k) =>
              DriveInOrder(k, run1, tasks, stored)
    <3>1. CASE w.then = "idle"
      BY <1>1, <2>5, <3>1, IdleSound, Nothings DEF Step
    <3>2. CASE w.then = "skip"
      <4>1. k = [w EXCEPT !.pc = "skip"]
        BY <2>5, <3>2 DEF Step
      <4>2. /\ k \in Worker /\ k.pc = "skip" /\ k.run = w.run /\ k.ck = w.ck
            /\ k.tasks = w.tasks /\ k.todo = w.todo /\ k.place = w.place
            /\ k.seen = w.seen /\ k.found = w.found /\ k.repairs = w.repairs /\ ~k.repairing
        BY <1>1, <4>1, MovedOn DEF PC
      <4>3. /\ Executing(k) /\ InRound(k) /\ OnTask(k) /\ Looping(k) /\ ~Asked(k)
            /\ HeldBy(k) = HeldBy(w) /\ ~Leaving(k) /\ ~Leaving(w)
            /\ Executing(w) /\ InRound(w) /\ OnTask(w) /\ Looping(w)
        BY <1>1, <3>2, <4>2 DEF Executing, InRound, OnTask, Looping, Entering, Asked, HeldBy, Leaving
      <4>4. ThreadSound(k)
        BY SMTT(60), <1>1, <4>2, <4>3 DEF ThreadSound, Entering, Announcing
      <4>5. HoldsCopies(k, run1, tasks, stored)
        BY SMTT(60), <1>1, <2>3, <4>2, <4>3 DEF HoldsCopies, Announcing, Saving
      <4>6. ASSUME Job(t) \notin overrun
            PROVE  DriveInOrder(k, run1, tasks, stored)
        <5>1. DriveInOrder(w, row[Job(t)], tasks, stored)
          BY <1>1, <4>6
        <5>. QED  BY <1>1, <2>2, <4>2, <4>3, <5>1 DEF DriveInOrder, Failing, Concluded, Announcing
      <4>. QED  BY <4>2, <4>4, <4>5, <4>6
    <3>. QED  BY <1>1, <3>1, <3>2
  <2>8. UNCHANGED <<task, checkpoint, memory, announced, history>>
    BY DEF CancelRun
  <2>. HIDE DEF Becomes
  <2>. QED  BY <1>1, <2>2, <2>3, <2>4, <2>6, <2>7, <2>8, RowSaved
<1>3. CASE ~MaySave(t, "CANCELLED")
  <2>1. Raise(t, "permanent") /\ row' = row
    BY <1>3 DEF CancelRun
  <2>. HIDE DEF Becomes
  <2>. QED  BY <1>1, <2>1, RaiseStep DEF CancelRun
<1>. QED  BY <1>2, <1>3

\* A stage is saved while the task runs.
LEMMA AdvanceStep ==
    ASSUME DiagnosticInductive, NEW t \in Workers, Advance(t)
    PROVE  DiagnosticInductive'
<1>. DEFINE w == worker[t]
            tasks == task[Job(t)]
            stored == checkpoint[Job(t)]
<1>1. /\ w.pc = "advance" /\ w \in Worker /\ ThreadSound(w) /\ Job(t) \in Runs /\ Drives(w)
      /\ HoldsCopies(w, row[Job(t)], tasks, stored) /\ row[Job(t)] \in Row /\ ~w.repairing
      /\ Job(t) \notin overrun => DriveInOrder(w, row[Job(t)], tasks, stored)
      /\ Snap(t) \in Row /\ w.pc \in Saving
  BY SMTT(60), Here DEF Advance, Announcing, Worker, Saving
<1>2. CASE Fresh(t)
  <2>1. PICK run1 : run1 = Saved(Answering(Snap(t)))
    OBVIOUS
  <2>2. /\ run1 \in Row /\ run1.status = "ANSWERING" /\ run1.revision = Snap(t).revision + 1
    <3>1. PICK new : new = Answering(Snap(t))
      OBVIOUS
    <3>2. "ANSWERING" \in RunStatus
      BY DEF RunStatus, Active
    <3>3. new \in Row /\ new.status = "ANSWERING" /\ new.revision = Snap(t).revision
      BY <1>1, <3>1, <3>2 DEF Answering, Row
    <3>. QED  BY <2>1, <3>1, <3>2, <3>3, RowFields
  <2>3. /\ ~Resumable(run1) /\ Present(run1) /\ Snap(t).status # "COMPLETED"
        /\ run1.status \in Active
    BY <1>1, <2>2 DEF Resumable, Present, ThreadSound, Active
  <2>4. PICK k : k = [w EXCEPT !.pc = "ask", !.snap = run1]
    OBVIOUS
  <2>5. row' = [row EXCEPT ![Job(t)] = run1] /\ Becomes(t, k)
    BY <1>2, <2>1, <2>4 DEF Advance, SaveRow
  <2>6. /\ k \in Worker /\ k.pc = "ask" /\ k.run = w.run /\ k.ck = w.ck /\ k.snap = run1
        /\ k.tasks = w.tasks /\ k.todo = w.todo /\ k.place = w.place
        /\ k.seen = w.seen /\ k.found = w.found /\ k.repairs = w.repairs /\ ~k.repairing
    BY ZenonT(60), <1>1, <2>2, <2>4 DEF Worker, PC
  <2>7. /\ Executing(k) /\ InRound(k) /\ OnTask(k) /\ Looping(k) /\ ~Asked(k)
        /\ HeldBy(k) = HeldBy(w) /\ ~Leaving(k) /\ ~Leaving(w)
        /\ Executing(w) /\ InRound(w) /\ OnTask(w) /\ Looping(w)
    BY <1>1, <2>6 DEF Executing, InRound, OnTask, Looping, Entering, Asked, HeldBy, Leaving
  <2>8. ThreadSound(k)
    BY <1>1, <2>6, <2>7 DEF ThreadSound, Entering, Announcing
  <2>9. HoldsCopies(k, run1, tasks, stored)
    <3>1. run1.revision <= run1.revision
      BY SMTT(60), <2>2, Numbers
    <3>. QED  BY <1>1, <2>3, <2>6, <2>7, <3>1 DEF HoldsCopies, Announcing
  <2>10. ASSUME Job(t) \notin overrun
         PROVE  DriveInOrder(k, run1, tasks, stored)
    <3>1. DriveInOrder(w, row[Job(t)], tasks, stored)
      BY <1>1, <2>10
    <3>. QED  BY <1>1, <2>3, <2>6, <2>7, <3>1 DEF DriveInOrder, Failing, Concluded, Announcing
  <2>11. UNCHANGED <<task, checkpoint, memory, announced, history>>
    BY DEF Advance
  <2>12. /\ k.run \in {Job(t), NoRun} /\ k.seen \subseteq w.seen /\ k.repairs \subseteq w.repairs
         /\ run1.status \notin {"ABSENT", "FAILED", "COMPLETED"}
    BY <2>2, <2>6
  <2>. HIDE DEF Becomes
  <2>. QED  BY <1>1, <1>2, <2>2, <2>3, <2>5, <2>6, <2>8, <2>9, <2>10, <2>11, <2>12, RowSaved
<1>3. CASE ~Fresh(t)
  <2>1. Raise(t, "permanent") /\ row' = row
    BY <1>3 DEF Advance
  <2>. HIDE DEF Becomes
  <2>. QED  BY <1>1, <2>1, RaiseStep DEF Advance
<1>. QED  BY <1>2, <1>3

\* A run waits for the user, with no task running.
LEMMA WaitStep ==
    ASSUME DiagnosticInductive, NEW t \in Workers, Wait(t)
    PROVE  DiagnosticInductive'
<1>. DEFINE w == worker[t]
            tasks == task[Job(t)]
            stored == checkpoint[Job(t)]
<1>1. /\ w.pc = "waiting" /\ w \in Worker /\ ThreadSound(w) /\ Job(t) \in Runs /\ Drives(w)
      /\ HoldsCopies(w, row[Job(t)], tasks, stored) /\ row[Job(t)] \in Row /\ ~w.repairing
      /\ Job(t) \notin overrun => DriveInOrder(w, row[Job(t)], tasks, stored)
      /\ Snap(t) \in Row /\ w.pc \in Saving
  BY Here DEF Wait, Announcing, Worker, Saving
<1>2. CASE MaySave(t, "WAITING_USER")
  <2>1. PICK run1 : run1 = Saved(Transition(Snap(t), "WAITING_USER"))
    OBVIOUS
  <2>2. /\ run1 \in Row /\ run1.status = "WAITING_USER" /\ run1.revision = Snap(t).revision + 1
    <3>1. "WAITING_USER" \in RunStatus
      BY DEF RunStatus, Terminal
    <3>. QED  BY <1>1, <2>1, <3>1, RowFields
  <2>3. Snap(t).status # "COMPLETED" /\ Fresh(t) /\ Present(run1)
    BY <1>2, <2>2 DEF MaySave, CanTransition, Allowed, Present
  <2>4. PICK k : k = Step(w, IF w.place = Planner THEN "idle" ELSE "after")
    OBVIOUS
  <2>5. row' = [row EXCEPT ![Job(t)] = run1] /\ Becomes(t, k)
    BY <1>2, <2>1, <2>4 DEF Wait, SaveRow, Goto
  <2>6. Job(t) \notin overrun => \A p \in Places : tasks[p].status # "RUNNING"
    <3>1. ~Executing(w) /\ ~Leaving(w) /\ w.pc \notin Failing
      BY <1>1 DEF Executing, Leaving, Failing
    <3>. QED  BY <1>1, <3>1 DEF DriveInOrder
  <2>7. /\ k \in Worker /\ ThreadSound(k) /\ k.run \in {Job(t), NoRun} /\ ~Drives(k)
        /\ k.seen \subseteq w.seen /\ k.repairs \subseteq w.repairs
        /\ k.run = Job(t) => HoldsCopies(k, run1, tasks, stored)
    <3>1. CASE w.place = Planner
      BY <1>1, <2>4, <3>1, IdleSound, Nothings DEF Step
    <3>2. CASE w.place # Planner
      <4>1. k = [w EXCEPT !.pc = "after"]
        BY <2>4, <3>2 DEF Step
      <4>2. /\ k \in Worker /\ k.pc = "after" /\ k.run = w.run /\ k.ck = w.ck
            /\ k.tasks = w.tasks /\ k.todo = w.todo /\ k.place = w.place
            /\ k.seen = w.seen /\ k.found = w.found /\ k.repairs = w.repairs /\ ~k.repairing
        BY <1>1, <4>1, MovedOn DEF PC
      <4>3. /\ ~Executing(k) /\ InRound(k) /\ OnTask(k) /\ Looping(k) /\ ~Asked(k)
            /\ HeldBy(k) = HeldBy(w) /\ ~Leaving(k)
            /\ Asked(w) /\ InRound(w) /\ OnTask(w) /\ Looping(w)
        BY <1>1, <3>2, <4>2 DEF Executing, InRound, OnTask, Looping, Entering, Asked, HeldBy, Leaving
      <4>4. ThreadSound(k) /\ ~Drives(k)
        BY SMTT(60), <1>1, <4>2, <4>3 DEF ThreadSound, Entering, Announcing, Drives, Parked
      <4>5. HoldsCopies(k, run1, tasks, stored)
        BY <1>1, <2>3, <4>2, <4>3 DEF HoldsCopies, Announcing, Saving
      <4>. QED  BY <4>2, <4>4, <4>5
    <3>. QED  BY <3>1, <3>2
  <2>8. UNCHANGED <<task, checkpoint, memory, announced, history>>
    BY DEF Wait
  <2>. HIDE DEF Becomes
  <2>. QED  BY <1>1, <2>2, <2>3, <2>5, <2>6, <2>7, <2>8, RowSaved
<1>3. CASE ~MaySave(t, "WAITING_USER")
  <2>1. Raise(t, "permanent") /\ row' = row
    BY <1>3 DEF Wait
  <2>. HIDE DEF Becomes
  <2>. QED  BY <1>1, <2>1, RaiseStep DEF Wait
<1>. QED  BY <1>2, <1>3

\* A run completes, with all its tasks at rest and counted.
LEMMA FinishStep ==
    ASSUME DiagnosticInductive, NEW t \in Workers, Finish(t)
    PROVE  DiagnosticInductive'
<1>. DEFINE w == worker[t]
            tasks == task[Job(t)]
            stored == checkpoint[Job(t)]
            may == CanTransition(Finished(Snap(t)), "COMPLETED") /\ Fresh(t)
<1>1. /\ w.pc = "finish" /\ w \in Worker /\ ThreadSound(w) /\ Job(t) \in Runs /\ Drives(w)
      /\ HoldsCopies(w, row[Job(t)], tasks, stored) /\ row[Job(t)] \in Row /\ ~w.repairing
      /\ Job(t) \notin overrun => DriveInOrder(w, row[Job(t)], tasks, stored)
      /\ Snap(t) \in Row /\ w.pc \in Saving /\ stored \in Checkpoint
  BY Here DEF Finish, Announcing, Worker, Saving
<1>2. CASE may
  <2>1. PICK run1 : run1 = Saved(Transition(Finished(Snap(t)), "COMPLETED"))
    OBVIOUS
  <2>2. /\ run1 \in Row /\ run1.status = "COMPLETED" /\ run1.revision = Snap(t).revision + 1
    <3>1. "COMPLETED" \in RunStatus
      BY DEF RunStatus, Terminal, Settled
    <3>2. Finished(Snap(t)) \in Row /\ Finished(Snap(t)).revision = Snap(t).revision
      BY <1>1 DEF Finished, Answering, Row, RunStatus, Active
    <3>. QED  BY <2>1, <3>1, <3>2, RowFields
  <2>3. ~Resumable(run1) /\ Present(run1)
    BY <2>2 DEF Resumable, Present
  <2>4. PICK k : k = [w EXCEPT !.pc = "record"]
    OBVIOUS
  <2>5. row' = [row EXCEPT ![Job(t)] = run1] /\ Becomes(t, k)
    BY <1>2, <2>1, <2>4 DEF Finish, SaveRow, Goto, Step
  <2>6. /\ k \in Worker /\ k.pc = "record" /\ k.run = w.run /\ k.ck = w.ck
        /\ k.seen = w.seen /\ k.found = w.found /\ k.repairs = w.repairs /\ ~k.repairing
    BY <1>1, <2>4, MovedOn DEF PC
  <2>7. ~InRound(k) /\ ~OnTask(k) /\ ~Executing(k) /\ ~Asked(k) /\ ~Looping(k) /\ ~Leaving(k)
    BY <2>6 DEF InRound, OnTask, Executing, Asked, Looping, Entering, Leaving
  <2>8. ThreadSound(k)
    BY SMTT(60), <1>1, <2>6, <2>7 DEF ThreadSound, Entering, Announcing
  <2>9. HoldsCopies(k, run1, tasks, stored)
    BY <1>1, <2>2, <2>3, <2>6, <2>7 DEF HoldsCopies, Saving, Announcing
  <2>10. ASSUME Job(t) \notin overrun
         PROVE  /\ Tallied(tasks, stored) /\ (\A p \in Places : AtRest(tasks[p]))
                /\ DriveInOrder(k, run1, tasks, stored)
    <3>1. Tallied(tasks, stored) /\ \A p \in Places : AtRest(tasks[p])
      BY <1>1, <2>10 DEF DriveInOrder, Concluded, Failing, Leaving
    <3>. QED  BY <2>6, <2>7, <3>1 DEF DriveInOrder, Failing, Concluded, Announcing, AtRest
  <2>11. UNCHANGED <<task, checkpoint, memory, announced, history>>
    BY DEF Finish
  <2>12. k.run \in {Job(t), NoRun} /\ k.seen \subseteq w.seen /\ k.repairs \subseteq w.repairs
    BY <2>6
  <2>. HIDE DEF Becomes
  <2>. QED  BY <1>1, <1>2, <2>2, <2>3, <2>5, <2>6, <2>8, <2>9, <2>10, <2>11, <2>12, RowSaved
<1>3. CASE ~may
  <2>1. Raise(t, "permanent") /\ row' = row
    BY <1>3 DEF Finish
  <2>. HIDE DEF Becomes
  <2>. QED  BY <1>1, <2>1, RaiseStep DEF Finish
<1>. QED  BY <1>2, <1>3

\* A run fails; one that may be retried has no task running.
LEMMA FailRunStep ==
    ASSUME DiagnosticInductive, NEW t \in Workers, FailRun(t)
    PROVE  DiagnosticInductive'
<1>. DEFINE w == worker[t]
            tasks == task[Job(t)]
            stored == checkpoint[Job(t)]
            target == IF w.outcome = "blocked" THEN "BLOCKED" ELSE "FAILED"
<1>1. /\ w.pc = "fail_run" /\ w \in Worker /\ ThreadSound(w) /\ Job(t) \in Runs /\ Drives(w)
      /\ Job(t) \notin overrun => DriveInOrder(w, row[Job(t)], tasks, stored)
      /\ Snap(t) \in Row /\ w.pc \in Saving
  BY Here DEF FailRun, Announcing, Worker, Saving
<1>2. Becomes(t, Idle) /\ UNCHANGED <<task, checkpoint, memory, announced, history>>
  BY DEF FailRun
<1>3. CASE MaySave(t, target)
  <2>1. PICK new : new = [Transition(Snap(t), target) EXCEPT
                              !.retryable = (w.outcome = "transient")]
    OBVIOUS
  <2>2. /\ new \in Row /\ new.status = target /\ new.revision = Snap(t).revision /\ ~new.queued
        /\ new.retryable = (w.outcome = "transient")
    <3>1. target \in RunStatus
      BY DEF RunStatus, Terminal, Settled
    <3>2. /\ Transition(Snap(t), target) \in Row /\ Transition(Snap(t), target).status = target
          /\ ~Transition(Snap(t), target).queued
          /\ Transition(Snap(t), target).revision = Snap(t).revision
      BY <1>1, <3>1, RowFields
    <3>. HIDE DEF target
    <3>. QED  BY <2>1, <3>2 DEF Row
  <2>3. PICK run1 : run1 = Saved(new)
    OBVIOUS
  <2>4. /\ run1 \in Row /\ run1.status = target /\ run1.revision = Snap(t).revision + 1
        /\ ~run1.queued /\ run1.retryable = (w.outcome = "transient")
    <3>1. "FAILED" \in RunStatus
      BY DEF RunStatus, Terminal, Settled
    <3>. QED  BY <2>2, <2>3, <3>1, RowFields
  <2>5. row' = [row EXCEPT ![Job(t)] = run1]
    BY <1>3, <2>1, <2>3 DEF FailRun, SaveRow
  <2>6. /\ Snap(t).status # "COMPLETED" /\ Fresh(t)
        /\ run1.status \notin {"ABSENT", "COMPLETED", "CREATED", "WAITING_USER"}
    BY <1>3, <2>4 DEF MaySave, CanTransition, Allowed
  <2>7. ASSUME Job(t) \notin overrun, Resumable(run1)
        PROVE  \A p \in Places : tasks[p].status # "RUNNING"
    <3>1. w.outcome = "transient"
      BY <2>4, <2>6, <2>7 DEF Resumable
    <3>. QED  BY <1>1, <2>7, <3>1 DEF DriveInOrder, Executing, Leaving
  <2>. HIDE DEF Becomes, target
  <2>. QED  BY <1>1, <1>2, <2>4, <2>5, <2>6, <2>7, IdleSound, Nothings, RowSaved
<1>4. CASE ~MaySave(t, target)
  <2>1. row' = row
    BY <1>4 DEF FailRun
  <2>2. overrun \subseteq Runs /\ Fits(t, Idle, overrun')
    BY IdleFits DEF DiagnosticInductive, DiagnosticTypeOK
  <2>3. /\ task' = task /\ checkpoint' = checkpoint /\ memory' = memory /\ announced' = announced
        /\ overrun' = overrun /\ events' = events
    BY <1>2
  <2>. HIDE DEF Becomes
  <2>. QED  BY <1>2, <2>1, <2>2, <2>3, LocalStep
<1>. QED  BY <1>3, <1>4

-----------------------------------------------------------------------------
(* The memory, the announcement and the claim *)

\* The memory gets the finding of a completed run, over one of the revision expected.
LEMMA PutMemoryStep ==
    ASSUME DiagnosticInductive, NEW t \in Workers, PutMemory(t)
    PROVE  DiagnosticInductive'
<1>. DEFINE w == worker[t]
<1>1. /\ w.pc = "put" /\ w \in Worker /\ Job(t) \in Runs /\ w.seen \subseteq Grounded
      /\ HoldsCopies(w, row[Job(t)], task[Job(t)], checkpoint[Job(t)])
      /\ overrun \subseteq Runs /\ announced \subseteq Runs /\ memory.revision \in Nat
      /\ w.seen \in SUBSET Runs
  BY Here DEF PutMemory, Worker, DiagnosticInductive, DiagnosticTypeOK
<1>2. Job(t) \in Grounded
  BY <1>1 DEF HoldsCopies, Announcing, Grounded
<1>3. CASE memory.revision = w.expected
  <2>1. PICK k : k = [w EXCEPT !.pc = "publish"]
    OBVIOUS
  <2>2. Fits(t, k, overrun')
    <3>1. Fits(t, k, overrun)
      BY SMTT(60), <1>1, <2>1, MovedOn, AnnouncingFits DEF PC, Announcing
    <3>. QED  BY <3>1 DEF PutMemory
  <2>3. Becomes(t, k)
    BY <1>3, <2>1 DEF PutMemory, Goto, Step
  <2>4. /\ memory' = [findings |-> w.seen \cup {Job(t)}, revision |-> memory.revision + 1]
        /\ row' = row /\ task' = task /\ checkpoint' = checkpoint /\ announced' = announced
        /\ overrun' = overrun /\ events' = events
    BY <1>3 DEF PutMemory
  <2>5. /\ memory' \in [findings: SUBSET Runs, revision: Nat] /\ memory'.findings \subseteq Grounded
        /\ overrun \subseteq overrun' /\ overrun' \subseteq Runs /\ announced' \subseteq Runs
    BY <1>1, <1>2, <2>4
  <2>. HIDE DEF Becomes
  <2>. QED  BY <2>2, <2>3, <2>4, <2>5, FittingStep
<1>4. CASE memory.revision # w.expected
  <2>1. Raise(t, "permanent") /\ memory' = memory
    BY <1>4 DEF PutMemory
  <2>. HIDE DEF Becomes
  <2>. QED  BY <1>1, <2>1, RaiseStep DEF PutMemory
<1>. QED  BY <1>3, <1>4

\* A completion is announced.
LEMMA PublishStep ==
    ASSUME DiagnosticInductive, NEW t \in Workers, Publish(t)
    PROVE  DiagnosticInductive'
<1>. DEFINE w == worker[t]
<1>1. /\ w.pc = "publish" /\ w \in Worker /\ ThreadSound(w) /\ Job(t) \in Runs
      /\ HoldsCopies(w, row[Job(t)], task[Job(t)], checkpoint[Job(t)])
      /\ w.seen \subseteq Grounded /\ \A q \in w.repairs : row[q].status = "COMPLETED"
      /\ overrun \subseteq Runs /\ announced \subseteq Runs
      /\ memory \in [findings: SUBSET Runs, revision: Nat] /\ memory.findings \subseteq Grounded
  BY Here DEF Publish, DiagnosticInductive, DiagnosticTypeOK, FindingsGrounded
<1>2. PICK k : Becomes(t, k) /\ Fits(t, k, overrun)
  <2>1. CASE ~w.repairing
    BY <2>1, IdleFits DEF Publish, Goto, Step
  <2>2. CASE w.repairing
    <3>1. PICK k : k = [w EXCEPT !.pc = "repairs"]
      OBVIOUS
    <3>2. /\ k \in Worker /\ k.pc = "repairs" /\ k.run = w.run /\ k.ck = w.ck /\ k.seen = w.seen
          /\ k.repairs = w.repairs /\ k.repairing
      BY <1>1, <2>2, <3>1, MovedOn DEF PC
    <3>3. ThreadSound(k) /\ ~Drives(k)
      BY <1>1, <2>2, <3>2
         DEF ThreadSound, Entering, InRound, OnTask, Executing, Asked, Announcing, Drives
    <3>4. HoldsCopies(k, row[Job(t)], task[Job(t)], checkpoint[Job(t)])
      BY <1>1, <3>2
         DEF HoldsCopies, Saving, Looping, Entering, InRound, OnTask, Executing, Asked, Announcing
    <3>5. Fits(t, k, overrun)
      BY <1>1, <3>2, <3>3, <3>4 DEF Fits
    <3>. QED  BY <2>2, <3>1, <3>5 DEF Publish, Goto, Step
  <2>. QED  BY <2>1, <2>2
<1>3. /\ announced' \subseteq Runs /\ memory' = memory /\ row' = row /\ task' = task
      /\ checkpoint' = checkpoint /\ overrun' = overrun /\ events' = events
      /\ memory' \in [findings: SUBSET Runs, revision: Nat] /\ memory'.findings \subseteq Grounded
  BY <1>1 DEF Publish
<1>4. Fits(t, k, overrun') /\ overrun \subseteq overrun' /\ overrun' \subseteq Runs
  BY <1>1, <1>2, <1>3
<1>. HIDE DEF Becomes
<1>. QED  BY <1>2, <1>3, <1>4, FittingStep

\* Nobody drives a run that a user may resume.
LEMMA NobodyDrives ==
    ASSUME DiagnosticInductive, NEW r \in Runs, Resumable(row[r]), r \notin overrun
    PROVE  /\ \A u \in Workers : Job(u) = r => ~Drives(worker[u])
           /\ \A p \in Places : task[r][p].status # "RUNNING"
<1>1. ASSUME NEW u \in Workers, Job(u) = r, Drives(worker[u]) PROVE FALSE
  <2>1. /\ worker[u] \in Worker /\ HoldsCopies(worker[u], row[r], task[r], checkpoint[r])
        /\ DriveInOrder(worker[u], row[r], task[r], checkpoint[r])
    BY <1>1, Knowing
  <2>. QED  BY <2>1, DrivenRow
<1>2. \A p \in Places : task[r][p].status # "RUNNING"
  BY KnowingRun DEF RunInOrder
<1>. QED  BY <1>1, <1>2

\* A new row, or what a claim and the first stages make of one.
LEMMA ClaimedRow ==
    ASSUME NEW run \in Row, NEW status \in {"CANCELLED", "DISCOVERING"}, NEW claimed,
           claimed = [[Transition(run, "CONTEXTUALIZING") EXCEPT !.retryable = FALSE]
                         EXCEPT !.status = status]
    PROVE  /\ claimed \in Row /\ claimed.status = status /\ claimed.revision = run.revision
           /\ Saved(Saved(claimed)) \in Row /\ Saved(Saved(claimed)).status = status
           /\ Saved(Saved(claimed)).revision > run.revision
           /\ Saved(Saved(Saved(claimed))) \in Row /\ Saved(Saved(Saved(claimed))).status = status
           /\ Saved(Saved(Saved(claimed))).revision > run.revision
<1>1. status \in RunStatus /\ "CONTEXTUALIZING" \in RunStatus
  BY DEF RunStatus, Active, Terminal, Settled
<1>2. PICK moved : moved = Transition(run, "CONTEXTUALIZING")
  OBVIOUS
<1>3. moved \in Row /\ moved.revision = run.revision
  BY <1>1, <1>2, RowFields
<1>4. PICK first : first = [moved EXCEPT !.retryable = FALSE]
  OBVIOUS
<1>5. first \in Row /\ first.revision = run.revision
  BY <1>3, <1>4 DEF Row
<1>6. claimed = [first EXCEPT !.status = status]
  BY <1>2, <1>4
<1>7. claimed \in Row /\ claimed.status = status /\ claimed.revision = run.revision
  BY <1>1, <1>5, <1>6 DEF Row
<1>8. PICK one, two, three : one = Saved(claimed) /\ two = Saved(one) /\ three = Saved(two)
  OBVIOUS
<1>9. one \in Row /\ one.status = status /\ one.revision = run.revision + 1
  BY ZenonT(60), <1>1, <1>7, <1>8, RowFields
<1>10. two \in Row /\ two.status = status /\ two.revision = one.revision + 1
  BY <1>1, <1>8, <1>9, RowFields
<1>11. three \in Row /\ three.status = status /\ three.revision = two.revision + 1
  BY <1>1, <1>8, <1>10, RowFields
<1>12. run.revision \in Nat
  BY Numbers
<1>. QED  BY <1>7, <1>8, <1>9, <1>10, <1>11, <1>12

\* What a claim saves is a run that goes on from where the row was.
LEMMA ClaimSaves ==
    ASSUME DiagnosticInductive, NEW t \in Workers, worker[t].pc = "idle",
           NEW r \in Runs, Runnable(row[r]),
           NEW run1 \in Row, run1.revision > row[r].revision,
           run1.status \in {"CANCELLED", "DISCOVERING"},
           row' = [row EXCEPT ![r] = run1],
           UNCHANGED <<task, checkpoint, memory, announced, history>>,
           NEW k \in Worker, Becomes(t, k), ThreadSound(k), k.run \in {r, NoRun},
           k.run = r => HoldsCopies(k, run1, task[r], checkpoint[r]),
           k.seen \subseteq Grounded, k.repairs = {},
           /\ \A p \in Places : task[r][p].status # "RUNNING"
           /\ k.run = r /\ Drives(k) /\ r \notin overrun
           => DriveInOrder(k, run1, task[r], checkpoint[r])
    PROVE  DiagnosticInductive'
<1>1. PICK tasks \in [Places -> Task], stored \in Checkpoint :
          tasks = task[r] /\ stored = checkpoint[r]
  BY KnowingRun
<1>2. /\ row[r] \in Row /\ Paid(tasks, stored) /\ (r \notin overrun => RunInOrder(row[r], tasks, stored))
  BY <1>1, KnowingRun
<1>3. Resumable(row[r]) /\ row[r].status # "COMPLETED" /\ Present(run1) /\ ~Resumable(run1)
  BY DEF Runnable, Resumable, Present
<1>4. Evolves(row[r], task[r], checkpoint[r], run1, tasks, stored)
  <2>1. stored.round >= stored.round
    BY <1>2, Numbers
  <2>. QED  BY <1>1, <1>3, <2>1 DEF Evolves
<1>5. /\ task' = [task EXCEPT ![r] = tasks] /\ checkpoint' = [checkpoint EXCEPT ![r] = stored]
      /\ memory' \in [findings: SUBSET Runs, revision: Nat] /\ memory'.findings \subseteq Grounded
      /\ announced' \subseteq Runs /\ events' \in Nat /\ overrun' = overrun
      /\ overrun \subseteq overrun' /\ overrun' \subseteq Runs
  BY <1>1 DEF DiagnosticInductive, DiagnosticTypeOK, FindingsGrounded
<1>6. r \notin overrun' =>
          /\ RunInOrder(run1, tasks, stored)
          /\ k.run = r /\ Drives(k) => DriveInOrder(k, run1, tasks, stored)
          /\ \A u \in Workers : Job(u) = r => ~Drives(worker[u])
  <2>. SUFFICES ASSUME r \notin overrun
                PROVE  /\ RunInOrder(run1, tasks, stored)
                       /\ k.run = r /\ Drives(k) => DriveInOrder(k, run1, tasks, stored)
                       /\ \A u \in Workers : Job(u) = r => ~Drives(worker[u])
    BY <1>5
  <2>1. /\ \A u \in Workers : Job(u) = r => ~Drives(worker[u])
        /\ \A p \in Places : task[r][p].status # "RUNNING"
    BY <1>3, NobodyDrives
  <2>2. RunInOrder(run1, tasks, stored)
    BY <1>2, <1>3 DEF RunInOrder
  <2>. QED  BY <1>1, <2>1, <2>2
<1>7. /\ run1.status = "FAILED" /\ run1.queued => run1.retryable
      /\ k.run = r => HoldsCopies(k, run1, tasks, stored)
      /\ \A q \in k.repairs : row[q].status = "COMPLETED"
  BY <1>1
<1>8. Orderly(t, k, r, run1, tasks, stored, overrun')
  BY <1>6 DEF Orderly
<1>. HIDE DEF Becomes
<1>. QED  BY <1>2, <1>4, <1>5, <1>7, <1>8, ThreadStep

\* An idle thread takes a run.
LEMMA ClaimStep ==
    ASSUME DiagnosticInductive, NEW t \in Workers, Claim(t)
    PROVE  DiagnosticInductive'
<1>1. PICK r \in Runs :
          /\ worker[t].pc = "idle" /\ Runnable(row[r])
          /\ LET claimed == [Transition(row[r], "CONTEXTUALIZING") EXCEPT !.retryable = FALSE]
                 cancelled == Saved(Saved([claimed EXCEPT !.status = "CANCELLED"]))
                 driven == Saved(Saved(Saved([claimed EXCEPT !.status = "DISCOVERING"])))
                 drive == [Idle EXCEPT !.pc = "compare", !.run = r, !.snap = driven,
                              !.ck = checkpoint[r], !.seen = memory.findings]
             IN \/ /\ row' = [row EXCEPT ![r] = cancelled]
                   /\ UNCHANGED worker
                \/ /\ row' = [row EXCEPT ![r] = driven]
                   /\ \/ Becomes(t, drive)
                      \/ \E fault \in Fault : Becomes(t, Raised(r, fault))
  BY DEF Claim
<1>2. UNCHANGED <<task, checkpoint, memory, announced, history>>
  BY DEF Claim
<1>3. /\ worker[t] = Idle /\ worker \in [Workers -> Worker] /\ row[r] \in Row
      /\ checkpoint[r] \in Checkpoint /\ memory.findings \subseteq Grounded
      /\ memory.findings \in SUBSET Runs
  BY <1>1, Knowing, KnowingRun
     DEF ThreadSound, DiagnosticInductive, DiagnosticTypeOK, FindingsGrounded
<1>4. PICK first : first = [Transition(row[r], "CONTEXTUALIZING") EXCEPT !.retryable = FALSE]
  OBVIOUS
<1>5. CASE row' = [row EXCEPT ![r] = Saved(Saved([first EXCEPT !.status = "CANCELLED"]))]
           /\ UNCHANGED worker
  <2>1. PICK run1 : run1 = Saved(Saved([first EXCEPT !.status = "CANCELLED"]))
    BY SMTT(60)
  <2>2. run1 \in Row /\ run1.revision > row[r].revision /\ run1.status = "CANCELLED"
    <3>1. PICK claimed : claimed = [first EXCEPT !.status = "CANCELLED"]
      OBVIOUS
    <3>. QED  BY ZenonT(60), <1>3, <1>4, <2>1, <3>1, ClaimedRow
  <2>3. Becomes(t, Idle)
    BY <1>3, <1>5
  <2>4. row' = [row EXCEPT ![r] = run1]
    BY <1>5, <2>1
  <2>. HIDE DEF Becomes
  <2>. QED  BY <1>1, <1>2, <2>2, <2>3, <2>4, IdleSound, Nothings, ClaimSaves
<1>6. CASE row' = [row EXCEPT ![r] = Saved(Saved(Saved([first EXCEPT !.status = "DISCOVERING"])))]
  <2>1. PICK run1 : run1 = Saved(Saved(Saved([first EXCEPT !.status = "DISCOVERING"])))
    OBVIOUS
  <2>2. run1 \in Row /\ run1.revision > row[r].revision /\ run1.status = "DISCOVERING"
    <3>1. PICK claimed : claimed = [first EXCEPT !.status = "DISCOVERING"]
      OBVIOUS
    <3>. QED  BY <1>3, <1>4, <2>1, <3>1, ClaimedRow
  <2>3. /\ row' = [row EXCEPT ![r] = run1] /\ Present(run1) /\ run1.status \in Active
        /\ run1.revision <= run1.revision
    BY <1>6, <2>1, <2>2, Numbers DEF Present, Active
  <2>4. ASSUME Becomes(t, [Idle EXCEPT !.pc = "compare", !.run = r, !.snap = run1,
                               !.ck = checkpoint[r], !.seen = memory.findings])
        PROVE  DiagnosticInductive'
    <3>1. PICK k : k = [Idle EXCEPT !.pc = "compare", !.run = r, !.snap = run1,
                            !.ck = checkpoint[r], !.seen = memory.findings]
      OBVIOUS
    <3>2. /\ k \in Worker /\ k.pc = "compare" /\ k.run = r /\ k.snap = run1
          /\ k.ck = checkpoint[r] /\ k.seen = memory.findings /\ k.tasks = Idle.tasks
          /\ k.repairs = Idle.repairs /\ k.repairing = Idle.repairing
      <4>1. PICK ck \in Checkpoint, seen \in SUBSET Runs :
                ck = checkpoint[r] /\ seen = memory.findings
        BY <1>3
      <4>2. k = [Idle EXCEPT !.pc = "compare", !.run = r, !.snap = run1, !.ck = ck, !.seen = seen]
        BY <3>1, <4>1
      <4>3. k \in Worker
        BY ZenonT(60), <2>2, <4>2, Nothings DEF Worker, PC
      <4>4. /\ k.pc = "compare" /\ k.run = r /\ k.snap = run1 /\ k.ck = ck /\ k.seen = seen
            /\ k.tasks = Idle.tasks /\ k.repairs = Idle.repairs /\ k.repairing = Idle.repairing
        BY <4>2, Nothings DEF Worker
      <4>. QED  BY <4>1, <4>3, <4>4
    <3>3. Idle.repairing = FALSE /\ Idle.repairs = {}
      BY DEF Idle
    <3>4. /\ ~InRound(k) /\ ~OnTask(k) /\ ~Executing(k) /\ ~Asked(k) /\ Looping(k) /\ ~Leaving(k)
      BY <3>2 DEF InRound, OnTask, Executing, Asked, Looping, Entering, Leaving
    <3>5. ThreadSound(k)
      BY <3>2, <3>3, <3>4 DEF ThreadSound, Entering
    <3>6. HoldsCopies(k, run1, task[r], checkpoint[r])
      <4>1. /\ checkpoint[r].round <= checkpoint[r].round
            /\ checkpoint[r].revision <= checkpoint[r].revision
        BY <1>3, Numbers
      <4>. QED  BY <2>3, <3>2, <3>4, <4>1 DEF HoldsCopies, Saving, Announcing
    <3>7. (\A p \in Places : task[r][p].status # "RUNNING") =>
              DriveInOrder(k, run1, task[r], checkpoint[r])
      BY <2>3, <3>2, <3>4 DEF DriveInOrder, Failing, Concluded
    <3>8. Becomes(t, k)
      BY <2>4, <3>1
    <3>. HIDE DEF Becomes
    <3>9. /\ k.run \in {r, NoRun} /\ k.seen \subseteq Grounded /\ k.repairs = {}
          /\ run1.status \in {"CANCELLED", "DISCOVERING"}
      BY <1>3, <2>2, <3>2, <3>3
    <3>. QED  BY <1>1, <1>2, <2>2, <2>3, <3>2, <3>5, <3>6, <3>7, <3>8, <3>9, ClaimSaves
  <2>5. ASSUME NEW fault \in Fault, Becomes(t, Raised(r, fault))
        PROVE  DiagnosticInductive'
    <3>1. PICK k : k = Raised(r, fault)
      OBVIOUS
    <3>2. /\ k \in Worker /\ k.run = r /\ ThreadSound(k) /\ k.seen = {} /\ k.repairs = {}
      BY <3>1, RaisedRecord
    <3>3. HoldsCopies(k, run1, task[r], checkpoint[r])
      BY <1>3, <2>3, <3>1, RaisedHolds
    <3>4. (\A p \in Places : task[r][p].status # "RUNNING") =>
              DriveInOrder(k, run1, task[r], checkpoint[r])
      BY <2>3, <3>1, RaisedInOrder
    <3>5. Becomes(t, k)
      BY <2>5, <3>1
    <3>. HIDE DEF Becomes
    <3>. QED  BY <1>1, <1>2, <2>2, <2>3, <3>2, <3>3, <3>4, <3>5, ClaimSaves
  <2>6. \/ Becomes(t, [Idle EXCEPT !.pc = "compare", !.run = r, !.snap = run1,
                           !.ck = checkpoint[r], !.seen = memory.findings])
        \/ \E fault \in Fault : Becomes(t, Raised(r, fault))
        \/ row' = [row EXCEPT ![r] = Saved(Saved([first EXCEPT !.status = "CANCELLED"]))]
           /\ UNCHANGED worker
    BY <1>1, <1>4, <2>1
  <2>. HIDE DEF Becomes
  <2>. QED  BY <1>5, <2>4, <2>5, <2>6
<1>. QED  BY SMTT(60), <1>1, <1>4, <1>5, <1>6

-----------------------------------------------------------------------------
(* Clients and the restart *)

\* A client changes a row that a user may resume, or no more than the request to cancel.
LEMMA ClientStep ==
    ASSUME DiagnosticInductive, NEW r \in Runs, NEW run1 \in Row, row' = [row EXCEPT ![r] = run1],
           UNCHANGED <<task, checkpoint, memory, announced, worker, overrun>>, events' \in Nat,
           Present(run1), Present(row[r]) => run1.revision > row[r].revision,
           run1.status = "FAILED" /\ run1.queued => run1.retryable,
           Resumable(run1) => Resumable(row[r]),
           run1.status = row[r].status \/ (Resumable(row[r]) /\ run1.status # "COMPLETED")
    PROVE  DiagnosticInductive'
<1>1. /\ row \in [Runs -> Row] /\ row'[r] = run1 /\ \A q \in Runs : q # r => row'[q] = row[q]
  BY DEF DiagnosticInductive, DiagnosticTypeOK
<1>2. row[r].status = "COMPLETED" => run1.status = "COMPLETED"
  BY DEF Resumable
<1>3. DiagnosticTypeOK'
  BY <1>1 DEF DiagnosticInductive, DiagnosticTypeOK
<1>4. ThreadsSound' /\ RunsPaid'
  BY DEF DiagnosticInductive, ThreadsSound, RunsPaid
<1>5. CopiesHold'
  <2>. SUFFICES ASSUME NEW u \in Workers, worker[u].run \in Runs
                PROVE  HoldsCopies(worker[u], row'[worker[u].run], task[worker[u].run],
                                   checkpoint[worker[u].run])
    BY DEF CopiesHold
  <2>1. CASE worker[u].run # r
    BY <1>1, <2>1, Knowing
  <2>2. CASE worker[u].run = r
    <3>1. /\ worker[u] \in Worker /\ ThreadSound(worker[u])
          /\ HoldsCopies(worker[u], row[r], task[r], checkpoint[r])
          /\ row[r] \in Row /\ task[r] \in [Places -> Task] /\ checkpoint[r] \in Checkpoint
      BY <2>2, Knowing, KnowingRun
    <3>2. Present(row[r]) /\ checkpoint[r].round >= checkpoint[r].round
      BY <3>1, Numbers DEF HoldsCopies
    <3>3. Evolves(row[r], task[r], checkpoint[r], run1, task[r], checkpoint[r])
      BY <1>2, <3>2 DEF Evolves
    <3>4. HoldsCopies(worker[u], run1, task[r], checkpoint[r])
      BY <3>1, <3>3, CopiesStay
    <3>. QED  BY <1>1, <2>2, <3>4
  <2>. QED  BY <2>1, <2>2
<1>6. RetriesAllowed'
  BY <1>1 DEF DiagnosticInductive, RetriesAllowed
<1>7. RunsInOrder'
  <2>. SUFFICES ASSUME NEW q \in Runs, q \notin overrun
                PROVE  RunInOrder(row'[q], task[q], checkpoint[q])
    BY DEF RunsInOrder
  <2>1. RunInOrder(row[q], task[q], checkpoint[q])
    BY KnowingRun
  <2>2. CASE q = r
    BY <1>1, <2>1, <2>2 DEF RunInOrder
  <2>3. CASE q # r
    BY <1>1, <2>1, <2>3
  <2>. QED  BY <2>2, <2>3
<1>8. DrivesInOrder'
  <2>. SUFFICES ASSUME NEW u \in Workers, Drives(worker[u]), worker[u].run \notin overrun
                PROVE  DriveInOrder(worker[u], row'[worker[u].run], task[worker[u].run],
                                    checkpoint[worker[u].run])
    BY DEF DrivesInOrder
  <2>1. worker[u].run \in Runs
    BY Knowing DEF ThreadSound, Drives
  <2>2. DriveInOrder(worker[u], row[worker[u].run], task[worker[u].run], checkpoint[worker[u].run])
    BY <2>1, Knowing
  <2>3. CASE worker[u].run = r
    <3>1. run1.status = row[r].status
      BY <2>3, NobodyDrives
    <3>. QED  BY <1>1, <2>2, <2>3, <3>1 DEF DriveInOrder
  <2>4. CASE worker[u].run # r
    BY <1>1, <2>1, <2>2, <2>4
  <2>. QED  BY <2>3, <2>4
<1>9. OneDrive'
  BY DEF DiagnosticInductive, OneDrive
<1>10. FindingsGrounded'
  <2>1. /\ Grounded \subseteq Grounded'
        /\ \A q \in Runs : row[q].status = "COMPLETED" => row'[q].status = "COMPLETED"
    BY <1>1, <1>2 DEF Grounded
  <2>. QED  BY <2>1 DEF DiagnosticInductive, FindingsGrounded
<1>. QED  BY <1>3, <1>4, <1>5, <1>6, <1>7, <1>8, <1>9, <1>10 DEF DiagnosticInductive

\* A row is created, cancelled, answered or retried.
LEMMA ClientsStep ==
    ASSUME DiagnosticInductive, NEW r \in Runs, Client(r)
    PROVE  DiagnosticInductive'
<1>1. /\ row \in [Runs -> Row] /\ row[r] \in Row /\ events \in Nat /\ row[r].revision \in Nat
      /\ row[r].status = "FAILED" /\ row[r].queued => row[r].retryable
  BY KnowingRun, Numbers DEF DiagnosticInductive, DiagnosticTypeOK
<1>2. CASE Create(r)
  <2>1. NewRow \in Row /\ NewRow.status = "CREATED"
    <3>1. "CREATED" \in RunStatus
      BY DEF RunStatus
    <3>. QED  BY <3>1, Nothings DEF NewRow, Row
  <2>2. /\ row[r].status = "ABSENT" /\ row' = [row EXCEPT ![r] = NewRow] /\ events' \in Nat
        /\ UNCHANGED <<task, checkpoint, memory, announced, worker, overrun>>
    BY <1>1, <1>2 DEF Create, Present
  <2>3. Resumable(row[r]) /\ Present(NewRow) /\ ~Present(row[r])
    BY <2>1, <2>2 DEF Resumable, Present
  <2>. QED  BY <1>1, <2>1, <2>2, <2>3, ClientStep
<1>3. ASSUME NEW run1 \in Row, run1.revision = row[r].revision + 1,
             row' = [row EXCEPT ![r] = run1], Happens,
             UNCHANGED <<task, checkpoint, memory, announced, worker, overrun>>,
             \/ row[r].status = "WAITING_USER" /\ run1.status = "CANCELLED"
             \/ /\ run1.status = row[r].status /\ run1.retryable = row[r].retryable
                /\ run1.queued # row[r].queued =>
                       row[r].status = "WAITING_USER"
                       \/ (row[r].status = "FAILED" /\ row[r].retryable)
             , Present(row[r])
      PROVE  DiagnosticInductive'
  <2>1. events' \in Nat
    BY <1>1, <1>3 DEF Happens
  <2>2. /\ Present(run1) /\ run1.revision > row[r].revision
        /\ run1.status = "FAILED" /\ run1.queued => run1.retryable
    BY <1>1, <1>3 DEF Present
  <2>3. /\ Resumable(run1) => Resumable(row[r])
        /\ run1.status = row[r].status \/ (Resumable(row[r]) /\ run1.status # "COMPLETED")
    BY <1>3 DEF Resumable
  <2>. QED  BY <1>3, <2>1, <2>2, <2>3, ClientStep
<1>4. CASE Cancel(r)
  <2>1. CASE /\ row[r].status = "WAITING_USER"
             /\ row' = [row EXCEPT ![r] = Saved(Transition(@, "CANCELLED"))]
    <3>1. PICK run1 : run1 = Saved(Transition(row[r], "CANCELLED"))
      OBVIOUS
    <3>2. run1 \in Row /\ run1.status = "CANCELLED" /\ run1.revision = row[r].revision + 1
      <4>1. "CANCELLED" \in RunStatus
        BY DEF RunStatus, Terminal, Settled
      <4>. QED  BY <1>1, <3>1, <4>1, RowFields
    <3>3. row' = [row EXCEPT ![r] = run1]
      BY <1>1, <2>1, <3>1
    <3>. QED  BY <1>3, <1>4, <2>1, <3>2, <3>3 DEF Cancel
  <2>2. CASE /\ row[r].status \notin Terminal
             /\ row' = [row EXCEPT ![r] = Saved([@ EXCEPT !.cancel = TRUE])]
    <3>1. PICK run1 : run1 = Saved([row[r] EXCEPT !.cancel = TRUE])
      OBVIOUS
    <3>2. /\ run1 \in Row /\ run1.status = row[r].status /\ run1.queued = row[r].queued
          /\ run1.retryable = row[r].retryable /\ run1.revision = row[r].revision + 1
      <4>1. PICK new : new = [row[r] EXCEPT !.cancel = TRUE]
        OBVIOUS
      <4>2. /\ new \in Row /\ new.status = row[r].status /\ new.queued = row[r].queued
            /\ new.retryable = row[r].retryable /\ new.revision = row[r].revision
        BY <1>1, <4>1 DEF Row
      <4>3. "FAILED" \in RunStatus
        BY DEF RunStatus, Terminal, Settled
      <4>. QED  BY ZenonT(60), <3>1, <4>1, <4>2, <4>3, RowFields
    <3>3. row' = [row EXCEPT ![r] = run1]
      BY <1>1, <2>2, <3>1
    <3>. QED  BY <1>3, <1>4, <3>2, <3>3 DEF Cancel
  <2>. QED  BY <1>4, <2>1, <2>2 DEF Cancel
<1>5. CASE Clarify(r) \/ Retry(r)
  <2>1. PICK run1 : run1 = Saved([row[r] EXCEPT !.queued = TRUE])
    OBVIOUS
  <2>2. /\ run1 \in Row /\ run1.status = row[r].status /\ run1.retryable = row[r].retryable
        /\ run1.revision = row[r].revision + 1
    <3>1. PICK new : new = [row[r] EXCEPT !.queued = TRUE]
      OBVIOUS
    <3>2. /\ new \in Row /\ new.status = row[r].status
          /\ new.retryable = row[r].retryable /\ new.revision = row[r].revision
      BY <1>1, <3>1 DEF Row
    <3>3. "FAILED" \in RunStatus
      BY DEF RunStatus, Terminal, Settled
    <3>. QED  BY ZenonT(60), <2>1, <3>1, <3>2, <3>3, RowFields
  <2>3. row' = [row EXCEPT ![r] = run1]
    BY <1>1, <1>5, <2>1 DEF Clarify, Retry
  <2>4. \/ row[r].status = "WAITING_USER"
        \/ row[r].status = "FAILED" /\ row[r].retryable
    BY <1>5 DEF Clarify, Retry
  <2>5. Happens /\ UNCHANGED <<task, checkpoint, memory, announced, worker, overrun>>
    BY <1>5 DEF Clarify, Retry
  <2>. QED  BY <1>3, <2>2, <2>3, <2>4, <2>5 DEF Present
<1>. QED  BY <1>2, <1>4, <1>5 DEF Client

\* A task as recover_running() leaves it.
LEMMA RecoveredTask ==
    ASSUME NEW held \in Task
    PROVE  /\ Recovered(held) \in Task /\ Recovered(held).status # "RUNNING"
           /\ held.status # "RUNNING" => Recovered(held) = held
           /\ Recovered(held).status = "ABSENT" <=> held.status = "ABSENT"
           /\ Recovered(held).status = "COMPLETED" <=> held.status = "COMPLETED"
<1>1. CASE held.status = "RUNNING"
  <2>1. PICK new : new = [held EXCEPT !.status = "FAILED", !.retryable = TRUE,
                                      !.revision = @ + 1]
    OBVIOUS
  <2>2. new \in Task /\ new.status = "FAILED"
    <3>1. PICK failed : failed = [held EXCEPT !.status = "FAILED", !.retryable = TRUE]
      OBVIOUS
    <3>2. failed \in Task /\ failed.status = "FAILED"
      BY <3>1 DEF Task, TaskStatus
    <3>3. new = [failed EXCEPT !.revision = @ + 1]
      BY <2>1, <3>1 DEF Task
    <3>. QED  BY <3>2, <3>3, RenumberedTask
  <2>. QED  BY <1>1, <2>1, <2>2 DEF Recovered
<1>2. CASE held.status # "RUNNING"
  BY <1>2 DEF Recovered
<1>. QED  BY <1>1, <1>2

\* A row as recover_interrupted() leaves it.
LEMMA InterruptedRow ==
    ASSUME NEW run \in Row, run.status = "FAILED" /\ run.queued => run.retryable
    PROVE  /\ Interrupted(run) \in Row
           /\ Interrupted(run).status = "COMPLETED" <=> run.status = "COMPLETED"
           /\ Interrupted(run).status = "FAILED" /\ Interrupted(run).queued =>
                  Interrupted(run).retryable
<1>1. CASE run.status \in Active
  <2>1. "FAILED" \in RunStatus
    BY DEF RunStatus, Terminal, Settled
  <2>2. PICK moved : moved = Transition(run, "FAILED")
    OBVIOUS
  <2>3. moved \in Row /\ moved.status = "FAILED"
    BY <2>1, <2>2, RowFields
  <2>4. PICK new : new = [moved EXCEPT !.retryable = TRUE]
    OBVIOUS
  <2>5. new \in Row /\ new.status = "FAILED" /\ new.retryable
    BY <2>3, <2>4 DEF Row
  <2>6. Saved(new) \in Row /\ Saved(new).status = "FAILED" /\ Saved(new).retryable
    BY <2>1, <2>5, RowFields
  <2>7. Interrupted(run) = Saved(new)
    BY <1>1, <2>2, <2>4 DEF Interrupted
  <2>. QED  BY <1>1, <2>6, <2>7 DEF Active
<1>2. CASE run.status \notin Active
  BY <1>2 DEF Interrupted
<1>. QED  BY <1>1, <1>2

\* The tasks of a run after a restart are done, verified and at rest as before.
LEMMA RecoveredTasks ==
    ASSUME NEW tasks \in [Places -> Task], NEW tasks1,
           tasks1 = [p \in Places |-> Recovered(tasks[p])]
    PROVE  /\ tasks1 \in [Places -> Task]
           /\ \A p \in Places : /\ tasks1[p].status # "RUNNING"
                                /\ AtRest(tasks[p]) => AtRest(tasks1[p])
           /\ Done(tasks1) = Done(tasks) /\ Verified(tasks1) = Verified(tasks)
           /\ \A p \in Done(tasks) : tasks1[p] = tasks[p]
           /\ \A stored : Paid(tasks, stored) => Paid(tasks1, stored)
<1>1. \A p \in Places :
          /\ tasks1[p] \in Task /\ tasks1[p].status # "RUNNING"
          /\ tasks[p].status # "RUNNING" => tasks1[p] = tasks[p]
          /\ tasks1[p].status = "ABSENT" <=> tasks[p].status = "ABSENT"
          /\ tasks1[p].status = "COMPLETED" <=> tasks[p].status = "COMPLETED"
  BY RecoveredTask
<1>2. \A p \in Places : AtRest(tasks[p]) => AtRest(tasks1[p])
  BY <1>1 DEF AtRest
<1>3. Done(tasks1) = Done(tasks) /\ \A p \in Done(tasks) : tasks1[p] = tasks[p]
  BY <1>1 DEF Done
<1>4. Verified(tasks1) = Verified(tasks)
  BY <1>3 DEF Verified
<1>5. {p \in Places : tasks1[p].status # "ABSENT"} = {p \in Places : tasks[p].status # "ABSENT"}
  BY <1>1
<1>6. \A stored : Paid(tasks, stored) => Paid(tasks1, stored)
  BY <1>5 DEF Paid
<1>. QED  BY <1>1, <1>2, <1>3, <1>4, <1>6

\* A restart leaves every run in order, and nobody at work.
LEMMA RestartStep ==
    ASSUME DiagnosticInductive, Restart
    PROVE  DiagnosticInductive'
<1>. DEFINE found == {r \in IncompleteCompletions : Conclusive(task[r])} \ memory.findings
<1>1. /\ row' = [r \in Runs |-> Interrupted(row[r])]
      /\ task' = [r \in Runs |-> [p \in Places |-> Recovered(task[r][p])]]
      /\ worker' = [t \in Workers |-> Idle]
      /\ memory' = [findings |-> memory.findings \cup found,
                    revision |-> memory.revision + Cardinality(found)]
      /\ announced' = announced \cup IncompleteCompletions
      /\ checkpoint' = checkpoint /\ overrun' = overrun /\ events' = events + 1
  BY DEF Restart, Happens
<1>2. /\ row \in [Runs -> Row] /\ task \in [Runs -> [Places -> Task]]
      /\ memory \in [findings: SUBSET Runs, revision: Nat] /\ announced \subseteq Runs
      /\ checkpoint \in [Runs -> Checkpoint] /\ overrun \subseteq Runs /\ events \in Nat
      /\ memory.findings \subseteq Grounded
  BY DEF DiagnosticInductive, DiagnosticTypeOK, FindingsGrounded
<1>3. \A r \in Runs :
          /\ row'[r] \in Row /\ (row'[r].status = "COMPLETED" <=> row[r].status = "COMPLETED")
          /\ row'[r].status = "FAILED" /\ row'[r].queued => row'[r].retryable
  BY <1>1, KnowingRun, InterruptedRow
<1>4. \A r \in Runs :
          /\ task'[r] \in [Places -> Task]
          /\ \A p \in Places : /\ task'[r][p].status # "RUNNING"
                               /\ AtRest(task[r][p]) => AtRest(task'[r][p])
          /\ Done(task'[r]) = Done(task[r]) /\ Verified(task'[r]) = Verified(task[r])
          /\ \A p \in Done(task[r]) : task'[r][p] = task[r][p]
          /\ \A stored : Paid(task[r], stored) => Paid(task'[r], stored)
  <2>. SUFFICES ASSUME NEW r \in Runs
                PROVE  /\ task'[r] \in [Places -> Task]
                       /\ \A p \in Places : /\ task'[r][p].status # "RUNNING"
                                            /\ AtRest(task[r][p]) => AtRest(task'[r][p])
                       /\ Done(task'[r]) = Done(task[r]) /\ Verified(task'[r]) = Verified(task[r])
                       /\ \A p \in Done(task[r]) : task'[r][p] = task[r][p]
                       /\ \A stored : Paid(task[r], stored) => Paid(task'[r], stored)
    OBVIOUS
  <2>1. task[r] \in [Places -> Task]
    BY <1>2
  <2>2. task'[r] = [p \in Places |-> Recovered(task[r][p])]
    BY <1>1
  <2>. QED  BY <2>1, <2>2, RecoveredTasks
<1>5. \A t \in Workers : worker'[t] = Idle
  BY <1>1
<1>6. /\ found \subseteq Grounded /\ found \subseteq Runs /\ IncompleteCompletions \subseteq Runs
      /\ Cardinality(found) \in Nat
  <2>1. found \subseteq Grounded /\ found \subseteq Runs /\ IncompleteCompletions \subseteq Runs
    BY DEF IncompleteCompletions, Conclusive, Grounded
  <2>2. IsFiniteSet(found)
    BY <2>1, RunsAssumption, FS_Subset
  <2>. QED  BY <2>1, <2>2, FS_CardinalityType
<1>7. DiagnosticTypeOK'
  <2>1. row' \in [Runs -> Row] /\ task' \in [Runs -> [Places -> Task]]
    BY <1>1, <1>3, <1>4
  <2>2. memory' \in [findings: SUBSET Runs, revision: Nat] /\ announced' \subseteq Runs
    BY <1>1, <1>2, <1>6
  <2>3. worker' \in [Workers -> Worker]
    BY <1>1, Nothings
  <2>. QED  BY <1>1, <1>2, <2>1, <2>2, <2>3 DEF DiagnosticTypeOK
<1>8. ThreadsSound' /\ CopiesHold' /\ DrivesInOrder' /\ OneDrive'
  BY <1>5, IdleSound, Nothings DEF ThreadsSound, CopiesHold, DrivesInOrder, OneDrive
<1>9. RunsPaid' /\ RetriesAllowed'
  BY <1>1, <1>3, <1>4, KnowingRun DEF RunsPaid, RetriesAllowed
<1>10. RunsInOrder'
  <2>. SUFFICES ASSUME NEW r \in Runs, r \notin overrun
                PROVE  RunInOrder(row'[r], task'[r], checkpoint[r])
    BY <1>1 DEF RunsInOrder
  <2>1. RunInOrder(row[r], task[r], checkpoint[r])
    BY KnowingRun
  <2>2. /\ \A p \in Verified(task[r]) : task'[r][p] = task[r][p]
        /\ Verified(task'[r]) = Verified(task[r]) /\ Done(task'[r]) = Done(task[r])
    BY <1>4 DEF Verified
  <2>3. /\ \A p, q \in Verified(task'[r]) : task'[r][p].source = task'[r][q].source
        /\ checkpoint[r].source # NoSource =>
               \A p \in Verified(task'[r]) : task'[r][p].source = checkpoint[r].source
        /\ checkpoint[r].refs # {} => checkpoint[r].source # NoSource
    BY <2>1, <2>2 DEF RunInOrder
  <2>4. \A p \in Places : p[1] < checkpoint[r].round => AtRest(task'[r][p])
    BY <1>4, <2>1 DEF RunInOrder
  <2>5. row'[r].status = "COMPLETED" =>
            Tallied(task'[r], checkpoint[r]) /\ \A p \in Places : AtRest(task'[r][p])
    BY <1>3, <1>4, <2>1, <2>2 DEF RunInOrder, Tallied
  <2>6. \A p \in Places : task'[r][p].status # "RUNNING"
    BY <1>4
  <2>. QED  BY <2>3, <2>4, <2>5, <2>6 DEF RunInOrder
<1>11. FindingsGrounded'
  <2>1. Grounded \subseteq Grounded'
    BY <1>3, <1>4 DEF Grounded
  <2>2. memory'.findings \subseteq Grounded'
    BY <1>1, <1>2, <1>6, <2>1
  <2>. QED  BY <1>5, <2>2, IdleSound DEF FindingsGrounded
<1>. QED  BY <1>7, <1>8, <1>9, <1>10, <1>11 DEF DiagnosticInductive

-----------------------------------------------------------------------------
(* The theorems *)

\* The program starts with no rows, no tasks and nobody at work.
LEMMA InitiallyInductive ==
    ASSUME Init
    PROVE  DiagnosticInductive
<1>1. /\ row = [r \in Runs |-> NoRow] /\ task = [r \in Runs |-> [p \in Places |-> NoTask]]
      /\ checkpoint = [r \in Runs |-> NewCheckpoint]
      /\ memory = [findings |-> {}, revision |-> 0]
      /\ announced = {} /\ worker = [t \in Workers |-> Idle] /\ overrun = {} /\ events = 0
  BY DEF Init
<1>2. /\ \A r \in Runs : row[r].status = "ABSENT"
      /\ \A r \in Runs, p \in Places : task[r][p].status = "ABSENT"
      /\ \A r \in Runs : /\ checkpoint[r].round = 0 /\ checkpoint[r].remaining = 0
                         /\ checkpoint[r].refs = {} /\ checkpoint[r].source = NoSource
      /\ \A t \in Workers : worker[t] = Idle
  BY <1>1 DEF NoRow, NoTask, NewCheckpoint
<1>3. DiagnosticTypeOK
  BY <1>1, Nothings DEF DiagnosticTypeOK
<1>4. ThreadsSound /\ CopiesHold /\ DrivesInOrder /\ OneDrive
  BY <1>2, IdleSound, Nothings DEF ThreadsSound, CopiesHold, DrivesInOrder, OneDrive
<1>5. RunsPaid /\ RetriesAllowed
  BY <1>2 DEF RunsPaid, RetriesAllowed, Paid
<1>6. RunsInOrder
  <2>1. \A r \in Runs : Verified(task[r]) = {}
    BY <1>2 DEF Verified, Done
  <2>. QED  BY <1>2, <2>1 DEF RunsInOrder, RunInOrder, AtRest
<1>7. FindingsGrounded
  BY <1>1, <1>2, IdleSound DEF FindingsGrounded
<1>. QED  BY <1>3, <1>4, <1>5, <1>6, <1>7 DEF DiagnosticInductive

\* Every step of a thread keeps the invariant.
LEMMA ThreadsStep ==
    ASSUME DiagnosticInductive, NEW t \in Workers, Thread(t)
    PROVE  DiagnosticInductive'
<1>1. CASE Claim(t) \/ Compare(t) \/ Repair(t) \/ Begin(t) \/ CheckRound(t) \/ ReadRound(t)
           \/ Plan(t) \/ PlanRound(t) \/ ReadPlanned(t) \/ TakeTurn(t)
  BY <1>1, ClaimStep, CompareStep, RepairStep, BeginStep, CheckRoundStep, ReadRoundStep,
     PlanStep, PlanRoundStep, ReadPlannedStep, TakeTurnStep
<1>2. CASE StartTask(t) \/ SetPending(t) \/ Ask(t) \/ Advance(t) \/ AskEnded(t) \/ SkipTask(t)
           \/ FailTask(t) \/ CompleteTask(t) \/ CountTask(t) \/ ParkTask(t)
  BY <1>2, StartTaskStep, SetPendingStep, AskStep, AdvanceStep, AskEndedStep, SkipTaskStep,
     FailTaskStep, CompleteTaskStep, CountTaskStep, ParkTaskStep
<1>3. CASE ReadWait(t) \/ Wait(t) \/ AfterTask(t) \/ CancelRun(t) \/ Synthesize(t) \/ Reread(t)
           \/ Finish(t) \/ Record(t) \/ PutMemory(t) \/ Publish(t)
  BY <1>3, ReadWaitStep, WaitStep, AfterTaskStep, CancelRunStep, SynthesizeStep, RereadStep,
     FinishStep, RecordStep, PutMemoryStep, PublishStep
<1>4. CASE Except(t) \/ CheckFailure(t) \/ FailRun(t) \/ RepairNext(t)
  BY <1>4, ExceptStep, CheckFailureStep, FailRunStep, RepairNextStep
<1>. QED  BY <1>1, <1>2, <1>3, <1>4 DEF Thread

\* Every step keeps the invariant.
LEMMA InductiveStep ==
    ASSUME DiagnosticInductive, [Next]_vars
    PROVE  DiagnosticInductive'
<1>1. CASE Next
  BY <1>1, ThreadsStep, ClientsStep, RestartStep DEF Next
<1>2. CASE UNCHANGED vars
  BY <1>2
     DEF vars, DiagnosticInductive, DiagnosticTypeOK, ThreadsSound, CopiesHold, RunsPaid,
         RetriesAllowed, RunsInOrder, DrivesInOrder, OneDrive, FindingsGrounded, Grounded
<1>. QED  BY <1>1, <1>2

\* The inductive invariant holds of every diagnosis: what a thread holds is a copy of what is
\* stored, one drive at most works on a run, and what it has not yet counted is in its hands.
THEOREM DiagnosticInvariant == Spec => []DiagnosticInductive
<1>1. Init => DiagnosticInductive
  BY InitiallyInductive
<1>2. DiagnosticInductive /\ [Next]_vars => DiagnosticInductive'
  BY InductiveStep
<1>. QED  BY <1>1, <1>2, PTL DEF Spec

\* The tables, the threads and the bounds have their types.
THEOREM DiagnosesAreTyped == Spec => []DiagnosticTypeOK
<1>1. DiagnosticInductive => DiagnosticTypeOK
  BY DEF DiagnosticInductive
<1>. QED  BY <1>1, DiagnosticInvariant, PTL

\* Questions are paid for, evidence is from one source, a completed run has completed and
\* counted all it planned, and the memory holds findings of such runs only.
THEOREM SoundDiagnoses == Spec => []DiagnosesAreSound
<1>1. DiagnosticInductive => DiagnosesAreSound
  <2>. SUFFICES ASSUME DiagnosticInductive PROVE DiagnosesAreSound
    OBVIOUS
  <2>1. BudgetIsPaid
    <3>. SUFFICES ASSUME NEW r \in Runs,
                         NEW planned, planned = {p \in Places : task[r][p].status # "ABSENT"}
                  PROVE  /\ checkpoint[r].remaining = 0 /\ planned = {} => checkpoint[r].round = 0
                         /\ checkpoint[r].round > 0 =>
                                Cardinality(planned) + checkpoint[r].remaining = MaxQuestions
                         /\ \A p \in planned : p[1] <= checkpoint[r].round
      BY DEF BudgetIsPaid
    <3>1. Paid(task[r], checkpoint[r]) /\ checkpoint[r] \in Checkpoint
      BY KnowingRun
    <3>2. /\ checkpoint[r].round > 0 =>
                 Cardinality(planned) + checkpoint[r].remaining = MaxQuestions
          /\ \A p \in planned : p[1] <= checkpoint[r].round
      BY <3>1 DEF Paid
    <3>3. planned = {} => Cardinality(planned) = 0
      BY FS_EmptySet
    <3>4. checkpoint[r].round \in Nat /\ MaxQuestions \in Nat \ {0}
      BY <3>1, Numbers
    <3>. QED  BY <3>2, <3>3, <3>4
  <2>2. EvidenceFromOneSource
    BY KnowingRun DEF EvidenceFromOneSource, RunInOrder
  <2>3. CompletedRunsAreWhole
    BY KnowingRun DEF CompletedRunsAreWhole, RunInOrder, Tallied, AtRest
  <2>4. FindingsAreGrounded
    BY DEF FindingsAreGrounded, DiagnosticInductive, FindingsGrounded, Grounded
  <2>. QED  BY <2>1, <2>2, <2>3, <2>4 DEF DiagnosesAreSound
<1>. QED  BY <1>1, DiagnosticInvariant, PTL

\* save_task() changes no task that has completed.
LEMMA SavedTasksAreFinal ==
    ASSUME DiagnosticInductive, NEW t \in Workers, NEW new, NEW label, SaveTask(t, new, label),
           worker[t].pc \in {"start", "skip", "fail", "complete", "park"},
           NEW r \in Runs, NEW p \in Places, task[r][p].status = "COMPLETED"
    PROVE  task'[r][p] = task[r][p]
<1>1. CASE MaySaveTask(t)
  <2>1. task[Job(t)][worker[t].place].status # "COMPLETED"
    BY <1>1, HeldTask
  <2>2. task' = [task EXCEPT ![Job(t)][worker[t].place] = [new EXCEPT !.revision = @ + 1]]
    BY <1>1 DEF SaveTask
  <2>3. r # Job(t) \/ p # worker[t].place
    BY <2>1
  <2>4. task \in [Runs -> [Places -> Task]]
    BY DEF DiagnosticInductive, DiagnosticTypeOK
  <2>. HIDE DEF Becomes
  <2>. QED  BY <2>2, <2>3, <2>4
<1>2. CASE ~MaySaveTask(t)
  BY <1>2 DEF SaveTask
<1>. QED  BY <1>1, <1>2

\* No step changes a task that has completed.
LEMMA FinalStep ==
    ASSUME DiagnosticInductive, [Next]_vars,
           NEW r \in Runs, NEW p \in Places, task[r][p].status = "COMPLETED"
    PROVE  task'[r][p] = task[r][p]
<1>1. ASSUME NEW t \in Workers, PlanRound(t)
      PROVE  task'[r][p] = task[r][p]
  <2>1. /\ worker[t].pc = "plan_round" /\ Job(t) \in Runs
        /\ HoldsCopies(worker[t], row[Job(t)], task[Job(t)], checkpoint[Job(t)])
        /\ Paid(task[Job(t)], checkpoint[Job(t)]) /\ checkpoint[Job(t)] \in Checkpoint
        /\ Ck(t) \in Checkpoint /\ Looping(worker[t])
    BY <1>1, Here DEF PlanRound, Worker, Looping, Entering
  <2>2. PICK new : new = Planned(Ck(t), Cardinality(worker[t].todo))
    OBVIOUS
  <2>3. new.revision = Ck(t).revision /\ new.round = Ck(t).round + 1
    BY <2>1, <2>2 DEF Planned, Checkpoint
  <2>4. task' = IF checkpoint[Job(t)].revision = new.revision
                THEN [task EXCEPT ![Job(t)] = [q \in Places |->
                        IF q[1] = new.round /\ q[2] \in worker[t].todo THEN NewTask ELSE @[q]]]
                ELSE task
    BY <1>1, <2>2 DEF PlanRound
  <2>5. CASE checkpoint[Job(t)].revision # new.revision \/ r # Job(t)
    <3>1. task \in [Runs -> [Places -> Task]]
      BY DEF DiagnosticInductive, DiagnosticTypeOK
    <3>. QED  BY <2>4, <2>5, <3>1
  <2>6. CASE checkpoint[Job(t)].revision = new.revision /\ r = Job(t)
    <3>1. new.round = checkpoint[r].round + 1 /\ checkpoint[r].round \in Nat
      BY <2>1, <2>3, <2>6, Numbers DEF HoldsCopies
    <3>2. p[1] <= checkpoint[r].round /\ p[1] \in Nat
      BY <2>1, <2>6, PlaceFacts DEF Paid
    <3>3. p[1] # new.round
      BY <3>1, <3>2
    <3>4. task \in [Runs -> [Places -> Task]]
      BY DEF DiagnosticInductive, DiagnosticTypeOK
    <3>. QED  BY SMTT(60), <2>4, <2>6, <3>3, <3>4
  <2>. QED  BY <2>5, <2>6
<1>2. ASSUME NEW t \in Workers, StartTask(t) \/ SkipTask(t) \/ FailTask(t) \/ CompleteTask(t)
                                \/ ParkTask(t)
      PROVE  task'[r][p] = task[r][p]
  <2>1. /\ worker[t].pc \in {"start", "skip", "fail", "complete", "park"}
        /\ \E new, label : SaveTask(t, new, label)
    BY <1>2 DEF StartTask, SkipTask, FailTask, CompleteTask, ParkTask
  <2>. QED  BY <2>1, SavedTasksAreFinal
<1>3. ASSUME Restart
      PROVE  task'[r][p] = task[r][p]
  BY <1>3 DEF Restart, Recovered
<1>4. ASSUME NEW t \in Workers, Thread(t),
             ~(\/ PlanRound(t) \/ StartTask(t) \/ SkipTask(t) \/ FailTask(t) \/ CompleteTask(t)
               \/ ParkTask(t))
      PROVE  task' = task
  <2>. HIDE DEF Becomes
  <2>1. CASE Claim(t) \/ Compare(t) \/ Repair(t) \/ Begin(t) \/ CheckRound(t) \/ ReadRound(t)
             \/ Plan(t) \/ ReadPlanned(t) \/ TakeTurn(t) \/ SetPending(t) \/ Ask(t) \/ Advance(t)
    BY <2>1 DEF Claim, Compare, Repair, Begin, CheckRound, ReadRound, Plan, ReadPlanned, TakeTurn,
                SetPending, Ask, Advance
  <2>2. CASE AskEnded(t)
    BY ZenonT(60), <2>2 DEF AskEnded
  <2>3. CASE CountTask(t) \/ ReadWait(t) \/ Wait(t) \/ AfterTask(t) \/ CancelRun(t)
             \/ Synthesize(t) \/ Reread(t) \/ Finish(t) \/ Record(t) \/ PutMemory(t) \/ Publish(t)
             \/ Except(t) \/ CheckFailure(t) \/ FailRun(t) \/ RepairNext(t)
    BY <2>3 DEF CountTask, ReadWait, Wait, AfterTask, CancelRun, Synthesize, Reread, Finish, Record,
                PutMemory, Publish, Except, CheckFailure, FailRun, RepairNext
  <2>. QED  BY SMTT(60), <1>4, <2>1, <2>2, <2>3 DEF Thread
<1>5. ASSUME NEW q \in Runs, Client(q)
      PROVE  task' = task
  BY <1>5 DEF Client, Create, Cancel, Clarify, Retry
<1>6. CASE UNCHANGED vars
  BY <1>6 DEF vars
<1>. QED  BY <1>1, <1>2, <1>3, <1>4, <1>5, <1>6 DEF Next

\* Nothing a drive does to a task is lost or done twice: nobody but a drive leaves a task
\* running, and a completed one is never asked again.
THEOREM SettledTasks == Spec => TasksAreSettled
<1>1. DiagnosticInductive =>
          \A r \in Runs \ overrun :
              Unattended(r) => \A p \in Places : task[r][p].status # "RUNNING"
  BY KnowingRun DEF Unattended, Runnable, Resumable, RunInOrder
<1>2. DiagnosticInductive /\ [Next]_vars =>
          [\A r \in Runs, p \in Places :
              task[r][p].status = "COMPLETED" => task'[r][p] = task[r][p]]_vars
  BY FinalStep
<1>. QED  BY <1>1, <1>2, DiagnosticInvariant, PTL DEF Spec, TasksAreSettled, CompletedTasksAreFinal

=============================================================================
