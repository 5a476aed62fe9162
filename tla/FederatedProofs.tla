---------------------------- MODULE FederatedProofs ----------------------------
(***************************************************************************)
(* FederatedInductive is an inductive invariant of FederatedRun: what      *)
(* federated runs promise holds for every number of runs, threads, sources *)
(* and versions, and every budget.                                         *)
(***************************************************************************)
EXTENDS FederatedProperties, TLAPS

USE DEF At, Job, Snap, Becomes, governance, store

-----------------------------------------------------------------------------
(* Records *)

\* Rows, tasks, versions and mappings have numbers.
LEMMA Numbers ==
    /\ \A run \in Row : run.revision \in Nat
    /\ \A held \in SourceTask :
            held.revision \in Nat /\ held.version \in Nat /\ held.version <= MaxVersion
    /\ \A b \in Versions, i \in Tasks : b[i] \in Nat /\ b[i] <= MaxVersion
    /\ \A m \in JoinMapping : m.bound \in Versions
    /\ {N, MaxVersion, MaxSize, MaxEvents} \subseteq Nat /\ MaxVersion > 0 /\ N > 1
<1>1. {N, MaxVersion, MaxSize, MaxEvents} \subseteq Nat /\ MaxVersion > 0 /\ N > 1
  BY BoundsAssumption, TasksAssumption
<1>. QED  BY <1>1 DEF Row, SourceTask, Versions, JoinMapping

\* The records of nobody and of nothing.
LEMMA Nothings ==
    /\ NoRow \in Row /\ NoTask \in SourceTask /\ Unbound \in Versions
    /\ NoMapping \in JoinMapping /\ Idle \in Worker /\ NoRun \notin Runs
<1>1. NoRow \in Row
  BY DEF NoRow, Row, Response
<1>2. NoTask \in SourceTask
  BY Numbers DEF NoTask, SourceTask, SourceTaskStatus
<1>3. Unbound \in Versions
  BY Numbers DEF Unbound, Versions
<1>4. NoMapping \in JoinMapping
  BY <1>3 DEF NoMapping, JoinMapping
<1>5. Idle \in Worker
  <2>1. [i \in Tasks |-> NoTask] \in [Tasks -> SourceTask] /\ 0 \in 0..(N + 1)
    BY <1>2, Numbers
  <2>. HIDE DEF NoRow, NoTask, NoMapping, Tasks
  <2>. QED  BY <1>1, <1>2, <1>4, <2>1 DEF Idle, Worker, PC, PlanKind
<1>. QED  BY <1>1, <1>2, <1>3, <1>4, <1>5, RunsAssumption

\* An idle thread is sound.
LEMMA IdleSound ==
    /\ ThreadSound(Idle) /\ \A current : KnowsSources(Idle, current)
    /\ ~Drives(Idle) /\ Idle.run = NoRun /\ Idle.pc = "idle" /\ ~Asks(Idle) /\ Idle \in Worker
<1>1. Idle.run = NoRun /\ Idle.pc = "idle" /\ Idle.repairing = FALSE
  BY DEF Idle
<1>. QED  BY <1>1, Nothings
          DEF ThreadSound, KnowsSources, Drives, Asks, OnTask, Executes, Governed

\* The fields of a thread that only moves on.
LEMMA MovedOn ==
    ASSUME NEW w \in Worker, NEW label \in PC, NEW k, k = [w EXCEPT !.pc = label]
    PROVE  /\ k \in Worker /\ k.pc = label /\ k.run = w.run /\ k.snap = w.snap
           /\ k.tasks = w.tasks /\ k.place = w.place /\ k.heard = w.heard /\ k.kind = w.kind
           /\ k.mapping = w.mapping /\ k.found = w.found /\ k.outcome = w.outcome
           /\ k.then = w.then /\ k.repairs = w.repairs /\ k.repairing = w.repairing
BY DEF Worker

\* What a thread does fits where it is.
LEMMA Classes ==
    ASSUME NEW w, ThreadSound(w)
    PROVE  /\ Asks(w) \/ OnTask(w) \/ InLoop(w) \/ Planned(w) \/ Merging(w) => Holds(w)
           /\ Executes(w) \/ OnTask(w) => InLoop(w)
           /\ InLoop(w) \/ Merging(w) => Planned(w)
           /\ Holds(w) => Drives(w) /\ ~w.repairing /\ w.run \in Runs
           /\ Drives(w) => w.run \in Runs /\ w.pc \notin {"idle", "repairs"}
BY DEF ThreadSound, Asks, OnTask, Executes, InLoop, Planned, Merging, Governed, Holds, Drives

-----------------------------------------------------------------------------
(* One thread makes a step *)

\* What a step may do to the row, the plan and the tasks of a run, so that the copies other
\* threads hold are still copies: whatever changes gets a higher revision, a plan stays, and
\* so does what is completed.
Evolves(run, kind, tasks, run1, kind1, tasks1) ==
    /\ run1 = run \/ run1.revision > run.revision
    /\ Present(run1)
    /\ run.cancel => run1.cancel
    /\ kind # "none" => kind1 = kind
    /\ \A i \in Tasks : \/ tasks1[i] = tasks[i]
                        \/ tasks1[i].revision > tasks[i].revision
                        \/ kind = "none"
    /\ \A i \in Tasks : tasks[i].status = "COMPLETED" => tasks1[i] = tasks[i]

\* Tasks that are all completed stay as they are.
LEMMA WholeStays ==
    ASSUME NEW tasks \in [Tasks -> SourceTask], NEW tasks1 \in [Tasks -> SourceTask],
           Whole(tasks), \A i \in Tasks : tasks[i].status = "COMPLETED" => tasks1[i] = tasks[i]
    PROVE  tasks1 = tasks
<1>1. \A i \in Tasks : tasks[i].status = "COMPLETED"
  BY DEF Whole, Completed
<1>. QED  BY <1>1

\* A step on its run leaves the copies of another thread copies.
LEMMA CopiesStay ==
    ASSUME NEW w \in Worker, ThreadSound(w), NEW run \in Row, NEW run1 \in Row, NEW kind, NEW kind1,
           NEW tasks \in [Tasks -> SourceTask], NEW tasks1 \in [Tasks -> SourceTask],
           HoldsCopies(w, run, kind, tasks), Evolves(run, kind, tasks, run1, kind1, tasks1)
    PROVE  HoldsCopies(w, run1, kind1, tasks1)
<1>1. w.snap.revision \in Nat /\ run.revision \in Nat /\ run1.revision \in Nat
  BY Numbers DEF Worker
<1>2. /\ Present(run1)
      /\ Holds(w) => /\ w.snap.revision <= run1.revision
                     /\ w.snap.revision = run1.revision => w.snap = run1
      /\ w.pc \in {"cancel", "skip"} => run1.cancel
  BY <1>1 DEF HoldsCopies, Evolves
<1>3. ASSUME InLoop(w), NEW i \in Tasks
      PROVE  /\ w.tasks[i].revision <= tasks1[i].revision
             /\ w.tasks[i].revision = tasks1[i].revision => w.tasks[i] = tasks1[i]
  <2>1. kind # "none"
    BY <1>3, Classes DEF HoldsCopies
  <2>2. /\ w.tasks[i].revision <= tasks[i].revision
        /\ w.tasks[i].revision = tasks[i].revision => w.tasks[i] = tasks[i]
    BY <1>3 DEF HoldsCopies
  <2>3. tasks1[i] = tasks[i] \/ tasks1[i].revision > tasks[i].revision
    BY <2>1 DEF Evolves
  <2>4. w.tasks[i].revision \in Nat /\ tasks[i].revision \in Nat /\ tasks1[i].revision \in Nat
    BY DEF Worker, SourceTask
  <2>. QED  BY <2>2, <2>3, <2>4
<1>4. Planned(w) => kind1 # "none" /\ (w.pc # "resume" => w.kind = kind1)
  BY DEF HoldsCopies, Evolves
<1>5. Merging(w) => tasks1 = tasks
  BY WholeStays DEF HoldsCopies, Evolves
<1>6. Merging(w) => w.tasks = tasks1 /\ Whole(tasks1)
  BY <1>5 DEF HoldsCopies
<1>7. w.pc \in {"answer", "finish"} => Bytes(tasks1) <= MaxBytes
  BY <1>5 DEF HoldsCopies, Merging
<1>. QED  BY <1>2, <1>3, <1>4, <1>6, <1>7 DEF HoldsCopies

\* What the invariant says of a thread and the run it works on.
LEMMA Knowing ==
    ASSUME FederatedInductive, NEW t \in Workers
    PROVE  /\ worker[t] \in Worker /\ ThreadSound(worker[t]) /\ KnowsSources(worker[t], version)
           /\ Asks(worker[t]) /\ ~worker[t].heard /\ Snap(t).revision = row[Job(t)].revision =>
                 Job(t) \notin replied
           /\ Job(t) \in Runs => HoldsCopies(worker[t], row[Job(t)], plan[Job(t)], task[Job(t)])
           /\ Drives(worker[t]) /\ Job(t) \notin replied =>
                 DriveInOrder(worker[t], row[Job(t)], task[Job(t)])
BY DEF FederatedInductive, FederatedTypeOK, ThreadsSound, RepliesAreKnown, CopiesHold,
       DrivesInOrder

\* What it says of a run.
LEMMA KnowingRun ==
    ASSUME FederatedInductive, NEW r \in Runs
    PROVE  /\ row[r] \in Row /\ plan[r] \in PlanKind \cup {"none"}
           /\ task[r] \in [Tasks -> SourceTask] /\ joined[r] \in Versions /\ version \in Versions
           /\ RunSound(row[r], plan[r], task[r], joined[r])
           /\ \A i \in Tasks : task[r][i].version <= version[i]
           /\ row[r].status = "WAITING_USER" /\ row[r].queued => r \in replied
BY DEF FederatedInductive, FederatedTypeOK, RunsSound, RepliesAreKnown

\* Thread t, as k, leaves run r in order, if nobody has replied.
Orderly(t, k, r, run1, tasks1) ==
    r \notin replied =>
        /\ k.run = r /\ Drives(k) => DriveInOrder(k, run1, tasks1)
        /\ \/ Job(t) = r /\ Drives(worker[t])
           \/ run1 = row[r] /\ tasks1 = task[r] /\ (k.run = r => ~Drives(k))
           \/ Abandoned(r)

\* Some task's question was never put to the user.
Waits(tasks) == \E i \in Tasks : tasks[i].status = "WAITING_USER"

\* Thread t, as k, leaves run r to a thread that keeps it, or does not change who does.
Kept(t, k, r, run1, tasks1) ==
    run1.status \in Active /\ ~run1.cancel =>
        \/ k.run = r /\ Keeps(k, run1)
        \/ /\ run1 = row[r]
           /\ Job(t) = r => ~Keeps(worker[t], row[r])
           /\ tasks1 = task[r] \/ (Job(t) = r /\ Drives(worker[t]))
           /\ k.run = r /\ Drives(k) => Job(t) = r /\ Drives(worker[t])
        \/ /\ Job(t) = r /\ Drives(worker[t]) /\ r \notin replied
           /\ ~(k.run = r /\ Drives(k)) /\ Waits(tasks1)

\* A step of one thread on one run keeps the invariant, if the thread is sound afterwards, the
\* run evolves, and is left in order and kept.
LEMMA ThreadStep ==
    ASSUME FederatedInductive, NEW t \in Workers, NEW r \in Runs, NEW k \in Worker, Becomes(t, k),
           NEW run1 \in Row, NEW kind1 \in PlanKind \cup {"none"},
           NEW tasks1 \in [Tasks -> SourceTask], NEW bound1 \in Versions,
           row' = [row EXCEPT ![r] = run1], plan' = [plan EXCEPT ![r] = kind1],
           task' = [task EXCEPT ![r] = tasks1], joined' = [joined EXCEPT ![r] = bound1],
           version' = version, replied' = replied, confirming' = confirming,
           mapping' \in JoinMapping, memory' \in Runs \cup {NoRun}, announced' \subseteq Runs,
           late' \subseteq Runs, events' \in Nat,
           Evolves(row[r], plan[r], task[r], run1, kind1, tasks1),
           ThreadSound(k), KnowsSources(k, version), k.run \in {r, NoRun},
           k.run = r => HoldsCopies(k, run1, kind1, tasks1),
           Asks(k) /\ ~k.heard /\ k.snap.revision = run1.revision => r \notin replied,
           RunSound(run1, kind1, tasks1, bound1),
           \A i \in Tasks : tasks1[i].version <= version[i],
           run1.status = "WAITING_USER" /\ run1.queued => r \in replied,
           Drives(worker[t]) => Job(t) = r,
           Orderly(t, k, r, run1, tasks1), Kept(t, k, r, run1, tasks1)
    PROVE  FederatedInductive'
<1>1. worker'[t] = k /\ \A u \in Workers : u # t => worker'[u] = worker[u]
  BY DEF FederatedInductive, FederatedTypeOK
<1>2. /\ row \in [Runs -> Row] /\ plan \in [Runs -> PlanKind \cup {"none"}]
      /\ task \in [Runs -> [Tasks -> SourceTask]] /\ joined \in [Runs -> Versions]
  BY DEF FederatedInductive, FederatedTypeOK
<1>3. /\ row'[r] = run1 /\ plan'[r] = kind1 /\ task'[r] = tasks1 /\ joined'[r] = bound1
      /\ \A q \in Runs : q # r => row'[q] = row[q] /\ plan'[q] = plan[q] /\ task'[q] = task[q]
                                 /\ joined'[q] = joined[q]
  BY <1>2
<1>4. FederatedTypeOK'
  BY DEF FederatedInductive, FederatedTypeOK
<1>5. ThreadsSound'
  BY <1>1 DEF FederatedInductive, ThreadsSound
<1>6. NoRun \notin Runs /\ (k.run \in Runs => k.run = r)
  BY RunsAssumption
<1>7. CopiesHold'
  <2>. SUFFICES ASSUME NEW u \in Workers, worker'[u].run \in Runs
                PROVE  HoldsCopies(worker'[u], row'[worker'[u].run], plan'[worker'[u].run],
                                   task'[worker'[u].run])
    BY DEF CopiesHold
  <2>1. CASE u = t
    BY <1>1, <1>3, <1>6, <2>1
  <2>2. CASE u # t /\ Job(u) = r
    <3>1. /\ worker[u] \in Worker /\ ThreadSound(worker[u])
          /\ HoldsCopies(worker[u], row[r], plan[r], task[r])
      BY <2>2, Knowing
    <3>2. HoldsCopies(worker[u], run1, kind1, tasks1)
      BY <1>2, <3>1, CopiesStay
    <3>. QED  BY <1>1, <1>3, <2>2, <3>2
  <2>3. CASE u # t /\ Job(u) # r
    BY <1>1, <1>3, <2>3, Knowing
  <2>. QED  BY <2>1, <2>2, <2>3
<1>8. RunsSound'
  BY <1>3 DEF FederatedInductive, RunsSound
<1>9. RepliesAreKnown'
  <2>1. \A q \in Runs : row'[q].status = "WAITING_USER" /\ row'[q].queued => q \in replied
    BY <1>3 DEF FederatedInductive, RepliesAreKnown
  <2>2. ASSUME NEW u \in Workers, Asks(worker'[u]), ~worker'[u].heard,
               worker'[u].snap.revision = row'[worker'[u].run].revision
        PROVE  worker'[u].run \notin replied
    <3>1. worker'[u].run \in Runs /\ Holds(worker'[u])
      BY <1>5, <2>2, Classes DEF ThreadsSound
    <3>2. CASE u = t
      BY <1>1, <1>3, <1>6, <2>2, <3>1, <3>2
    <3>3. CASE u # t
      <4>1. /\ worker[u].snap.revision \in Nat /\ row[Job(u)].revision \in Nat
            /\ run1.revision \in Nat /\ worker[u].snap.revision <= row[Job(u)].revision
        BY <1>1, <1>2, <3>1, <3>3, Knowing, Numbers DEF Worker, HoldsCopies
      <4>2. row'[Job(u)] = row[Job(u)] \/ row'[Job(u)].revision > row[Job(u)].revision
        BY <1>1, <1>3, <3>1, <3>3 DEF Evolves
      <4>3. row'[Job(u)].revision \in Nat
        BY <1>1, <1>3, <3>1, <3>3, <4>1, <1>2, Numbers
      <4>4. row[Job(u)].revision = worker[u].snap.revision
        BY <1>1, <2>2, <3>3, <4>1, <4>2, <4>3
      <4>. QED  BY <1>1, <2>2, <3>3, <4>4, Knowing
    <3>. QED  BY <3>2, <3>3
  <2>. QED  BY <2>1, <2>2 DEF RepliesAreKnown
<1>10. ASSUME NEW u \in Workers, u # t, Drives(worker[u]), Job(u) = r, r \notin replied
       PROVE  run1 = row[r] /\ tasks1 = task[r] /\ (k.run = r => ~Drives(k))
  BY <1>10 DEF FederatedInductive, OneDrive, Orderly, Abandoned
<1>11. DrivesInOrder'
  <2>. SUFFICES ASSUME NEW u \in Workers, Drives(worker'[u]), worker'[u].run \notin replied
                PROVE  DriveInOrder(worker'[u], row'[worker'[u].run], task'[worker'[u].run])
    BY DEF DrivesInOrder
  <2>1. worker'[u].run \in Runs
    BY <1>5, Classes DEF ThreadsSound
  <2>2. CASE u = t
    BY <1>1, <1>3, <1>6, <2>1, <2>2 DEF Orderly
  <2>3. CASE u # t
    <3>1. DriveInOrder(worker[u], row[Job(u)], task[Job(u)])
      BY <1>1, <2>3 DEF FederatedInductive, DrivesInOrder
    <3>. QED  BY <1>1, <1>3, <1>10, <2>1, <2>3, <3>1
  <2>. QED  BY <2>2, <2>3
<1>12. OneDrive'
  <2>. SUFFICES ASSUME NEW u \in Workers, NEW v \in Workers, Drives(worker'[u]), Drives(worker'[v]),
                       worker'[u].run = worker'[v].run, worker'[u].run \notin replied, u # v
                PROVE  FALSE
    BY DEF OneDrive
  <2>1. worker'[u].run \in Runs
    BY <1>5, Classes DEF ThreadsSound
  <2>2. CASE u = t
    BY <1>1, <1>6, <1>10, <2>1, <2>2
  <2>3. CASE v = t
    BY <1>1, <1>6, <1>10, <2>1, <2>3
  <2>4. CASE u # t /\ v # t
    BY <1>1, <2>4 DEF FederatedInductive, OneDrive
  <2>. QED  BY <2>2, <2>3, <2>4
<1>13. RunsKept'
  <2>. SUFFICES ASSUME NEW q \in Runs, row'[q].status \in Active, ~row'[q].cancel
                PROVE  \/ \E u \in Workers : worker'[u].run = q /\ Keeps(worker'[u], row'[q])
                       \/ /\ Waits(task'[q])
                          /\ \A u \in Workers : Drives(worker'[u]) => worker'[u].run # q
    BY DEF RunsKept, Unasked, Abandoned, Waits
  <2>1. CASE q # r
    <3>1. \/ \E u \in Workers : Job(u) = q /\ Keeps(worker[u], row[q])
          \/ Waits(task[q]) /\ \A u \in Workers : Drives(worker[u]) => Job(u) # q
      BY <1>3, <2>1 DEF FederatedInductive, RunsKept, Unasked, Abandoned, Waits
    <3>2. CASE \E u \in Workers : Job(u) = q /\ Keeps(worker[u], row[q])
      <4>1. PICK u \in Workers : Job(u) = q /\ Keeps(worker[u], row[q])
        BY <3>2
      <4>2. u # t
        BY <2>1, <4>1 DEF Keeps
      <4>. QED  BY <1>1, <1>3, <2>1, <4>1, <4>2
    <3>3. CASE Waits(task[q]) /\ \A u \in Workers : Drives(worker[u]) => Job(u) # q
      BY <1>1, <1>3, <1>6, <2>1, <3>3
    <3>. QED  BY <3>1, <3>2, <3>3
  <2>2. CASE q = r
    <3>0. run1.status \in Active /\ ~run1.cancel
      BY <1>3, <2>2
    <3>1. CASE k.run = r /\ Keeps(k, run1)
      BY <1>1, <1>3, <2>2, <3>1
    <3>2. CASE /\ run1 = row[r]
               /\ Job(t) = r => ~Keeps(worker[t], row[r])
               /\ tasks1 = task[r] \/ (Job(t) = r /\ Drives(worker[t]))
               /\ k.run = r /\ Drives(k) => Job(t) = r /\ Drives(worker[t])
      <4>1. \/ \E u \in Workers : Job(u) = r /\ Keeps(worker[u], row[r])
            \/ Waits(task[r]) /\ \A u \in Workers : Drives(worker[u]) => Job(u) # r
        BY <3>0, <3>2 DEF FederatedInductive, RunsKept, Unasked, Abandoned, Waits
      <4>2. CASE \E u \in Workers : Job(u) = r /\ Keeps(worker[u], row[r])
        <5>1. PICK u \in Workers : Job(u) = r /\ Keeps(worker[u], row[r])
          BY <4>2
        <5>2. u # t
          BY <3>2, <5>1
        <5>. QED  BY <1>1, <1>3, <2>2, <3>2, <5>1, <5>2
      <4>3. CASE Waits(task[r]) /\ \A u \in Workers : Drives(worker[u]) => Job(u) # r
        BY <1>1, <1>3, <2>2, <3>2, <4>3
      <4>. QED  BY <4>1, <4>2, <4>3
    <3>3. CASE /\ Job(t) = r /\ Drives(worker[t]) /\ r \notin replied
               /\ ~(k.run = r /\ Drives(k)) /\ Waits(tasks1)
      <4>1. \A u \in Workers : u # t => ~(Drives(worker[u]) /\ Job(u) = r)
        BY <3>3 DEF FederatedInductive, OneDrive
      <4>. QED  BY <1>1, <1>3, <2>2, <3>3, <4>1
    <3>. QED  BY <3>0, <3>1, <3>2, <3>3 DEF Kept
  <2>. QED  BY <2>1, <2>2
<1>14. ConfirmsOpen'
  BY DEF FederatedInductive, ConfirmsOpen
<1>. QED  BY <1>4, <1>5, <1>7, <1>8, <1>9, <1>11, <1>12, <1>13, <1>14 DEF FederatedInductive

-----------------------------------------------------------------------------
(* Steps that save nothing of a run *)

\* What thread t may become while the tables stay as they are.
Fits(t, k) ==
    /\ k \in Worker /\ ThreadSound(k) /\ KnowsSources(k, version)
    /\ k.run \in Runs => HoldsCopies(k, row[k.run], plan[k.run], task[k.run])
    /\ Asks(k) /\ ~k.heard /\ k.snap.revision = row[k.run].revision => k.run \notin replied
    /\ Drives(k) => Drives(worker[t]) /\ k.run = Job(t)
    /\ Drives(k) /\ k.run \notin replied => DriveInOrder(k, row[k.run], task[k.run])
    /\ /\ Drives(worker[t]) /\ Keeps(worker[t], row[Job(t)])
       /\ row[Job(t)].status \in Active /\ ~row[Job(t)].cancel
       => \/ k.run = Job(t) /\ Keeps(k, row[Job(t)])
          \/ ~Drives(k) /\ Job(t) \notin replied /\ Waits(task[Job(t)])

\* What else such a step may change: mapping, memory, announcements and deadlines.
Unsaved ==
    /\ UNCHANGED <<row, plan, task, replied, version, confirming, joined, events>>
    /\ mapping' \in JoinMapping /\ memory' \in Runs \cup {NoRun}
    /\ announced' \subseteq Runs /\ late' \subseteq Runs

\* A step that saves nothing of a run keeps the invariant, if its thread fits.
LEMMA LocalStep ==
    ASSUME FederatedInductive, NEW t \in Workers, NEW k, Becomes(t, k), Unsaved, Fits(t, k)
    PROVE  FederatedInductive'
<1>1. worker'[t] = k /\ \A u \in Workers : u # t => worker'[u] = worker[u]
  BY DEF FederatedInductive, FederatedTypeOK
<1>2. FederatedTypeOK'
  BY DEF FederatedInductive, FederatedTypeOK, Unsaved, Fits
<1>3. ThreadsSound' /\ ConfirmsOpen'
  BY <1>1 DEF FederatedInductive, ThreadsSound, ConfirmsOpen, Unsaved, Fits
<1>4. CopiesHold' /\ RunsSound'
  BY <1>1 DEF FederatedInductive, CopiesHold, RunsSound, Unsaved, Fits
<1>5. RepliesAreKnown'
  BY <1>1 DEF FederatedInductive, RepliesAreKnown, Unsaved, Fits
<1>6. DrivesInOrder'
  <2>. SUFFICES ASSUME NEW u \in Workers, Drives(worker'[u]), worker'[u].run \notin replied
                PROVE  DriveInOrder(worker'[u], row[worker'[u].run], task[worker'[u].run])
    BY DEF DrivesInOrder, Unsaved
  <2>1. CASE u = t
    BY <1>1, <2>1 DEF Fits
  <2>2. CASE u # t
    BY <1>1, <2>2 DEF FederatedInductive, DrivesInOrder
  <2>. QED  BY <2>1, <2>2
<1>7. OneDrive'
  BY <1>1 DEF FederatedInductive, OneDrive, Unsaved, Fits
<1>8. RunsKept'
  <2>. SUFFICES ASSUME NEW q \in Runs, row[q].status \in Active, ~row[q].cancel
                PROVE  \/ \E u \in Workers : worker'[u].run = q /\ Keeps(worker'[u], row[q])
                       \/ /\ Waits(task[q])
                          /\ \A u \in Workers : Drives(worker'[u]) => worker'[u].run # q
    BY DEF RunsKept, Unasked, Abandoned, Waits, Unsaved
  <2>1. \/ \E u \in Workers : Job(u) = q /\ Keeps(worker[u], row[q])
        \/ Waits(task[q]) /\ \A u \in Workers : Drives(worker[u]) => Job(u) # q
    BY DEF FederatedInductive, RunsKept, Unasked, Abandoned, Waits
  <2>2. CASE \E u \in Workers : Job(u) = q /\ Keeps(worker[u], row[q])
    <3>1. PICK u \in Workers : Job(u) = q /\ Keeps(worker[u], row[q])
      BY <2>2
    <3>2. CASE u # t
      BY <1>1, <3>1, <3>2
    <3>3. CASE u = t
      <4>1. \/ k.run = q /\ Keeps(k, row[q])
            \/ ~Drives(k) /\ q \notin replied /\ Waits(task[q])
        BY <3>1, <3>3 DEF Fits, Keeps
      <4>2. CASE k.run = q /\ Keeps(k, row[q])
        BY <1>1, <4>2
      <4>3. CASE ~Drives(k) /\ q \notin replied /\ Waits(task[q])
        <5>1. \A v \in Workers : v # t => ~(Drives(worker[v]) /\ Job(v) = q)
          BY <3>1, <3>3, <4>3 DEF FederatedInductive, OneDrive, Keeps
        <5>. QED  BY <1>1, <4>3, <5>1
      <4>. QED  BY <4>1, <4>2, <4>3
    <3>. QED  BY <3>2, <3>3
  <2>3. CASE Waits(task[q]) /\ \A u \in Workers : Drives(worker[u]) => Job(u) # q
    BY <1>1, <2>3 DEF Fits
  <2>. QED  BY <2>1, <2>2, <2>3
<1>. QED  BY <1>2, <1>3, <1>4, <1>5, <1>6, <1>7, <1>8 DEF FederatedInductive

\* What the invariant says of a thread at work on its run.
LEMMA Here ==
    ASSUME FederatedInductive, NEW t \in Workers, Holds(worker[t])
    PROVE  /\ worker[t] \in Worker /\ ThreadSound(worker[t]) /\ KnowsSources(worker[t], version)
           /\ Job(t) \in Runs /\ Drives(worker[t]) /\ ~worker[t].repairing
           /\ HoldsCopies(worker[t], row[Job(t)], plan[Job(t)], task[Job(t)])
           /\ row[Job(t)] \in Row /\ plan[Job(t)] \in PlanKind \cup {"none"}
           /\ task[Job(t)] \in [Tasks -> SourceTask] /\ version \in Versions
           /\ Snap(t).revision = row[Job(t)].revision => Snap(t) = row[Job(t)]
           /\ RunSound(row[Job(t)], plan[Job(t)], task[Job(t)], joined[Job(t)])
           /\ \A i \in Tasks : task[Job(t)][i].version <= version[i]
           /\ Asks(worker[t]) /\ ~worker[t].heard /\ Snap(t).revision = row[Job(t)].revision =>
                 Job(t) \notin replied
           /\ Job(t) \notin replied => DriveInOrder(worker[t], row[Job(t)], task[Job(t)])
<1>1. Job(t) \in Runs /\ Drives(worker[t]) /\ ~worker[t].repairing
  BY Knowing, Classes
<1>. QED  BY <1>1, Knowing, KnowingRun DEF HoldsCopies

\* A thread may give up a run that it does not keep, or that is over.
LEMMA IdleFits ==
    ASSUME NEW t, Keeps(worker[t], row[Job(t)]) =>
                      row[Job(t)].status \notin Active \/ row[Job(t)].cancel
    PROVE  Fits(t, Idle)
BY IdleSound, Nothings DEF Fits

\* A drive goes on with the run it holds a copy of.
LEMMA MoveFits ==
    ASSUME FederatedInductive, NEW t \in Workers, Holds(worker[t]),
           NEW k \in Worker, ThreadSound(k), KnowsSources(k, version),
           k.run = Job(t), Holds(k), k.snap \in {Snap(t), row[Job(t)]},
           k.pc \in {"cancel", "skip"} => row[Job(t)].cancel,
           InLoop(k) => (InLoop(worker[t]) /\ k.tasks = worker[t].tasks) \/ k.tasks = task[Job(t)],
           Planned(k) => plan[Job(t)] # "none" /\ (k.pc # "resume" => k.kind = plan[Job(t)]),
           Merging(k) => k.tasks = task[Job(t)] /\ Whole(task[Job(t)]),
           k.pc \in {"answer", "finish"} => Bytes(task[Job(t)]) <= MaxBytes,
           Asks(k) => Asks(worker[t]) /\ k.heard = worker[t].heard /\ k.snap = Snap(t),
           worker[t].pc # "after" \/ row[Job(t)].status # "WAITING_USER"
    PROVE  Fits(t, k)
<1>1. /\ worker[t] \in Worker /\ Job(t) \in Runs /\ Drives(worker[t])
      /\ HoldsCopies(worker[t], row[Job(t)], plan[Job(t)], task[Job(t)])
      /\ row[Job(t)] \in Row /\ task[Job(t)] \in [Tasks -> SourceTask]
      /\ Asks(worker[t]) /\ ~worker[t].heard /\ Snap(t).revision = row[Job(t)].revision =>
            Job(t) \notin replied
      /\ Job(t) \notin replied => DriveInOrder(worker[t], row[Job(t)], task[Job(t)])
  BY Here
<1>2. Drives(k)
  BY Classes
<1>3. HoldsCopies(k, row[Job(t)], plan[Job(t)], task[Job(t)])
  <2>1. /\ Present(row[Job(t)]) /\ k.snap.revision <= row[Job(t)].revision
        /\ k.snap.revision = row[Job(t)].revision => k.snap = row[Job(t)]
    BY <1>1, Numbers DEF HoldsCopies
  <2>2. InLoop(k) => \A i \in Tasks :
            /\ k.tasks[i].revision <= task[Job(t)][i].revision
            /\ k.tasks[i].revision = task[Job(t)][i].revision => k.tasks[i] = task[Job(t)][i]
    <3>1. \A i \in Tasks : task[Job(t)][i].revision <= task[Job(t)][i].revision
      BY <1>1, Numbers
    <3>. QED  BY <1>1, <3>1 DEF HoldsCopies
  <2>. QED  BY <2>1, <2>2 DEF HoldsCopies
<1>4. Job(t) \notin replied => DriveInOrder(k, row[Job(t)], task[Job(t)])
  BY <1>1 DEF DriveInOrder
<1>5. Keeps(worker[t], row[Job(t)]) => Keeps(k, row[Job(t)])
  BY <1>2 DEF Keeps, Holds
<1>. QED  BY <1>1, <1>2, <1>3, <1>4, <1>5 DEF Fits

\* The record of a thread whose exception has reached the handler.
LEMMA RaisedRecord ==
    ASSUME NEW r \in Runs, NEW fault \in Fault
    PROVE  /\ Raised(r, fault) \in Worker /\ Raised(r, fault).pc = "except"
           /\ Raised(r, fault).run = r /\ ~Raised(r, fault).repairing
<1>1. PICK k : k = Raised(r, fault)
  OBVIOUS
<1>2. k \in Worker
  BY ZenonT(60), <1>1, Nothings DEF Raised, Worker, PC
<1>3. k.pc = "except" /\ k.run = r /\ k.repairing = Idle.repairing
  BY <1>1, Nothings DEF Raised, Worker
<1>. QED  BY <1>1, <1>2, <1>3 DEF Idle

\* What the handler finds at its beginning asks for little.
LEMMA Handled ==
    ASSUME NEW k, k.pc = "except", k.run \in Runs, ~k.repairing
    PROVE  /\ ThreadSound(k) /\ \A current : KnowsSources(k, current)
           /\ Drives(k) /\ ~Holds(k) /\ ~Asks(k) /\ ~InLoop(k) /\ ~Planned(k) /\ ~Merging(k)
           /\ \A run : Keeps(k, run)
           /\ \A run, kind, tasks : Present(run) => HoldsCopies(k, run, kind, tasks)
<1>1. ~Holds(k) /\ ~Asks(k) /\ ~InLoop(k) /\ ~Planned(k) /\ ~Merging(k) /\ ~OnTask(k) /\ ~Executes(k)
      /\ ~Governed(k) /\ Drives(k)
  BY DEF Holds, Asks, InLoop, Planned, Merging, OnTask, Executes, Governed, Drives
<1>. QED  BY <1>1 DEF ThreadSound, KnowsSources, Keeps, HoldsCopies

\* An exception keeps its run.
LEMMA RaisedFits ==
    ASSUME FederatedInductive, NEW t \in Workers, Drives(worker[t]), NEW fault \in Fault,
           worker[t].pc # "after"
    PROVE  Fits(t, Raised(Job(t), fault))
<1>1. Job(t) \in Runs /\ Present(row[Job(t)])
  BY Knowing, Classes DEF HoldsCopies
<1>2. PICK k : k = Raised(Job(t), fault)
  OBVIOUS
<1>3. k \in Worker /\ k.pc = "except" /\ k.run = Job(t) /\ ~k.repairing
  BY <1>1, <1>2, RaisedRecord
<1>4. Job(t) \notin replied => DriveInOrder(k, row[Job(t)], task[Job(t)])
  BY <1>1, <1>3, Knowing, Handled DEF DriveInOrder
<1>5. Fits(t, k)
  BY <1>1, <1>3, <1>4, Handled DEF Fits
<1>. QED  BY <1>2, <1>5

\* Raise keeps the invariant; a repair that raises ends.
LEMMA RaiseStep ==
    ASSUME FederatedInductive, NEW t \in Workers, NEW fault \in Fault, Raise(t, fault),
           worker[t].pc \notin {"idle", "after"}, Unsaved
    PROVE  FederatedInductive'
<1>1. CASE worker[t].repairing
  <2>1. Becomes(t, Idle)
    BY <1>1 DEF Raise
  <2>2. Fits(t, Idle)
    BY <1>1, IdleFits DEF Drives, Keeps
  <2>. HIDE DEF Becomes
  <2>. QED  BY <2>1, <2>2, LocalStep
<1>2. CASE ~worker[t].repairing
  <2>1. PICK k : k = Raised(Job(t), fault)
    OBVIOUS
  <2>2. Becomes(t, k)
    BY <1>2, <2>1 DEF Raise
  <2>3. Fits(t, k)
    BY <1>2, <2>1, RaisedFits DEF Drives
  <2>. HIDE DEF Becomes
  <2>. QED  BY <2>2, <2>3, LocalStep
<1>. QED  BY <1>1, <1>2

\* A check that found a request to cancel: the thread will save a cancellation.
LEMMA CancelFits ==
    ASSUME FederatedInductive, NEW t \in Workers, NEW then \in {"idle", "skip"},
           worker[t].pc \in {"turn", "ask", "check_failure"},
           then = "skip" => worker[t].pc = "ask", row[Job(t)].cancel
    PROVE  Fits(t, [worker[t] EXCEPT !.pc = "cancel", !.snap = row[Job(t)], !.then = then])
<1>1. PICK k : k = [worker[t] EXCEPT !.pc = "cancel", !.snap = row[Job(t)], !.then = then]
  OBVIOUS
<1>2. Holds(worker[t])
  BY DEF Holds
<1>. worker[t] \in Worker /\ row[Job(t)] \in Row /\ ~worker[t].repairing
  BY <1>2, Here
<1>3. /\ k \in Worker /\ k.pc = "cancel" /\ k.then = then /\ k.run = Job(t) /\ k.snap = row[Job(t)]
      /\ k.tasks = worker[t].tasks /\ k.place = worker[t].place /\ k.kind = worker[t].kind
      /\ ~k.repairing
  BY ZenonT(60), <1>1 DEF Worker, PC
<1>4. /\ Executes(k) <=> then = "skip"
      /\ OnTask(k) <=> then = "skip"
      /\ InLoop(k) <=> then = "skip"
      /\ Planned(k) <=> then = "skip"
      /\ ~Merging(k) /\ ~Governed(k) /\ ~Asks(k) /\ Holds(k)
      /\ then = "skip" => Executes(worker[t]) /\ OnTask(worker[t]) /\ InLoop(worker[t])
                          /\ Planned(worker[t])
  BY <1>3 DEF Executes, OnTask, InLoop, Planned, Merging, Governed, Asks, Holds
<1>5. ThreadSound(k) /\ KnowsSources(k, version)
  BY <1>2, <1>3, <1>4, Here DEF ThreadSound, KnowsSources
<1>6. then = "skip" => plan[Job(t)] # "none" /\ worker[t].kind = plan[Job(t)]
  BY <1>2, <1>4, Here DEF HoldsCopies
<1>7. Fits(t, k)
  BY <1>2, <1>3, <1>4, <1>5, <1>6, MoveFits
<1>. QED  BY <1>1, <1>7

\* A check that found the run over: an asked task is skipped.
LEMMA SkipFits ==
    ASSUME FederatedInductive, NEW t \in Workers, worker[t].pc = "ask", row[Job(t)].cancel
    PROVE  Fits(t, [worker[t] EXCEPT !.pc = "skip"])
<1>1. PICK k : k = [worker[t] EXCEPT !.pc = "skip"]
  BY ZenonT(60)
<1>2. Holds(worker[t])
  BY DEF Holds
<1>3. /\ k \in Worker /\ k.pc = "skip" /\ k.run = Job(t) /\ k.snap = Snap(t)
      /\ k.tasks = worker[t].tasks /\ k.place = worker[t].place /\ k.kind = worker[t].kind
      /\ ~k.repairing
  BY <1>1, <1>2, Here, MovedOn DEF PC
<1>4. /\ Executes(k) /\ OnTask(k) /\ InLoop(k) /\ Planned(k)
      /\ ~Merging(k) /\ ~Governed(k) /\ ~Asks(k) /\ Holds(k)
      /\ Executes(worker[t]) /\ OnTask(worker[t]) /\ InLoop(worker[t]) /\ Planned(worker[t])
  BY <1>3 DEF Executes, OnTask, InLoop, Planned, Merging, Governed, Asks, Holds
<1>5. ThreadSound(k) /\ KnowsSources(k, version)
  BY <1>2, <1>3, <1>4, Here DEF ThreadSound, KnowsSources
<1>6. plan[Job(t)] # "none" /\ worker[t].kind = plan[Job(t)]
  BY <1>2, <1>4, Here DEF HoldsCopies
<1>7. Fits(t, k)
  BY <1>2, <1>3, <1>4, <1>5, <1>6, MoveFits
<1>. QED  BY <1>1, <1>7

\* A check keeps the invariant if what the thread does without a request does.
LEMMA CheckStep ==
    ASSUME FederatedInductive, NEW t \in Workers, NEW then \in {"idle", "skip"}, NEW next,
           worker[t].pc \in {"turn", "ask", "check_failure"}, then = "skip" => worker[t].pc = "ask",
           CheckCancel(t, then, next), ~row[Job(t)].cancel => Fits(t, next), Unsaved
    PROVE  FederatedInductive'
<1>1. PICK k : Becomes(t, k) /\ Fits(t, k)
  <2>1. CASE ~row[Job(t)].cancel
    BY <2>1 DEF CheckCancel
  <2>2. CASE row[Job(t)].cancel /\ row[Job(t)].status \in Terminal /\ then = "idle"
    BY <2>2, IdleFits DEF CheckCancel, Step
  <2>3. CASE row[Job(t)].cancel /\ row[Job(t)].status \in Terminal /\ then = "skip"
    BY ZenonT(60), <2>3, SkipFits DEF CheckCancel, Step
  <2>4. CASE row[Job(t)].cancel /\ row[Job(t)].status \notin Terminal
    BY <2>4, CancelFits DEF CheckCancel
  <2>. QED  BY <2>1, <2>2, <2>3, <2>4
<1>. HIDE DEF Becomes
<1>. QED  BY <1>1, LocalStep

-----------------------------------------------------------------------------
(* What the steps do that save nothing of a run *)

\* What is not saved is unchanged.
LEMMA Untouched ==
    ASSUME FederatedInductive, UNCHANGED <<store, governance, joined, events>>, late' \subseteq late
    PROVE  Unsaved
BY DEF FederatedInductive, FederatedTypeOK, Unsaved

\* A drive that keeps its copies, and is not at a later kind of place than before.
LEMMA PlainFits ==
    ASSUME FederatedInductive, NEW t \in Workers, Holds(worker[t]), worker[t].pc \notin {"after", "resume"},
           NEW k \in Worker, ThreadSound(k), KnowsSources(k, version),
           k.run = Job(t), k.snap = Snap(t), k.tasks = worker[t].tasks, k.heard = worker[t].heard,
           k.kind = worker[t].kind, Holds(k), k.pc \notin {"cancel", "skip"},
           InLoop(k) => InLoop(worker[t]), Planned(k) => Planned(worker[t]),
           Merging(k) => Merging(worker[t]), Asks(k) => Asks(worker[t]),
           k.pc \in {"answer", "finish"} => Bytes(task[Job(t)]) <= MaxBytes
    PROVE  Fits(t, k)
<1>1. HoldsCopies(worker[t], row[Job(t)], plan[Job(t)], task[Job(t)])
  BY Here
<1>2. /\ Planned(k) => plan[Job(t)] # "none" /\ k.kind = plan[Job(t)]
      /\ Merging(k) => k.tasks = task[Job(t)] /\ Whole(task[Job(t)])
  BY <1>1 DEF HoldsCopies
<1>. QED  BY <1>2, MoveFits

\* The router lets the question pass, asks, or refuses.
LEMMA RouteStep ==
    ASSUME FederatedInductive, NEW t \in Workers, Route(t) PROVE FederatedInductive'
<1>1. worker[t].pc = "route" /\ Holds(worker[t]) /\ Unsaved
  <2>1. UNCHANGED <<store, governance, joined, events>> /\ late' \subseteq late
    BY DEF Route
  <2>. QED  BY <2>1, Untouched DEF Route, Holds
<1>2. /\ worker[t] \in Worker /\ ThreadSound(worker[t]) /\ ~worker[t].repairing /\ Job(t) \in Runs
      /\ worker[t].place = 0
  BY <1>1, Here DEF ThreadSound
<1>3. ASSUME NEW label \in {"kind", "waiting"}
      PROVE  Fits(t, [worker[t] EXCEPT !.pc = label])
  <2>1. PICK k : k = [worker[t] EXCEPT !.pc = label]
    OBVIOUS
  <2>2. /\ k \in Worker /\ k.pc = label /\ k.run = Job(t) /\ k.snap = Snap(t)
        /\ k.tasks = worker[t].tasks /\ k.place = 0 /\ k.heard = worker[t].heard
        /\ k.kind = worker[t].kind /\ ~k.repairing
    BY <1>2, <2>1, MovedOn DEF PC
  <2>3. /\ ~OnTask(k) /\ ~Executes(k) /\ ~Governed(k) /\ ~InLoop(k) /\ ~Planned(k) /\ ~Merging(k)
        /\ Holds(k) /\ Asks(worker[t])
    BY <1>1, <2>2 DEF OnTask, Executes, Governed, InLoop, Planned, Merging, Holds, Asks
  <2>4. ThreadSound(k) /\ KnowsSources(k, version)
    BY <1>2, <2>2, <2>3, Numbers DEF ThreadSound, KnowsSources
  <2>. QED  BY <1>1, <2>1, <2>2, <2>3, <2>4, PlainFits
<1>4. PICK k : Becomes(t, k) /\ Fits(t, k)
  <2>1. CASE Goto(t, "kind")
    BY <1>3, <2>1 DEF Goto, Step
  <2>2. CASE Becomes(t, [worker[t] EXCEPT !.pc = "waiting"])
    BY <1>3, <2>2
  <2>3. ASSUME NEW fault \in {"blocked", "transient"}, Raise(t, fault) PROVE Fits(t, Raised(Job(t), fault))
    BY <1>1, <2>3, Here, RaisedFits DEF Fault
  <2>4. ASSUME NEW fault \in {"blocked", "transient"}, Raise(t, fault)
        PROVE  Becomes(t, Raised(Job(t), fault))
    BY <1>2, <2>4 DEF Raise
  <2>. QED  BY <2>1, <2>2, <2>3, <2>4 DEF Route
<1>. HIDE DEF Becomes
<1>. QED  BY <1>1, <1>4, LocalStep

\* The model's draft becomes a plan, whose join has to be allowed first, or is refused.
LEMMA MakePlanStep ==
    ASSUME FederatedInductive, NEW t \in Workers, MakePlan(t) PROVE FederatedInductive'
<1>1. worker[t].pc = "plan" /\ Holds(worker[t]) /\ Unsaved
  <2>1. UNCHANGED <<store, governance, joined, events>> /\ late' \subseteq late
    BY DEF MakePlan
  <2>. QED  BY <2>1, Untouched DEF MakePlan, Holds
<1>2. worker[t] \in Worker /\ ThreadSound(worker[t]) /\ ~worker[t].repairing /\ Job(t) \in Runs
  BY <1>1, Here
<1>3. CASE \E fault \in {"blocked", "permanent"} : Raise(t, fault)
  BY <1>1, <1>3, RaiseStep DEF Fault
<1>4. ASSUME NEW kind \in PlanKind,
             Becomes(t, [worker[t] EXCEPT !.kind = kind, !.then = "create",
                                          !.pc = CheckedFor(kind, "create")])
      PROVE  FederatedInductive'
  <2>1. PICK label \in {"mapping", "create"} : label = CheckedFor(kind, "create")
    BY DEF CheckedFor
  <2>2. PICK k : k = [worker[t] EXCEPT !.kind = kind, !.then = "create", !.pc = label]
    OBVIOUS
  <2>3. /\ k \in Worker /\ k.pc = label /\ k.run = Job(t) /\ k.snap = Snap(t) /\ k.then = "create"
        /\ k.tasks = worker[t].tasks /\ k.heard = worker[t].heard /\ ~k.repairing
    BY ZenonT(60), <1>2, <2>2 DEF Worker, PC
  <2>4. /\ ~OnTask(k) /\ ~Executes(k) /\ ~InLoop(k) /\ ~Planned(k) /\ ~Merging(k)
        /\ Holds(k) /\ Asks(worker[t])
    BY <1>1, <2>3 DEF OnTask, Executes, Governed, InLoop, Planned, Merging, Holds, Asks
  <2>5. ThreadSound(k) /\ KnowsSources(k, version)
    BY <1>2, <2>3, <2>4 DEF ThreadSound, KnowsSources
  <2>6. Fits(t, k)
    BY <1>1, <2>3, <2>4, <2>5, MoveFits
  <2>7. Becomes(t, k)
    BY <1>4, <2>1, <2>2
  <2>. HIDE DEF Becomes
  <2>. QED  BY <1>1, <2>6, <2>7, LocalStep
<1>. QED  BY <1>3, <1>4 DEF MakePlan

\* A plan is resumed, and its join has to be allowed again.
LEMMA ResumeStep ==
    ASSUME FederatedInductive, NEW t \in Workers, Resume(t) PROVE FederatedInductive'
<1>1. worker[t].pc = "resume" /\ Holds(worker[t]) /\ Unsaved
  <2>1. UNCHANGED <<store, governance, joined, events>> /\ late' \subseteq late
    BY DEF Resume
  <2>. QED  BY <2>1, Untouched DEF Resume, Holds
<1>2. /\ worker[t] \in Worker /\ ThreadSound(worker[t]) /\ ~worker[t].repairing /\ Job(t) \in Runs
      /\ plan[Job(t)] \in PlanKind
  BY <1>1, Here DEF HoldsCopies, Planned
<1>3. CASE Raise(t, "blocked")
  BY <1>1, <1>3, RaiseStep DEF Fault
<1>4. CASE Becomes(t, [worker[t] EXCEPT !.kind = plan[Job(t)], !.then = "advance",
                                        !.pc = CheckedFor(plan[Job(t)], "advance")])
  <2>1. PICK label \in {"mapping", "advance"} : label = CheckedFor(plan[Job(t)], "advance")
    BY DEF CheckedFor
  <2>2. PICK k : k = [worker[t] EXCEPT !.kind = plan[Job(t)], !.then = "advance", !.pc = label]
    OBVIOUS
  <2>3. /\ k \in Worker /\ k.pc = label /\ k.run = Job(t) /\ k.snap = Snap(t) /\ k.then = "advance"
        /\ k.tasks = worker[t].tasks /\ k.heard = worker[t].heard /\ ~k.repairing
        /\ k.kind = plan[Job(t)]
    BY ZenonT(60), <1>2, <2>2 DEF Worker, PC
  <2>4. /\ ~OnTask(k) /\ ~Executes(k) /\ ~InLoop(k) /\ ~Merging(k)
        /\ Holds(k) /\ Asks(worker[t])
    BY <1>1, <2>3 DEF OnTask, Executes, Governed, InLoop, Merging, Holds, Asks
  <2>5. ThreadSound(k) /\ KnowsSources(k, version)
    BY <1>2, <2>3, <2>4 DEF ThreadSound, KnowsSources
  <2>6. Fits(t, k)
    BY <1>1, <1>2, <2>3, <2>4, <2>5, MoveFits DEF PlanKind
  <2>7. Becomes(t, k)
    BY <1>4, <2>1, <2>2
  <2>. HIDE DEF Becomes
  <2>. QED  BY <1>1, <2>6, <2>7, LocalStep
<1>. QED  BY <1>3, <1>4 DEF Resume

\* The list of tasks is read.
LEMMA ReadTasksStep ==
    ASSUME FederatedInductive, NEW t \in Workers, ReadTasks(t) PROVE FederatedInductive'
<1>1. worker[t].pc = "tasks" /\ Holds(worker[t]) /\ Unsaved
  <2>1. UNCHANGED <<store, governance, joined, events>> /\ late' \subseteq late
    BY DEF ReadTasks
  <2>. QED  BY <2>1, Untouched DEF ReadTasks, Holds
<1>2. /\ worker[t] \in Worker /\ ThreadSound(worker[t]) /\ ~worker[t].repairing /\ Job(t) \in Runs
      /\ task[Job(t)] \in [Tasks -> SourceTask]
      /\ plan[Job(t)] # "none" /\ worker[t].kind = plan[Job(t)]
  BY <1>1, Here DEF HoldsCopies, Planned
<1>3. PICK k : k = [worker[t] EXCEPT !.pc = "turn", !.tasks = task[Job(t)], !.place = 1]
  OBVIOUS
<1>4. 1 \in 0..(N + 1)
  BY Numbers
<1>5. /\ k \in Worker /\ k.pc = "turn" /\ k.run = Job(t) /\ k.snap = Snap(t) /\ k.place = 1
      /\ k.tasks = task[Job(t)] /\ k.heard = worker[t].heard /\ k.kind = worker[t].kind
      /\ ~k.repairing
  BY ZenonT(60), <1>2, <1>3, <1>4 DEF Worker, PC
<1>6. ~OnTask(k) /\ ~Executes(k) /\ ~Merging(k) /\ ~Governed(k) /\ Holds(k) /\ Asks(worker[t])
  BY <1>1, <1>5 DEF OnTask, Executes, Governed, Merging, Holds, Asks
<1>7. ThreadSound(k) /\ KnowsSources(k, version)
  BY <1>2, <1>5, <1>6 DEF ThreadSound, KnowsSources
<1>8. Fits(t, k)
  BY <1>1, <1>2, <1>5, <1>6, <1>7, MoveFits
<1>9. Becomes(t, k)
  BY <1>3 DEF ReadTasks
<1>. HIDE DEF Becomes
<1>. QED  BY <1>1, <1>8, <1>9, LocalStep

\* A drive at its turn.
LEMMA AtTurn ==
    ASSUME FederatedInductive, NEW t \in Workers, worker[t].pc = "turn"
    PROVE  /\ Holds(worker[t]) /\ worker[t] \in Worker /\ ThreadSound(worker[t])
           /\ ~worker[t].repairing /\ Job(t) \in Runs /\ Drives(worker[t])
           /\ InLoop(worker[t]) /\ Planned(worker[t]) /\ Asks(worker[t])
           /\ worker[t].place \in 1..(N + 1)
<1>1. Holds(worker[t]) /\ InLoop(worker[t]) /\ Planned(worker[t]) /\ Asks(worker[t])
  BY DEF Holds, InLoop, Planned, Asks
<1>2. worker[t] \in Worker /\ ThreadSound(worker[t]) /\ worker[t].place # 0
  BY <1>1, Here DEF ThreadSound
<1>3. worker[t].place \in 0..(N + 1)
  BY <1>2 DEF Worker
<1>. QED  BY <1>1, <1>2, <1>3, Here, Numbers

\* A turn that is passed or taken, or that ends the loop.
LEMMA TurnMoves ==
    ASSUME FederatedInductive, NEW t \in Workers, worker[t].pc = "turn"
    PROVE  /\ worker[t].place > N => Fits(t, [worker[t] EXCEPT !.pc = "collect"])
           /\ ~(worker[t].place > N) => Fits(t, [worker[t] EXCEPT !.place = @ + 1])
           /\ ~(worker[t].place > N) /\ Held(t).status # "COMPLETED" =>
                 Fits(t, [worker[t] EXCEPT !.pc = "start"])
<1>. DEFINE w == worker[t]
<1>1. /\ Holds(w) /\ w \in Worker /\ ThreadSound(w) /\ ~w.repairing /\ Job(t) \in Runs
      /\ InLoop(w) /\ Planned(w) /\ Asks(w) /\ w.place \in 1..(N + 1)
  BY AtTurn
<1>2. ASSUME w.place > N PROVE Fits(t, [w EXCEPT !.pc = "collect"])
  <2>1. PICK k : k = [w EXCEPT !.pc = "collect"]
    OBVIOUS
  <2>2. /\ k \in Worker /\ k.pc = "collect" /\ k.run = Job(t) /\ k.snap = Snap(t)
        /\ k.tasks = w.tasks /\ k.heard = w.heard /\ k.kind = w.kind /\ ~k.repairing
    BY <1>1, <2>1, MovedOn DEF PC
  <2>3. /\ ~OnTask(k) /\ ~Executes(k) /\ ~InLoop(k) /\ ~Merging(k) /\ ~Governed(k) /\ ~Asks(k)
        /\ Holds(k)
    BY <2>2 DEF OnTask, Executes, Governed, InLoop, Merging, Holds, Asks
  <2>4. ThreadSound(k) /\ KnowsSources(k, version)
    BY <1>1, <2>2, <2>3 DEF ThreadSound, KnowsSources
  <2>5. Fits(t, k)
    BY <1>1, <2>2, <2>3, <2>4, PlainFits
  <2>. QED  BY <2>1, <2>5
<1>3. ASSUME ~(w.place > N) PROVE Fits(t, [w EXCEPT !.place = @ + 1])
  <2>1. PICK k : k = [w EXCEPT !.place = @ + 1]
    OBVIOUS
  <2>2. w.place + 1 \in 0..(N + 1) /\ w.place + 1 # 0
    BY <1>1, <1>3, Numbers
  <2>3. /\ k \in Worker /\ k.pc = "turn" /\ k.run = Job(t) /\ k.snap = Snap(t)
        /\ k.place = w.place + 1
        /\ k.tasks = w.tasks /\ k.heard = w.heard /\ k.kind = w.kind /\ ~k.repairing
    BY <1>1, <2>1, <2>2 DEF Worker
  <2>4. ~OnTask(k) /\ ~Executes(k) /\ ~Merging(k) /\ ~Governed(k) /\ Holds(k)
    BY <2>3 DEF OnTask, Executes, Governed, Merging, Holds
  <2>5. ThreadSound(k) /\ KnowsSources(k, version)
    BY <1>1, <2>2, <2>3, <2>4 DEF ThreadSound, KnowsSources
  <2>6. Fits(t, k)
    BY <1>1, <2>3, <2>4, <2>5, PlainFits
  <2>. QED  BY <2>1, <2>6
<1>4. ASSUME ~(w.place > N), Held(t).status # "COMPLETED"
      PROVE  Fits(t, [w EXCEPT !.pc = "start"])
  <2>1. PICK k : k = [w EXCEPT !.pc = "start"]
    OBVIOUS
  <2>2. w.place \in Tasks
    BY <1>1, <1>4, Numbers DEF Tasks
  <2>3. /\ k \in Worker /\ k.pc = "start" /\ k.run = Job(t) /\ k.snap = Snap(t)
        /\ k.place = w.place
        /\ k.tasks = w.tasks /\ k.heard = w.heard /\ k.kind = w.kind /\ ~k.repairing
    BY <1>1, <2>1, MovedOn DEF PC
  <2>4. ~Executes(k) /\ ~Merging(k) /\ ~Governed(k) /\ Holds(k)
    BY <2>3 DEF Executes, Governed, Merging, Holds
  <2>5. ThreadSound(k) /\ KnowsSources(k, version)
    BY <1>1, <1>4, <2>2, <2>3, <2>4 DEF ThreadSound, KnowsSources, Held
  <2>6. Fits(t, k)
    BY <1>1, <2>3, <2>4, <2>5, PlainFits
  <2>. QED  BY <2>1, <2>6
<1>. QED  BY <1>2, <1>3, <1>4

\* A loop that ends at a task which waits for a reply leaves a run that nobody drives, if it
\* was the one to keep it: nobody has replied, so its copy of the task is the task.
LEMMA WaitingFits ==
    ASSUME FederatedInductive, NEW t \in Workers, worker[t].pc = "turn",
           ~(worker[t].place > N), Held(t).status = "WAITING_USER", ~worker[t].heard
    PROVE  Fits(t, Idle)
<1>1. /\ Holds(worker[t]) /\ worker[t] \in Worker /\ InLoop(worker[t]) /\ Asks(worker[t])
      /\ worker[t].place \in Tasks
  BY AtTurn, Numbers DEF Tasks
<1>2. ASSUME Keeps(worker[t], row[Job(t)])
      PROVE  Job(t) \notin replied /\ Waits(task[Job(t)])
  <2>1. Job(t) \notin replied
    BY <1>1, <1>2, Here DEF Keeps
  <2>2. worker[t].tasks = task[Job(t)]
    BY <1>1, <2>1, Here DEF DriveInOrder
  <2>. QED  BY <1>1, <2>1, <2>2 DEF Waits, Held
<1>. QED  BY <1>2, IdleSound, Nothings DEF Fits

\* What the loop does with a task.
LEMMA TakeTurnStep ==
    ASSUME FederatedInductive, NEW t \in Workers, TakeTurn(t) PROVE FederatedInductive'
<1>1. worker[t].pc = "turn" /\ Unsaved
  <2>1. UNCHANGED <<store, governance, joined, events>> /\ late' \subseteq late
    BY DEF TakeTurn
  <2>. QED  BY <2>1, Untouched DEF TakeTurn
<1>2. PICK next : next = IF worker[t].place > N THEN [worker[t] EXCEPT !.pc = "collect"]
                         ELSE Turn(t)
  OBVIOUS
<1>3. CheckCancel(t, "idle", next)
  BY <1>2 DEF TakeTurn
<1>4. Fits(t, next)
  <2>1. CASE worker[t].place > N
    BY <1>1, <1>2, <2>1, TurnMoves
  <2>2. CASE ~(worker[t].place > N)
    <3>1. next = Turn(t)
      BY <1>2, <2>2
    <3>2. Fits(t, Raised(Job(t), "permanent"))
      BY <1>1, AtTurn, RaisedFits DEF Fault
    <3>3. CASE Job(t) \in late
      BY <3>1, <3>2, <3>3 DEF Turn
    <3>4. CASE Job(t) \notin late /\ Held(t).status = "COMPLETED"
      <4>1. next = [worker[t] EXCEPT !.place = @ + 1]
        BY <3>1, <3>4 DEF Turn
      <4>. QED  BY <1>1, <2>2, <4>1, TurnMoves
    <3>5. CASE Job(t) \notin late /\ Held(t).status = "WAITING_USER" /\ ~worker[t].heard
      <4>1. next = Idle
        BY <3>1, <3>5 DEF Turn
      <4>. QED  BY <1>1, <2>2, <3>5, <4>1, WaitingFits
    <3>6. CASE Job(t) \notin late /\ Held(t).status = "FAILED" /\ ~Held(t).retryable
      <4>1. next = Raised(Job(t), "permanent")
        BY <3>1, <3>6 DEF Turn, Refused
      <4>. QED  BY <3>2, <4>1
    <3>7. CASE /\ Job(t) \notin late /\ Held(t).status # "COMPLETED"
               /\ ~(Held(t).status = "WAITING_USER" /\ ~worker[t].heard)
               /\ ~(Held(t).status = "FAILED" /\ ~Held(t).retryable)
      <4>1. next = [worker[t] EXCEPT !.pc = "start"]
        BY <3>1, <3>7 DEF Turn
      <4>. QED  BY <1>1, <2>2, <3>7, <4>1, TurnMoves
    <3>. QED  BY <3>3, <3>4, <3>5, <3>6, <3>7
  <2>. QED  BY <2>1, <2>2
<1>. HIDE DEF Unsaved
<1>. QED  BY <1>1, <1>3, <1>4, CheckStep

\* A drive that has asked a source and not yet heard.
LEMMA AtAsk ==
    ASSUME FederatedInductive, NEW t \in Workers, worker[t].pc \in {"ask", "totals"}
    PROVE  /\ Holds(worker[t]) /\ worker[t] \in Worker /\ ThreadSound(worker[t])
           /\ ~worker[t].repairing /\ Job(t) \in Runs /\ Drives(worker[t])
           /\ InLoop(worker[t]) /\ Planned(worker[t]) /\ Asks(worker[t])
           /\ worker[t].place \in Tasks /\ worker[t].tasks[worker[t].place].status = "RUNNING"
           /\ version[worker[t].place] \in 0..MaxVersion
<1>1. /\ Holds(worker[t]) /\ InLoop(worker[t]) /\ Planned(worker[t]) /\ Asks(worker[t])
      /\ OnTask(worker[t]) /\ Executes(worker[t])
  BY DEF Holds, InLoop, Planned, Asks, OnTask, Executes
<1>2. worker[t] \in Worker /\ ThreadSound(worker[t]) /\ version \in Versions
  BY <1>1, Here
<1>3. worker[t].place \in Tasks /\ worker[t].tasks[worker[t].place].status = "RUNNING"
  BY <1>1, <1>2 DEF ThreadSound
<1>. QED  BY <1>1, <1>2, <1>3, Here DEF Versions

\* An asked source fails, asks back, or goes on.
LEMMA AskedFits ==
    ASSUME FederatedInductive, NEW t \in Workers, worker[t].pc \in {"ask", "totals"},
           NEW k \in Worker, k.pc \in {"fail", "park", "totals", "complete"},
           k.run = Job(t), k.snap = Snap(t), k.tasks = worker[t].tasks, k.heard = worker[t].heard,
           k.kind = worker[t].kind, k.place = worker[t].place, ~k.repairing,
           k.pc \in {"totals", "complete"} => k.found.version <= version[k.place]
    PROVE  Fits(t, k)
<1>1. /\ OnTask(k) /\ Executes(k) /\ InLoop(k) /\ ~Governed(k) /\ ~Merging(k) /\ Holds(k)
  BY DEF OnTask, Executes, InLoop, Governed, Merging, Holds
<1>2. ThreadSound(k) /\ KnowsSources(k, version)
  BY <1>1, AtAsk DEF ThreadSound, KnowsSources
<1>. QED  BY <1>1, <1>2, AtAsk, PlainFits

\* The result of an Ask.
LEMMA AskStep ==
    ASSUME FederatedInductive, NEW t \in Workers, Ask(t) PROVE FederatedInductive'
<1>1. worker[t].pc = "ask" /\ Unsaved
  <2>1. UNCHANGED <<store, governance, joined, events>> /\ late' \subseteq late
    BY DEF Ask
  <2>. QED  BY <2>1, Untouched DEF Ask
<1>2. /\ worker[t] \in Worker /\ ~worker[t].repairing /\ worker[t].place \in Tasks
      /\ version[worker[t].place] \in 0..MaxVersion
  BY <1>1, AtAsk
<1>3. ASSUME NEW fault \in {"transient", "permanent"} PROVE Fits(t, Failing(t, fault))
  <2>1. PICK k : k = Failing(t, fault)
    OBVIOUS
  <2>2. /\ k \in Worker /\ k.pc = "fail" /\ k.run = Job(t) /\ k.snap = Snap(t)
        /\ k.tasks = worker[t].tasks /\ k.heard = worker[t].heard /\ k.kind = worker[t].kind
        /\ k.place = worker[t].place /\ ~k.repairing
    BY ZenonT(60), <1>2, <2>1 DEF Failing, Worker, PC, Fault
  <2>3. Fits(t, k)
    BY <1>1, <2>2, AskedFits
  <2>. QED  BY <2>1, <2>3
<1>4. Fits(t, [worker[t] EXCEPT !.pc = "park"])
  <2>1. PICK k : k = [worker[t] EXCEPT !.pc = "park"]
    OBVIOUS
  <2>2. /\ k \in Worker /\ k.pc = "park" /\ k.run = Job(t) /\ k.snap = Snap(t)
        /\ k.tasks = worker[t].tasks /\ k.heard = worker[t].heard /\ k.kind = worker[t].kind
        /\ k.place = worker[t].place /\ ~k.repairing
    BY <1>2, <2>1, MovedOn DEF PC
  <2>3. Fits(t, k)
    BY <1>1, <2>2, AskedFits
  <2>. QED  BY <2>1, <2>3
<1>5. ASSUME NEW size \in 0..MaxSize
      PROVE  Fits(t, [worker[t] EXCEPT !.pc = "totals",
                          !.found = [NoTask EXCEPT !.version = version[worker[t].place],
                                                   !.size = size]])
  <2>1. PICK found : found = [NoTask EXCEPT !.version = version[worker[t].place], !.size = size]
    OBVIOUS
  <2>2. found \in SourceTask /\ found.version = version[worker[t].place]
    BY <1>2, <2>1, Nothings DEF SourceTask
  <2>3. PICK k : k = [worker[t] EXCEPT !.pc = "totals", !.found = found]
    OBVIOUS
  <2>4. /\ k \in Worker /\ k.pc = "totals" /\ k.run = Job(t) /\ k.snap = Snap(t)
        /\ k.tasks = worker[t].tasks /\ k.heard = worker[t].heard /\ k.kind = worker[t].kind
        /\ k.place = worker[t].place /\ ~k.repairing /\ k.found = found
    BY ZenonT(60), <1>2, <2>2, <2>3 DEF Worker, PC
  <2>5. k.found.version <= version[k.place]
    BY <1>2, <2>2, <2>4, Numbers
  <2>6. Fits(t, k)
    BY <1>1, <2>4, <2>5, AskedFits
  <2>. QED  BY <2>1, <2>3, <2>6
<1>6. PICK next : CheckCancel(t, "skip", next) /\ Fits(t, next)
  <2>1. CASE \E fault \in {"transient", "permanent"} : CheckCancel(t, "skip", Failing(t, fault))
    BY <1>3, <2>1
  <2>2. CASE CheckCancel(t, "skip", [worker[t] EXCEPT !.pc = "park"])
    BY <1>4, <2>2
  <2>3. ASSUME NEW size \in 0..MaxSize,
               CheckCancel(t, "skip",
                   IF size > MaxBytes THEN Failing(t, "permanent")
                   ELSE [worker[t] EXCEPT !.pc = "totals",
                           !.found = [NoTask EXCEPT !.version = version[worker[t].place],
                                                    !.size = size]])
        PROVE  \E next : CheckCancel(t, "skip", next) /\ Fits(t, next)
    <3>1. CASE size > MaxBytes
      BY <1>3, <2>3, <3>1
    <3>2. CASE ~(size > MaxBytes)
      BY <1>5, <2>3, <3>2
    <3>. QED  BY <3>1, <3>2
  <2>4. \/ \E fault \in {"transient", "permanent"} : CheckCancel(t, "skip", Failing(t, fault))
        \/ CheckCancel(t, "skip", [worker[t] EXCEPT !.pc = "park"])
        \/ \E size \in 0..MaxSize :
             CheckCancel(t, "skip",
                IF size > MaxBytes THEN Failing(t, "permanent")
                ELSE [worker[t] EXCEPT !.pc = "totals",
                        !.found = [NoTask EXCEPT !.version = version[worker[t].place],
                                                 !.size = size]])
    BY DEF Ask
  <2>. QED  BY <2>1, <2>2, <2>3, <2>4
<1>. HIDE DEF Unsaved
<1>. QED  BY <1>1, <1>6, CheckStep

\* Together with what is there already, a result fits or fails.
LEMMA CheckTotalsStep ==
    ASSUME FederatedInductive, NEW t \in Workers, CheckTotals(t) PROVE FederatedInductive'
<1>1. worker[t].pc = "totals" /\ Unsaved
  <2>1. UNCHANGED <<store, governance, joined, events>> /\ late' \subseteq late
    BY DEF CheckTotals
  <2>. QED  BY <2>1, Untouched DEF CheckTotals
<1>2. worker[t] \in Worker /\ ~worker[t].repairing
  BY <1>1, AtAsk
<1>3. worker[t].found.version <= version[worker[t].place]
  BY <1>1, AtAsk, Here DEF KnowsSources
<1>4. Fits(t, Failing(t, "permanent"))
  <2>1. PICK k : k = Failing(t, "permanent")
    OBVIOUS
  <2>2. /\ k \in Worker /\ k.pc = "fail" /\ k.run = Job(t) /\ k.snap = Snap(t)
        /\ k.tasks = worker[t].tasks /\ k.heard = worker[t].heard /\ k.kind = worker[t].kind
        /\ k.place = worker[t].place /\ ~k.repairing
    BY ZenonT(60), <1>2, <2>1 DEF Failing, Worker, PC, Fault
  <2>3. Fits(t, k)
    BY <1>1, <2>2, AskedFits
  <2>. QED  BY <2>1, <2>3
<1>5. Fits(t, [worker[t] EXCEPT !.pc = "complete"])
  <2>1. PICK k : k = [worker[t] EXCEPT !.pc = "complete"]
    OBVIOUS
  <2>2. /\ k \in Worker /\ k.pc = "complete" /\ k.run = Job(t) /\ k.snap = Snap(t)
        /\ k.tasks = worker[t].tasks /\ k.heard = worker[t].heard /\ k.kind = worker[t].kind
        /\ k.place = worker[t].place /\ ~k.repairing /\ k.found = worker[t].found
    BY <1>2, <2>1, MovedOn DEF PC
  <2>3. Fits(t, k)
    BY <1>1, <1>3, <2>2, AskedFits
  <2>. QED  BY <2>1, <2>3
<1>6. PICK k : Becomes(t, k) /\ Fits(t, k)
  BY <1>4, <1>5 DEF CheckTotals
<1>. HIDE DEF Becomes, Unsaved
<1>. QED  BY <1>1, <1>6, LocalStep

\* The row is read before it is saved as waiting.
LEMMA ReadWaitStep ==
    ASSUME FederatedInductive, NEW t \in Workers, ReadWait(t) PROVE FederatedInductive'
<1>1. worker[t].pc = "wait" /\ Holds(worker[t]) /\ Unsaved
  <2>1. UNCHANGED <<store, governance, joined, events>> /\ late' \subseteq late
    BY DEF ReadWait
  <2>. QED  BY <2>1, Untouched DEF ReadWait, Holds
<1>2. /\ worker[t] \in Worker /\ ThreadSound(worker[t]) /\ ~worker[t].repairing
      /\ row[Job(t)] \in Row /\ Job(t) \in Runs
  BY <1>1, Here
<1>3. OnTask(worker[t]) /\ InLoop(worker[t]) /\ Planned(worker[t])
  BY <1>1 DEF OnTask, InLoop, Planned
<1>4. worker[t].place \in Tasks /\ plan[Job(t)] # "none" /\ worker[t].kind = plan[Job(t)]
  BY <1>1, <1>2, <1>3, Here DEF ThreadSound, HoldsCopies
<1>5. worker[t].place # 0 /\ worker[t].place # N + 1
  BY <1>4, Numbers DEF Tasks
<1>6. PICK k : k = [worker[t] EXCEPT !.pc = "waiting", !.snap = row[Job(t)]]
  OBVIOUS
<1>7. /\ k \in Worker /\ k.pc = "waiting" /\ k.run = Job(t) /\ k.snap = row[Job(t)]
      /\ k.tasks = worker[t].tasks /\ k.kind = worker[t].kind
      /\ k.place = worker[t].place /\ ~k.repairing
  BY ZenonT(60), <1>2, <1>6 DEF Worker, PC
<1>8. ~Executes(k) /\ ~Merging(k) /\ ~Governed(k) /\ ~Asks(k) /\ Holds(k)
  BY <1>7 DEF Executes, Merging, Governed, Asks, Holds
<1>9. ThreadSound(k) /\ KnowsSources(k, version)
  BY <1>2, <1>4, <1>5, <1>7, <1>8 DEF ThreadSound, KnowsSources
<1>10. Fits(t, k)
  BY <1>1, <1>3, <1>4, <1>7, <1>8, <1>9, MoveFits
<1>11. Becomes(t, k)
  BY <1>6 DEF ReadWait
<1>. HIDE DEF Becomes, Unsaved
<1>. QED  BY <1>1, <1>10, <1>11, LocalStep

\* After a task the row says whether the run waits.
LEMMA AfterTaskStep ==
    ASSUME FederatedInductive, NEW t \in Workers, AfterTask(t) PROVE FederatedInductive'
<1>1. worker[t].pc = "after" /\ Holds(worker[t]) /\ Unsaved
  <2>1. UNCHANGED <<store, governance, joined, events>> /\ late' \subseteq late
    BY DEF AfterTask
  <2>. QED  BY <2>1, Untouched DEF AfterTask, Holds
<1>2. /\ worker[t] \in Worker /\ ThreadSound(worker[t]) /\ ~worker[t].repairing
      /\ Job(t) \in Runs
  BY <1>1, Here
<1>3. OnTask(worker[t]) /\ InLoop(worker[t]) /\ Planned(worker[t]) /\ Asks(worker[t])
  BY <1>1 DEF OnTask, InLoop, Planned, Asks
<1>4. worker[t].place \in Tasks /\ plan[Job(t)] # "none" /\ worker[t].kind = plan[Job(t)]
  BY <1>1, <1>2, <1>3, Here DEF ThreadSound, HoldsCopies
<1>5. CASE row[Job(t)].status = "WAITING_USER"
  <2>1. Fits(t, Idle)
    BY <1>5, IdleFits DEF Active
  <2>2. Becomes(t, Idle)
    BY <1>5 DEF AfterTask
  <2>. HIDE DEF Becomes, Unsaved
  <2>. QED  BY <1>1, <2>1, <2>2, LocalStep
<1>6. CASE row[Job(t)].status # "WAITING_USER"
  <2>1. PICK k : k = [worker[t] EXCEPT !.pc = "turn", !.place = @ + 1, !.found = NoTask]
    OBVIOUS
  <2>2. worker[t].place + 1 \in 0..(N + 1) /\ worker[t].place + 1 # 0
    BY <1>4, Numbers DEF Tasks
  <2>3. /\ k \in Worker /\ k.pc = "turn" /\ k.run = Job(t) /\ k.snap = Snap(t)
        /\ k.tasks = worker[t].tasks /\ k.heard = worker[t].heard /\ k.kind = worker[t].kind
        /\ k.place = worker[t].place + 1 /\ ~k.repairing
    BY ZenonT(60), <1>2, <2>1, <2>2, Nothings DEF Worker, PC
  <2>4. ~OnTask(k) /\ ~Executes(k) /\ ~Merging(k) /\ ~Governed(k) /\ Holds(k)
    BY <2>3 DEF OnTask, Executes, Merging, Governed, Holds
  <2>5. ThreadSound(k) /\ KnowsSources(k, version)
    BY <1>2, <2>2, <2>3, <2>4 DEF ThreadSound, KnowsSources
  <2>6. Fits(t, k)
    BY <1>1, <1>3, <1>4, <1>6, <2>3, <2>4, <2>5, MoveFits
  <2>7. Becomes(t, k)
    BY <1>6, <2>1 DEF AfterTask
  <2>. HIDE DEF Becomes, Unsaved
  <2>. QED  BY <1>1, <2>6, <2>7, LocalStep
<1>. QED  BY <1>5, <1>6

\* The tasks are read again before they are merged.
LEMMA CollectStep ==
    ASSUME FederatedInductive, NEW t \in Workers, Collect(t) PROVE FederatedInductive'
<1>1. worker[t].pc = "collect" /\ Holds(worker[t]) /\ Unsaved
  <2>1. UNCHANGED <<store, governance, joined, events>> /\ late' \subseteq late
    BY DEF Collect
  <2>. QED  BY <2>1, Untouched DEF Collect, Holds
<1>2. /\ worker[t] \in Worker /\ ThreadSound(worker[t]) /\ ~worker[t].repairing
      /\ Job(t) \in Runs /\ task[Job(t)] \in [Tasks -> SourceTask]
      /\ plan[Job(t)] # "none" /\ worker[t].kind = plan[Job(t)]
  BY <1>1, Here DEF HoldsCopies, Planned
<1>3. CASE Whole(task[Job(t)])
  <2>1. PICK label : label = CheckedFor(worker[t].kind, "merge")
    OBVIOUS
  <2>2. label \in {"mapping", "merge"} /\ (label = "merge" => worker[t].kind # "join")
    BY <2>1 DEF CheckedFor
  <2>3. PICK k : k = [worker[t] EXCEPT !.tasks = task[Job(t)], !.place = 0, !.then = "merge",
                                       !.heard = FALSE, !.pc = label]
    OBVIOUS
  <2>4. 0 \in 0..(N + 1) /\ label \in PC /\ "merge" \in PC
    BY <2>2, Numbers DEF PC
  <2>5. k \in Worker
    BY <1>2, <2>3, <2>4 DEF Worker
  <2>6. /\ k.pc = label /\ k.run = Job(t) /\ k.snap = Snap(t) /\ k.then = "merge"
        /\ k.tasks = task[Job(t)] /\ k.kind = worker[t].kind /\ ~k.repairing
    BY <1>2, <2>3 DEF Worker
  <2>7. ~OnTask(k) /\ ~Executes(k) /\ ~InLoop(k) /\ ~Asks(k) /\ Holds(k)
    BY <2>2, <2>6 DEF OnTask, Executes, InLoop, Asks, Holds, Governed
  <2>8. ThreadSound(k) /\ KnowsSources(k, version)
    BY <1>2, <2>2, <2>6, <2>7 DEF ThreadSound, KnowsSources
  <2>9. Fits(t, k)
    BY <1>1, <1>2, <1>3, <2>2, <2>5, <2>6, <2>7, <2>8, MoveFits
  <2>10. Becomes(t, k)
    BY <1>3, <2>1, <2>3 DEF Collect
  <2>. HIDE DEF Becomes, Unsaved
  <2>. QED  BY <1>1, <2>9, <2>10, LocalStep
<1>4. CASE ~Whole(task[Job(t)])
  <2>1. Raise(t, "permanent")
    BY <1>4 DEF Collect
  <2>. HIDE DEF Unsaved
  <2>. QED  BY <1>1, <2>1, RaiseStep DEF Fault
<1>. QED  BY <1>3, <1>4

\* What is merged is what was collected, and fits.
LEMMA MergeStep ==
    ASSUME FederatedInductive, NEW t \in Workers, Merge(t) PROVE FederatedInductive'
<1>1. worker[t].pc = "merge" /\ Holds(worker[t]) /\ Unsaved
  <2>1. UNCHANGED <<store, governance, joined, events>> /\ late' \subseteq late
    BY DEF Merge
  <2>. QED  BY <2>1, Untouched DEF Merge, Holds
<1>2. /\ worker[t] \in Worker /\ ThreadSound(worker[t]) /\ KnowsSources(worker[t], version)
      /\ ~worker[t].repairing /\ Job(t) \in Runs /\ Merging(worker[t]) /\ Planned(worker[t])
      /\ worker[t].tasks = task[Job(t)]
  BY <1>1, Here DEF HoldsCopies, Planned, Merging
<1>3. CASE Raise(t, "permanent") \/ Raise(t, "blocked")
  <2>. HIDE DEF Unsaved
  <2>. QED  BY <1>1, <1>3, RaiseStep DEF Fault
<1>4. CASE Acceptable(t) /\ Goto(t, "answer")
  <2>1. PICK k : k = [worker[t] EXCEPT !.pc = "answer"]
    OBVIOUS
  <2>2. /\ k \in Worker /\ k.pc = "answer" /\ k.run = Job(t) /\ k.snap = Snap(t)
        /\ k.tasks = worker[t].tasks /\ k.heard = worker[t].heard /\ k.kind = worker[t].kind
        /\ k.mapping = worker[t].mapping /\ ~k.repairing
    BY <1>2, <2>1, MovedOn DEF PC
  <2>3. ~OnTask(k) /\ ~Executes(k) /\ ~InLoop(k) /\ ~Asks(k) /\ Holds(k) /\ ~Governed(k)
    BY <2>2 DEF OnTask, Executes, InLoop, Asks, Holds, Governed
  <2>4. ThreadSound(k) /\ KnowsSources(k, version)
    BY <1>1, <1>2, <2>2, <2>3 DEF ThreadSound, KnowsSources
  <2>5. Bytes(task[Job(t)]) <= MaxBytes
    BY <1>2, <1>4 DEF Acceptable
  <2>6. Fits(t, k)
    BY <1>1, <1>2, <2>2, <2>3, <2>4, <2>5, PlainFits
  <2>7. Becomes(t, k)
    BY <1>4, <2>1 DEF Goto, Step
  <2>. HIDE DEF Becomes, Unsaved
  <2>. QED  BY <1>1, <2>6, <2>7, LocalStep
<1>. QED  BY <1>3, <1>4 DEF Merge

\* A drive that asks whether the sources of its plan may be joined.
LEMMA GovernedFits ==
    ASSUME FederatedInductive, NEW t \in Workers, Governed(worker[t]),
           NEW k \in Worker, Governed(k),
           k.run = Job(t), k.snap = Snap(t), k.tasks = worker[t].tasks, k.heard = worker[t].heard,
           k.kind = worker[t].kind, k.then = worker[t].then, ~k.repairing
    PROVE  Fits(t, k)
<1>1. /\ Holds(worker[t]) /\ worker[t].pc \notin {"after", "resume"}
      /\ ~OnTask(k) /\ ~Executes(k) /\ ~InLoop(k) /\ Holds(k)
      /\ Merging(k) => Merging(worker[t])
      /\ Planned(k) => Planned(worker[t])
      /\ Asks(k) => Asks(worker[t])
  BY DEF Governed, Holds, OnTask, Executes, InLoop, Merging, Planned, Asks
<1>2. ThreadSound(worker[t]) /\ Job(t) \in Runs
  BY <1>1, Here
<1>3. ThreadSound(k) /\ KnowsSources(k, version)
  BY <1>1, <1>2 DEF ThreadSound, KnowsSources, Governed
<1>4. k.pc \notin {"cancel", "skip", "answer", "finish"}
  BY DEF Governed
<1>. QED  BY <1>1, <1>2, <1>3, <1>4, PlainFits

\* The mapping has to be confirmed.
LEMMA ReadMappingStep ==
    ASSUME FederatedInductive, NEW t \in Workers, ReadMapping(t) PROVE FederatedInductive'
<1>1. worker[t].pc = "mapping" /\ Holds(worker[t]) /\ Unsaved /\ Governed(worker[t])
  <2>1. UNCHANGED <<store, governance, joined, events>> /\ late' \subseteq late
    BY DEF ReadMapping
  <2>. QED  BY <2>1, Untouched DEF ReadMapping, Holds, Governed
<1>2. worker[t] \in Worker /\ ~worker[t].repairing /\ mapping \in JoinMapping
  BY <1>1, Here DEF FederatedInductive, FederatedTypeOK
<1>3. CASE mapping.status = "CONFIRMED"
  <2>1. PICK k : k = [worker[t] EXCEPT !.pc = "versions", !.mapping = mapping]
    OBVIOUS
  <2>2. /\ k \in Worker /\ k.pc = "versions" /\ k.run = Job(t) /\ k.snap = Snap(t)
        /\ k.tasks = worker[t].tasks /\ k.heard = worker[t].heard /\ k.kind = worker[t].kind
        /\ k.then = worker[t].then /\ ~k.repairing
    BY ZenonT(60), <1>2, <2>1 DEF Worker, PC
  <2>3. Fits(t, k)
    BY <1>1, <2>2, GovernedFits DEF Governed
  <2>4. Becomes(t, k)
    BY <1>3, <2>1 DEF ReadMapping
  <2>. HIDE DEF Becomes, Unsaved
  <2>. QED  BY <1>1, <2>3, <2>4, LocalStep
<1>4. CASE mapping.status # "CONFIRMED"
  <2>1. Raise(t, "blocked")
    BY <1>4 DEF ReadMapping
  <2>. HIDE DEF Unsaved
  <2>. QED  BY <1>1, <2>1, RaiseStep DEF Fault
<1>. QED  BY <1>3, <1>4

\* The mapping has to be confirmed for the versions of now, which are not older than what any
\* task was read at.
LEMMA ReadVersionsStep ==
    ASSUME FederatedInductive, NEW t \in Workers, ReadVersions(t) PROVE FederatedInductive'
<1>1. worker[t].pc = "versions" /\ Holds(worker[t]) /\ Unsaved /\ Governed(worker[t])
  <2>1. UNCHANGED <<store, governance, joined, events>> /\ late' \subseteq late
    BY DEF ReadVersions
  <2>. QED  BY <2>1, Untouched DEF ReadVersions, Holds, Governed
<1>2. /\ worker[t] \in Worker /\ ThreadSound(worker[t]) /\ ~worker[t].repairing
      /\ Job(t) \in Runs /\ worker[t].then \in {"create", "advance", "merge"}
      /\ \A i \in Tasks : task[Job(t)][i].version <= version[i]
  BY <1>1, Here DEF ThreadSound
<1>3. CASE worker[t].mapping.bound # version
  <2>1. PICK k : k = [worker[t] EXCEPT !.pc = "stale"]
    OBVIOUS
  <2>2. /\ k \in Worker /\ k.pc = "stale" /\ k.run = Job(t) /\ k.snap = Snap(t)
        /\ k.tasks = worker[t].tasks /\ k.heard = worker[t].heard /\ k.kind = worker[t].kind
        /\ k.then = worker[t].then /\ ~k.repairing
    BY <1>2, <2>1, MovedOn DEF PC
  <2>3. Fits(t, k)
    BY <1>1, <2>2, GovernedFits DEF Governed
  <2>4. Becomes(t, k)
    BY <1>3, <2>1 DEF ReadVersions, Step
  <2>. HIDE DEF Becomes, Unsaved
  <2>. QED  BY <1>1, <2>3, <2>4, LocalStep
<1>4. CASE worker[t].mapping.bound = version /\ worker[t].then = "merge"
  <2>1. PICK k : k = [worker[t] EXCEPT !.pc = "merge"]
    OBVIOUS
  <2>2. /\ k \in Worker /\ k.pc = "merge" /\ k.run = Job(t) /\ k.snap = Snap(t)
        /\ k.tasks = worker[t].tasks /\ k.heard = worker[t].heard /\ k.kind = worker[t].kind
        /\ k.mapping = worker[t].mapping /\ ~k.repairing
    BY <1>2, <2>1, MovedOn DEF PC
  <2>3. ~OnTask(k) /\ ~Executes(k) /\ ~InLoop(k) /\ ~Asks(k) /\ Holds(k) /\ ~Governed(k)
    BY <2>2 DEF OnTask, Executes, InLoop, Asks, Holds, Governed
  <2>4. Merging(worker[t]) /\ Planned(worker[t])
    BY <1>1, <1>4 DEF Merging, Planned
  <2>5. worker[t].tasks = task[Job(t)]
    BY <1>1, <2>4, Here DEF HoldsCopies
  <2>6. ThreadSound(k) /\ KnowsSources(k, version)
    BY <1>2, <1>4, <2>2, <2>3, <2>5 DEF ThreadSound, KnowsSources
  <2>7. Fits(t, k)
    BY <1>1, <1>2, <2>2, <2>3, <2>4, <2>6, PlainFits
  <2>8. Becomes(t, k)
    BY <1>4, <2>1 DEF ReadVersions, Step
  <2>. HIDE DEF Becomes, Unsaved
  <2>. QED  BY <1>1, <2>7, <2>8, LocalStep
<1>5. CASE worker[t].mapping.bound = version /\ worker[t].then # "merge"
  <2>1. PICK k : k = [worker[t] EXCEPT !.pc = worker[t].then, !.mapping = NoMapping]
    OBVIOUS
  <2>2. /\ k \in Worker /\ k.pc = worker[t].then /\ k.run = Job(t) /\ k.snap = Snap(t)
        /\ k.tasks = worker[t].tasks /\ k.heard = worker[t].heard /\ k.kind = worker[t].kind
        /\ ~k.repairing
    BY <1>2, <2>1, Nothings DEF Worker
  <2>3. /\ ~OnTask(k) /\ ~Executes(k) /\ ~InLoop(k) /\ Holds(k) /\ ~Governed(k) /\ ~Merging(k)
        /\ k.pc \notin {"cancel", "skip", "answer", "finish", "idle", "repairs", "turn"}
        /\ Asks(worker[t])
        /\ Planned(k) => Planned(worker[t])
    BY <1>1, <1>2, <1>5, <2>2 DEF OnTask, Executes, InLoop, Asks, Holds, Governed, Merging, Planned
  <2>4. ThreadSound(k) /\ KnowsSources(k, version)
    BY <1>2, <1>5, <2>2, <2>3 DEF ThreadSound, KnowsSources
  <2>5. Fits(t, k)
    BY <1>1, <1>2, <2>2, <2>3, <2>4, PlainFits
  <2>6. Becomes(t, k)
    BY <1>5, <2>1 DEF ReadVersions
  <2>. HIDE DEF Becomes, Unsaved
  <2>. QED  BY <1>1, <2>5, <2>6, LocalStep
<1>. QED  BY <1>3, <1>4, <1>5

\* A mapping that other versions were confirmed for is marked.
LEMMA MarkStaleStep ==
    ASSUME FederatedInductive, NEW t \in Workers, MarkStale(t) PROVE FederatedInductive'
<1>1. worker[t].pc = "stale" /\ Holds(worker[t])
  BY DEF MarkStale, Holds
<1>2. worker[t] \in Worker /\ worker[t].mapping \in JoinMapping
  BY <1>1, Here DEF Worker
<1>3. /\ row' = row /\ plan' = plan /\ task' = task /\ replied' = replied /\ memory' = memory
      /\ announced' = announced /\ version' = version /\ confirming' = confirming
      /\ late' = late /\ joined' = joined /\ events' = events
  BY DEF MarkStale
<1>4. PICK fault \in {"blocked", "permanent"} :
          Raise(t, fault) /\ mapping' \in {mapping, [worker[t].mapping EXCEPT !.status = "STALE"]}
  BY DEF MarkStale
<1>5. mapping' \in JoinMapping
  BY <1>2, <1>4 DEF FederatedInductive, FederatedTypeOK, JoinMapping
<1>6. Unsaved
  BY <1>3, <1>5 DEF FederatedInductive, FederatedTypeOK, Unsaved
<1>. HIDE DEF Unsaved
<1>. QED  BY <1>1, <1>4, <1>6, RaiseStep DEF Fault

\* A thread that records a completed run keeps no run.
LEMMA RecordingFits ==
    ASSUME FederatedInductive, NEW t \in Workers, worker[t].pc \in {"record", "publish", "repairs"},
           NEW k \in Worker, k.pc \in {"record", "publish", "repairs"}, k.run \in Runs,
           k.repairing = worker[t].repairing, k.pc = "repairs" => k.repairing,
           ~k.repairing => k.run = Job(t)
    PROVE  Fits(t, k)
<1>1. /\ ~Holds(k) /\ ~Asks(k) /\ ~InLoop(k) /\ ~Planned(k) /\ ~Merging(k) /\ ~OnTask(k)
      /\ ~Executes(k) /\ ~Governed(k) /\ ~Holds(worker[t])
      /\ k.pc \notin {"turn", "start", "waiting", "route", "idle", "except", "cancel"}
      /\ Drives(k) <=> ~k.repairing
      /\ Drives(worker[t]) <=> ~k.repairing
  BY DEF Holds, Asks, InLoop, Planned, Merging, OnTask, Executes, Governed, Drives
<1>2. ThreadSound(k) /\ KnowsSources(k, version)
  BY <1>1 DEF ThreadSound, KnowsSources
<1>3. Drives(k) => Present(row[k.run])
  BY <1>1, Knowing DEF HoldsCopies
<1>4. HoldsCopies(k, row[k.run], plan[k.run], task[k.run])
  BY <1>1, <1>3 DEF HoldsCopies
<1>5. Drives(k) /\ k.run \notin replied => DriveInOrder(k, row[k.run], task[k.run])
  BY <1>1, Knowing DEF DriveInOrder
<1>6. ~Keeps(worker[t], row[Job(t)])
  BY <1>1 DEF Keeps
<1>. QED  BY <1>1, <1>2, <1>4, <1>5, <1>6 DEF Fits

\* A thread that records a completed run may give it up.
LEMMA RecordingEnds ==
    ASSUME NEW t, worker[t].pc \in {"record", "publish", "repairs"}
    PROVE  Fits(t, Idle)
<1>1. ~Holds(worker[t]) /\ worker[t].pc # "except"
  BY DEF Holds
<1>. QED  BY <1>1, IdleFits DEF Keeps

\* The memory is written.
LEMMA RecordStep ==
    ASSUME FederatedInductive, NEW t \in Workers, Record(t) PROVE FederatedInductive'
<1>1. /\ worker[t].pc = "record" /\ worker[t] \in Worker /\ Job(t) \in Runs
  BY Knowing DEF Record, ThreadSound
<1>2. Unsaved
  BY <1>1 DEF Record, FederatedInductive, FederatedTypeOK, Unsaved
<1>3. CASE Goto(t, "publish")
  <2>1. PICK k : k = [worker[t] EXCEPT !.pc = "publish"]
    OBVIOUS
  <2>2. k \in Worker /\ k.pc = "publish" /\ k.run = Job(t) /\ k.repairing = worker[t].repairing
    BY <1>1, <2>1, MovedOn DEF PC
  <2>3. Fits(t, k)
    BY <1>1, <2>2, RecordingFits
  <2>4. Becomes(t, k)
    BY <1>3, <2>1 DEF Goto, Step
  <2>. HIDE DEF Becomes, Unsaved
  <2>. QED  BY <1>2, <2>3, <2>4, LocalStep
<1>4. CASE Raise(t, "permanent")
  <2>. HIDE DEF Unsaved
  <2>. QED  BY <1>1, <1>2, <1>4, RaiseStep DEF Fault
<1>. QED  BY <1>3, <1>4 DEF Record

\* The completion is announced.
LEMMA PublishStep ==
    ASSUME FederatedInductive, NEW t \in Workers, Publish(t) PROVE FederatedInductive'
<1>1. /\ worker[t].pc = "publish" /\ worker[t] \in Worker /\ Job(t) \in Runs
  BY Knowing DEF Publish, ThreadSound
<1>2. Unsaved
  BY <1>1 DEF Publish, FederatedInductive, FederatedTypeOK, Unsaved
<1>3. CASE worker[t].repairing
  <2>1. PICK k : k = [worker[t] EXCEPT !.pc = "repairs"]
    OBVIOUS
  <2>2. k \in Worker /\ k.pc = "repairs" /\ k.run = Job(t) /\ k.repairing = worker[t].repairing
    BY <1>1, <2>1, MovedOn DEF PC
  <2>3. Fits(t, k)
    BY <1>1, <1>3, <2>2, RecordingFits
  <2>4. Becomes(t, k)
    BY <1>3, <2>1 DEF Publish, Goto, Step
  <2>. HIDE DEF Becomes, Unsaved
  <2>. QED  BY <1>2, <2>3, <2>4, LocalStep
<1>4. CASE ~worker[t].repairing
  <2>1. Becomes(t, Idle)
    BY <1>4 DEF Publish, Goto, Step
  <2>2. Fits(t, Idle)
    BY <1>1, RecordingEnds
  <2>. HIDE DEF Becomes, Unsaved
  <2>. QED  BY <1>2, <2>1, <2>2, LocalStep
<1>. QED  BY <1>3, <1>4

\* The next completion that nobody announced, or none.
LEMMA RepairNextStep ==
    ASSUME FederatedInductive, NEW t \in Workers, RepairNext(t) PROVE FederatedInductive'
<1>1. /\ worker[t].pc = "repairs" /\ worker[t] \in Worker /\ worker[t].repairing /\ Unsaved
  <2>1. UNCHANGED <<store, governance, joined, events>> /\ late' \subseteq late
    BY DEF RepairNext
  <2>. QED  BY <2>1, Untouched, Knowing DEF RepairNext, ThreadSound
<1>2. CASE worker[t].repairs = {}
  <2>1. Becomes(t, Idle)
    BY <1>2 DEF RepairNext
  <2>2. Fits(t, Idle)
    BY <1>1, RecordingEnds
  <2>. HIDE DEF Becomes, Unsaved
  <2>. QED  BY <1>1, <2>1, <2>2, LocalStep
<1>3. CASE worker[t].repairs # {}
  <2>1. PICK r \in worker[t].repairs :
            Becomes(t, [worker[t] EXCEPT !.run = r, !.repairs = @ \ {r},
                                !.pc = IF memory = r THEN "publish" ELSE "record"])
    BY <1>3 DEF RepairNext
  <2>2. PICK label \in {"publish", "record"} : label = IF memory = r THEN "publish" ELSE "record"
    OBVIOUS
  <2>3. PICK k : k = [worker[t] EXCEPT !.run = r, !.repairs = @ \ {r}, !.pc = label]
    OBVIOUS
  <2>4. r \in Runs
    BY <1>1 DEF Worker
  <2>5. k \in Worker /\ k.pc = label /\ k.run = r /\ k.repairing
    BY ZenonT(60), <1>1, <2>3, <2>4 DEF Worker, PC
  <2>6. Fits(t, k)
    BY <1>1, <2>4, <2>5, RecordingFits
  <2>7. Becomes(t, k)
    BY <2>1, <2>2, <2>3
  <2>. HIDE DEF Becomes, Unsaved
  <2>. QED  BY <1>1, <2>6, <2>7, LocalStep
<1>. QED  BY <1>2, <1>3

\* The handler of execute() looks at the row.
LEMMA ExceptStep ==
    ASSUME FederatedInductive, NEW t \in Workers, Except(t) PROVE FederatedInductive'
<1>1. /\ worker[t].pc = "except" /\ worker[t] \in Worker /\ Job(t) \in Runs /\ ~worker[t].repairing
      /\ ThreadSound(worker[t]) /\ Unsaved /\ Drives(worker[t])
  <2>1. UNCHANGED <<store, governance, joined, events>> /\ late' \subseteq late
    BY DEF Except
  <2>. QED  BY <2>1, Untouched, Knowing DEF Except, ThreadSound, Drives
<1>2. CASE row[Job(t)].status = "COMPLETED"
  <2>1. PICK k : k = [Idle EXCEPT !.pc = "repairs", !.repairing = TRUE,
                                  !.repairs = IncompleteCompletions]
    OBVIOUS
  <2>2. IncompleteCompletions \subseteq Runs
    BY DEF IncompleteCompletions
  <2>3. k \in Worker /\ k.pc = "repairs" /\ k.run = Idle.run /\ k.repairing
    BY ZenonT(60), <2>1, <2>2, Nothings DEF Worker, PC
  <2>4. k.run \notin Runs
    BY <2>3, IdleSound, Nothings
  <2>5. /\ ~Holds(k) /\ ~Asks(k) /\ ~OnTask(k) /\ ~Executes(k) /\ ~Governed(k) /\ ~Drives(k)
    BY <2>3 DEF Holds, Asks, OnTask, Executes, Governed, Drives
  <2>6. ThreadSound(k) /\ KnowsSources(k, version)
    BY <2>3, <2>5 DEF ThreadSound, KnowsSources
  <2>7. Fits(t, k)
    BY <1>2, <2>3, <2>4, <2>5, <2>6 DEF Fits, Active
  <2>8. Becomes(t, k)
    BY <1>2, <2>1 DEF Except
  <2>. HIDE DEF Becomes, Unsaved
  <2>. QED  BY <1>1, <2>7, <2>8, LocalStep
<1>3. CASE row[Job(t)].status = "WAITING_USER"
  <2>1. Fits(t, Idle)
    BY <1>3, IdleFits DEF Active
  <2>2. Becomes(t, Idle)
    BY <1>3 DEF Except
  <2>. HIDE DEF Becomes, Unsaved
  <2>. QED  BY <1>1, <2>1, <2>2, LocalStep
<1>4. CASE row[Job(t)].status \notin {"COMPLETED", "WAITING_USER"}
  <2>1. PICK k : k = [worker[t] EXCEPT !.pc = "check_failure", !.snap = row[Job(t)]]
    OBVIOUS
  <2>2. row[Job(t)] \in Row /\ Present(row[Job(t)])
    BY <1>1, Knowing, KnowingRun DEF HoldsCopies
  <2>3. k \in Worker /\ k.pc = "check_failure" /\ k.run = Job(t) /\ k.snap = row[Job(t)] /\ ~k.repairing
    BY ZenonT(60), <1>1, <2>1, <2>2 DEF Worker, PC
  <2>4. /\ ~Asks(k) /\ ~InLoop(k) /\ ~Planned(k) /\ ~Merging(k) /\ ~OnTask(k)
        /\ ~Executes(k) /\ ~Governed(k) /\ Holds(k) /\ Drives(k)
    BY <2>3 DEF Holds, Asks, InLoop, Planned, Merging, OnTask, Executes, Governed, Drives
  <2>5. ThreadSound(k) /\ KnowsSources(k, version)
    BY <1>1, <2>3, <2>4 DEF ThreadSound, KnowsSources
  <2>6. HoldsCopies(k, row[Job(t)], plan[Job(t)], task[Job(t)])
    BY <2>2, <2>3, <2>4, Numbers DEF HoldsCopies
  <2>7. Job(t) \notin replied => DriveInOrder(k, row[Job(t)], task[Job(t)])
    BY <1>1, <2>4, Knowing DEF DriveInOrder
  <2>8. Keeps(k, row[Job(t)])
    BY <2>3, <2>4 DEF Keeps
  <2>9. Fits(t, k)
    BY <1>1, <2>3, <2>4, <2>5, <2>6, <2>7, <2>8 DEF Fits
  <2>10. Becomes(t, k)
    BY <1>4, <2>1 DEF Except
  <2>. HIDE DEF Becomes, Unsaved
  <2>. QED  BY <1>1, <2>9, <2>10, LocalStep
<1>. QED  BY <1>2, <1>3, <1>4

\* The last look for a request before the failure is saved.
LEMMA CheckFailureStep ==
    ASSUME FederatedInductive, NEW t \in Workers, CheckFailure(t) PROVE FederatedInductive'
<1>1. worker[t].pc = "check_failure" /\ Holds(worker[t]) /\ Unsaved
  <2>1. UNCHANGED <<store, governance, joined, events>> /\ late' \subseteq late
    BY DEF CheckFailure
  <2>. QED  BY <2>1, Untouched DEF CheckFailure, Holds
<1>2. /\ worker[t] \in Worker /\ ThreadSound(worker[t]) /\ ~worker[t].repairing /\ Job(t) \in Runs
      /\ Snap(t).revision = row[Job(t)].revision => Snap(t) = row[Job(t)]
  BY <1>1, Here
<1>3. PICK next : next = IF Snap(t).status \in Terminal THEN Idle
                         ELSE [worker[t] EXCEPT !.pc = "fail_run"]
  OBVIOUS
<1>4. CheckCancel(t, "idle", next)
  BY <1>3 DEF CheckFailure
<1>5. CASE Snap(t).status \in Terminal
  <2>1. Keeps(worker[t], row[Job(t)]) => row[Job(t)].status \notin Active
    BY <1>1, <1>2, <1>5 DEF Keeps, Terminal, Settled, Active
  <2>2. Fits(t, next)
    BY <1>3, <1>5, <2>1, IdleFits
  <2>. HIDE DEF Unsaved
  <2>. QED  BY <1>1, <1>4, <2>2, CheckStep
<1>6. CASE Snap(t).status \notin Terminal
  <2>1. PICK k : k = [worker[t] EXCEPT !.pc = "fail_run"]
    OBVIOUS
  <2>2. /\ k \in Worker /\ k.pc = "fail_run" /\ k.run = Job(t) /\ k.snap = Snap(t)
        /\ k.tasks = worker[t].tasks /\ k.heard = worker[t].heard /\ k.kind = worker[t].kind
        /\ ~k.repairing
    BY <1>2, <2>1, MovedOn DEF PC
  <2>3. /\ ~Asks(k) /\ ~InLoop(k) /\ ~Planned(k) /\ ~Merging(k) /\ ~OnTask(k)
        /\ ~Executes(k) /\ ~Governed(k) /\ Holds(k)
    BY <2>2 DEF Holds, Asks, InLoop, Planned, Merging, OnTask, Executes, Governed
  <2>4. ThreadSound(k) /\ KnowsSources(k, version)
    BY <1>2, <2>2, <2>3 DEF ThreadSound, KnowsSources
  <2>5. Fits(t, k)
    BY <1>1, <1>2, <2>2, <2>3, <2>4, PlainFits
  <2>6. Fits(t, next)
    BY SMTT(60), <1>3, <1>6, <2>1, <2>5
  <2>. HIDE DEF Unsaved
  <2>. QED  BY <1>1, <1>4, <2>6, CheckStep
<1>. QED  BY <1>5, <1>6

-----------------------------------------------------------------------------
(* Steps that save the row *)

\* A thread that holds a copy of the row saves it.
LEMMA RowStep ==
    ASSUME FederatedInductive, NEW t \in Workers, Holds(worker[t]),
           NEW run1 \in Row, NEW k \in Worker, NEW bound1 \in Versions, Becomes(t, k),
           row' = [row EXCEPT ![Job(t)] = run1], joined' = [joined EXCEPT ![Job(t)] = bound1],
           UNCHANGED <<plan, task, replied, memory, announced, governance, late, events>>,
           run1.revision > row[Job(t)].revision, Present(run1), run1.cancel = row[Job(t)].cancel,
           RunSound(run1, plan[Job(t)], task[Job(t)], bound1),
           run1.status = "WAITING_USER" /\ run1.queued => Job(t) \in replied,
           ThreadSound(k), KnowsSources(k, version), k.run \in {Job(t), NoRun},
           Holds(k) => k.snap \in {Snap(t), run1},
           k.pc \in {"cancel", "skip"} => run1.cancel,
           InLoop(k) => InLoop(worker[t]) /\ k.tasks = worker[t].tasks,
           Planned(k) => plan[Job(t)] # "none" /\ (k.pc # "resume" => k.kind = plan[Job(t)]),
           Merging(k) => Merging(worker[t]) /\ k.tasks = worker[t].tasks,
           k.pc \in {"answer", "finish"} => Bytes(task[Job(t)]) <= MaxBytes,
           Asks(k) /\ ~k.heard /\ k.snap = run1 => Job(t) \notin replied,
           run1.status \in Active => k.run = Job(t) /\ Holds(k) /\ k.snap = run1,
           Drives(k) /\ Job(t) \notin replied =>
              \/ run1.status \in Active \cup {"CANCELLED", "COMPLETED"}
              \/ run1.status = "WAITING_USER" /\ k.pc = "after"
    PROVE  FederatedInductive'
<1>. DEFINE r == Job(t)
<1>1. /\ worker[t] \in Worker /\ Job(t) \in Runs /\ Drives(worker[t])
      /\ HoldsCopies(worker[t], row[Job(t)], plan[Job(t)], task[Job(t)])
      /\ row[Job(t)] \in Row /\ plan[Job(t)] \in PlanKind \cup {"none"}
      /\ task[Job(t)] \in [Tasks -> SourceTask]
      /\ \A i \in Tasks : task[Job(t)][i].version <= version[i]
      /\ Job(t) \notin replied => DriveInOrder(worker[t], row[Job(t)], task[Job(t)])
  BY Here
<1>2. Snap(t).revision <= row[Job(t)].revision /\ Snap(t).revision \in Nat
      /\ row[Job(t)].revision \in Nat /\ run1.revision \in Nat
  BY <1>1, Numbers DEF HoldsCopies, Worker
<1>3. Evolves(row[Job(t)], plan[Job(t)], task[Job(t)], run1, plan[Job(t)], task[Job(t)])
  BY DEF Evolves
<1>4. k.run = Job(t) => HoldsCopies(k, run1, plan[Job(t)], task[Job(t)])
  <2>1. Holds(k) => /\ k.snap.revision <= run1.revision
                    /\ k.snap.revision = run1.revision => k.snap = run1
    BY <1>2
  <2>2. InLoop(k) => \A i \in Tasks :
            /\ k.tasks[i].revision <= task[Job(t)][i].revision
            /\ k.tasks[i].revision = task[Job(t)][i].revision => k.tasks[i] = task[Job(t)][i]
    BY <1>1 DEF HoldsCopies
  <2>3. Merging(k) => k.tasks = task[Job(t)] /\ Whole(task[Job(t)])
    BY <1>1 DEF HoldsCopies
  <2>. QED  BY <2>1, <2>2, <2>3 DEF HoldsCopies
<1>5. Asks(k) /\ ~k.heard /\ k.snap.revision = run1.revision => Job(t) \notin replied
  <2>1. ASSUME Asks(k), k.snap.revision = run1.revision PROVE k.snap = run1
    BY <1>2, <2>1, Classes
  <2>. QED  BY <2>1
<1>6. Orderly(t, k, Job(t), run1, task[Job(t)])
  BY <1>1 DEF Orderly, DriveInOrder
<1>7. Kept(t, k, Job(t), run1, task[Job(t)])
  BY Classes DEF Kept, Keeps
<1>8. /\ plan' = [plan EXCEPT ![Job(t)] = plan[Job(t)]]
      /\ task' = [task EXCEPT ![Job(t)] = task[Job(t)]]
  BY DEF FederatedInductive, FederatedTypeOK
<1>9. /\ version' = version /\ replied' = replied /\ confirming' = confirming
      /\ mapping' \in JoinMapping /\ memory' \in Runs \cup {NoRun} /\ announced' \subseteq Runs
      /\ late' \subseteq Runs /\ events' \in Nat
  BY DEF FederatedInductive, FederatedTypeOK
<1>. HIDE DEF Becomes
<1>. QED  BY ZenonT(60), <1>1, <1>3, <1>4, <1>5, <1>6, <1>7, <1>8, <1>9, ThreadStep

\* A saved row has a new revision, and nothing else that is new.
LEMMA Saving ==
    ASSUME NEW run \in Row
    PROVE  /\ Saved(run) \in Row /\ Saved(run).revision = run.revision + 1
           /\ Saved(run).revision > run.revision /\ Saved(run).status = run.status
           /\ Saved(run).cancel = run.cancel /\ Saved(run).queued = run.queued
BY DEF Saved, Row

\* A transition changes the status, and nobody waits in the queue any more.
LEMMA Moving ==
    ASSUME NEW run \in Row, NEW target \in RunStatus
    PROVE  /\ Transition(run, target) \in Row /\ Transition(run, target).status = target
           /\ ~Transition(run, target).queued
           /\ Transition(run, target).cancel = run.cancel
           /\ Transition(run, target).revision = run.revision
BY ZenonT(60) DEF Transition, Row

\* A run that is not completed has nothing to answer for but its tasks.
LEMMA UnfinishedSound ==
    ASSUME NEW run, NEW run1, NEW kind, NEW tasks, NEW bound, NEW bound1, RunSound(run, kind, tasks, bound),
           run1.status # "COMPLETED"
    PROVE  RunSound(run1, kind, tasks, bound1)
BY DEF RunSound

\* A transition of the current row to any status but completed, with a sound thread after it.
LEMMA TransitionStep ==
    ASSUME FederatedInductive, NEW t \in Workers, Holds(worker[t]),
           NEW target \in RunStatus \ {"COMPLETED", "CREATED"}, NEW run \in Row, NEW k \in Worker,
           Becomes(t, k), row' = [row EXCEPT ![Job(t)] = Saved(run)],
           Snap(t).revision = row[Job(t)].revision, run.revision \in {Snap(t).revision, Snap(t).revision + 1},
           run.status = target, run.queued => target # "WAITING_USER", run.cancel = Snap(t).cancel,
           UNCHANGED <<plan, task, replied, memory, announced, governance, late, joined, events>>,
           ThreadSound(k), KnowsSources(k, version), k.run \in {Job(t), NoRun},
           Holds(k) => k.snap \in {Snap(t), Saved(run)},
           k.pc \in {"cancel", "skip"} => row[Job(t)].cancel,
           InLoop(k) => InLoop(worker[t]) /\ k.tasks = worker[t].tasks,
           Planned(k) => Planned(worker[t]) /\ worker[t].pc # "resume" /\ k.kind = worker[t].kind,
           Merging(k) => Merging(worker[t]) /\ k.tasks = worker[t].tasks,
           k.pc \in {"answer", "finish"} => Bytes(task[Job(t)]) <= MaxBytes,
           Asks(k) /\ ~k.heard /\ k.snap # Snap(t) => Job(t) \notin replied,
           target \in Active => k.run = Job(t) /\ Holds(k) /\ k.snap = Saved(run),
           Drives(k) => target \in Active \cup {"CANCELLED"} \/ (target = "WAITING_USER" /\ k.pc = "after")
    PROVE  FederatedInductive'
<1>1. /\ worker[t] \in Worker /\ Job(t) \in Runs /\ Snap(t) = row[Job(t)]
      /\ HoldsCopies(worker[t], row[Job(t)], plan[Job(t)], task[Job(t)])
      /\ RunSound(row[Job(t)], plan[Job(t)], task[Job(t)], joined[Job(t)])
  BY Here
<1>2. PICK run1 : run1 = Saved(run)
  OBVIOUS
<1>3. /\ run1 \in Row /\ run1.status = target /\ run1.revision = run.revision + 1
      /\ run1.queued => target # "WAITING_USER"
      /\ run1.cancel = row[Job(t)].cancel
  BY <1>1, <1>2, Saving
<1>11. run1.revision > row[Job(t)].revision
  <2>1. row[Job(t)].revision \in Nat
    BY SMTT(60), <1>1, Here, Numbers
  <2>. QED  BY <1>3, <2>1
<1>4. Present(run1) /\ run1.status # "COMPLETED" /\ run1 # Snap(t)
  BY <1>1, <1>3, <1>11, Here, Numbers DEF Present, RunStatus, Active, Terminal, Settled
<1>5. RunSound(run1, plan[Job(t)], task[Job(t)], joined[Job(t)])
  BY <1>1, <1>4, UnfinishedSound
<1>6. Planned(k) => plan[Job(t)] # "none" /\ k.kind = plan[Job(t)]
  BY <1>1 DEF HoldsCopies
<1>7. joined[Job(t)] \in Versions /\ joined' = [joined EXCEPT ![Job(t)] = joined[Job(t)]]
  BY <1>1 DEF FederatedInductive, FederatedTypeOK
<1>8. row' = [row EXCEPT ![Job(t)] = run1] /\ (Holds(k) => k.snap \in {Snap(t), run1})
  BY <1>2
<1>9. /\ run1.status = "WAITING_USER" /\ run1.queued => Job(t) \in replied
      /\ run1.status \in Active => k.run = Job(t) /\ Holds(k) /\ k.snap = run1
      /\ k.pc \in {"cancel", "skip"} => run1.cancel
      /\ Drives(k) /\ Job(t) \notin replied =>
              \/ run1.status \in Active \cup {"CANCELLED", "COMPLETED"}
              \/ run1.status = "WAITING_USER" /\ k.pc = "after"
  BY <1>2, <1>3
<1>10. Asks(k) /\ ~k.heard /\ k.snap = run1 => Job(t) \notin replied
  BY <1>4
<1>. HIDE DEF Becomes
<1>. QED  BY <1>1, <1>3, <1>4, <1>5, <1>6, <1>7, <1>8, <1>9, <1>10, <1>11, RowStep

\* A thread may end with a row that it saved as over.
LEMMA EndStep ==
    ASSUME FederatedInductive, NEW t \in Workers, Holds(worker[t]),
           NEW target \in RunStatus \ (Active \cup {"COMPLETED", "CREATED"}), NEW run \in Row,
           Becomes(t, Idle), row' = [row EXCEPT ![Job(t)] = Saved(run)],
           Snap(t).revision = row[Job(t)].revision, run.revision = Snap(t).revision,
           run.status = target, ~run.queued, run.cancel = Snap(t).cancel,
           UNCHANGED <<plan, task, replied, memory, announced, governance, late, joined, events>>
    PROVE  FederatedInductive'
<1>1. /\ Idle.pc = "idle" /\ ~Drives(Idle) /\ ~Asks(Idle) /\ Idle.run = NoRun /\ Idle \in Worker
      /\ ThreadSound(Idle) /\ KnowsSources(Idle, version)
  BY IdleSound
<1>2. PICK k : k = Idle
  OBVIOUS
<1>3. /\ k.pc = "idle" /\ ~Drives(k) /\ ~Asks(k) /\ k.run = NoRun /\ k \in Worker
      /\ ThreadSound(k) /\ KnowsSources(k, version)
  BY <1>1, <1>2
<1>4. ~Holds(k) /\ ~InLoop(k) /\ ~Planned(k) /\ ~Merging(k)
  BY <1>3, Classes DEF Holds
<1>5. Becomes(t, k)
  BY <1>2
<1>. HIDE DEF Becomes
<1>. QED  BY <1>3, <1>4, <1>5, TransitionStep

\* A cancellation that was asked for is saved.
LEMMA CancelRunStep ==
    ASSUME FederatedInductive, NEW t \in Workers, CancelRun(t) PROVE FederatedInductive'
<1>1. worker[t].pc = "cancel" /\ Holds(worker[t])
  BY DEF CancelRun, Holds
<1>2. /\ worker[t] \in Worker /\ ThreadSound(worker[t]) /\ ~worker[t].repairing
      /\ Job(t) \in Runs /\ worker[t].then \in {"idle", "skip"}
      /\ Snap(t).revision = row[Job(t)].revision => Snap(t) = row[Job(t)]
      /\ row[Job(t)].cancel
  BY <1>1, Here DEF ThreadSound, HoldsCopies
<1>3. CASE ~MaySave(t, "CANCELLED")
  <2>1. Raise(t, "permanent") /\ Unsaved
    BY <1>3 DEF CancelRun, Unsaved, FederatedInductive, FederatedTypeOK
  <2>. HIDE DEF Unsaved
  <2>. QED  BY <1>1, <2>1, RaiseStep DEF Fault
<1>4. CASE MaySave(t, "CANCELLED")
  <2>1. /\ Snap(t).revision = row[Job(t)].revision /\ Snap(t) \in Row
        /\ "CANCELLED" \in RunStatus
    BY <1>2, <1>4 DEF MaySave, Worker, RunStatus, Terminal, Settled
  <2>2. PICK run : run = Transition(Snap(t), "CANCELLED")
    OBVIOUS
  <2>3. /\ run \in Row /\ run.status = "CANCELLED" /\ ~run.queued /\ run.revision = Snap(t).revision
        /\ run.cancel = Snap(t).cancel
    BY <2>1, <2>2, Moving
  <2>4. /\ row' = [row EXCEPT ![Job(t)] = Saved(run)]
        /\ UNCHANGED <<plan, task, replied, memory, announced, governance, late, joined, events>>
    BY <1>4, <2>2 DEF CancelRun, SaveRow
  <2>5. CASE worker[t].then = "idle"
    <3>1. Becomes(t, Idle)
      BY <1>4, <2>5 DEF CancelRun, Goto, Step
    <3>2. "CANCELLED" \in RunStatus \ (Active \cup {"COMPLETED", "CREATED"})
      BY <2>1 DEF Active
    <3>. HIDE DEF Becomes
    <3>. QED  BY <1>1, <2>1, <2>3, <2>4, <3>1, <3>2, EndStep
  <2>6. CASE worker[t].then = "skip"
    <3>1. PICK k : k = [worker[t] EXCEPT !.pc = "skip"]
      OBVIOUS
    <3>2. /\ k \in Worker /\ k.pc = "skip" /\ k.run = Job(t) /\ k.snap = Snap(t)
          /\ k.tasks = worker[t].tasks /\ k.place = worker[t].place /\ k.kind = worker[t].kind
          /\ ~k.repairing
      BY <1>2, <3>1, MovedOn DEF PC
    <3>3. /\ Executes(k) /\ OnTask(k) /\ InLoop(k) /\ Planned(k)
          /\ ~Merging(k) /\ ~Governed(k) /\ ~Asks(k) /\ Holds(k)
          /\ Executes(worker[t]) /\ OnTask(worker[t]) /\ InLoop(worker[t]) /\ Planned(worker[t])
      BY <1>1, <2>6, <3>2 DEF Executes, OnTask, InLoop, Planned, Merging, Governed, Asks, Holds
    <3>4. ThreadSound(k) /\ KnowsSources(k, version)
      BY <1>2, <3>2, <3>3 DEF ThreadSound, KnowsSources
    <3>5. Becomes(t, k)
      BY <1>4, <2>6, <3>1 DEF CancelRun, Goto, Step
    <3>6. "CANCELLED" \in RunStatus \ {"COMPLETED", "CREATED"} /\ "CANCELLED" \notin Active
      BY <2>1 DEF Active
    <3>. HIDE DEF Becomes
    <3>. QED  BY <1>1, <1>2, <2>1, <2>3, <2>4, <3>2, <3>3, <3>4, <3>5, <3>6, TransitionStep
  <2>. QED  BY <1>2, <2>5, <2>6
<1>. QED  BY <1>3, <1>4

\* The run becomes a federated one.
LEMMA SetKindStep ==
    ASSUME FederatedInductive, NEW t \in Workers, SetKind(t) PROVE FederatedInductive'
<1>1. worker[t].pc = "kind" /\ Holds(worker[t]) /\ Asks(worker[t])
  BY DEF SetKind, Holds, Asks
<1>2. /\ worker[t] \in Worker /\ ThreadSound(worker[t]) /\ ~worker[t].repairing
      /\ Job(t) \in Runs
      /\ Snap(t).revision = row[Job(t)].revision => Snap(t) = row[Job(t)]
  BY <1>1, Here
<1>3. CASE row[Job(t)].revision # Snap(t).revision
  <2>1. Raise(t, "permanent") /\ Unsaved
    BY SMTT(60), <1>3 DEF SetKind, Unsaved, FederatedInductive, FederatedTypeOK
  <2>. HIDE DEF Unsaved
  <2>. QED  BY <1>1, <2>1, RaiseStep DEF Fault
<1>4. CASE row[Job(t)].revision = Snap(t).revision
  <2>1. /\ Snap(t) = row[Job(t)] /\ row[Job(t)] \in Row /\ Present(row[Job(t)])
        /\ RunSound(row[Job(t)], plan[Job(t)], task[Job(t)], joined[Job(t)])
        /\ ~worker[t].heard => Job(t) \notin replied
        /\ Job(t) \notin replied => DriveInOrder(worker[t], row[Job(t)], task[Job(t)])
        /\ joined[Job(t)] \in Versions /\ joined' = [joined EXCEPT ![Job(t)] = joined[Job(t)]]
    BY <1>1, <1>2, <1>4, Here DEF HoldsCopies, FederatedInductive, FederatedTypeOK, SetKind
  <2>2. PICK run1 : run1 = Saved(Snap(t))
    OBVIOUS
  <2>3. /\ run1 \in Row /\ run1.revision > row[Job(t)].revision /\ Present(run1)
        /\ run1.status = row[Job(t)].status
        /\ run1.cancel = row[Job(t)].cancel /\ run1.queued = row[Job(t)].queued
    BY <2>1, <2>2, Saving DEF Present
  <2>4. RunSound(run1, plan[Job(t)], task[Job(t)], joined[Job(t)])
    BY <2>1, <2>3 DEF RunSound
  <2>5. run1.status = "WAITING_USER" /\ run1.queued => Job(t) \in replied
    BY <1>2, <2>3, KnowingRun
  <2>6. PICK label : label = IF plan[Job(t)] = "none" THEN "plan" ELSE "resume"
    OBVIOUS
  <2>7. label \in {"plan", "resume"} /\ (label = "resume" => plan[Job(t)] # "none")
    BY <2>6
  <2>8. PICK k : k = [worker[t] EXCEPT !.snap = run1, !.pc = label]
    OBVIOUS
  <2>9. /\ k \in Worker /\ k.pc = label /\ k.run = Job(t) /\ k.snap = run1
        /\ k.heard = worker[t].heard /\ ~k.repairing
    BY ZenonT(60), <1>2, <2>3, <2>7, <2>8 DEF Worker, PC
  <2>10. ~OnTask(k) /\ ~Executes(k) /\ ~InLoop(k) /\ ~Merging(k) /\ ~Governed(k) /\ Holds(k)
    BY <2>7, <2>9 DEF OnTask, Executes, InLoop, Merging, Governed, Holds
  <2>11. ThreadSound(k) /\ KnowsSources(k, version) /\ (Planned(k) => k.pc = "resume")
    BY <1>2, <2>7, <2>9, <2>10 DEF ThreadSound, KnowsSources, Planned
  <2>12. /\ Becomes(t, k) /\ row' = [row EXCEPT ![Job(t)] = run1]
         /\ UNCHANGED <<plan, task, replied, memory, announced, governance, late, events>>
    BY <1>4, <2>2, <2>6, <2>8 DEF SetKind, SaveRow
  <2>13. Job(t) \notin replied => run1.status \in Active \cup {"CANCELLED", "COMPLETED"}
    BY <1>1, <2>1, <2>3 DEF DriveInOrder
  <2>. HIDE DEF Becomes
  <2>. QED  BY ZenonT(60), <1>1, <2>1, <2>3, <2>4, <2>5, <2>7, <2>9, <2>10, <2>11, <2>12, <2>13,
               RowStep
<1>. QED  BY <1>3, <1>4

\* The run begins to execute its plan.
LEMMA AdvanceStep ==
    ASSUME FederatedInductive, NEW t \in Workers, Advance(t) PROVE FederatedInductive'
<1>1. worker[t].pc = "advance" /\ Holds(worker[t]) /\ Asks(worker[t]) /\ Planned(worker[t])
  BY DEF Advance, Holds, Asks, Planned
<1>2. /\ worker[t] \in Worker /\ ThreadSound(worker[t]) /\ ~worker[t].repairing
      /\ Job(t) \in Runs
  BY <1>1, Here
<1>3. CASE row[Job(t)].revision # Snap(t).revision
  <2>1. Raise(t, "permanent") /\ Unsaved
    BY <1>3 DEF Advance, Unsaved, FederatedInductive, FederatedTypeOK
  <2>. HIDE DEF Unsaved
  <2>. QED  BY <1>1, <2>1, RaiseStep DEF Fault
<1>4. CASE row[Job(t)].revision = Snap(t).revision
  <2>1. Snap(t) \in Row /\ (~worker[t].heard => Job(t) \notin replied)
    BY <1>1, <1>2, <1>4, Here DEF Worker
  <2>2. PICK run : run = Executing(Snap(t))
    OBVIOUS
  <2>3. /\ run \in Row /\ run.status = "EXECUTING" /\ run.cancel = Snap(t).cancel
        /\ run.revision = Snap(t).revision + 1
    <3>1. PICK begun : begun = [Snap(t) EXCEPT !.status = "EXECUTING"]
      OBVIOUS
    <3>2. /\ begun \in Row /\ begun.status = "EXECUTING" /\ begun.cancel = Snap(t).cancel
          /\ begun.revision = Snap(t).revision
      BY <2>1, <3>1 DEF Row, RunStatus, Active
    <3>3. run = Saved(begun)
      BY <2>2, <3>1 DEF Executing
    <3>. QED  BY <3>2, <3>3, Saving
  <2>4. PICK k : k = [worker[t] EXCEPT !.pc = "tasks", !.then = "idle", !.snap = Saved(run)]
    OBVIOUS
  <2>5. /\ k \in Worker /\ k.pc = "tasks" /\ k.run = Job(t) /\ k.snap = Saved(run)
        /\ k.heard = worker[t].heard /\ k.kind = worker[t].kind /\ ~k.repairing
    BY ZenonT(60), <1>2, <2>3, <2>4, Saving DEF Worker, PC
  <2>6. ~OnTask(k) /\ ~Executes(k) /\ ~InLoop(k) /\ ~Merging(k) /\ ~Governed(k) /\ Holds(k)
    BY <2>5 DEF OnTask, Executes, InLoop, Merging, Governed, Holds
  <2>7. ThreadSound(k) /\ KnowsSources(k, version)
    BY <1>2, <2>5, <2>6 DEF ThreadSound, KnowsSources
  <2>8. /\ Becomes(t, k) /\ row' = [row EXCEPT ![Job(t)] = Saved(run)]
        /\ UNCHANGED <<plan, task, replied, memory, announced, governance, late, joined, events>>
    BY <1>4, <2>2, <2>4 DEF Advance, SaveRow
  <2>9. "EXECUTING" \in RunStatus \ {"COMPLETED", "CREATED"} /\ "EXECUTING" \in Active
    BY DEF RunStatus, Active
  <2>. HIDE DEF Becomes
  <2>. QED  BY <1>1, <1>4, <2>1, <2>3, <2>5, <2>6, <2>7, <2>8, <2>9, TransitionStep
<1>. QED  BY <1>3, <1>4

\* The run waits for the user; a drive that a task has parked looks again.
LEMMA WaitStep ==
    ASSUME FederatedInductive, NEW t \in Workers, Wait(t) PROVE FederatedInductive'
<1>1. worker[t].pc = "waiting" /\ Holds(worker[t])
  BY DEF Wait, Holds
<1>2. /\ worker[t] \in Worker /\ ThreadSound(worker[t]) /\ ~worker[t].repairing
      /\ Job(t) \in Runs /\ worker[t].place # N + 1
  BY <1>1, Here DEF ThreadSound
<1>3. CASE ~MaySave(t, "WAITING_USER")
  <2>1. Raise(t, "permanent") /\ Unsaved
    BY <1>3 DEF Wait, Unsaved, FederatedInductive, FederatedTypeOK
  <2>. HIDE DEF Unsaved
  <2>. QED  BY <1>1, <2>1, RaiseStep DEF Fault
<1>4. CASE MaySave(t, "WAITING_USER")
  <2>1. /\ Snap(t).revision = row[Job(t)].revision /\ Snap(t) \in Row
        /\ "WAITING_USER" \in RunStatus
    BY <1>2, <1>4 DEF MaySave, Worker, RunStatus, Terminal, Settled
  <2>2. PICK run : run = Transition(Snap(t), "WAITING_USER")
    OBVIOUS
  <2>3. /\ run \in Row /\ run.status = "WAITING_USER" /\ ~run.queued
        /\ run.revision = Snap(t).revision /\ run.cancel = Snap(t).cancel
    BY <2>1, <2>2, Moving
  <2>4. /\ row' = [row EXCEPT ![Job(t)] = Saved(run)]
        /\ UNCHANGED <<plan, task, replied, memory, announced, governance, late, joined, events>>
    BY <1>4, <2>2 DEF Wait, SaveRow
  <2>5. CASE worker[t].place = 0
    <3>1. Becomes(t, Idle)
      BY <1>4, <2>5 DEF Wait, Goto, Step
    <3>2. "WAITING_USER" \in RunStatus \ (Active \cup {"COMPLETED", "CREATED"})
      BY <2>1 DEF Active
    <3>. HIDE DEF Becomes
    <3>. QED  BY <1>1, <2>1, <2>3, <2>4, <3>1, <3>2, EndStep
  <2>6. CASE worker[t].place # 0
    <3>1. PICK k : k = [worker[t] EXCEPT !.pc = "after"]
      OBVIOUS
    <3>2. /\ k \in Worker /\ k.pc = "after" /\ k.run = Job(t) /\ k.snap = Snap(t)
          /\ k.tasks = worker[t].tasks /\ k.place = worker[t].place /\ k.kind = worker[t].kind
          /\ ~k.repairing
      BY <1>2, <3>1, MovedOn DEF PC
    <3>3. worker[t].place \in Tasks
      BY <1>2, <2>6, Numbers DEF Worker, Tasks
    <3>4. /\ ~Executes(k) /\ InLoop(k) /\ Planned(k)
          /\ ~Merging(k) /\ ~Governed(k) /\ Holds(k)
          /\ OnTask(worker[t]) /\ InLoop(worker[t]) /\ Planned(worker[t])
      BY <1>1, <2>6, <3>2 DEF Executes, OnTask, InLoop, Planned, Merging, Governed, Holds
    <3>5. ThreadSound(k) /\ KnowsSources(k, version)
      BY <1>2, <3>2, <3>3, <3>4 DEF ThreadSound, KnowsSources
    <3>6. Becomes(t, k)
      BY <1>4, <2>6, <3>1 DEF Wait, Goto, Step
    <3>7. "WAITING_USER" \in RunStatus \ {"COMPLETED", "CREATED"} /\ "WAITING_USER" \notin Active
      BY <2>1 DEF Active
    <3>. HIDE DEF Becomes
    <3>. QED  BY <1>1, <2>1, <2>3, <2>4, <3>2, <3>4, <3>5, <3>6, <3>7, TransitionStep
  <2>. QED  BY <2>5, <2>6
<1>. QED  BY <1>3, <1>4

\* The merged result is in hand, and the run answers.
LEMMA AnswerStep ==
    ASSUME FederatedInductive, NEW t \in Workers, Answer(t) PROVE FederatedInductive'
<1>1. worker[t].pc = "answer" /\ Holds(worker[t]) /\ Merging(worker[t]) /\ Planned(worker[t])
  BY DEF Answer, Holds, Merging, Planned
<1>2. /\ worker[t] \in Worker /\ ThreadSound(worker[t]) /\ ~worker[t].repairing
      /\ Job(t) \in Runs /\ KnowsSources(worker[t], version) /\ Bytes(task[Job(t)]) <= MaxBytes
  BY <1>1, Here DEF HoldsCopies
<1>3. CASE ~MaySave(t, "ANSWERING")
  <2>1. Raise(t, "permanent") /\ Unsaved
    BY <1>3 DEF Answer, Unsaved, FederatedInductive, FederatedTypeOK
  <2>. HIDE DEF Unsaved
  <2>. QED  BY <1>1, <2>1, RaiseStep DEF Fault
<1>4. CASE MaySave(t, "ANSWERING")
  <2>1. /\ Snap(t).revision = row[Job(t)].revision /\ Snap(t) \in Row
        /\ "ANSWERING" \in RunStatus
    BY <1>2, <1>4 DEF MaySave, Worker, RunStatus, Active
  <2>2. PICK run : run = Transition(Snap(t), "ANSWERING")
    OBVIOUS
  <2>3. /\ run \in Row /\ run.status = "ANSWERING" /\ ~run.queued
        /\ run.revision = Snap(t).revision /\ run.cancel = Snap(t).cancel
    BY <2>1, <2>2, Moving
  <2>4. /\ row' = [row EXCEPT ![Job(t)] = Saved(run)]
        /\ UNCHANGED <<plan, task, replied, memory, announced, governance, late, joined, events>>
    BY <1>4, <2>2 DEF Answer, SaveRow
  <2>5. PICK k : k = [worker[t] EXCEPT !.pc = "finish", !.snap = Saved(run)]
    OBVIOUS
  <2>6. /\ k \in Worker /\ k.pc = "finish" /\ k.run = Job(t) /\ k.snap = Saved(run)
        /\ k.tasks = worker[t].tasks /\ k.kind = worker[t].kind
        /\ k.mapping = worker[t].mapping /\ ~k.repairing
    BY ZenonT(60), <1>2, <2>3, <2>5, Saving DEF Worker, PC
  <2>7. ~OnTask(k) /\ ~Executes(k) /\ ~InLoop(k) /\ ~Asks(k) /\ ~Governed(k) /\ Holds(k)
    BY <2>6 DEF OnTask, Executes, InLoop, Asks, Governed, Holds
  <2>8. ThreadSound(k) /\ KnowsSources(k, version)
    BY <1>1, <1>2, <2>6, <2>7 DEF ThreadSound, KnowsSources
  <2>9. Becomes(t, k)
    BY <1>4, <2>2, <2>5 DEF Answer
  <2>10. "ANSWERING" \in RunStatus \ {"COMPLETED", "CREATED"} /\ "ANSWERING" \in Active
    BY <2>1 DEF Active
  <2>. HIDE DEF Becomes
  <2>. QED  BY <1>1, <1>2, <2>1, <2>3, <2>4, <2>6, <2>7, <2>8, <2>9, <2>10, TransitionStep
<1>. QED  BY <1>3, <1>4

\* The run is completed with what was merged.
LEMMA FinishStep ==
    ASSUME FederatedInductive, NEW t \in Workers, Finish(t) PROVE FederatedInductive'
<1>1. worker[t].pc = "finish" /\ Holds(worker[t]) /\ Merging(worker[t]) /\ Planned(worker[t])
  BY DEF Finish, Holds, Merging, Planned
<1>2. /\ worker[t] \in Worker /\ ThreadSound(worker[t]) /\ ~worker[t].repairing
      /\ Job(t) \in Runs /\ KnowsSources(worker[t], version) /\ Bytes(task[Job(t)]) <= MaxBytes
      /\ worker[t].tasks = task[Job(t)] /\ Whole(task[Job(t)])
      /\ plan[Job(t)] # "none" /\ worker[t].kind = plan[Job(t)]
      /\ Snap(t).revision = row[Job(t)].revision => Snap(t) = row[Job(t)]
      /\ RunSound(row[Job(t)], plan[Job(t)], task[Job(t)], joined[Job(t)])
  BY <1>1, Here DEF HoldsCopies
<1>3. CASE ~MaySave(t, "COMPLETED")
  <2>1. Raise(t, "permanent") /\ Unsaved
    BY <1>3 DEF Finish, Unsaved, FederatedInductive, FederatedTypeOK
  <2>. HIDE DEF Unsaved
  <2>. QED  BY <1>1, <2>1, RaiseStep DEF Fault
<1>4. CASE MaySave(t, "COMPLETED")
  <2>1. /\ Snap(t) = row[Job(t)] /\ Snap(t) \in Row /\ "COMPLETED" \in RunStatus
        /\ worker[t].mapping.bound \in Versions
    BY <1>2, <1>4, Numbers DEF MaySave, Worker, RunStatus, Terminal, Settled
  <2>2. PICK run : run = Transition(Snap(t), "COMPLETED")
    OBVIOUS
  <2>3. /\ run \in Row /\ run.status = "COMPLETED" /\ ~run.queued
        /\ run.revision = Snap(t).revision /\ run.cancel = Snap(t).cancel
    BY <2>1, <2>2, Moving
  <2>4. PICK run1 : run1 = Saved(run)
    OBVIOUS
  <2>5. /\ run1 \in Row /\ run1.status = "COMPLETED" /\ ~run1.queued /\ Present(run1)
        /\ run1.cancel = row[Job(t)].cancel
    BY <2>1, <2>3, <2>4, Saving DEF Present
  <2>6. run1.revision > row[Job(t)].revision
    BY <2>1, <2>3, <2>4, Saving
  <2>7. RunSound(run1, plan[Job(t)], task[Job(t)], worker[t].mapping.bound)
    <3>1. Sizes(task[Job(t)], Tasks) <= MaxBytes
      BY <1>2 DEF Bytes, Whole
    <3>2. plan[Job(t)] = "join" => \A i \in Tasks : task[Job(t)][i].version <= worker[t].mapping.bound[i]
      BY <1>1, <1>2 DEF KnowsSources
    <3>. QED  BY <1>2, <3>1, <3>2 DEF RunSound
  <2>8. PICK k : k = [Idle EXCEPT !.pc = "record", !.run = Job(t)]
    OBVIOUS
  <2>9. k \in Worker /\ k.pc = "record" /\ k.run = Job(t) /\ k.repairing = Idle.repairing
    BY ZenonT(60), <1>2, <2>8, Nothings DEF Worker, PC
  <2>10. ~k.repairing
    BY <2>9 DEF Idle
  <2>11. /\ ~OnTask(k) /\ ~Executes(k) /\ ~InLoop(k) /\ ~Asks(k) /\ ~Governed(k) /\ ~Holds(k)
         /\ ~Planned(k) /\ ~Merging(k)
    BY <2>9 DEF OnTask, Executes, InLoop, Asks, Governed, Holds, Planned, Merging
  <2>12. ThreadSound(k) /\ KnowsSources(k, version)
    BY <1>2, <2>9, <2>10, <2>11 DEF ThreadSound, KnowsSources
  <2>13. /\ Becomes(t, k) /\ row' = [row EXCEPT ![Job(t)] = run1]
         /\ joined' = [joined EXCEPT ![Job(t)] = worker[t].mapping.bound]
         /\ UNCHANGED <<plan, task, replied, memory, announced, governance, late, events>>
    BY <1>4, <2>2, <2>4, <2>8 DEF Finish, SaveRow
  <2>14. run1.status \notin Active
    BY <2>5 DEF Active
  <2>. HIDE DEF Becomes
  <2>. QED  BY <1>1, <2>1, <2>5, <2>6, <2>7, <2>9, <2>11, <2>12, <2>13, <2>14, RowStep
<1>. QED  BY <1>3, <1>4

\* The failure is saved, unless somebody saved before.
LEMMA FailRunStep ==
    ASSUME FederatedInductive, NEW t \in Workers, FailRun(t) PROVE FederatedInductive'
<1>1. worker[t].pc = "fail_run" /\ Holds(worker[t]) /\ Becomes(t, Idle)
  BY DEF FailRun, Holds
<1>2. /\ worker[t] \in Worker /\ Job(t) \in Runs
      /\ Snap(t).revision = row[Job(t)].revision => Snap(t) = row[Job(t)]
  BY <1>1, Here
<1>3. PICK target \in {"BLOCKED", "FAILED"} :
          target = IF worker[t].outcome = "blocked" THEN "BLOCKED" ELSE "FAILED"
  OBVIOUS
<1>4. CASE ~MaySave(t, target)
  <2>1. Unsaved
    BY <1>3, <1>4 DEF FailRun, Unsaved, FederatedInductive, FederatedTypeOK
  <2>2. ASSUME Keeps(worker[t], row[Job(t)]) PROVE row[Job(t)].status \notin Active
    <3>1. Snap(t) = row[Job(t)] /\ ~CanTransition(Snap(t), target)
      BY <1>1, <1>2, <1>4, <2>2 DEF Keeps, MaySave
    <3>2. \A run : run.status \in Active => CanTransition(run, "FAILED") /\ CanTransition(run, "BLOCKED")
      BY DEF CanTransition, Allowed, Active
    <3>. QED  BY <3>1, <3>2
  <2>3. Fits(t, Idle)
    BY <2>2, IdleFits
  <2>. HIDE DEF Becomes, Unsaved
  <2>. QED  BY <1>1, <2>1, <2>3, LocalStep
<1>5. CASE MaySave(t, target)
  <2>1. /\ Snap(t).revision = row[Job(t)].revision /\ Snap(t) \in Row
        /\ target \in RunStatus \ (Active \cup {"COMPLETED", "CREATED"})
    BY <1>2, <1>5 DEF MaySave, Worker, RunStatus, Terminal, Settled, Active
  <2>2. PICK run : run = [Transition(Snap(t), target) EXCEPT
                             !.retryable = (worker[t].outcome = "transient")]
    OBVIOUS
  <2>3. /\ run \in Row /\ run.status = target /\ ~run.queued
        /\ run.revision = Snap(t).revision /\ run.cancel = Snap(t).cancel
    <3>1. PICK moved : moved = Transition(Snap(t), target)
      OBVIOUS
    <3>2. /\ moved \in Row /\ moved.status = target /\ ~moved.queued
          /\ moved.revision = Snap(t).revision /\ moved.cancel = Snap(t).cancel
      BY <2>1, <3>1, Moving
    <3>3. run = [moved EXCEPT !.retryable = (worker[t].outcome = "transient")]
      BY <2>2, <3>1
    <3>. QED  BY <3>2, <3>3 DEF Row
  <2>4. /\ row' = [row EXCEPT ![Job(t)] = Saved(run)]
        /\ UNCHANGED <<plan, task, replied, memory, announced, governance, late, joined, events>>
    BY <1>3, <1>5, <2>2 DEF FailRun, SaveRow
  <2>. HIDE DEF Becomes
  <2>. QED  BY <1>1, <2>1, <2>3, <2>4, EndStep
<1>. QED  BY <1>4, <1>5

-----------------------------------------------------------------------------
(* Steps that save a task *)

\* A thread that may save its task holds the current one, which is not answered.
LEMMA AtTask ==
    ASSUME FederatedInductive, NEW t \in Workers, OnTask(worker[t]),
           worker[t].pc = "start" \/ Executes(worker[t])
    PROVE  /\ Holds(worker[t]) /\ InLoop(worker[t]) /\ Planned(worker[t]) /\ Drives(worker[t])
           /\ worker[t] \in Worker /\ ThreadSound(worker[t]) /\ Job(t) \in Runs
           /\ ~worker[t].repairing /\ worker[t].place \in Tasks
           /\ Held(t) \in SourceTask /\ Held(t).status # "COMPLETED"
           /\ task[Job(t)] \in [Tasks -> SourceTask] /\ task \in [Runs -> [Tasks -> SourceTask]]
           /\ MaySaveTask(t) => Held(t) = task[Job(t)][worker[t].place]
<1>1. Holds(worker[t]) /\ InLoop(worker[t]) /\ Planned(worker[t]) /\ Drives(worker[t])
  <2>1. ThreadSound(worker[t])
    BY Knowing
  <2>. QED  BY <2>1, Classes
<1>2. /\ worker[t] \in Worker /\ ThreadSound(worker[t]) /\ Job(t) \in Runs /\ ~worker[t].repairing
      /\ task[Job(t)] \in [Tasks -> SourceTask]
      /\ HoldsCopies(worker[t], row[Job(t)], plan[Job(t)], task[Job(t)])
  BY <1>1, Here
<1>3. worker[t].place \in Tasks /\ Held(t).status # "COMPLETED"
  BY <1>2 DEF ThreadSound, Held
<1>4. Held(t) \in SourceTask
  BY <1>2, <1>3 DEF Held, Worker
<1>5. MaySaveTask(t) => Held(t) = task[Job(t)][worker[t].place]
  BY <1>1, <1>2, <1>3 DEF MaySaveTask, Held, HoldsCopies
<1>. QED  BY <1>1, <1>2, <1>3, <1>4, <1>5 DEF FederatedInductive, FederatedTypeOK

\* The tasks with another one in some place.
With(tasks, i, saved) == [tasks EXCEPT ![i] = saved]

\* save_task() of thread t.
Stores(t, saved) == task' = [task EXCEPT ![Job(t)][worker[t].place] = saved]

\* A thread saves its task and goes on.
LEMMA TaskStep ==
    ASSUME FederatedInductive, NEW t \in Workers, OnTask(worker[t]),
           worker[t].pc = "start" \/ Executes(worker[t]), MaySaveTask(t),
           NEW saved \in SourceTask, saved.revision = Held(t).revision + 1,
           saved.version <= version[worker[t].place],
           NEW k \in Worker, Becomes(t, k), Stores(t, saved),
           UNCHANGED <<row, plan, replied, memory, announced, governance, late, joined, events>>,
           ThreadSound(k), KnowsSources(k, version), k.run \in {Job(t), NoRun},
           Holds(k) => k.snap = Snap(t),
           k.pc \notin {"cancel", "skip", "resume"}, ~Merging(k),
           InLoop(k) => k.tasks = With(worker[t].tasks, worker[t].place, saved),
           Planned(k) => k.kind = worker[t].kind,
           Asks(k) => Asks(worker[t]) /\ k.heard = worker[t].heard,
           row[Job(t)].cancel \/ (k.run = Job(t) /\ Drives(k) /\ (k.pc = "except" \/ Holds(k)))
    PROVE  FederatedInductive'
<1>. DEFINE i == worker[t].place
<1>1. /\ Holds(worker[t]) /\ InLoop(worker[t]) /\ Planned(worker[t]) /\ Drives(worker[t])
      /\ worker[t] \in Worker /\ ThreadSound(worker[t]) /\ Job(t) \in Runs
      /\ i \in Tasks /\ Held(t) \in SourceTask /\ Held(t).status # "COMPLETED"
      /\ task[Job(t)] \in [Tasks -> SourceTask] /\ task \in [Runs -> [Tasks -> SourceTask]]
      /\ Held(t) = task[Job(t)][i] /\ worker[t].pc # "after"
  BY AtTask DEF Executes
<1>2. /\ HoldsCopies(worker[t], row[Job(t)], plan[Job(t)], task[Job(t)])
      /\ row[Job(t)] \in Row /\ plan[Job(t)] \in PlanKind \cup {"none"}
      /\ RunSound(row[Job(t)], plan[Job(t)], task[Job(t)], joined[Job(t)])
      /\ \A j \in Tasks : task[Job(t)][j].version <= version[j]
      /\ Asks(worker[t]) /\ ~worker[t].heard /\ Snap(t).revision = row[Job(t)].revision =>
            Job(t) \notin replied
      /\ Job(t) \notin replied => DriveInOrder(worker[t], row[Job(t)], task[Job(t)])
  BY <1>1, Here
<1>3. PICK tasks1 : tasks1 = With(task[Job(t)], i, saved)
  OBVIOUS
<1>4. /\ tasks1 \in [Tasks -> SourceTask] /\ tasks1[i] = saved
      /\ \A j \in Tasks : j # i => tasks1[j] = task[Job(t)][j]
  BY <1>1, <1>3 DEF With
<1>5. task' = [task EXCEPT ![Job(t)] = tasks1]
  BY <1>1, <1>3 DEF With, Stores
<1>6. saved.revision > task[Job(t)][i].revision /\ task[Job(t)][i].revision \in Nat
  BY <1>1, Numbers
<1>7. Evolves(row[Job(t)], plan[Job(t)], task[Job(t)], row[Job(t)], plan[Job(t)], tasks1)
  <2>1. Present(row[Job(t)])
    BY <1>1, <1>2 DEF HoldsCopies
  <2>. QED  BY <1>1, <1>4, <1>6, <2>1 DEF Evolves
<1>8. k.run = Job(t) => HoldsCopies(k, row[Job(t)], plan[Job(t)], tasks1)
  <2>1. InLoop(k) => \A j \in Tasks :
            /\ k.tasks[j].revision <= tasks1[j].revision
            /\ k.tasks[j].revision = tasks1[j].revision => k.tasks[j] = tasks1[j]
    <3>. SUFFICES ASSUME InLoop(k), NEW j \in Tasks
                  PROVE  /\ k.tasks[j].revision <= tasks1[j].revision
                         /\ k.tasks[j].revision = tasks1[j].revision => k.tasks[j] = tasks1[j]
      OBVIOUS
    <3>1. worker[t].tasks \in [Tasks -> SourceTask]
      BY <1>1 DEF Worker
    <3>2. CASE j = i
      BY <1>1, <1>4, <3>1, <3>2, Numbers DEF With
    <3>3. CASE j # i
      <4>1. k.tasks[j] = worker[t].tasks[j]
        BY <3>1, <3>3 DEF With
      <4>2. tasks1[j] = task[Job(t)][j]
        BY SMTT(60), <1>4, <3>3
      <4>3. /\ worker[t].tasks[j].revision <= task[Job(t)][j].revision
            /\ worker[t].tasks[j].revision = task[Job(t)][j].revision =>
                  worker[t].tasks[j] = task[Job(t)][j]
        BY SMTT(60), <1>1, <1>2 DEF HoldsCopies
      <4>. QED  BY <4>1, <4>2, <4>3
    <3>. QED  BY <3>2, <3>3
  <2>2. Planned(k) => plan[Job(t)] # "none" /\ k.kind = plan[Job(t)]
    BY <1>1, <1>2 DEF HoldsCopies, Executes
  <2>3. k.pc \notin {"answer", "finish"}
    BY SMTT(60) DEF Merging
  <2>4. Holds(k) => /\ k.snap.revision <= row[Job(t)].revision
                    /\ k.snap.revision = row[Job(t)].revision => k.snap = row[Job(t)]
    BY <1>1, <1>2 DEF HoldsCopies
  <2>5. Present(row[Job(t)])
    BY <1>1, <1>2 DEF HoldsCopies
  <2>. QED  BY <2>1, <2>2, <2>3, <2>4, <2>5 DEF HoldsCopies
<1>9. Asks(k) /\ ~k.heard /\ k.snap.revision = row[Job(t)].revision => Job(t) \notin replied
  BY <1>2, Classes
<1>10. RunSound(row[Job(t)], plan[Job(t)], tasks1, joined[Job(t)])
  <2>1. plan[Job(t)] # "none"
    BY <1>1, <1>2 DEF HoldsCopies
  <2>2. ~Whole(task[Job(t)])
    BY <1>1 DEF Whole, Completed
  <2>. QED  BY SMTT(60), <1>2, <2>1, <2>2 DEF RunSound
<1>11. \A j \in Tasks : tasks1[j].version <= version[j]
  BY SMTT(60), <1>2, <1>4
<1>12. Orderly(t, k, Job(t), row[Job(t)], tasks1)
  <2>1. Job(t) \notin replied /\ InLoop(k) => k.tasks = tasks1
    BY <1>1, <1>2, <1>3 DEF DriveInOrder
  <2>. QED  BY SMTT(60), <1>1, <1>2, <2>1 DEF Orderly, DriveInOrder
<1>13. Kept(t, k, Job(t), row[Job(t)], tasks1)
  <2>1. worker[t].pc # "except"
    BY <1>1 DEF Holds
  <2>2. Keeps(worker[t], row[Job(t)]) /\ ~row[Job(t)].cancel => k.run = Job(t) /\ Keeps(k, row[Job(t)])
    BY <2>1 DEF Keeps
  <2>. QED  BY <1>1, <2>2 DEF Kept
<1>14. /\ row' = [row EXCEPT ![Job(t)] = row[Job(t)]] /\ plan' = [plan EXCEPT ![Job(t)] = plan[Job(t)]]
       /\ joined' = [joined EXCEPT ![Job(t)] = joined[Job(t)]] /\ joined[Job(t)] \in Versions
       /\ version' = version /\ replied' = replied /\ confirming' = confirming
       /\ mapping' \in JoinMapping /\ memory' \in Runs \cup {NoRun} /\ announced' \subseteq Runs
       /\ late' \subseteq Runs /\ events' \in Nat
  BY <1>1 DEF FederatedInductive, FederatedTypeOK
<1>15. row[Job(t)].status = "WAITING_USER" /\ row[Job(t)].queued => Job(t) \in replied
  BY SMTT(60), <1>1, KnowingRun
<1>16. /\ Job(t) \in Runs /\ row[Job(t)] \in Row /\ plan[Job(t)] \in PlanKind \cup {"none"}
       /\ tasks1 \in [Tasks -> SourceTask] /\ k.run \in {Job(t), NoRun}
  BY <1>1, <1>2, <1>4
<1>17. PICK run1, kind1, bound1 : run1 = row[Job(t)] /\ kind1 = plan[Job(t)] /\ bound1 = joined[Job(t)]
  OBVIOUS
<1>. HIDE DEF Becomes, i
<1>. QED  BY ZenonT(60), <1>5, <1>7, <1>8, <1>9, <1>10, <1>11, <1>12, <1>13, <1>14, <1>15, <1>16,
             <1>17, ThreadStep, ZenonT(60)

\* save_task() keeps the invariant, also when it loses.
LEMMA SaveTaskStep ==
    ASSUME FederatedInductive, NEW t \in Workers, OnTask(worker[t]),
           worker[t].pc = "start" \/ Executes(worker[t]),
           NEW new \in SourceTask, new.revision = Held(t).revision,
           MaySaveTask(t) => new.version <= version[worker[t].place],
           NEW label \in {"idle", "ask", "after", "wait", "except"}, SaveTask(t, new, label),
           UNCHANGED <<row, plan, replied, memory, announced, governance, late, joined, events>>,
           label = "idle" => row[Job(t)].cancel,
           label = "ask" => new.status = "RUNNING",
           label \in {"ask", "after", "wait"} => Asks(worker[t])
    PROVE  FederatedInductive'
<1>1. /\ Holds(worker[t]) /\ InLoop(worker[t]) /\ Planned(worker[t]) /\ Drives(worker[t])
      /\ worker[t] \in Worker /\ ThreadSound(worker[t]) /\ Job(t) \in Runs
      /\ ~worker[t].repairing /\ worker[t].place \in Tasks /\ Held(t) \in SourceTask
      /\ worker[t].pc \notin {"idle", "after"}
  BY AtTask DEF Executes
<1>2. CASE ~MaySaveTask(t)
  <2>1. Raise(t, "permanent") /\ UNCHANGED task
    BY <1>2 DEF SaveTask
  <2>2. Unsaved
    BY <2>1 DEF Unsaved, FederatedInductive, FederatedTypeOK
  <2>. HIDE DEF Unsaved
  <2>. QED  BY <1>1, <2>1, <2>2, RaiseStep DEF Fault
<1>3. CASE MaySaveTask(t)
  <2>1. PICK saved : saved = [new EXCEPT !.revision = @ + 1]
    OBVIOUS
  <2>2. /\ saved \in SourceTask /\ saved.revision = Held(t).revision + 1
        /\ saved.version <= version[worker[t].place] /\ saved.status = new.status
    BY <1>3, <2>1, Numbers DEF SourceTask
  <2>3. PICK w1 : w1 = [worker[t] EXCEPT !.tasks[worker[t].place] = saved]
    OBVIOUS
  <2>4. Stores(t, saved) /\ Becomes(t, Step(w1, label))
    BY <1>3, <2>1, <2>3 DEF SaveTask, Stores
  <2>5. /\ w1 \in Worker /\ w1.tasks = With(worker[t].tasks, worker[t].place, saved)
        /\ w1.tasks[worker[t].place] = saved
        /\ w1.run = Job(t) /\ w1.snap = Snap(t) /\ w1.heard = worker[t].heard
        /\ w1.kind = worker[t].kind /\ w1.place = worker[t].place /\ ~w1.repairing
    <3>1. worker[t].tasks \in [Tasks -> SourceTask]
      BY <1>1 DEF Worker
    <3>2. PICK tasks1 : tasks1 = With(worker[t].tasks, worker[t].place, saved)
      OBVIOUS
    <3>3. tasks1 \in [Tasks -> SourceTask] /\ tasks1[worker[t].place] = saved
      BY <1>1, <2>2, <3>1, <3>2 DEF With
    <3>4. w1 = [worker[t] EXCEPT !.tasks = tasks1]
      BY <1>1, <2>3, <3>1, <3>2 DEF With, Worker
    <3>. QED  BY <1>1, <3>2, <3>3, <3>4 DEF Worker
  <2>6. CASE label = "idle"
    <3>1. PICK k : k = Idle
      OBVIOUS
    <3>2. /\ k.pc = "idle" /\ ~Drives(k) /\ ~Asks(k) /\ k.run = NoRun /\ k \in Worker
          /\ ThreadSound(k) /\ KnowsSources(k, version)
      BY <3>1, IdleSound
    <3>3. ~Holds(k) /\ ~InLoop(k) /\ ~Planned(k) /\ ~Merging(k)
      BY <3>2, Classes DEF Holds
    <3>4. Becomes(t, k)
      BY <2>4, <2>6, <3>1 DEF Step
    <3>. HIDE DEF Becomes
    <3>. QED  BY <1>1, <1>3, <2>2, <2>4, <2>6, <3>2, <3>3, <3>4, TaskStep
  <2>7. CASE label \in {"ask", "after", "wait", "except"}
    <3>1. PICK k : k = [w1 EXCEPT !.pc = label]
      OBVIOUS
    <3>2. /\ k \in Worker /\ k.pc = label /\ k.run = Job(t) /\ k.snap = Snap(t)
          /\ k.tasks = w1.tasks /\ k.place = worker[t].place /\ k.heard = worker[t].heard
          /\ k.kind = worker[t].kind /\ ~k.repairing
      BY <2>5, <2>7, <3>1, MovedOn DEF PC
    <3>3. /\ ~Merging(k) /\ ~Governed(k) /\ Drives(k)
          /\ k.pc = "except" \/ Holds(k)
          /\ Executes(k) => k.pc = "ask"
          /\ k.pc = "except" => ~InLoop(k) /\ ~Planned(k) /\ ~Asks(k) /\ ~OnTask(k)
      BY <2>7, <3>2 DEF Executes, OnTask, InLoop, Planned, Merging, Governed, Asks, Holds, Drives
    <3>4. ThreadSound(k) /\ KnowsSources(k, version)
      BY <1>1, <2>2, <2>5, <2>7, <3>2, <3>3 DEF ThreadSound, KnowsSources
    <3>5. Becomes(t, k)
      BY <2>4, <2>7, <3>1 DEF Step
    <3>6. k.tasks = With(worker[t].tasks, worker[t].place, saved) /\ (Asks(k) => Asks(worker[t]))
      BY <2>5, <2>7, <3>2, <3>3
    <3>. HIDE DEF Becomes
    <3>. QED  BY <1>1, <1>3, <2>2, <2>4, <2>7, <3>2, <3>3, <3>4, <3>5, <3>6, TaskStep
  <2>. QED  BY <2>6, <2>7
<1>. QED  BY <1>2, <1>3

\* A task with another status.
LEMMA Restated ==
    ASSUME NEW held \in SourceTask, NEW status \in SourceTaskStatus
    PROVE  /\ [held EXCEPT !.status = status] \in SourceTask
           /\ [held EXCEPT !.status = status].revision = held.revision
           /\ [held EXCEPT !.status = status].version = held.version
BY DEF SourceTask

\* The held task is not newer than its source.
LEMMA HeldInTime ==
    ASSUME FederatedInductive, NEW t \in Workers, OnTask(worker[t]),
           worker[t].pc = "start" \/ Executes(worker[t])
    PROVE  MaySaveTask(t) => Held(t).version <= version[worker[t].place]
<1>1. Holds(worker[t]) /\ worker[t].place \in Tasks
  BY AtTask
<1>. QED  BY <1>1, AtTask, Here

\* A source is about to be asked.
LEMMA StartTaskStep ==
    ASSUME FederatedInductive, NEW t \in Workers, StartTask(t) PROVE FederatedInductive'
<1>1. worker[t].pc = "start" /\ OnTask(worker[t]) /\ Asks(worker[t])
  BY DEF StartTask, OnTask, Asks
<1>2. PICK new : new = [Held(t) EXCEPT !.status = "RUNNING", !.retryable = FALSE]
  OBVIOUS
<1>6. Held(t) \in SourceTask
  BY <1>1, AtTask
<1>3. /\ new \in SourceTask /\ new.status = "RUNNING" /\ new.revision = Held(t).revision
      /\ new.version = Held(t).version
  BY <1>2, <1>6 DEF SourceTask, SourceTaskStatus
<1>4. MaySaveTask(t) => new.version <= version[worker[t].place]
  BY <1>1, <1>3, HeldInTime
<1>5. /\ SaveTask(t, new, "ask")
      /\ UNCHANGED <<row, plan, replied, memory, announced, governance, late, joined, events>>
  BY <1>2 DEF StartTask
<1>. QED  BY <1>1, <1>3, <1>4, <1>5, SaveTaskStep

\* A task of a run that was cancelled is skipped.
LEMMA SkipTaskStep ==
    ASSUME FederatedInductive, NEW t \in Workers, SkipTask(t) PROVE FederatedInductive'
<1>1. worker[t].pc = "skip" /\ OnTask(worker[t]) /\ Executes(worker[t]) /\ Holds(worker[t])
  BY DEF SkipTask, OnTask, Executes, Holds
<1>2. PICK new : new = [Held(t) EXCEPT !.status = "SKIPPED"]
  OBVIOUS
<1>3. new \in SourceTask /\ new.revision = Held(t).revision /\ new.version = Held(t).version
  BY <1>1, <1>2, AtTask, Restated DEF SourceTaskStatus
<1>4. MaySaveTask(t) => new.version <= version[worker[t].place]
  BY <1>1, <1>3, HeldInTime
<1>5. /\ SaveTask(t, new, "idle")
      /\ UNCHANGED <<row, plan, replied, memory, announced, governance, late, joined, events>>
  BY <1>2 DEF SkipTask
<1>6. row[Job(t)].cancel
  BY <1>1, Here DEF HoldsCopies
<1>. QED  BY <1>1, <1>3, <1>4, <1>5, <1>6, SaveTaskStep

\* A task fails, and its drive with it.
LEMMA FailTaskStep ==
    ASSUME FederatedInductive, NEW t \in Workers, FailTask(t) PROVE FederatedInductive'
<1>1. worker[t].pc = "fail" /\ OnTask(worker[t]) /\ Executes(worker[t])
  BY DEF FailTask, OnTask, Executes
<1>2. PICK new : new = [Held(t) EXCEPT !.status = "FAILED",
                                       !.retryable = (worker[t].outcome = "transient")]
  OBVIOUS
<1>6. Held(t) \in SourceTask
  BY <1>1, AtTask
<1>3. new \in SourceTask /\ new.revision = Held(t).revision /\ new.version = Held(t).version
  BY <1>2, <1>6 DEF SourceTask, SourceTaskStatus
<1>4. MaySaveTask(t) => new.version <= version[worker[t].place]
  BY <1>1, <1>3, HeldInTime
<1>5. /\ SaveTask(t, new, "except")
      /\ UNCHANGED <<row, plan, replied, memory, announced, governance, late, joined, events>>
  BY <1>2 DEF FailTask
<1>. QED  BY <1>1, <1>3, <1>4, <1>5, SaveTaskStep

\* A task is answered.
LEMMA CompleteTaskStep ==
    ASSUME FederatedInductive, NEW t \in Workers, CompleteTask(t) PROVE FederatedInductive'
<1>1. /\ worker[t].pc = "complete" /\ OnTask(worker[t]) /\ Executes(worker[t]) /\ Asks(worker[t])
      /\ Holds(worker[t])
  BY DEF CompleteTask, OnTask, Executes, Asks, Holds
<1>2. PICK new : new = [Held(t) EXCEPT !.status = "COMPLETED", !.version = worker[t].found.version,
                                       !.size = worker[t].found.size]
  OBVIOUS
<1>3. worker[t].found \in SourceTask /\ Held(t) \in SourceTask
  BY <1>1, AtTask DEF Worker
<1>4. new \in SourceTask /\ new.revision = Held(t).revision /\ new.version = worker[t].found.version
  BY <1>2, <1>3 DEF SourceTask, SourceTaskStatus
<1>5. new.version <= version[worker[t].place]
  BY <1>1, <1>4, Here DEF KnowsSources
<1>6. /\ SaveTask(t, new, "after")
      /\ UNCHANGED <<row, plan, replied, memory, announced, governance, late, joined, events>>
  BY <1>2 DEF CompleteTask
<1>. QED  BY <1>1, <1>4, <1>5, <1>6, SaveTaskStep

\* A task waits for the user's reply.
LEMMA ParkTaskStep ==
    ASSUME FederatedInductive, NEW t \in Workers, ParkTask(t) PROVE FederatedInductive'
<1>1. worker[t].pc = "park" /\ OnTask(worker[t]) /\ Executes(worker[t]) /\ Asks(worker[t])
  BY DEF ParkTask, OnTask, Executes, Asks
<1>2. PICK new : new = [Held(t) EXCEPT !.status = "WAITING_USER"]
  OBVIOUS
<1>3. new \in SourceTask /\ new.revision = Held(t).revision /\ new.version = Held(t).version
  BY <1>1, <1>2, AtTask, Restated DEF SourceTaskStatus
<1>4. MaySaveTask(t) => new.version <= version[worker[t].place]
  BY <1>1, <1>3, HeldInTime
<1>5. /\ SaveTask(t, new, "wait")
      /\ UNCHANGED <<row, plan, replied, memory, announced, governance, late, joined, events>>
  BY <1>2 DEF ParkTask
<1>. QED  BY <1>1, <1>3, <1>4, <1>5, SaveTaskStep

-----------------------------------------------------------------------------
(* A plan is made, and a run is claimed *)

\* Tasks that nobody has asked yet.
LEMMA PlannedTasks ==
    ASSUME NEW tasks1, tasks1 = [i \in Tasks |-> [NoTask EXCEPT !.status = "PLANNED"]]
    PROVE  /\ tasks1 \in [Tasks -> SourceTask]
           /\ \A i \in Tasks : tasks1[i].version = 0 /\ tasks1[i].status # "COMPLETED"
<1>1. PICK new : new = [NoTask EXCEPT !.status = "PLANNED"]
  OBVIOUS
<1>2. new \in SourceTask /\ new.version = NoTask.version /\ new.status = "PLANNED"
  BY <1>1, Nothings DEF SourceTask, SourceTaskStatus
<1>3. NoTask.version = 0
  BY DEF NoTask
<1>. QED  BY <1>1, <1>2, <1>3

\* A plan is stored with its tasks, once.
LEMMA CreatePlanStep ==
    ASSUME FederatedInductive, NEW t \in Workers, CreatePlan(t) PROVE FederatedInductive'
<1>1. worker[t].pc = "create" /\ Holds(worker[t]) /\ Asks(worker[t])
  BY DEF CreatePlan, Holds, Asks
<1>2. /\ worker[t] \in Worker /\ ThreadSound(worker[t]) /\ ~worker[t].repairing
      /\ Job(t) \in Runs /\ row[Job(t)] \in Row /\ worker[t].kind \in PlanKind
      /\ RunSound(row[Job(t)], plan[Job(t)], task[Job(t)], joined[Job(t)])
      /\ HoldsCopies(worker[t], row[Job(t)], plan[Job(t)], task[Job(t)])
      /\ Drives(worker[t]) /\ plan[Job(t)] \in PlanKind \cup {"none"} /\ version \in Versions
      /\ Asks(worker[t]) /\ ~worker[t].heard /\ Snap(t).revision = row[Job(t)].revision =>
            Job(t) \notin replied
      /\ Job(t) \notin replied => DriveInOrder(worker[t], row[Job(t)], task[Job(t)])
  BY <1>1, Here DEF Worker
<1>3. CASE plan[Job(t)] # "none"
  <2>1. PICK k : k = [worker[t] EXCEPT !.pc = "advance", !.kind = plan[Job(t)]]
    OBVIOUS
  <2>2. /\ k \in Worker /\ k.pc = "advance" /\ k.run = Job(t) /\ k.snap = Snap(t)
        /\ k.heard = worker[t].heard /\ k.kind = plan[Job(t)] /\ ~k.repairing
    BY ZenonT(60), <1>2, <1>3, <2>1 DEF Worker, PC
  <2>3. /\ ~OnTask(k) /\ ~Executes(k) /\ ~InLoop(k) /\ ~Merging(k) /\ ~Governed(k) /\ Holds(k)
    BY <2>2 DEF OnTask, Executes, InLoop, Merging, Governed, Holds
  <2>4. ThreadSound(k) /\ KnowsSources(k, version)
    BY <1>2, <2>2, <2>3 DEF ThreadSound, KnowsSources
  <2>5. Fits(t, k)
    BY <1>1, <1>3, <2>2, <2>3, <2>4, MoveFits
  <2>6. Becomes(t, k) /\ Unsaved
    BY SMTT(60), <1>3, <2>1 DEF CreatePlan, Unsaved, FederatedInductive, FederatedTypeOK
  <2>. HIDE DEF Becomes, Unsaved
  <2>. QED  BY <2>5, <2>6, LocalStep
<1>4. CASE plan[Job(t)] = "none"
  <2>1. PICK k : k = [worker[t] EXCEPT !.pc = "advance"]
    BY ZenonT(60)
  <2>2. /\ k \in Worker /\ k.pc = "advance" /\ k.run = Job(t) /\ k.snap = Snap(t)
        /\ k.heard = worker[t].heard /\ k.kind = worker[t].kind /\ ~k.repairing
    BY <1>2, <2>1, MovedOn DEF PC
  <2>3. /\ ~OnTask(k) /\ ~Executes(k) /\ ~InLoop(k) /\ ~Merging(k) /\ ~Governed(k) /\ Holds(k)
        /\ Drives(k)
    BY <2>2 DEF OnTask, Executes, InLoop, Merging, Governed, Holds, Drives
  <2>4. ThreadSound(k) /\ KnowsSources(k, version)
    BY <1>2, <2>2, <2>3 DEF ThreadSound, KnowsSources
  <2>5. PICK tasks1 : tasks1 = [i \in Tasks |-> [NoTask EXCEPT !.status = "PLANNED"]]
    OBVIOUS
  <2>6. /\ tasks1 \in [Tasks -> SourceTask]
        /\ \A i \in Tasks : tasks1[i].version = 0 /\ tasks1[i].status # "COMPLETED"
    BY <2>5, PlannedTasks
  <2>7. PICK run, kind1, bound : run = row[Job(t)] /\ kind1 = worker[t].kind /\ bound = joined[Job(t)]
    OBVIOUS
  <2>8. run \in Row /\ kind1 \in PlanKind \cup {"none"} /\ kind1 # "none" /\ bound \in Versions
    BY <1>2, <2>7 DEF PlanKind, FederatedInductive, FederatedTypeOK
  <2>9. /\ Becomes(t, k) /\ row' = [row EXCEPT ![Job(t)] = run]
        /\ plan' = [plan EXCEPT ![Job(t)] = kind1] /\ task' = [task EXCEPT ![Job(t)] = tasks1]
        /\ joined' = [joined EXCEPT ![Job(t)] = bound]
        /\ version' = version /\ replied' = replied /\ confirming' = confirming
        /\ mapping' \in JoinMapping /\ memory' \in Runs \cup {NoRun} /\ announced' \subseteq Runs
        /\ late' \subseteq Runs /\ events' \in Nat
    BY <1>4, <2>1, <2>5, <2>7
       DEF CreatePlan, Goto, Step, FederatedInductive, FederatedTypeOK
  <2>10. \A i \in Tasks : task[Job(t)][i].status # "COMPLETED"
    <3>1. NoTask.status # "COMPLETED"
      BY DEF NoTask
    <3>. QED  BY <1>2, <1>4, <3>1 DEF RunSound
  <2>11. Evolves(row[Job(t)], plan[Job(t)], task[Job(t)], run, kind1, tasks1)
    BY <1>2, <1>4, <2>7, <2>10 DEF Evolves, HoldsCopies
  <2>12. HoldsCopies(k, run, kind1, tasks1)
    BY <1>1, <1>2, <2>2, <2>3, <2>7, <2>8 DEF HoldsCopies
  <2>13. Asks(k) /\ ~k.heard /\ k.snap.revision = run.revision => Job(t) \notin replied
    BY <1>1, <1>2, <2>2, <2>7
  <2>14. RunSound(run, kind1, tasks1, bound)
    BY <1>2, <1>4, <2>7, <2>8 DEF RunSound
  <2>15. \A i \in Tasks : tasks1[i].version <= version[i]
    BY <1>2, <2>6, Numbers
  <2>16. run.status = "WAITING_USER" /\ run.queued => Job(t) \in replied
    BY <1>2, <2>7, KnowingRun
  <2>17. Orderly(t, k, Job(t), run, tasks1)
    BY <1>1, <1>2, <2>3, <2>7 DEF Orderly, DriveInOrder
  <2>18. Kept(t, k, Job(t), run, tasks1)
    BY <1>1, <1>2, <2>2, <2>3, <2>7 DEF Kept, Keeps
  <2>. HIDE DEF Becomes
  <2>. QED  BY <1>2, <2>2, <2>4, <2>6, <2>8, <2>9, <2>11, <2>12, <2>13, <2>14, <2>15, <2>16, <2>17,
               <2>18, ThreadStep
<1>. QED  BY <1>3, <1>4

\* A run that may be picked up, and that nobody has replied to, has nobody to drive it.
LEMMA RunnableAbandoned ==
    ASSUME FederatedInductive, NEW r \in Runs, Runnable(row[r]), r \notin replied
    PROVE  Abandoned(r)
<1>. SUFFICES ASSUME NEW u \in Workers, Drives(worker[u]), Job(u) = r PROVE FALSE
  BY DEF Abandoned
<1>1. \/ row[r].status \in Active \cup {"CANCELLED", "COMPLETED"}
      \/ row[r].status = "WAITING_USER"
  BY Knowing DEF DriveInOrder
<1>2. row[r].status = "WAITING_USER" => ~row[r].queued
  BY KnowingRun
<1>. QED  BY <1>1, <1>2 DEF Runnable, Active

\* A thread claims a run: the row has a new status, and the thread drives it or is done with it.
LEMMA ClaimedStep ==
    ASSUME FederatedInductive, NEW t \in Workers, worker[t].pc = "idle",
           NEW r \in Runs, Runnable(row[r]), NEW run1 \in Row, NEW k \in Worker, Becomes(t, k),
           row' = [row EXCEPT ![r] = run1],
           UNCHANGED <<plan, task, replied, memory, announced, governance, late, joined, events>>,
           run1.revision > row[r].revision, row[r].cancel => run1.cancel,
           run1.status \in {"DISCOVERING", "CANCELLED"},
           ThreadSound(k), KnowsSources(k, version), k.run \in {r, NoRun},
           ~Planned(k), ~InLoop(k), ~Merging(k), k.pc \notin {"cancel", "skip", "answer", "finish"},
           Holds(k) => k.snap = run1, Asks(k) => (k.heard <=> r \in replied),
           run1.status = "DISCOVERING" => k.run = r /\ Keeps(k, run1)
    PROVE  FederatedInductive'
<1>1. /\ worker[t] = Idle /\ row[r] \in Row /\ plan[r] \in PlanKind \cup {"none"}
      /\ task[r] \in [Tasks -> SourceTask] /\ ~Drives(worker[t])
      /\ RunSound(row[r], plan[r], task[r], joined[r])
      /\ \A i \in Tasks : task[r][i].version <= version[i]
  BY Knowing, KnowingRun DEF ThreadSound, Drives
<1>2. Present(run1) /\ run1.status \notin {"COMPLETED", "WAITING_USER"} /\ run1.revision \in Nat
  BY Numbers DEF Present
<1>3. Evolves(row[r], plan[r], task[r], run1, plan[r], task[r])
  BY <1>2 DEF Evolves
<1>4. k.run = r => HoldsCopies(k, run1, plan[r], task[r])
  BY <1>2 DEF HoldsCopies
<1>5. Asks(k) /\ ~k.heard /\ k.snap.revision = run1.revision => r \notin replied
  OBVIOUS
<1>6. RunSound(run1, plan[r], task[r], joined[r])
  BY <1>1, <1>2, UnfinishedSound
<1>7. Orderly(t, k, r, run1, task[r])
  BY RunnableAbandoned DEF Orderly, DriveInOrder, Active
<1>8. Kept(t, k, r, run1, task[r])
  BY DEF Kept, Active
<1>9. PICK kind, tasks, bound : kind = plan[r] /\ tasks = task[r] /\ bound = joined[r]
  OBVIOUS
<1>10. /\ plan' = [plan EXCEPT ![r] = kind] /\ task' = [task EXCEPT ![r] = tasks]
       /\ joined' = [joined EXCEPT ![r] = bound] /\ bound \in Versions
       /\ version' = version /\ replied' = replied /\ confirming' = confirming
       /\ mapping' \in JoinMapping /\ memory' \in Runs \cup {NoRun} /\ announced' \subseteq Runs
       /\ late' \subseteq Runs /\ events' \in Nat
  BY <1>9 DEF FederatedInductive, FederatedTypeOK
<1>11. /\ kind \in PlanKind \cup {"none"} /\ tasks \in [Tasks -> SourceTask]
       /\ Evolves(row[r], plan[r], task[r], run1, kind, tasks)
       /\ k.run = r => HoldsCopies(k, run1, kind, tasks)
       /\ RunSound(run1, kind, tasks, bound)
       /\ \A i \in Tasks : tasks[i].version <= version[i]
       /\ Orderly(t, k, r, run1, tasks) /\ Kept(t, k, r, run1, tasks)
       /\ ~Drives(worker[t]) /\ run1.status # "WAITING_USER"
  BY <1>1, <1>2, <1>3, <1>4, <1>6, <1>7, <1>8, <1>9
<1>. HIDE DEF Becomes
<1>. QED  BY <1>5, <1>10, <1>11, ThreadStep

\* The row of a run that is claimed.
LEMMA ClaimedRow ==
    ASSUME NEW held \in Row, NEW claimed,
           claimed = [Transition(held, "CONTEXTUALIZING") EXCEPT !.retryable = FALSE]
    PROVE  claimed \in Row /\ claimed.cancel = held.cancel /\ claimed.revision = held.revision
<1>1. PICK moved : moved = Transition(held, "CONTEXTUALIZING")
  OBVIOUS
<1>2. moved \in Row /\ moved.cancel = held.cancel /\ moved.revision = held.revision
  BY <1>1, Moving DEF RunStatus, Active
<1>. QED  BY ZenonT(60), <1>1, <1>2 DEF Row

\* A thread picks up a run that is new, or that a reply or a retry has queued.
LEMMA ClaimStep ==
    ASSUME FederatedInductive, NEW t \in Workers, Claim(t) PROVE FederatedInductive'
<1>0. PICK r \in Runs : \E claimed :
        /\ Runnable(row[r])
        /\ claimed = [Transition(row[r], "CONTEXTUALIZING") EXCEPT !.retryable = FALSE]
        /\ \/ /\ row[r].cancel
              /\ row' = [row EXCEPT ![r] = Saved(Saved([claimed EXCEPT !.status = "CANCELLED"]))]
              /\ UNCHANGED worker
           \/ /\ ~row[r].cancel
              /\ row' = [row EXCEPT ![r] =
                            Saved(Saved(Saved([claimed EXCEPT !.status = "DISCOVERING"])))]
              /\ \/ Becomes(t, [Idle EXCEPT !.pc = "route", !.run = r,
                            !.snap = Saved(Saved(Saved([claimed EXCEPT !.status = "DISCOVERING"]))),
                            !.heard = (r \in replied)])
                 \/ \E fault \in Fault : Becomes(t, Raised(r, fault))
  BY DEF Claim
<1>1. PICK claimed :
        /\ Runnable(row[r])
        /\ claimed = [Transition(row[r], "CONTEXTUALIZING") EXCEPT !.retryable = FALSE]
        /\ \/ /\ row[r].cancel
              /\ row' = [row EXCEPT ![r] = Saved(Saved([claimed EXCEPT !.status = "CANCELLED"]))]
              /\ UNCHANGED worker
           \/ /\ ~row[r].cancel
              /\ row' = [row EXCEPT ![r] =
                            Saved(Saved(Saved([claimed EXCEPT !.status = "DISCOVERING"])))]
              /\ \/ Becomes(t, [Idle EXCEPT !.pc = "route", !.run = r,
                            !.snap = Saved(Saved(Saved([claimed EXCEPT !.status = "DISCOVERING"]))),
                            !.heard = (r \in replied)])
                 \/ \E fault \in Fault : Becomes(t, Raised(r, fault))
  BY <1>0
<1>2. /\ worker[t].pc = "idle" /\ row[r] \in Row /\ row[r].revision \in Nat
      /\ UNCHANGED <<plan, task, replied, memory, announced, governance, late, joined, events>>
      /\ worker[t] = Idle
  BY KnowingRun, Knowing, Numbers DEF Claim, ThreadSound
<1>5. claimed = [Transition(row[r], "CONTEXTUALIZING") EXCEPT !.retryable = FALSE]
  BY <1>1
<1>7. claimed \in Row /\ claimed.cancel = row[r].cancel /\ claimed.revision = row[r].revision
  BY <1>2, <1>5, ClaimedRow
<1>6. "CANCELLED" \in RunStatus /\ "DISCOVERING" \in RunStatus
  BY DEF RunStatus, Active, Terminal, Settled
<1>3. CASE /\ row[r].cancel
           /\ row' = [row EXCEPT ![r] = Saved(Saved([claimed EXCEPT !.status = "CANCELLED"]))]
           /\ UNCHANGED worker
  <2>1. PICK run : run = [claimed EXCEPT !.status = "CANCELLED"]
    OBVIOUS
  <2>2. /\ run \in Row /\ run.status = "CANCELLED" /\ run.cancel = row[r].cancel
        /\ run.revision = row[r].revision
    BY <1>6, <1>7, <2>1 DEF Row
  <2>3. PICK run1 : run1 = Saved(Saved(run))
    OBVIOUS
  <2>4. Saved(run) \in Row /\ Saved(run).revision = row[r].revision + 1
        /\ Saved(run).status = "CANCELLED" /\ Saved(run).cancel = row[r].cancel
    BY <2>2, Saving
  <2>5. /\ run1 \in Row /\ run1.status = "CANCELLED" /\ run1.cancel = row[r].cancel
        /\ run1.revision = row[r].revision + 1 + 1
    BY <2>3, <2>4, Saving
  <2>6. run1.revision > row[r].revision
    BY <1>2, <2>5
  <2>7. row' = [row EXCEPT ![r] = run1]
    BY <1>3, <2>1, <2>3
  <2>8. PICK k : k = Idle
    OBVIOUS
  <2>9. /\ k.pc = "idle" /\ ~Drives(k) /\ ~Asks(k) /\ k.run = NoRun /\ k \in Worker
        /\ ThreadSound(k) /\ KnowsSources(k, version)
    BY <2>8, IdleSound
  <2>10. ~Holds(k) /\ ~InLoop(k) /\ ~Planned(k) /\ ~Merging(k)
    BY <2>9, Classes DEF Holds
  <2>11. Becomes(t, k)
    BY <1>2, <1>3, <2>8 DEF FederatedInductive, FederatedTypeOK
  <2>. HIDE DEF Becomes
  <2>. QED  BY <1>1, <1>2, <2>5, <2>6, <2>7, <2>9, <2>10, <2>11, ClaimedStep
<1>4. ASSUME ~row[r].cancel,
             row' = [row EXCEPT ![r] = Saved(Saved(Saved([claimed EXCEPT !.status = "DISCOVERING"])))],
             \/ Becomes(t, [Idle EXCEPT !.pc = "route", !.run = r,
                            !.snap = Saved(Saved(Saved([claimed EXCEPT !.status = "DISCOVERING"]))),
                            !.heard = (r \in replied)])
             \/ \E fault \in Fault : Becomes(t, Raised(r, fault))
      PROVE  FederatedInductive'
  <2>1. PICK run : run = [claimed EXCEPT !.status = "DISCOVERING"]
    OBVIOUS
  <2>2. /\ run \in Row /\ run.status = "DISCOVERING" /\ run.cancel = row[r].cancel
        /\ run.revision = row[r].revision
    BY <1>6, <1>7, <2>1 DEF Row
  <2>3. PICK once, twice, run1 : once = Saved(run) /\ twice = Saved(once) /\ run1 = Saved(twice)
    OBVIOUS
  <2>4. once \in Row /\ once.revision = row[r].revision + 1 /\ once.status = "DISCOVERING"
    BY <2>2, <2>3, Saving
  <2>5. twice \in Row /\ twice.revision = row[r].revision + 1 + 1 /\ twice.status = "DISCOVERING"
    BY <2>3, <2>4, Saving
  <2>6. /\ run1 \in Row /\ run1.status = "DISCOVERING"
        /\ run1.revision = row[r].revision + 1 + 1 + 1
    BY <2>3, <2>5, Saving
  <2>7. run1.revision > row[r].revision /\ (row[r].cancel => run1.cancel)
    BY <1>2, <1>4, <2>6
  <2>8. row' = [row EXCEPT ![r] = run1]
    BY <1>4, <2>1, <2>3
  <2>9. CASE Becomes(t, [Idle EXCEPT !.pc = "route", !.run = r, !.snap = run1,
                                     !.heard = (r \in replied)])
    <3>1. PICK heard \in BOOLEAN : heard <=> r \in replied
      OBVIOUS
    <3>2. PICK k : k = [Idle EXCEPT !.pc = "route", !.run = r, !.snap = run1, !.heard = heard]
      OBVIOUS
    <3>3. Becomes(t, k)
      BY <2>9, <3>1, <3>2
    <3>4. /\ k \in Worker /\ k.pc = "route" /\ k.run = r /\ k.snap = run1 /\ k.heard = heard
          /\ k.place = Idle.place /\ k.repairing = Idle.repairing
      BY ZenonT(60), <2>6, <3>2, Nothings DEF Worker, PC
    <3>5. k.place = 0 /\ ~k.repairing
      BY <3>4 DEF Idle
    <3>6. /\ ~OnTask(k) /\ ~Executes(k) /\ ~InLoop(k) /\ ~Merging(k) /\ ~Governed(k) /\ Holds(k)
          /\ Drives(k) /\ ~Planned(k)
      BY <3>4, <3>5 DEF OnTask, Executes, InLoop, Merging, Governed, Holds, Drives, Planned
    <3>7. ThreadSound(k) /\ KnowsSources(k, version) /\ Keeps(k, run1)
      BY <3>4, <3>5, <3>6, Numbers DEF ThreadSound, KnowsSources, Keeps
    <3>. HIDE DEF Becomes
    <3>. QED  BY ZenonT(60), <1>1, <1>2, <2>6, <2>7, <2>8, <3>1, <3>3, <3>4, <3>6, <3>7,
                 ClaimedStep, ZenonT(60)
  <2>10. ASSUME NEW fault \in Fault, Becomes(t, Raised(r, fault)) PROVE FederatedInductive'
    <3>1. PICK k : k = Raised(r, fault)
      OBVIOUS
    <3>2. k \in Worker /\ k.pc = "except" /\ k.run = r /\ ~k.repairing
      BY <3>1, RaisedRecord
    <3>3. /\ ThreadSound(k) /\ KnowsSources(k, version) /\ ~Holds(k) /\ ~Asks(k) /\ ~InLoop(k)
          /\ ~Planned(k) /\ ~Merging(k) /\ Keeps(k, run1)
      BY <3>2, Handled
    <3>4. Becomes(t, k)
      BY <2>10, <3>1
    <3>. HIDE DEF Becomes
    <3>. QED  BY <1>1, <1>2, <2>6, <2>7, <2>8, <3>2, <3>3, <3>4, ClaimedStep
  <2>. QED  BY <1>4, <2>1, <2>3, <2>9, <2>10
<1>. QED  BY <1>1, <1>3, <1>4

-----------------------------------------------------------------------------
(* Clients, time, sources and keepers *)

\* A thread that drives nothing has no copies.
LEMMA NoCopies ==
    ASSUME NEW w, ThreadSound(w), ~Drives(w), NEW run, NEW kind, NEW tasks
    PROVE  HoldsCopies(w, run, kind, tasks)
<1>1. ~Holds(w) /\ ~InLoop(w) /\ ~Planned(w) /\ ~Merging(w)
  BY Classes
<1>2. w.pc \notin {"cancel", "skip", "answer", "finish"}
  BY <1>1 DEF Holds
<1>. QED  BY <1>1, <1>2 DEF HoldsCopies

\* A client saves the row of a run, in which nobody's drive is lost.
LEMMA ClientStep ==
    ASSUME FederatedInductive, NEW r \in Runs, NEW run1 \in Row, row' = [row EXCEPT ![r] = run1],
           UNCHANGED <<plan, task, memory, announced, governance, late, worker, joined>>,
           replied' \in {replied, replied \cup {r}}, events' \in Nat,
           run1.revision > row[r].revision \/ ~Present(row[r]),
           Present(run1), Present(row[r]) /\ row[r].cancel => run1.cancel, run1.status # "COMPLETED",
           run1.status \in Active => run1.cancel,
           run1.status = "WAITING_USER" /\ run1.queued => r \in replied',
           Present(row[r]) /\ r \notin replied' => run1.status \in {"CANCELLED", row[r].status}
    PROVE  FederatedInductive'
<1>1. /\ row \in [Runs -> Row] /\ row'[r] = run1 /\ \A q \in Runs : q # r => row'[q] = row[q]
      /\ replied \subseteq replied' /\ \A q : q # r /\ q \in replied' => q \in replied
  BY DEF FederatedInductive, FederatedTypeOK
<1>2. FederatedTypeOK'
  BY DEF FederatedInductive, FederatedTypeOK
<1>3. ThreadsSound' /\ ConfirmsOpen'
  BY DEF FederatedInductive, ThreadsSound, ConfirmsOpen
<1>4. ASSUME NEW u \in Workers, Job(u) = r, Drives(worker[u])
      PROVE  /\ Present(row[r]) /\ run1.revision > row[r].revision
             /\ Holds(worker[u]) => Snap(u).revision <= row[r].revision
             /\ Snap(u).revision \in Nat /\ row[r].revision \in Nat /\ run1.revision \in Nat
  <2>1. Present(row[r]) /\ (Holds(worker[u]) => Snap(u).revision <= row[r].revision)
    BY <1>4, Knowing DEF HoldsCopies
  <2>2. worker[u] \in Worker
    BY Knowing
  <2>. QED  BY <1>1, <2>1, <2>2, Numbers DEF Worker
<1>5. CopiesHold'
  <2>. SUFFICES ASSUME NEW u \in Workers, Job(u) \in Runs
                PROVE  HoldsCopies(worker[u], row'[Job(u)], plan[Job(u)], task[Job(u)])
    BY DEF CopiesHold
  <2>1. HoldsCopies(worker[u], row[Job(u)], plan[Job(u)], task[Job(u)]) /\ ThreadSound(worker[u])
    BY Knowing
  <2>2. CASE Job(u) # r
    BY <1>1, <2>1, <2>2
  <2>3. CASE Job(u) = r /\ ~Drives(worker[u])
    BY <2>1, <2>3, NoCopies
  <2>4. CASE Job(u) = r /\ Drives(worker[u])
    <3>1. Holds(worker[u]) => /\ Snap(u).revision <= run1.revision
                              /\ Snap(u).revision = run1.revision => Snap(u) = run1
      BY <1>4, <2>4
    <3>. QED  BY <1>1, <2>1, <2>4, <3>1 DEF HoldsCopies
  <2>. QED  BY <2>2, <2>3, <2>4
<1>6. RunsSound'
  <2>1. RunSound(run1, plan[r], task[r], joined[r])
    BY KnowingRun, UnfinishedSound
  <2>. QED  BY <1>1, <2>1 DEF FederatedInductive, RunsSound
<1>7. RepliesAreKnown'
  <2>1. \A q \in Runs : row'[q].status = "WAITING_USER" /\ row'[q].queued => q \in replied'
    BY <1>1 DEF FederatedInductive, RepliesAreKnown
  <2>2. ASSUME NEW u \in Workers, Asks(worker[u]), ~worker[u].heard,
               Snap(u).revision = row'[Job(u)].revision
        PROVE  Job(u) \notin replied'
    <3>1. Job(u) \in Runs /\ Holds(worker[u]) /\ Drives(worker[u])
      BY <2>2, Knowing, Classes
    <3>2. Job(u) # r
      BY <1>1, <1>4, <2>2, <3>1
    <3>. QED  BY <1>1, <2>2, <3>1, <3>2, Knowing
  <2>. QED  BY <2>1, <2>2 DEF RepliesAreKnown
<1>8. DrivesInOrder'
  <2>. SUFFICES ASSUME NEW u \in Workers, Drives(worker[u]), Job(u) \notin replied'
                PROVE  DriveInOrder(worker[u], row'[Job(u)], task[Job(u)])
    BY DEF DrivesInOrder
  <2>1. Job(u) \in Runs /\ DriveInOrder(worker[u], row[Job(u)], task[Job(u)])
    BY <1>1, Knowing, Classes
  <2>2. CASE Job(u) # r
    BY <1>1, <2>1, <2>2
  <2>3. CASE Job(u) = r
    <3>1. run1.status \in {"CANCELLED", row[r].status}
      BY <1>4, <2>3
    <3>. QED  BY <1>1, <2>1, <2>3, <3>1 DEF DriveInOrder
  <2>. QED  BY <2>2, <2>3
<1>9. OneDrive'
  BY <1>1 DEF FederatedInductive, OneDrive
<1>10. RunsKept'
  <2>. SUFFICES ASSUME NEW q \in Runs, row'[q].status \in Active, ~row'[q].cancel
                PROVE  \/ \E u \in Workers : Job(u) = q /\ Keeps(worker[u], row'[q])
                       \/ Waits(task[q]) /\ Abandoned(q)
    BY DEF RunsKept, Unasked, Abandoned, Waits
  <2>1. q # r
    BY <1>1
  <2>. QED  BY <1>1, <2>1 DEF FederatedInductive, RunsKept, Unasked, Waits
<1>. QED  BY <1>2, <1>3, <1>5, <1>6, <1>7, <1>8, <1>9, <1>10 DEF FederatedInductive

\* A step that leaves runs and threads alone: sources only get newer versions.
LEMMA StillStep ==
    ASSUME FederatedInductive, UNCHANGED <<row, plan, task, replied, memory, announced, worker, joined>>,
           mapping' \in JoinMapping, confirming' \in JoinMapping, version' \in Versions,
           \A i \in Tasks : version[i] <= version'[i],
           late' \subseteq Runs, events' \in Nat, ConfirmsOpen'
    PROVE  FederatedInductive'
<1>1. FederatedTypeOK'
  BY DEF FederatedInductive, FederatedTypeOK
<1>2. version \in Versions
  BY DEF FederatedInductive, FederatedTypeOK
<1>3. ThreadsSound'
  <2>. SUFFICES ASSUME NEW u \in Workers
                PROVE  ThreadSound(worker[u]) /\ KnowsSources(worker[u], version')
    BY DEF ThreadsSound
  <2>1. worker[u] \in Worker /\ ThreadSound(worker[u]) /\ KnowsSources(worker[u], version)
    BY Knowing
  <2>2. ASSUME worker[u].pc \in {"totals", "complete"}
        PROVE  worker[u].found.version <= version'[worker[u].place]
    <3>1. worker[u].place \in Tasks /\ worker[u].found \in SourceTask
      BY <2>1, <2>2 DEF ThreadSound, OnTask, Executes, Worker
    <3>2. /\ worker[u].found.version \in Nat /\ version[worker[u].place] \in Nat
          /\ version'[worker[u].place] \in Nat
      BY <1>2, <3>1, Numbers
    <3>. QED  BY <2>1, <2>2, <3>1, <3>2 DEF KnowsSources
  <2>. QED  BY <2>1, <2>2 DEF KnowsSources
<1>4. RunsSound'
  <2>. SUFFICES ASSUME NEW q \in Runs, NEW i \in Tasks PROVE task[q][i].version <= version'[i]
    BY DEF FederatedInductive, RunsSound
  <2>1. task[q][i] \in SourceTask /\ task[q][i].version <= version[i]
    BY KnowingRun
  <2>. QED  BY <1>2, <2>1, Numbers
<1>5. CopiesHold' /\ RepliesAreKnown' /\ DrivesInOrder' /\ OneDrive'
  BY DEF FederatedInductive, CopiesHold, RepliesAreKnown, DrivesInOrder, OneDrive
<1>6. RunsKept'
  BY DEF FederatedInductive, RunsKept, Unasked, Abandoned
<1>. QED  BY <1>1, <1>3, <1>4, <1>5, <1>6 DEF FederatedInductive

\* A client creates a run, asks to cancel it, replies to its question, tries it again, or its
\* deadline passes.
LEMMA ClientsStep ==
    ASSUME FederatedInductive, NEW r \in Runs, Client(r) PROVE FederatedInductive'
<1>1. /\ row[r] \in Row /\ row[r].revision \in Nat /\ events \in Nat
      /\ row \in [Runs -> Row] /\ late \subseteq Runs /\ version \in Versions
      /\ mapping \in JoinMapping /\ confirming \in JoinMapping
  BY KnowingRun, Numbers DEF FederatedInductive, FederatedTypeOK
<1>2. CASE Create(r)
  <2>1. PICK run1 : run1 = NewRow
    OBVIOUS
  <2>2. run1 \in Row /\ run1.status = "CREATED"
    BY <2>1, Nothings DEF NewRow, Row, RunStatus
  <2>3. /\ row' = [row EXCEPT ![r] = run1] /\ replied' = replied /\ ~Present(row[r])
        /\ UNCHANGED <<plan, task, memory, announced, governance, late, worker, joined>>
        /\ events' \in Nat
    BY <1>1, <1>2, <2>1 DEF Create
  <2>4. Present(run1) /\ run1.status \notin Active
    BY <2>2 DEF Present, Active
  <2>. QED  BY <2>2, <2>3, <2>4, ClientStep
<1>3. CASE Cancel(r)
  <2>1. /\ Present(row[r]) /\ replied' = replied /\ events' \in Nat
        /\ UNCHANGED <<plan, task, memory, announced, governance, late, worker, joined>>
    BY <1>1, <1>3 DEF Cancel, Happens
  <2>2. PICK run : /\ run \in {Transition(row[r], "CANCELLED"), [row[r] EXCEPT !.cancel = TRUE]}
                   /\ row' = [row EXCEPT ![r] = Saved(run)]
                   /\ run = [row[r] EXCEPT !.cancel = TRUE] => row[r].status \notin Terminal
    <3>1. CASE row[r].status = "WAITING_USER" /\ row' = [row EXCEPT ![r] = Saved(Transition(@, "CANCELLED"))]
      <4>1. Transition(row[r], "CANCELLED").status = "CANCELLED"
        BY <1>1, Moving DEF RunStatus, Terminal, Settled
      <4>2. [row[r] EXCEPT !.cancel = TRUE].status = row[r].status
        BY <1>1 DEF Row
      <4>. QED  BY <1>1, <3>1, <4>1, <4>2
    <3>2. CASE row[r].status \notin Terminal /\ row' = [row EXCEPT ![r] = Saved([@ EXCEPT !.cancel = TRUE])]
      BY <1>1, <3>2
    <3>. QED  BY <1>3, <3>1, <3>2 DEF Cancel
  <2>3. /\ run \in Row /\ run.revision = row[r].revision
        /\ \/ run.status = "CANCELLED" /\ ~run.queued /\ run.cancel = row[r].cancel
           \/ run.status = row[r].status /\ run.cancel /\ row[r].status \notin Terminal
    <3>1. CASE run = Transition(row[r], "CANCELLED")
      BY <1>1, <3>1, Moving DEF RunStatus, Terminal, Settled
    <3>2. CASE run = [row[r] EXCEPT !.cancel = TRUE]
      BY <1>1, <2>2, <3>2 DEF Row
    <3>. QED  BY <2>2, <3>1, <3>2
  <2>4. PICK run1 : run1 = Saved(run)
    OBVIOUS
  <2>5. /\ run1 \in Row /\ run1.revision = row[r].revision + 1 /\ run1.status = run.status
        /\ run1.cancel = run.cancel /\ run1.queued = run.queued
    BY <2>3, <2>4, Saving
  <2>6. /\ Present(run1) /\ run1.status # "COMPLETED" /\ (row[r].cancel => run1.cancel)
        /\ run1.status \in Active => run1.cancel
        /\ run1.status # "WAITING_USER"
        /\ run1.status \in {"CANCELLED", row[r].status}
    BY <2>1, <2>3, <2>5 DEF Present, Active, Terminal, Settled
  <2>7. run1.revision > row[r].revision
    BY <1>1, <2>5
  <2>8. row' = [row EXCEPT ![r] = run1]
    BY <2>2, <2>4
  <2>. QED  BY <2>1, <2>5, <2>6, <2>7, <2>8, ClientStep
<1>4. CASE Clarify(r) \/ Retry(r)
  <2>1. /\ row[r].status \in {"WAITING_USER", "FAILED"} /\ events' \in Nat
        /\ UNCHANGED <<plan, task, memory, announced, governance, late, worker, joined>>
        /\ replied' \in {replied, replied \cup {r}}
        /\ row[r].status = "WAITING_USER" => r \in replied'
        /\ row' = [row EXCEPT ![r] = Saved([@ EXCEPT !.queued = TRUE])]
    BY <1>1, <1>4 DEF Clarify, Retry, Happens
  <2>2. PICK run : run = [row[r] EXCEPT !.queued = TRUE]
    OBVIOUS
  <2>3. /\ run \in Row /\ run.revision = row[r].revision /\ run.status = row[r].status
        /\ run.cancel = row[r].cancel
    BY <1>1, <2>2 DEF Row
  <2>4. PICK run1 : run1 = Saved(run)
    OBVIOUS
  <2>5. /\ run1 \in Row /\ run1.revision = row[r].revision + 1 /\ run1.status = row[r].status
        /\ run1.cancel = row[r].cancel
    BY <2>3, <2>4, Saving
  <2>6. Present(run1) /\ run1.status \notin Active /\ run1.status # "COMPLETED"
    BY <2>1, <2>5 DEF Present, Active
  <2>7. run1.revision > row[r].revision
    BY <1>1, <2>5
  <2>8. row' = [row EXCEPT ![r] = run1]
    BY <1>1, <2>1, <2>2, <2>4
  <2>. QED  BY <2>1, <2>5, <2>6, <2>7, <2>8, ClientStep
<1>5. CASE Expire(r)
  <2>1. /\ UNCHANGED <<store, governance, worker, joined>> /\ late' \subseteq Runs /\ events' \in Nat
    BY <1>1, <1>5 DEF Expire, Happens
  <2>2. ConfirmsOpen'
    BY <2>1 DEF FederatedInductive, ConfirmsOpen
  <2>3. \A i \in Tasks : version[i] <= version'[i]
    BY <1>1, <2>1, Numbers
  <2>. QED  BY <1>1, <2>1, <2>2, <2>3, StillStep
<1>. QED  BY <1>2, <1>3, <1>4, <1>5 DEF Client

\* A source is scanned again, and has a newer version.
LEMMA RescanStep ==
    ASSUME FederatedInductive, NEW i \in Tasks, Rescan(i) PROVE FederatedInductive'
<1>1. /\ events \in Nat /\ late \subseteq Runs /\ version \in Versions
      /\ mapping \in JoinMapping /\ confirming \in JoinMapping
  BY DEF FederatedInductive, FederatedTypeOK
<1>2. /\ UNCHANGED <<store, mapping, confirming, late, worker, joined>> /\ events' \in Nat
      /\ version' = [version EXCEPT ![i] = @ + 1] /\ version[i] < MaxVersion
  BY <1>1 DEF Rescan, Happens
<1>3. version[i] + 1 \in 0..MaxVersion
  BY <1>1, <1>2, Numbers
<1>4. version' \in Versions
  BY <1>1, <1>2, <1>3 DEF Versions
<1>5. \A j \in Tasks : version[j] <= version'[j]
  BY <1>1, <1>2, Numbers DEF Versions
<1>6. ConfirmsOpen'
  BY <1>2 DEF FederatedInductive, ConfirmsOpen
<1>. QED  BY <1>1, <1>2, <1>4, <1>5, <1>6, StillStep

\* The keepers propose, confirm, doubt and reject the mapping.
LEMMA KeeperStep ==
    ASSUME FederatedInductive, Keeper PROVE FederatedInductive'
<1>1. /\ events \in Nat /\ late \subseteq Runs /\ version \in Versions
      /\ mapping \in JoinMapping /\ confirming \in JoinMapping /\ ConfirmsOpen
  BY DEF FederatedInductive, FederatedTypeOK
<1>2. UNCHANGED <<store, version, late, worker, joined, events>>
  BY DEF Keeper, Propose, BeginConfirm, SaveConfirm, FoundStale, Reject
<1>3. \A i \in Tasks : version[i] <= version'[i]
  BY <1>1, <1>2, Numbers
<1>4. mapping' \in JoinMapping /\ confirming' \in JoinMapping /\ ConfirmsOpen'
  <2>1. CASE Propose
    BY <1>1, <2>1, Nothings DEF Propose, ConfirmsOpen, JoinMapping
  <2>2. CASE BeginConfirm
    <3>1. confirming' = [mapping EXCEPT !.bound = version] /\ mapping' = mapping
          /\ mapping.status \in {"CANDIDATE", "STALE"}
      BY <2>2 DEF BeginConfirm
    <3>2. confirming' \in JoinMapping /\ confirming'.status = mapping.status
      BY <1>1, <3>1 DEF JoinMapping
    <3>. QED  BY <1>1, <3>1, <3>2 DEF ConfirmsOpen
  <2>3. CASE SaveConfirm
    <3>1. PICK read : /\ read = [i \in Tasks |-> IF i = 1 THEN confirming.bound[i] ELSE version[i]]
                      /\ mapping' \in {mapping, [status |-> "CONFIRMED", bound |-> read]}
                      /\ confirming' = NoMapping
      BY <2>3 DEF SaveConfirm
    <3>2. read \in Versions
      BY <1>1, <3>1 DEF Versions, JoinMapping
    <3>3. [status |-> "CONFIRMED", bound |-> read] \in JoinMapping
      BY <3>2 DEF JoinMapping
    <3>. QED  BY <1>1, <3>1, <3>3, Nothings DEF ConfirmsOpen
  <2>4. CASE FoundStale
    BY <1>1, <2>4 DEF FoundStale, ConfirmsOpen, JoinMapping
  <2>5. CASE Reject
    BY <1>1, <2>5 DEF Reject, ConfirmsOpen, JoinMapping
  <2>. QED  BY <2>1, <2>2, <2>3, <2>4, <2>5 DEF Keeper
<1>. QED  BY <1>1, <1>2, <1>3, <1>4, StillStep

-----------------------------------------------------------------------------
(* Crash and restart *)

\* A recovered task is as new as before, and an answered one is as it was.
LEMMA Recovery ==
    ASSUME NEW held \in SourceTask
    PROVE  /\ Recovered(held) \in SourceTask /\ Recovered(held).version = held.version
           /\ held.status \in {"COMPLETED", "ABSENT"} => Recovered(held) = held
<1>1. PICK failed : failed = [held EXCEPT !.status = "FAILED"]
  OBVIOUS
<1>2. failed \in SourceTask /\ failed.version = held.version
  BY <1>1, Restated DEF SourceTaskStatus
<1>3. PICK again : again = [failed EXCEPT !.retryable = TRUE]
  OBVIOUS
<1>4. again \in SourceTask /\ again.version = held.version
  BY <1>2, <1>3 DEF SourceTask
<1>5. PICK saved : saved = [again EXCEPT !.revision = @ + 1]
  OBVIOUS
<1>6. saved \in SourceTask /\ saved.version = held.version
  BY <1>4, <1>5 DEF SourceTask
<1>7. held.status = "RUNNING" => Recovered(held) = saved
  BY <1>1, <1>3, <1>5 DEF Recovered
<1>8. held.status # "RUNNING" => Recovered(held) = held
  BY DEF Recovered
<1>. QED  BY <1>6, <1>7, <1>8

\* An interrupted run failed, and every other run is as it was.
LEMMA Interruption ==
    ASSUME NEW held \in Row
    PROVE  /\ Interrupted(held) \in Row /\ Interrupted(held).status \notin Active
           /\ Interrupted(held).status \in {"COMPLETED", "WAITING_USER"} => Interrupted(held) = held
<1>1. CASE held.status \in Active
  <2>1. PICK run : run = [Transition(held, "FAILED") EXCEPT !.retryable = TRUE]
    OBVIOUS
  <2>2. PICK moved : moved = Transition(held, "FAILED")
    OBVIOUS
  <2>3. moved \in Row /\ moved.status = "FAILED"
    BY <2>2, Moving DEF RunStatus, Terminal, Settled
  <2>4. run \in Row /\ run.status = "FAILED"
    BY <2>1, <2>2, <2>3 DEF Row
  <2>5. Interrupted(held) = Saved(run)
    BY <1>1, <2>1 DEF Interrupted
  <2>. QED  BY <2>4, <2>5, Saving DEF Active
<1>2. CASE held.status \notin Active
  BY <1>2 DEF Interrupted
<1>. QED  BY <1>1, <1>2

\* The constructor of the next process repairs what the last one left.
LEMMA RestartStep ==
    ASSUME FederatedInductive, Restart PROVE FederatedInductive'
<1>1. /\ \A t \in Workers : worker'[t] = Idle
      /\ \A r \in Runs : row'[r] = Interrupted(row[r])
      /\ \A r \in Runs, i \in Tasks : task'[r][i] = Recovered(task[r][i])
      /\ UNCHANGED <<plan, replied, mapping, version, late, joined>> /\ confirming' = NoMapping
  BY DEF Restart
<1>2. \A r \in Runs : task'[r] \in [Tasks -> SourceTask] /\ row'[r] \in Row
  <2>. SUFFICES ASSUME NEW r \in Runs PROVE task'[r] \in [Tasks -> SourceTask] /\ row'[r] \in Row
    OBVIOUS
  <2>1. task'[r] = [i \in Tasks |-> Recovered(task[r][i])]
    BY DEF Restart
  <2>2. \A i \in Tasks : Recovered(task[r][i]) \in SourceTask
    BY KnowingRun, Recovery
  <2>3. row'[r] \in Row
    BY <1>1, KnowingRun, Interruption
  <2>. QED  BY <2>1, <2>2, <2>3
<1>3. FederatedTypeOK'
  <2>1. IncompleteCompletions \subseteq Runs
    BY DEF IncompleteCompletions
  <2>2. memory' \in Runs \cup {NoRun} /\ announced' \subseteq Runs /\ events' \in Nat
    BY <2>1 DEF Restart, Happens, FederatedInductive, FederatedTypeOK
  <2>3. /\ row' = [r \in Runs |-> row'[r]] /\ task' = [r \in Runs |-> task'[r]]
        /\ worker' = [t \in Workers |-> Idle]
    BY <1>1 DEF Restart
  <2>4. row' \in [Runs -> Row] /\ task' \in [Runs -> [Tasks -> SourceTask]] /\ worker' \in [Workers -> Worker]
    BY <1>2, <2>3, IdleSound
  <2>. QED  BY <1>1, <2>2, <2>4, Nothings DEF FederatedInductive, FederatedTypeOK
<1>4. ThreadsSound' /\ ConfirmsOpen'
  BY <1>1, IdleSound DEF ThreadsSound, ConfirmsOpen
<1>5. CopiesHold'
  BY <1>1, IdleSound, Nothings DEF CopiesHold
<1>6. RunsSound'
  <2>. SUFFICES ASSUME NEW r \in Runs
                PROVE  /\ RunSound(row'[r], plan[r], task'[r], joined[r])
                       /\ \A i \in Tasks : task'[r][i].version <= version[i]
    BY <1>1 DEF RunsSound
  <2>1. /\ row[r] \in Row /\ task[r] \in [Tasks -> SourceTask]
        /\ RunSound(row[r], plan[r], task[r], joined[r])
        /\ \A i \in Tasks : task[r][i].version <= version[i]
    BY KnowingRun
  <2>2. \A i \in Tasks : task'[r][i].version <= version[i]
    BY <1>1, <2>1, Recovery
  <2>3. ASSUME plan[r] = "none" PROVE task'[r] = [i \in Tasks |-> NoTask]
    <3>1. NoTask.status = "ABSENT"
      BY DEF NoTask
    <3>2. \A i \in Tasks : task[r][i] = NoTask
      BY <2>1, <2>3 DEF RunSound
    <3>3. \A i \in Tasks : task'[r][i] = NoTask
      BY <1>1, <3>1, <3>2, Nothings, Recovery
    <3>. QED  BY <1>2, <3>3
  <2>4. ASSUME row'[r].status = "COMPLETED" PROVE row'[r] = row[r] /\ task'[r] = task[r]
    <3>1. row'[r] = row[r]
      BY <1>1, <2>1, <2>4, Interruption
    <3>2. \A i \in Tasks : task[r][i].status = "COMPLETED"
      BY <2>1, <2>4, <3>1 DEF RunSound, Whole, Completed
    <3>3. \A i \in Tasks : task'[r][i] = task[r][i]
      BY <1>1, <2>1, <3>2, Recovery
    <3>. QED  BY <1>2, <2>1, <3>1, <3>3
  <2>5. RunSound(row'[r], plan[r], task'[r], joined[r])
    BY <2>1, <2>3, <2>4 DEF RunSound
  <2>. QED  BY <2>2, <2>5
<1>7. RepliesAreKnown'
  <2>1. \A r \in Runs : row'[r].status = "WAITING_USER" /\ row'[r].queued => r \in replied
    BY <1>1, KnowingRun, Interruption
  <2>. QED  BY <1>1, <2>1, IdleSound DEF RepliesAreKnown
<1>8. DrivesInOrder' /\ OneDrive'
  BY <1>1, IdleSound DEF DrivesInOrder, OneDrive
<1>9. RunsKept'
  BY <1>1, KnowingRun, Interruption DEF RunsKept
<1>. QED  BY <1>3, <1>4, <1>5, <1>6, <1>7, <1>8, <1>9 DEF FederatedInductive

-----------------------------------------------------------------------------
(* The theorems *)

\* Nothing has happened yet.
LEMMA FirstState ==
    ASSUME Init PROVE FederatedInductive
<1>1. /\ \A t \in Workers : worker[t] = Idle
      /\ \A r \in Runs : row[r] = NoRow /\ plan[r] = "none" /\ task[r] = [i \in Tasks |-> NoTask]
      /\ confirming = NoMapping
  BY DEF Init
<1>2. NoRow.status = "ABSENT" /\ NoTask.version = 0
  BY DEF NoRow, NoTask
<1>3. FederatedTypeOK
  <2>1. version \in Versions /\ 0 \in Nat
    BY Numbers DEF Init, Versions
  <2>2. [i \in Tasks |-> NoTask] \in [Tasks -> SourceTask]
    BY Nothings
  <2>. QED  BY <2>1, <2>2, Nothings DEF Init, FederatedTypeOK
<1>4. ThreadsSound /\ ConfirmsOpen /\ CopiesHold
  BY <1>1, IdleSound, Nothings DEF ThreadsSound, ConfirmsOpen, CopiesHold
<1>5. RunsSound
  <2>1. \A i \in Tasks : version[i] = 1
    BY DEF Init
  <2>2. \A r \in Runs, i \in Tasks : task[r][i].version <= version[i]
    BY <1>1, <1>2, <2>1
  <2>. QED  BY <1>1, <1>2, <2>2 DEF RunsSound, RunSound
<1>6. RepliesAreKnown /\ DrivesInOrder /\ OneDrive /\ RunsKept
  BY <1>1, <1>2, IdleSound DEF RepliesAreKnown, DrivesInOrder, OneDrive, RunsKept, Active
<1>. QED  BY <1>3, <1>4, <1>5, <1>6 DEF FederatedInductive

\* A step that changes nothing.
LEMMA StutteringStep ==
    ASSUME FederatedInductive, UNCHANGED vars PROVE FederatedInductive'
<1>1. /\ UNCHANGED <<row, plan, task, replied, memory, announced, worker, joined>>
      /\ mapping' = mapping /\ confirming' = confirming /\ version' = version
      /\ late' = late /\ events' = events
  BY DEF vars
<1>2. /\ mapping' \in JoinMapping /\ confirming' \in JoinMapping /\ version' \in Versions
      /\ late' \subseteq Runs /\ events' \in Nat
  BY <1>1 DEF FederatedInductive, FederatedTypeOK
<1>3. \A i \in Tasks : version[i] <= version'[i]
  BY <1>1, <1>2, Numbers
<1>4. ConfirmsOpen'
  BY <1>1 DEF FederatedInductive, ConfirmsOpen
<1>. QED  BY <1>1, <1>2, <1>3, <1>4, StillStep

\* Every step keeps the invariant.
LEMMA EveryStep ==
    ASSUME FederatedInductive, [Next]_vars PROVE FederatedInductive'
<1>1. ASSUME NEW t \in Workers, Thread(t) PROVE FederatedInductive'
  <2>1. CASE Claim(t) \/ Route(t) \/ SetKind(t) \/ MakePlan(t) \/ CreatePlan(t) \/ Resume(t)
    BY <2>1, ClaimStep, RouteStep, SetKindStep, MakePlanStep, CreatePlanStep, ResumeStep
  <2>2. CASE Advance(t) \/ ReadTasks(t) \/ TakeTurn(t) \/ StartTask(t) \/ Ask(t) \/ CheckTotals(t)
    BY <2>2, AdvanceStep, ReadTasksStep, TakeTurnStep, StartTaskStep, AskStep, CheckTotalsStep
  <2>3. CASE SkipTask(t) \/ FailTask(t) \/ CompleteTask(t) \/ ParkTask(t) \/ ReadWait(t) \/ Wait(t)
    BY <2>3, SkipTaskStep, FailTaskStep, CompleteTaskStep, ParkTaskStep, ReadWaitStep, WaitStep
  <2>4. CASE AfterTask(t) \/ CancelRun(t) \/ Collect(t) \/ Merge(t) \/ Answer(t) \/ Finish(t)
    BY <2>4, AfterTaskStep, CancelRunStep, CollectStep, MergeStep, AnswerStep, FinishStep
  <2>5. CASE Record(t) \/ Publish(t) \/ ReadMapping(t) \/ ReadVersions(t) \/ MarkStale(t)
    BY <2>5, RecordStep, PublishStep, ReadMappingStep, ReadVersionsStep, MarkStaleStep
  <2>6. CASE Except(t) \/ CheckFailure(t) \/ FailRun(t) \/ RepairNext(t)
    BY <2>6, ExceptStep, CheckFailureStep, FailRunStep, RepairNextStep
  <2>. QED  BY <1>1, <2>1, <2>2, <2>3, <2>4, <2>5, <2>6 DEF Thread
<1>2. CASE UNCHANGED vars
  BY <1>2, StutteringStep
<1>. QED  BY <1>1, <1>2, ClientsStep, RescanStep, KeeperStep, RestartStep DEF Next

\* What the invariant says holds in every state of a federated run: of the threads' copies, of
\* who drives a run, and of what a completed run has merged.
THEOREM FederatedInvariant == Spec => []FederatedInductive
<1>1. Init => FederatedInductive
  BY FirstState
<1>2. FederatedInductive /\ [Next]_vars => FederatedInductive'
  BY EveryStep
<1>. QED  BY <1>1, <1>2, PTL DEF Spec

\* Every table and thread keeps its type.
THEOREM FederatedRunsAreTyped == Spec => []FederatedTypeOK
<1>1. FederatedInductive => FederatedTypeOK
  BY DEF FederatedInductive
<1>. QED  BY <1>1, FederatedInvariant, PTL

\* What a completed run has merged is whole, fits its budget, and is not newer than the versions
\* that its mapping was confirmed for.
THEOREM SoundFederatedRuns == Spec => []CompletedRunsAreSound
<1>1. ASSUME FederatedInductive PROVE CompletedRunsAreSound
  <2>1. \A r \in Runs : RunSound(row[r], plan[r], task[r], joined[r])
    BY <1>1, KnowingRun
  <2>. QED  BY <2>1 DEF CompletedRunsAreSound, CompletedWithinBudget, JoinsKnowTheirSources,
                        RunSound, Whole, Completed
<1>. QED  BY <1>1, FederatedInvariant, PTL

\* A run in progress is driven, but for the two cases that the property names.
THEOREM DrivenFederatedRuns == Spec => []FederatedRunsAreDriven
<1>1. FederatedInductive => FederatedRunsAreDriven
  BY DEF FederatedInductive, RunsKept, FederatedRunsAreDriven, Driven
<1>. QED  BY <1>1, FederatedInvariant, PTL

\* The tables after a step of a thread that saves a task: only its own changes, and that was not
\* answered.
LEMMA SavesKeepAnswers ==
    ASSUME FederatedInductive, NEW t \in Workers, OnTask(worker[t]),
           worker[t].pc = "start" \/ Executes(worker[t]), NEW new, NEW label, SaveTask(t, new, label),
           NEW r \in Runs, NEW i \in Tasks, task[r][i].status = "COMPLETED"
    PROVE  task'[r][i] = task[r][i]
<1>1. CASE ~MaySaveTask(t)
  BY <1>1 DEF SaveTask
<1>2. CASE MaySaveTask(t)
  <2>1. Held(t) = task[Job(t)][worker[t].place] /\ Held(t).status # "COMPLETED"
    BY <1>2, AtTask
  <2>2. ~(r = Job(t) /\ i = worker[t].place)
    BY <2>1
  <2>3. PICK saved : task' = [task EXCEPT ![Job(t)][worker[t].place] = saved]
    BY <1>2 DEF SaveTask
  <2>4. task \in [Runs -> [Tasks -> SourceTask]]
    BY DEF FederatedInductive, FederatedTypeOK
  <2>. QED  BY <2>2, <2>3, <2>4
<1>. QED  BY <1>1, <1>2

\* No step changes an answered task.
LEMMA AnswersStay ==
    ASSUME FederatedInductive, [Next]_vars, NEW r \in Runs, NEW i \in Tasks,
           task[r][i].status = "COMPLETED"
    PROVE  task'[r][i] = task[r][i]
<1>1. ASSUME NEW t \in Workers, Thread(t) PROVE task'[r][i] = task[r][i]
  <2>1. CASE StartTask(t)
    <3>1. worker[t].pc = "start" /\ OnTask(worker[t])
      BY <2>1 DEF StartTask, OnTask
    <3>. QED  BY <2>1, <3>1, SavesKeepAnswers DEF StartTask
  <2>2. CASE SkipTask(t) \/ FailTask(t) \/ CompleteTask(t) \/ ParkTask(t)
    <3>1. Executes(worker[t]) /\ OnTask(worker[t])
      BY <2>2 DEF SkipTask, FailTask, CompleteTask, ParkTask, Executes, OnTask
    <3>. QED  BY <2>2, <3>1, SavesKeepAnswers DEF SkipTask, FailTask, CompleteTask, ParkTask
  <2>3. CASE CreatePlan(t)
    <3>1. CASE plan[Job(t)] # "none" \/ r # Job(t)
      BY <2>3, <3>1 DEF CreatePlan, FederatedInductive, FederatedTypeOK
    <3>2. CASE plan[Job(t)] = "none" /\ r = Job(t)
      <4>1. task[r] = [j \in Tasks |-> NoTask]
        BY <3>2, KnowingRun DEF RunSound
      <4>2. NoTask.status # "COMPLETED"
        BY SMTT(60) DEF NoTask
      <4>. QED  BY <4>1, <4>2
    <3>. QED  BY <3>1, <3>2
  <2>4. CASE Claim(t) \/ Route(t) \/ SetKind(t) \/ MakePlan(t) \/ Resume(t) \/ Advance(t)
             \/ ReadTasks(t) \/ TakeTurn(t) \/ Ask(t) \/ CheckTotals(t) \/ ReadWait(t) \/ Wait(t)
             \/ AfterTask(t) \/ CancelRun(t)
    BY ZenonT(60), <2>4
       DEF Claim, Route, SetKind, MakePlan, Resume, Advance, ReadTasks, TakeTurn, Ask,
                CheckTotals, ReadWait, Wait, AfterTask, CancelRun
  <2>5. CASE Collect(t) \/ Merge(t) \/ Answer(t) \/ Finish(t) \/ Record(t) \/ Publish(t)
             \/ ReadMapping(t) \/ ReadVersions(t) \/ MarkStale(t) \/ Except(t) \/ CheckFailure(t)
             \/ FailRun(t) \/ RepairNext(t)
    BY <2>5 DEF Collect, Merge, Answer, Finish, Record, Publish, ReadMapping, ReadVersions,
                MarkStale, Except, CheckFailure, FailRun, RepairNext
  <2>. QED  BY <1>1, <2>1, <2>2, <2>3, <2>4, <2>5 DEF Thread
<1>2. CASE UNCHANGED vars
  BY <1>2 DEF vars
<1>3. ASSUME NEW q \in Runs, Client(q) PROVE task'[r][i] = task[r][i]
  BY <1>3 DEF Client, Create, Cancel, Clarify, Retry, Expire
<1>4. CASE \E j \in Tasks : Rescan(j)
  BY <1>4 DEF Rescan
<1>5. CASE Keeper
  BY <1>5 DEF Keeper, Propose, BeginConfirm, SaveConfirm, FoundStale, Reject
<1>6. CASE Restart
  <2>1. task'[r][i] = Recovered(task[r][i])
    BY <1>6 DEF Restart
  <2>. QED  BY <2>1, KnowingRun, Recovery
<1>. QED  BY <1>1, <1>2, <1>3, <1>4, <1>5, <1>6 DEF Next

\* No step takes a rejection back.
LEMMA RejectionStays ==
    ASSUME FederatedInductive, [Next]_vars, mapping.status = "REJECTED"
    PROVE  mapping'.status = "REJECTED"
<1>1. CASE \E t \in Workers : MarkStale(t)
  BY <1>1 DEF MarkStale, MaySaveMapping
<1>2. ASSUME NEW t \in Workers, Thread(t), ~MarkStale(t) PROVE mapping' = mapping
  <2>1. CASE Claim(t) \/ Route(t) \/ SetKind(t) \/ MakePlan(t) \/ CreatePlan(t) \/ Resume(t)
             \/ Advance(t) \/ ReadTasks(t) \/ TakeTurn(t) \/ StartTask(t) \/ Ask(t)
             \/ CheckTotals(t) \/ SkipTask(t) \/ FailTask(t) \/ CompleteTask(t) \/ ParkTask(t)
    BY ZenonT(60), <2>1
       DEF Claim, Route, SetKind, MakePlan, CreatePlan, Resume, Advance, ReadTasks, TakeTurn,
                StartTask, Ask, CheckTotals, SkipTask, FailTask, CompleteTask, ParkTask
  <2>2. CASE ReadWait(t) \/ Wait(t) \/ AfterTask(t) \/ CancelRun(t) \/ Collect(t) \/ Merge(t)
             \/ Answer(t) \/ Finish(t) \/ Record(t) \/ Publish(t) \/ ReadMapping(t)
             \/ ReadVersions(t) \/ Except(t) \/ CheckFailure(t) \/ FailRun(t) \/ RepairNext(t)
    BY <2>2 DEF ReadWait, Wait, AfterTask, CancelRun, Collect, Merge, Answer, Finish, Record,
                Publish, ReadMapping, ReadVersions, Except, CheckFailure, FailRun, RepairNext
  <2>. QED  BY SMTT(60), <1>2, <2>1, <2>2 DEF Thread
<1>3. CASE Keeper
  <2>1. mapping \in JoinMapping /\ ConfirmsOpen
    BY DEF FederatedInductive, FederatedTypeOK
  <2>2. CASE SaveConfirm
    BY <2>1, <2>2 DEF SaveConfirm, MaySaveMapping, ConfirmsOpen
  <2>3. CASE Reject
    BY <2>1, <2>3 DEF Reject, JoinMapping
  <2>4. CASE Propose \/ BeginConfirm \/ FoundStale
    BY <2>4 DEF Propose, BeginConfirm, FoundStale
  <2>. QED  BY <1>3, <2>2, <2>3, <2>4 DEF Keeper
<1>4. CASE UNCHANGED vars
  BY <1>4 DEF vars
<1>5. ASSUME NEW q \in Runs, Client(q) PROVE mapping' = mapping
  BY <1>5 DEF Client, Create, Cancel, Clarify, Retry, Expire
<1>6. CASE (\E j \in Tasks : Rescan(j)) \/ Restart
  BY <1>6 DEF Rescan, Restart
<1>. QED  BY <1>1, <1>2, <1>3, <1>4, <1>5, <1>6 DEF Next

\* An answered source is not asked again, and a rejected mapping stays rejected, whoever is late.
THEOREM FinalDecisions == Spec => DecisionsAreFinal
<1>1. FederatedInductive /\ [Next]_vars =>
        [\A r \in Runs, i \in Tasks : task[r][i].status = "COMPLETED" => task'[r][i] = task[r][i]]_vars
  BY AnswersStay
<1>2. FederatedInductive /\ [Next]_vars =>
        [mapping.status = "REJECTED" => mapping'.status = "REJECTED"]_vars
  BY RejectionStays
<1>3. Spec => AnsweredTasksAreFinal
  BY <1>1, FederatedInvariant, PTL DEF Spec, AnsweredTasksAreFinal
<1>4. Spec => RejectionIsFinal
  BY <1>2, FederatedInvariant, PTL DEF Spec, RejectionIsFinal
<1>. QED  BY <1>3, <1>4 DEF DecisionsAreFinal

=============================================================================
