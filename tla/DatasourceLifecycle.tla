------------------------ MODULE DatasourceLifecycle ------------------------
(***************************************************************************)
(* A datasource across the two stores that describe it: the SQLite catalog *)
(* (its connection profile, status, initialization jobs and scan           *)
(* snapshots) and the Neo4j graph that a question is planned on.  The      *)
(* facade's threads create, scan, update, delete and query datasources;    *)
(* nothing orders two calls on one datasource.                             *)
(*                                                                         *)
(* Every action is one transaction on one of the stores, with the I/O      *)
(* around it, whose failure is a choice.  What the stores hold about a     *)
(* scan is the record of that scan: its version, the connection it read    *)
(* through, its job.  Datasets, relations, samples and mappings change in  *)
(* the transactions that change the active snapshot, which stands for      *)
(* them.  Secrets, which a finished update or deletion may collect, and    *)
(* profile documents change nothing here.                                  *)
(***************************************************************************)
EXTENDS Naturals, TLC

CONSTANTS
    Datasources,  \* the datasources clients may create
    Profiles,     \* connection profiles
    Jobs,         \* bound: the initialization jobs of all scans
    Callers,      \* threads inside the facade
    NoSource, NoProfile, NoJob,
    MaxChanges,   \* bound: updates and deletions begun
    MaxCrashes    \* bound: crashes of the process

ASSUME NullsAssumption ==
    NoSource \notin Datasources /\ NoProfile \notin Profiles /\ NoJob \notin Jobs
ASSUME ChangesAssumption == MaxChanges \in Nat /\ MaxCrashes \in Nat

VARIABLES
    source,    \* catalog: the datasource table
    versions,  \* catalog: versions in scan_snapshot, per datasource
    active,    \* catalog: the active snapshot of each datasource
    jobs,      \* catalog: the status of each initialization job, with its datasource
    graph,     \* Neo4j: the published structure of each datasource
    call,      \* what each thread is doing
    raced,     \* history: datasources changed while a scan was reading them
    changes, crashes

vars == <<source, versions, active, jobs, graph, call, raced, changes, crashes>>

-----------------------------------------------------------------------------
(* Types *)

SourceRow == [status: {"none", "created", "ready", "deleted"}, profile: Profiles \cup {NoProfile}]

NoRow == [status |-> "none", profile |-> NoProfile]

Scan == [version: Nat, via: Profiles \cup {NoProfile}, job: Jobs \cup {NoJob}]

NoScan == [version |-> 0, via |-> NoProfile, job |-> NoJob]

ScanStatus == {"created", "verifying", "connection_verified", "scanning", "profiling", "ready",
               "connection_failed", "scan_failed", "profile_failed"}

JobRow == [status: ScanStatus \cup {"none", "gone"}, source: Datasources \cup {NoSource}]

\* The status a job may move to.
Transitions(status) ==
    CASE status = "created" -> {"verifying"}
      [] status = "verifying" -> {"connection_verified", "connection_failed"}
      [] status = "connection_verified" -> {"scanning"}
      [] status = "scanning" -> {"profiling", "scan_failed"}
      [] status = "profiling" -> {"ready", "profile_failed"}
      [] OTHER -> {}

\* Where a call is: the next transaction of a scan, a change or a question.
Attached == {"verify", "test", "begin", "read", "version", "replace", "commit"}
ScanStep == {"job", "open", "ready", "failed"} \cup Attached
ChangeStep == {"unpublish", "switch", "invalidate", "remove"}
AskStep == {"fence", "execute"}

Call == [pc: {"idle"} \cup ScanStep \cup ChangeStep \cup AskStep,
         op: {"none", "scan", "update", "delete", "ask"},
         source: Datasources \cup {NoSource}, profile: Profiles \cup {NoProfile},
         job: Jobs \cup {NoJob}, scan: Scan]

NoCall == [pc |-> "idle", op |-> "none", source |-> NoSource, profile |-> NoProfile,
           job |-> NoJob, scan |-> NoScan]

DatasourceTypeOK ==
    /\ source \in [Datasources -> SourceRow]
    /\ versions \in [Datasources -> SUBSET Nat]
    /\ active \in [Datasources -> Scan]
    /\ jobs \in [Jobs -> JobRow]
    /\ graph \in [Datasources -> Scan]
    /\ call \in [Callers -> Call]
    /\ raced \subseteq Datasources
    /\ changes \in 0..MaxChanges /\ crashes \in 0..MaxCrashes

Init ==
    /\ source = [d \in Datasources |-> NoRow]
    /\ versions = [d \in Datasources |-> {}]
    /\ active = [d \in Datasources |-> NoScan]
    /\ jobs = [j \in Jobs |-> [status |-> "none", source |-> NoSource]]
    /\ graph = [d \in Datasources |-> NoScan]
    /\ call = [c \in Callers |-> NoCall]
    /\ raced = {}
    /\ changes = 0 /\ crashes = 0

-----------------------------------------------------------------------------
(* Helpers *)

Exists(d) == source[d].status \in {"created", "ready"}

Published(scan) == scan # NoScan

At(c, pc) == call[c].pc = pc

Goto(c, pc) == call' = [call EXCEPT ![c].pc = pc]

Leave(c) == call' = [call EXCEPT ![c] = NoCall]

\* A scan holds a connection to d, or an update or a deletion of d is under way.
Reading(c, d) == call[c].source = d /\ call[c].pc \in Attached
Changing(c, d) == call[c].source = d /\ call[c].pc \in ChangeStep

Overlaps == {d \in Datasources : \E c, e \in Callers : Reading(c, d) /\ Changing(e, d)}

NotesOverlaps == raced' = raced \cup Overlaps'

catalog == <<source, versions, active, jobs>>
history == <<raced, changes, crashes>>

\* update_initialization_job() raises when this fails.
CanMove(j, status) == status \in Transitions(jobs[j].status)

\* The scan of c reports a status of its job and goes on, or ends.
Reports(c, at, status, then) ==
    /\ At(c, at) /\ CanMove(call[c].job, status)
    /\ jobs' = [jobs EXCEPT ![call[c].job].status = status]
    /\ IF then = "idle" THEN Leave(c) ELSE Goto(c, then)
    /\ UNCHANGED <<source, versions, active, graph, history>>

\* What next_snapshot_version() returns: one more than the greatest version, if any.
NextVersion(d) ==
    {v \in {1} \cup {u + 1 : u \in versions[d]} : \A u \in versions[d] : u < v}

-----------------------------------------------------------------------------
(* Create: the candidate was tested; its row is one insert. *)

Create(c, d, p) ==
    /\ At(c, "idle") /\ source[d].status = "none"
    /\ source' = [source EXCEPT ![d] = [status |-> "created", profile |-> p]]
    /\ UNCHANGED <<versions, active, jobs, graph, call, history>>

-----------------------------------------------------------------------------
(* Scan: DatabaseInitializer._run, one action per transaction *)

StartScan(c, d, j) ==
    /\ At(c, "idle") /\ Exists(d)
    /\ jobs[j].status = "none" /\ \A e \in Callers : call[e].job # j
    /\ call' = [call EXCEPT ![c] = [NoCall EXCEPT !.pc = "job", !.op = "scan",
                                                  !.source = d, !.job = j]]
    /\ UNCHANGED <<catalog, graph, history>>

\* A slip of InsertJob: the job and its datasource swapped.
InsertJobSwapped(c) ==
    /\ At(c, "job")
    /\ jobs' = [jobs EXCEPT ![call[c].job] = [status |-> "created", source |-> call[c].job]]
    /\ Goto(c, "open")
    /\ UNCHANGED <<source, versions, active, graph, history>>

\* The check and the insert of the job are two statements outside a transaction.
InsertJob(c) ==
    /\ At(c, "job")
    /\ jobs' = [jobs EXCEPT ![call[c].job] = [status |-> "created", source |-> call[c].source]]
    /\ Goto(c, "open")
    /\ UNCHANGED <<source, versions, active, graph, history>>

\* open() reads the profile and resolves it; what it raises, no handler of the job sees.
OpenConnection(c) ==
    /\ At(c, "open")
    /\ \/ /\ Exists(call[c].source)
          /\ call' = [call EXCEPT ![c].pc = "verify", ![c].profile = source[call[c].source].profile]
          /\ NotesOverlaps
       \/ UNCHANGED raced /\ Leave(c)
    /\ UNCHANGED <<catalog, graph, changes, crashes>>

Verify(c) == Reports(c, "verify", "verifying", "test")

TestConnection(c) ==
    \/ Reports(c, "test", "connection_verified", "begin")
    \/ Reports(c, "test", "connection_failed", "idle")

BeginScan(c) == Reports(c, "begin", "scanning", "read")

ReadSource(c) ==
    \/ Reports(c, "read", "profiling", "version")
    \/ Reports(c, "read", "scan_failed", "idle")

\* The profile is built and the snapshot takes the next version; the graph is built and validated.
TakeVersion(c) ==
    /\ At(c, "version")
    /\ \/ \E v \in NextVersion(call[c].source) :
            call' = [call EXCEPT ![c].pc = "replace",
                                 ![c].scan = [version |-> v, via |-> call[c].profile,
                                              job |-> call[c].job]]
       \/ Goto(c, "failed")
    /\ UNCHANGED <<catalog, graph, history>>

ReplaceGraph(c) ==
    /\ At(c, "replace")
    /\ \/ graph' = [graph EXCEPT ![call[c].source] = call[c].scan] /\ Goto(c, "commit")
       \/ UNCHANGED graph /\ Goto(c, "failed")
    /\ UNCHANGED <<catalog, history>>

\* A slip of MayCommit: versions are not unique.
MayCommitAgain(d, v) == Exists(d)

\* commit_scan_snapshot() rolls back when the version is taken or the datasource is gone.
MayCommit(d, v) == Exists(d) /\ v \notin versions[d]

Commit(c) ==
    LET d == call[c].source  s == call[c].scan IN
    /\ At(c, "commit")
    /\ \/ /\ MayCommit(d, s.version)
          /\ active' = [active EXCEPT ![d] = s]
          /\ versions' = [versions EXCEPT ![d] = @ \cup {s.version}]
          /\ source' = [source EXCEPT ![d].status = "ready"]
          /\ Goto(c, "ready")
       \/ UNCHANGED <<active, versions, source>> /\ Goto(c, "failed")
    /\ UNCHANGED <<jobs, graph, history>>

\* The handler catches what the report of success itself raises, too.
FinishScan(c) ==
    \/ Reports(c, "ready", "ready", "idle")
    \/ Reports(c, "ready", "profile_failed", "idle")
    \/ Reports(c, "failed", "profile_failed", "idle")

\* The insert or a report raises, the job being deleted or the catalog failing, and the report
\* of that raises as well or is no legal transition: the scan ends, its job stays where it is.
Abandon(c) ==
    /\ call[c].pc \in {"job", "verify", "test", "begin", "read", "ready", "failed"}
    /\ Leave(c)
    /\ UNCHANGED <<catalog, graph, history>>

-----------------------------------------------------------------------------
(* Update and delete: the graph first, then the catalog; the first failure ends it *)

Change(c, d, op, p) ==
    /\ At(c, "idle") /\ Exists(d) /\ changes < MaxChanges
    /\ call' = [call EXCEPT ![c] = [NoCall EXCEPT !.pc = "unpublish", !.op = op,
                                                  !.source = d, !.profile = p]]
    /\ changes' = changes + 1
    /\ NotesOverlaps
    /\ UNCHANGED <<catalog, graph, crashes>>

\* The candidate connection was tested before.
Update(c, d, p) == Change(c, d, "update", p)

Delete(c, d) == Change(c, d, "delete", NoProfile)

\* A slip of Unpublish: the change goes on when the graph is out of reach.
UnpublishOrNot(c) ==
    /\ At(c, "unpublish")
    /\ graph' \in {graph, [graph EXCEPT ![call[c].source] = NoScan]}
    /\ Goto(c, IF call[c].op = "update" THEN "switch" ELSE "remove")
    /\ UNCHANGED <<catalog, history>>

Unpublish(c) ==
    /\ At(c, "unpublish")
    /\ \/ /\ graph' = [graph EXCEPT ![call[c].source] = NoScan]
          /\ Goto(c, IF call[c].op = "update" THEN "switch" ELSE "remove")
       \/ UNCHANGED graph /\ Leave(c)
    /\ UNCHANGED <<catalog, history>>

\* A slip of SwitchProfile: the status is left for the invalidation.
SwitchProfileOnly(c) ==
    /\ At(c, "switch") /\ Exists(call[c].source)
    /\ source' = [source EXCEPT ![call[c].source].profile = call[c].profile]
    /\ Goto(c, "invalidate")
    /\ UNCHANGED <<versions, active, jobs, graph, history>>

SwitchProfile(c) ==
    LET d == call[c].source IN
    /\ At(c, "switch")
    /\ \/ /\ Exists(d)
          /\ source' = [source EXCEPT ![d] = [status |-> "created", profile |-> call[c].profile]]
          /\ Goto(c, "invalidate")
       \/ UNCHANGED source /\ Leave(c)
    /\ UNCHANGED <<versions, active, jobs, graph, history>>

Invalidate(c) ==
    LET d == call[c].source IN
    /\ At(c, "invalidate")
    /\ \/ /\ Exists(d)
          /\ source' = [source EXCEPT ![d].status = "created"]
          /\ active' = [active EXCEPT ![d] = NoScan]
       \/ UNCHANGED <<source, active>>
    /\ Leave(c)
    /\ UNCHANGED <<versions, jobs, graph, history>>

\* A slip of Remove: the datasource goes, its snapshots stay.
RemoveRowOnly(c) ==
    LET d == call[c].source IN
    /\ At(c, "remove") /\ Exists(d)
    /\ source' = [source EXCEPT ![d] = [status |-> "deleted", profile |-> NoProfile]]
    /\ active' = [active EXCEPT ![d] = NoScan]
    /\ Leave(c)
    /\ UNCHANGED <<versions, jobs, graph, history>>

Remove(c) ==
    LET d == call[c].source IN
    /\ At(c, "remove")
    /\ \/ /\ Exists(d)
          /\ source' = [source EXCEPT ![d] = [status |-> "deleted", profile |-> NoProfile]]
          /\ active' = [active EXCEPT ![d] = NoScan]
          /\ versions' = [versions EXCEPT ![d] = {}]
          /\ jobs' = [j \in Jobs |-> IF jobs[j].source = d THEN [jobs[j] EXCEPT !.status = "gone"]
                                     ELSE jobs[j]]
       \/ UNCHANGED catalog
    /\ Leave(c)
    /\ UNCHANGED <<graph, history>>

-----------------------------------------------------------------------------
(* A question: planned on the graph, fenced by its version, run on the connection *)

Plan(c, d) ==
    /\ At(c, "idle") /\ Published(graph[d])
    /\ call' = [call EXCEPT ![c] = [NoCall EXCEPT !.pc = "fence", !.op = "ask",
                                                  !.source = d, !.scan = graph[d]]]
    /\ UNCHANGED <<catalog, graph, history>>

\* ExecutionRevisionValidator: the versions agree.
PassesFence(plan, current) == Published(current) /\ plan.version = current.version

Fence(c) ==
    LET d == call[c].source IN
    /\ At(c, "fence")
    /\ \/ Exists(d) /\ PassesFence(call[c].scan, graph[d]) /\ Goto(c, "execute")
       \/ ~(Exists(d) /\ PassesFence(call[c].scan, graph[d])) /\ Leave(c)
    /\ UNCHANGED <<catalog, graph, history>>

Execute(c) ==
    /\ At(c, "execute")
    /\ Leave(c)
    /\ UNCHANGED <<catalog, graph, history>>

-----------------------------------------------------------------------------

\* The process dies: its calls are gone, both stores stay as they are.
Crash ==
    /\ crashes < MaxCrashes
    /\ call' = [c \in Callers |-> NoCall]
    /\ crashes' = crashes + 1
    /\ UNCHANGED <<catalog, graph, raced, changes>>

ScanNext(c) ==
    \/ \E d \in Datasources, j \in Jobs : StartScan(c, d, j)
    \/ InsertJob(c) \/ OpenConnection(c) \/ Verify(c) \/ TestConnection(c) \/ BeginScan(c)
    \/ ReadSource(c) \/ TakeVersion(c) \/ ReplaceGraph(c) \/ Commit(c) \/ FinishScan(c)
    \/ Abandon(c)

ChangeNext(c) ==
    \/ \E d \in Datasources, p \in Profiles : Create(c, d, p) \/ Update(c, d, p)
    \/ \E d \in Datasources : Delete(c, d)
    \/ Unpublish(c) \/ SwitchProfile(c) \/ Invalidate(c) \/ Remove(c)

AskNext(c) ==
    \/ \E d \in Datasources : Plan(c, d)
    \/ Fence(c) \/ Execute(c)

Next ==
    \/ \E c \in Callers : ScanNext(c) \/ ChangeNext(c) \/ AskNext(c)
    \/ Crash

Spec == Init /\ [][Next]_vars

-----------------------------------------------------------------------------
(* Callers, jobs and profiles are alike *)

DatasourceSymmetry == Permutations(Profiles) \cup Permutations(Jobs) \cup Permutations(Callers)

-----------------------------------------------------------------------------
(* Safety *)

\* What the graph publishes was read through the connection that its datasource has now,
\* and a deleted datasource has no ghost there: neither an aborted or crashed update nor a
\* deletion nor any two scans break this, only a scan that overlapped a change
\* (application/service.py 324-408, initialization/service.py 120).
GraphFollowsConnection ==
    \A d \in Datasources \ raced :
        Published(graph[d]) => Exists(d) /\ graph[d].via = source[d].profile

\* A datasource that says it is ready has an active snapshot, always; and it was read through
\* the connection the datasource has now, unless a scan overlapped a change: also while an
\* update is between its two catalog transactions, or crashed there (catalog/sqlite.py 188-260).
ReadyDescribesConnection ==
    \A d \in Datasources :
        source[d].status = "ready" =>
            /\ Published(active[d])
            /\ d \notin raced => active[d].via = source[d].profile

\* The catalog keeps nothing of a deleted datasource, whatever scan commits late
\* (catalog/sqlite.py 262-295, 584-589).
DeletedLeavesNothing ==
    \A d \in Datasources : ~Exists(d) => ~Published(active[d]) /\ versions[d] = {}

\* A snapshot that becomes active is newer than every snapshot the catalog ever recorded of the
\* datasource, although a scan takes its version long before it commits and other scans may
\* take the same one (catalog/sqlite.py 487-494, 521-589).
VersionsGrow ==
    [][\A d \in Datasources :
        active'[d] # active[d] /\ Published(active'[d]) =>
            \A v \in versions[d] : v < active'[d].version]_vars

-----------------------------------------------------------------------------
(* What the code says of itself, and does not keep *)

\* "no query can pair the new connection with the old scan" (application/service.py 342-343):
\* what a question runs on is the connection its plan's scan was read through.
NoMixedQuery ==
    \A c \in Callers :
        At(c, "execute") /\ Exists(call[c].source) =>
            call[c].scan.via = source[call[c].source].profile

\* "refuses stale plans before the executor opens a connection" (application/service.py 767-768):
\* a plan that passes the fence was made on the graph that is published.
StalePlansAreRefused ==
    [][\A c \in Callers :
        At(c, "fence") /\ At(c, "execute")' => call[c].scan = graph[call[c].source]]_vars

\* "a failed scan must not destroy the last successful, currently valid graph" (the architecture
\* plan, 319 and 765): beside an active snapshot the graph never shows what a failed scan read.
FailedScansKeepTheGraph ==
    \A d \in Datasources :
        Published(active[d]) /\ Published(graph[d]) /\ graph[d] # active[d] =>
            jobs[graph[d].job].status # "profile_failed"

-----------------------------------------------------------------------------
(* The inductive invariant: what a call k may hold, then what calls and stores share *)

\* The status the job of a scan has before its step pc, unless it is deleted.
StatusAt(pc) ==
    CASE pc \in {"open", "verify"} -> "created"
      [] pc = "test" -> "verifying"
      [] pc = "begin" -> "connection_verified"
      [] pc = "read" -> "scanning"
      [] OTHER -> "profiling"

\* It has what its step needs; what it scans or changes was created.
Equipped(k) ==
    /\ k.pc = "idle" => k = NoCall
    /\ k.pc # "idle" => k.source \in Datasources
    /\ k.pc \in ScanStep \cup ChangeStep => source[k.source].status # "none"
    /\ k.pc \in ScanStep <=> k.job # NoJob

\* A scan knows the status of its job until the datasource is deleted.
KnowsItsJob(k) ==
    k.pc \in ScanStep \ {"job"} =>
        \/ jobs[k.job].status = StatusAt(k.pc) /\ jobs[k.job].source = k.source
        \/ jobs[k.job].status = "gone" /\ source[k.source].status = "deleted"

\* A scan publishes what it read itself, under a version that leaves no gap.
CarriesItsScan(k) ==
    k.pc \in {"replace", "commit"} =>
        /\ k.scan.via = k.profile /\ k.scan.job = k.job /\ k.scan.version > 0
        /\ source[k.source].status # "deleted" =>
              \A u \in 1..(k.scan.version - 1) : u \in versions[k.source]

\* Unless it raced: a scan reads through the connection its datasource has, and a change
\* that has unpublished the graph finds it so.
SeesItsSource(k) ==
    k.source \notin raced =>
        /\ k.pc \in Attached => Exists(k.source) /\ k.profile = source[k.source].profile
        /\ k.pc \in {"switch", "remove"} => ~Published(graph[k.source])

Fits(k) == Equipped(k) /\ KnowsItsJob(k) /\ CarriesItsScan(k) /\ SeesItsSource(k)

CallsFit == \A c \in Callers : Fits(call[c])

JobsHaveOneScan ==
    \A c, e \in Callers : c # e /\ call[c].job = call[e].job => call[c].job = NoJob

\* Nobody changes a datasource that a scan reads, unless they raced.
ReadersExcludeChangers ==
    \A c, e \in Callers : \A d \in Datasources \ raced : Reading(c, d) => ~Changing(e, d)

\* The active snapshot has a job of its datasource, which only its own scan still touches.
ActiveSnapshotsHaveJobs ==
    \A d \in Datasources : Published(active[d]) =>
        /\ active[d].job \in Jobs
        /\ jobs[active[d].job].source = d /\ jobs[active[d].job].status # "none"
        /\ \A c \in Callers : call[c].job = active[d].job => At(c, "ready")

VersionsHaveNoGaps ==
    \A d \in Datasources : \A v \in versions[d] :
        v > 0 /\ \A u \in 1..(v - 1) : u \in versions[d]

DatasourceInductive ==
    /\ DatasourceTypeOK
    /\ CallsFit
    /\ JobsHaveOneScan
    /\ ReadersExcludeChangers
    /\ ActiveSnapshotsHaveJobs
    /\ VersionsHaveNoGaps
    /\ GraphFollowsConnection
    /\ ReadyDescribesConnection
    /\ DeletedLeavesNothing

=============================================================================
