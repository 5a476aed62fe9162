-------------------------- MODULE DatasourceProofs --------------------------
(***************************************************************************)
(* DatasourceInductive is an inductive invariant of DatasourceLifecycle:   *)
(* what graph and catalog say of a datasource, and the growth of its       *)
(* versions, hold for every number of datasources, jobs and threads.       *)
(***************************************************************************)
EXTENDS DatasourceLifecycle, TLAPS

USE DEF At, Exists, Published, NoScan, NoCall, NoRow, Attached, ScanStep, ChangeStep, AskStep,
        Reading, Changing, catalog, history

-----------------------------------------------------------------------------
(* Steps that change what one thread is doing *)

Becomes(c, k) == call' = [call EXCEPT ![c] = k]

\* k goes on with the scan or the change that c is in, or is in neither.
GoesOn(c, k) ==
    /\ k.job \in {call[c].job, NoJob}
    /\ k.pc \in Attached => call[c].pc \in Attached /\ k.source = call[c].source
    /\ k.pc \in ChangeStep => call[c].pc \in ChangeStep /\ k.source = call[c].source

\* A call that goes on with what it does meets no other job and no other change.
LEMMA GoesOnApart ==
    ASSUME DatasourceInductive, NEW c \in Callers, NEW k, Becomes(c, k), GoesOn(c, k), raced' = raced
    PROVE  JobsHaveOneScan' /\ ReadersExcludeChangers'
<1>1. call'[c] = k /\ \A e \in Callers : e # c => call'[e] = call[e]
  BY DEF Becomes, DatasourceInductive, DatasourceTypeOK
<1>2. JobsHaveOneScan'
  BY <1>1 DEF GoesOn, DatasourceInductive, JobsHaveOneScan
<1>3. ReadersExcludeChangers'
  BY <1>1 DEF GoesOn, DatasourceInductive, ReadersExcludeChangers
<1>. QED  BY <1>2, <1>3

\* A step that changes only what thread c does, to something that fits, keeps the invariant.
LEMMA CallStep ==
    ASSUME DatasourceInductive, NEW c \in Callers, NEW k \in Call, Fits(k), Becomes(c, k),
           UNCHANGED <<catalog, graph>>,
           raced \subseteq raced', raced' \subseteq Datasources,
           changes' \in 0..MaxChanges, crashes' \in 0..MaxCrashes,
           JobsHaveOneScan', ReadersExcludeChangers',
           \A d \in Datasources : Published(active[d]) => k.job # active[d].job
    PROVE  DatasourceInductive'
<1>1. call'[c] = k /\ \A e \in Callers : e # c => call'[e] = call[e]
  BY DEF Becomes, DatasourceInductive, DatasourceTypeOK
<1>2. DatasourceTypeOK'
  BY DEF Becomes, DatasourceInductive, DatasourceTypeOK
<1>3. ASSUME NEW l, Fits(l) PROVE Fits(l)'
  BY <1>3 DEF Fits, Equipped, KnowsItsJob, CarriesItsScan, SeesItsSource
<1>4. CallsFit'
  BY <1>1, <1>3 DEF DatasourceInductive, CallsFit
<1>5. ActiveSnapshotsHaveJobs'
  BY <1>1 DEF DatasourceInductive, ActiveSnapshotsHaveJobs
<1>6. VersionsHaveNoGaps' /\ DeletedLeavesNothing'
  BY DEF DatasourceInductive, VersionsHaveNoGaps, DeletedLeavesNothing
<1>7. GraphFollowsConnection' /\ ReadyDescribesConnection'
  BY DEF DatasourceInductive, GraphFollowsConnection, ReadyDescribesConnection
<1>. QED  BY <1>2, <1>4, <1>5, <1>6, <1>7 DEF DatasourceInductive

\* No call fits everywhere.
LEMMA NoCallFits == NoCall \in Call /\ Fits(NoCall) /\ Fits(NoCall)'
BY NullsAssumption
   DEF Call, Scan, Fits, Equipped, KnowsItsJob, CarriesItsScan, SeesItsSource

\* A call may end at any point.
LEMMA LeaveStep ==
    ASSUME DatasourceInductive, NEW c \in Callers, Leave(c), UNCHANGED <<catalog, graph, history>>
    PROVE  DatasourceInductive'
<1>1. Becomes(c, NoCall) /\ GoesOn(c, NoCall)
  BY DEF Leave, Becomes, GoesOn
<1>2. JobsHaveOneScan' /\ ReadersExcludeChangers'
  BY <1>1, GoesOnApart
<1>3. \A d \in Datasources : Published(active[d]) => NoCall.job # active[d].job
  BY NullsAssumption DEF DatasourceInductive, ActiveSnapshotsHaveJobs
<1>4. raced \subseteq Datasources /\ changes \in 0..MaxChanges /\ crashes \in 0..MaxCrashes
  BY DEF DatasourceInductive, DatasourceTypeOK
<1>. QED  BY <1>1, <1>2, <1>3, <1>4, NoCallFits, CallStep

\* A step from one point of a scan to another needs no look at the other calls.
LEMMA GotoStep ==
    ASSUME DatasourceInductive, NEW c \in Callers, NEW k \in Call, Becomes(c, k), GoesOn(c, k),
           Fits(k), ~At(c, "ready"), UNCHANGED <<catalog, graph, history>>
    PROVE  DatasourceInductive'
<1>1. JobsHaveOneScan' /\ ReadersExcludeChangers'
  BY GoesOnApart
<1>2. \A d \in Datasources : Published(active[d]) => k.job # active[d].job
  BY NullsAssumption DEF DatasourceInductive, ActiveSnapshotsHaveJobs, GoesOn
<1>3. raced \subseteq Datasources /\ changes \in 0..MaxChanges /\ crashes \in 0..MaxCrashes
  BY DEF DatasourceInductive, DatasourceTypeOK
<1>. QED  BY <1>1, <1>2, <1>3, CallStep

-----------------------------------------------------------------------------
(* Steps that write the row of a scan's own job *)

\* A scan that writes its job and goes on to a point the new status belongs to keeps the
\* invariant, if the snapshot of the job is not active or the scan ends.
LEMMA JobStep ==
    ASSUME DatasourceInductive, NEW c \in Callers, NEW k \in Call, NEW row \in JobRow,
           call[c].pc \in ScanStep, Becomes(c, k), GoesOn(c, k),
           jobs' = [jobs EXCEPT ![call[c].job] = row],
           UNCHANGED <<source, versions, active, graph, history>>,
           Equipped(k), CarriesItsScan(k), SeesItsSource(k),
           k.pc \in ScanStep => /\ k.pc # "job" /\ row.status = StatusAt(k.pc)
                                /\ row.source = k.source,
           \A d \in Datasources : Published(active[d]) /\ active[d].job = call[c].job =>
               k.job = NoJob /\ row.source = jobs[call[c].job].source /\ row.status # "none"
    PROVE  DatasourceInductive'
<1>1. call'[c] = k /\ \A e \in Callers : e # c => call'[e] = call[e]
  BY DEF Becomes, DatasourceInductive, DatasourceTypeOK
<1>2. Equipped(call[c]) /\ call[c].job \in Jobs
  BY DEF DatasourceInductive, DatasourceTypeOK, CallsFit, Fits, Equipped, Call
<1>3. jobs'[call[c].job] = row /\ \A j \in Jobs : j # call[c].job => jobs'[j] = jobs[j]
  BY <1>2 DEF DatasourceInductive, DatasourceTypeOK
<1>4. DatasourceTypeOK'
  BY <1>2 DEF Becomes, DatasourceInductive, DatasourceTypeOK
<1>5. JobsHaveOneScan' /\ ReadersExcludeChangers'
  BY GoesOnApart
<1>6. Fits(k)'
  <2>1. k.pc \in ScanStep => k.job = call[c].job
    BY DEF GoesOn, Equipped
  <2>2. KnowsItsJob(k)'
    BY <1>3, <2>1 DEF KnowsItsJob
  <2>. QED  BY <2>2 DEF Fits, Equipped, CarriesItsScan, SeesItsSource
<1>7. ASSUME NEW e \in Callers, e # c PROVE Fits(call[e])'
  <2>1. Fits(call[e]) /\ call[e] \in Call /\ call'[e] = call[e]
    BY <1>1, <1>7 DEF DatasourceInductive, CallsFit, DatasourceTypeOK
  <2>2. call[e].pc \in ScanStep => call[e].job \in Jobs /\ call[e].job # call[c].job
    BY <1>2, <1>7, <2>1, NullsAssumption
       DEF DatasourceInductive, JobsHaveOneScan, Fits, Equipped, Call
  <2>3. KnowsItsJob(call[e])'
    BY <1>3, <2>1, <2>2 DEF Fits, KnowsItsJob
  <2>. QED  BY <2>1, <2>3 DEF Fits, Equipped, CarriesItsScan, SeesItsSource
<1>8. CallsFit'
  BY <1>1, <1>6, <1>7 DEF CallsFit
<1>9. ActiveSnapshotsHaveJobs'
  <2>. SUFFICES ASSUME NEW d \in Datasources, Published(active[d])
                PROVE  /\ active[d].job \in Jobs
                       /\ jobs'[active[d].job].source = d
                       /\ jobs'[active[d].job].status # "none"
                       /\ \A e \in Callers : call'[e].job = active[d].job => At(e, "ready")'
    BY DEF ActiveSnapshotsHaveJobs
  <2>1. /\ active[d].job \in Jobs /\ jobs[active[d].job] \in JobRow
        /\ jobs[active[d].job].source = d
        /\ jobs[active[d].job].status # "none"
        /\ \A e \in Callers : call[e].job = active[d].job => At(e, "ready")
    BY DEF DatasourceInductive, DatasourceTypeOK, ActiveSnapshotsHaveJobs
  <2>2. CASE active[d].job = call[c].job
    BY <1>1, <1>2, <1>3, <2>1, <2>2, NullsAssumption DEF JobRow
  <2>3. CASE active[d].job # call[c].job
    BY <1>1, <1>3, <2>1, <2>3, NullsAssumption DEF GoesOn
  <2>. QED  BY <2>2, <2>3
<1>10. VersionsHaveNoGaps' /\ DeletedLeavesNothing'
  BY DEF DatasourceInductive, VersionsHaveNoGaps, DeletedLeavesNothing
<1>11. GraphFollowsConnection' /\ ReadyDescribesConnection'
  BY DEF DatasourceInductive, GraphFollowsConnection, ReadyDescribesConnection
<1>. QED  BY <1>4, <1>5, <1>8, <1>9, <1>10, <1>11 DEF DatasourceInductive

\* A job whose status may move has the status its scan is at, and the scan's datasource.
LEMMA MovableJob ==
    ASSUME DatasourceInductive, NEW c \in Callers, call[c].pc \in ScanStep \ {"job"}, NEW status,
           CanMove(call[c].job, status)
    PROVE  /\ call[c] \in Call /\ Fits(call[c]) /\ call[c].job \in Jobs
           /\ jobs[call[c].job] \in JobRow
           /\ jobs[call[c].job].status = StatusAt(call[c].pc)
           /\ jobs[call[c].job].source = call[c].source
<1>1. call[c] \in Call /\ Fits(call[c])
  BY DEF DatasourceInductive, DatasourceTypeOK, CallsFit
<1>2. call[c].job \in Jobs
  BY <1>1 DEF Fits, Equipped, Call
<1>3. jobs[call[c].job] \in JobRow
  BY <1>2 DEF DatasourceInductive, DatasourceTypeOK
<1>4. jobs[call[c].job].status \notin {"none", "gone"}
  BY DEF CanMove, Transitions
<1>5. jobs[call[c].job].status = StatusAt(call[c].pc)
  BY <1>1, <1>4 DEF Fits, KnowsItsJob
<1>6. jobs[call[c].job].source = call[c].source
  BY <1>1, <1>4, <1>5 DEF Fits, KnowsItsJob
<1>. QED  BY <1>1, <1>2, <1>3, <1>5, <1>6

\* A report after which the scan goes on.
LEMMA ReportStep ==
    ASSUME DatasourceInductive, NEW c \in Callers, NEW at, NEW status \in ScanStatus, NEW then,
           Reports(c, at, status, then), at \in Attached,
           then \in Attached \ {"replace", "commit"}, StatusAt(then) = status
    PROVE  DatasourceInductive'
<1>1. PICK k : k = [call[c] EXCEPT !.pc = then]
  OBVIOUS
<1>2. PICK row : row = [jobs[call[c].job] EXCEPT !.status = status]
  OBVIOUS
<1>3. /\ call[c] \in Call /\ Fits(call[c]) /\ jobs[call[c].job] \in JobRow
      /\ jobs[call[c].job].source = call[c].source
  BY MovableJob DEF Reports
<1>4. /\ k.pc = then /\ k.job = call[c].job /\ k.source = call[c].source
      /\ k.profile = call[c].profile /\ k \in Call
  BY <1>1, <1>3 DEF Call
<1>5. row \in JobRow /\ row.status = status /\ row.source = call[c].source
  BY <1>2, <1>3 DEF JobRow
<1>6. Becomes(c, k) /\ GoesOn(c, k)
  BY <1>1, <1>4 DEF Reports, Goto, Becomes, GoesOn, DatasourceInductive, DatasourceTypeOK
<1>7. Equipped(k) /\ CarriesItsScan(k) /\ SeesItsSource(k)
  BY <1>3, <1>4 DEF Reports, Fits, Equipped, CarriesItsScan, SeesItsSource
<1>8. jobs' = [jobs EXCEPT ![call[c].job] = row]
  BY <1>2 DEF Reports, DatasourceInductive, DatasourceTypeOK
<1>9. \A d \in Datasources : Published(active[d]) => active[d].job # call[c].job
  BY DEF Reports, DatasourceInductive, ActiveSnapshotsHaveJobs
<1>10. UNCHANGED <<source, versions, active, graph, history>> /\ call[c].pc \in ScanStep
  BY DEF Reports
<1>11. k.pc \in ScanStep /\ k.pc # "job" /\ row.status = StatusAt(k.pc) /\ row.source = k.source
  BY <1>4, <1>5
<1>12. \A d \in Datasources : Published(active[d]) /\ active[d].job = call[c].job => FALSE
  BY <1>9
<1>. HIDE DEF ScanStep, Published, history
<1>. QED  BY <1>4, <1>5, <1>6, <1>7, <1>8, <1>10, <1>11, <1>12, JobStep

\* A report with which the scan ends.
LEMMA LastReportStep ==
    ASSUME DatasourceInductive, NEW c \in Callers, NEW at \in ScanStep \ {"job"}, NEW status \in ScanStatus,
           Reports(c, at, status, "idle")
    PROVE  DatasourceInductive'
<1>1. PICK row : row = [jobs[call[c].job] EXCEPT !.status = status]
  OBVIOUS
<1>2. jobs[call[c].job] \in JobRow
  BY MovableJob DEF Reports
<1>3. row \in JobRow
  BY <1>1, <1>2 DEF JobRow
<1>4. Becomes(c, NoCall) /\ GoesOn(c, NoCall)
  BY DEF Reports, Leave, Becomes, GoesOn
<1>5. NoCall \in Call /\ Equipped(NoCall) /\ CarriesItsScan(NoCall) /\ SeesItsSource(NoCall)
  BY NoCallFits DEF Fits
<1>6. jobs' = [jobs EXCEPT ![call[c].job] = row]
  BY <1>1 DEF Reports, DatasourceInductive, DatasourceTypeOK
<1>7. row.source = jobs[call[c].job].source /\ row.status # "none"
  BY <1>1, <1>2 DEF JobRow, ScanStatus
<1>8. UNCHANGED <<source, versions, active, graph, history>>
  BY DEF Reports
<1>. QED  BY ZenonT(60), <1>3, <1>4, <1>5, <1>6, <1>7, <1>8, JobStep DEF Reports

-----------------------------------------------------------------------------
(* The scan: one lemma per transaction *)

\* What a thread is doing has its type and fits.
LEMMA CallOf ==
    ASSUME DatasourceInductive, NEW c \in Callers
    PROVE  call[c] \in Call /\ Fits(call[c])
BY DEF DatasourceInductive, DatasourceTypeOK, CallsFit

\* Who starts to read or to change a datasource and notes the overlaps races with nobody else.
LEMMA NotedApart ==
    ASSUME DatasourceInductive, NEW c \in Callers, NEW k, Becomes(c, k),
           k.job \in {call[c].job, NoJob}, NotesOverlaps
    PROVE  /\ JobsHaveOneScan' /\ ReadersExcludeChangers'
           /\ raced \subseteq raced' /\ raced' \subseteq Datasources
<1>1. call'[c] = k /\ \A e \in Callers : e # c => call'[e] = call[e]
  BY DEF Becomes, DatasourceInductive, DatasourceTypeOK
<1>2. JobsHaveOneScan'
  BY <1>1 DEF DatasourceInductive, JobsHaveOneScan
<1>3. ReadersExcludeChangers' /\ raced \subseteq raced' /\ raced' \subseteq Datasources
  BY DEF NotesOverlaps, Overlaps, ReadersExcludeChangers, DatasourceInductive, DatasourceTypeOK
<1>. QED  BY <1>2, <1>3

\* A scan starts with a job nobody has.
LEMMA StartScanStep ==
    ASSUME DatasourceInductive, NEW c \in Callers, NEW d \in Datasources, NEW j \in Jobs,
           StartScan(c, d, j)
    PROVE  DatasourceInductive'
<1>1. PICK k : k = [NoCall EXCEPT !.pc = "job", !.op = "scan", !.source = d, !.job = j]
  OBVIOUS
<1>2. /\ k.pc = "job" /\ k.source = d /\ k.job = j /\ k \in Call
  BY ZenonT(60), <1>1, NoCallFits DEF Call
<1>3. Becomes(c, k)
  BY <1>1 DEF StartScan, Becomes
<1>4. call'[c] = k /\ \A e \in Callers : e # c => call'[e] = call[e]
  BY <1>3 DEF Becomes, DatasourceInductive, DatasourceTypeOK
<1>5. JobsHaveOneScan' /\ ReadersExcludeChangers'
  BY <1>2, <1>4 DEF StartScan, DatasourceInductive, JobsHaveOneScan, ReadersExcludeChangers
<1>6. Fits(k)
  BY <1>2, NullsAssumption
     DEF StartScan, Fits, Equipped, KnowsItsJob, StatusAt, CarriesItsScan, SeesItsSource
<1>7. \A b \in Datasources : Published(active[b]) => k.job # active[b].job
  BY <1>2 DEF StartScan, DatasourceInductive, ActiveSnapshotsHaveJobs
<1>8. UNCHANGED <<catalog, graph, history>>
  BY DEF StartScan
<1>9. raced \subseteq Datasources /\ changes \in 0..MaxChanges /\ crashes \in 0..MaxCrashes
  BY DEF DatasourceInductive, DatasourceTypeOK
<1>. QED  BY <1>2, <1>3, <1>5, <1>6, <1>7, <1>8, <1>9, CallStep

\* Its row is new, so no snapshot has it.
LEMMA InsertJobStep ==
    ASSUME DatasourceInductive, NEW c \in Callers, InsertJob(c)
    PROVE  DatasourceInductive'
<1>1. PICK k : k = [call[c] EXCEPT !.pc = "open"]
  OBVIOUS
<1>2. PICK row : row = [status |-> "created", source |-> call[c].source]
  OBVIOUS
<1>3. call[c] \in Call /\ Fits(call[c]) /\ call[c].pc = "job"
  BY CallOf DEF InsertJob
<1>4. k.pc = "open" /\ k.job = call[c].job /\ k.source = call[c].source /\ k \in Call
  BY <1>1, <1>3 DEF Call
<1>5. row \in JobRow /\ row.status = "created" /\ row.source = call[c].source
  BY <1>2, <1>3 DEF JobRow, ScanStatus, Call
<1>6. Becomes(c, k) /\ GoesOn(c, k)
  BY <1>1, <1>4 DEF InsertJob, Goto, Becomes, GoesOn, DatasourceInductive, DatasourceTypeOK
<1>7. Equipped(k) /\ CarriesItsScan(k) /\ SeesItsSource(k)
  BY <1>3, <1>4 DEF Fits, Equipped, CarriesItsScan, SeesItsSource
<1>8. jobs' = [jobs EXCEPT ![call[c].job] = row]
  BY <1>2 DEF InsertJob
<1>9. \A d \in Datasources : Published(active[d]) => active[d].job # call[c].job
  BY <1>3 DEF DatasourceInductive, ActiveSnapshotsHaveJobs
<1>10. UNCHANGED <<source, versions, active, graph, history>> /\ call[c].pc \in ScanStep
  BY DEF InsertJob
<1>11. k.pc # "job" /\ row.status = StatusAt(k.pc) /\ row.source = k.source
  BY <1>4, <1>5 DEF StatusAt
<1>. HIDE DEF ScanStep, Published, history
<1>. QED  BY <1>4, <1>5, <1>6, <1>7, <1>8, <1>9, <1>10, <1>11, JobStep

\* A scan that opens its connection sees the profile of its datasource.
LEMMA OpenConnectionStep ==
    ASSUME DatasourceInductive, NEW c \in Callers, OpenConnection(c)
    PROVE  DatasourceInductive'
<1>1. CASE Leave(c) /\ UNCHANGED raced
  BY <1>1, LeaveStep DEF OpenConnection
<1>2. CASE /\ Exists(call[c].source) /\ NotesOverlaps
           /\ call' = [call EXCEPT ![c].pc = "verify",
                                   ![c].profile = source[call[c].source].profile]
  <2>1. PICK k : k = [call[c] EXCEPT !.pc = "verify", !.profile = source[call[c].source].profile]
    OBVIOUS
  <2>2. call[c] \in Call /\ Fits(call[c]) /\ call[c].pc = "open"
    BY CallOf DEF OpenConnection
  <2>3. call[c].source \in Datasources
    BY <2>2 DEF Fits, Equipped
  <2>4. source[call[c].source].profile \in Profiles \cup {NoProfile}
    BY <2>3 DEF DatasourceInductive, DatasourceTypeOK, SourceRow
  <2>5. /\ k.pc = "verify" /\ k.job = call[c].job /\ k.source = call[c].source
        /\ k.profile = source[call[c].source].profile /\ k \in Call
    BY <2>1, <2>2, <2>4 DEF Call
  <2>6. Becomes(c, k)
    BY <1>2, <2>1 DEF Becomes, DatasourceInductive, DatasourceTypeOK
  <2>7. Fits(k)
    BY <1>2, <2>2, <2>5
       DEF Fits, Equipped, KnowsItsJob, StatusAt, CarriesItsScan, SeesItsSource
  <2>8. \A d \in Datasources : Published(active[d]) => k.job # active[d].job
    BY <2>2, <2>5 DEF DatasourceInductive, ActiveSnapshotsHaveJobs
  <2>9. /\ JobsHaveOneScan' /\ ReadersExcludeChangers'
        /\ raced \subseteq raced' /\ raced' \subseteq Datasources
    BY <1>2, <2>5, <2>6, NotedApart
  <2>10. /\ UNCHANGED <<catalog, graph>>
         /\ changes' \in 0..MaxChanges /\ crashes' \in 0..MaxCrashes
    BY DEF OpenConnection, DatasourceInductive, DatasourceTypeOK
  <2>. QED  BY <2>5, <2>6, <2>7, <2>8, <2>9, <2>10, CallStep
<1>. QED  BY <1>1, <1>2 DEF OpenConnection

\* The reports of a scan.
LEMMA ReportSteps ==
    ASSUME DatasourceInductive, NEW c \in Callers,
           Verify(c) \/ TestConnection(c) \/ BeginScan(c) \/ ReadSource(c) \/ FinishScan(c)
    PROVE  DatasourceInductive'
<1>1. CASE Verify(c)
  BY <1>1, ReportStep DEF Verify, ScanStatus, StatusAt
<1>2. CASE Reports(c, "test", "connection_verified", "begin")
  BY <1>2, ReportStep DEF ScanStatus, StatusAt
<1>3. CASE Reports(c, "test", "connection_failed", "idle")
  BY <1>3, LastReportStep DEF ScanStatus
<1>4. CASE BeginScan(c)
  BY <1>4, ReportStep DEF BeginScan, ScanStatus, StatusAt
<1>5. CASE Reports(c, "read", "profiling", "version")
  BY <1>5, ReportStep DEF ScanStatus, StatusAt
<1>6. CASE Reports(c, "read", "scan_failed", "idle")
  BY <1>6, LastReportStep DEF ScanStatus
<1>7. CASE Reports(c, "ready", "ready", "idle")
  BY <1>7, LastReportStep DEF ScanStatus
<1>8. CASE Reports(c, "failed", "profile_failed", "idle")
  BY <1>8, LastReportStep DEF ScanStatus
<1>9. CASE Reports(c, "ready", "profile_failed", "idle")
  BY <1>9, LastReportStep DEF ScanStatus
<1>. QED  BY <1>1, <1>2, <1>3, <1>4, <1>5, <1>6, <1>7, <1>8, <1>9
          DEF TestConnection, ReadSource, FinishScan

\* A scan that gives up before its commit reports its failure next.
LEMMA GiveUpStep ==
    ASSUME DatasourceInductive, NEW c \in Callers, call[c].pc \in {"version", "replace", "commit"},
           Goto(c, "failed"), UNCHANGED <<catalog, graph, history>>
    PROVE  DatasourceInductive'
<1>1. PICK k : k = [call[c] EXCEPT !.pc = "failed"]
  OBVIOUS
<1>2. call[c] \in Call /\ Fits(call[c])
  BY CallOf
<1>3. k.pc = "failed" /\ k.job = call[c].job /\ k.source = call[c].source /\ k \in Call
  BY <1>1, <1>2 DEF Call
<1>4. Becomes(c, k) /\ GoesOn(c, k)
  BY <1>1, <1>3 DEF Goto, Becomes, GoesOn, DatasourceInductive, DatasourceTypeOK
<1>5. Fits(k)
  BY <1>2, <1>3 DEF Fits, Equipped, KnowsItsJob, StatusAt, CarriesItsScan, SeesItsSource
<1>. QED  BY <1>3, <1>4, <1>5, GotoStep

\* The version a scan takes is the one after all that are recorded.
LEMMA TakeVersionStep ==
    ASSUME DatasourceInductive, NEW c \in Callers, TakeVersion(c)
    PROVE  DatasourceInductive'
<1>1. CASE Goto(c, "failed")
  BY <1>1, GiveUpStep DEF TakeVersion
<1>2. ASSUME NEW v \in NextVersion(call[c].source),
             call' = [call EXCEPT ![c].pc = "replace",
                                  ![c].scan = [version |-> v, via |-> call[c].profile,
                                               job |-> call[c].job]]
      PROVE  DatasourceInductive'
  <2>1. PICK s : s = [version |-> v, via |-> call[c].profile, job |-> call[c].job]
    OBVIOUS
  <2>2. PICK k : k = [call[c] EXCEPT !.pc = "replace", !.scan = s]
    OBVIOUS
  <2>3. call[c] \in Call /\ Fits(call[c]) /\ call[c].pc = "version"
    BY CallOf DEF TakeVersion
  <2>4. call[c].source \in Datasources /\ versions[call[c].source] \in SUBSET Nat
    BY <2>3 DEF Fits, Equipped, DatasourceInductive, DatasourceTypeOK
  <2>5. /\ v \in Nat /\ v > 0
        /\ \A u \in 1..(v - 1) : u \in versions[call[c].source]
    <3>1. CASE v = 1
      BY <3>1
    <3>2. ASSUME NEW w \in versions[call[c].source], v = w + 1
          PROVE  /\ v \in Nat /\ v > 0
                 /\ \A u \in 1..(v - 1) : u \in versions[call[c].source]
      <4>1. w \in Nat /\ w > 0 /\ \A u \in 1..(w - 1) : u \in versions[call[c].source]
        BY <2>4 DEF DatasourceInductive, VersionsHaveNoGaps
      <4>2. \A u \in 1..(v - 1) : u = w \/ u \in 1..(w - 1)
        BY <3>2, <4>1
      <4>. QED  BY <3>2, <4>1, <4>2
    <3>. QED  BY <3>1, <3>2 DEF NextVersion
  <2>6. s \in Scan
    BY <2>1, <2>3, <2>5 DEF Scan, Call
  <2>7. /\ k.pc = "replace" /\ k.job = call[c].job /\ k.source = call[c].source
        /\ k.profile = call[c].profile /\ k.scan = s /\ k \in Call
    BY <2>2, <2>3, <2>6 DEF Call
  <2>8. Becomes(c, k) /\ GoesOn(c, k)
    BY <1>2, <2>1, <2>2, <2>3, <2>7 DEF Becomes, GoesOn, DatasourceInductive, DatasourceTypeOK
  <2>9. CarriesItsScan(k)
    BY <2>1, <2>5, <2>7 DEF CarriesItsScan
  <2>10. Fits(k)
    BY <2>3, <2>7, <2>9 DEF Fits, Equipped, KnowsItsJob, StatusAt, SeesItsSource
  <2>. QED  BY <2>3, <2>7, <2>8, <2>10, GotoStep DEF TakeVersion
<1>. QED  BY <1>1, <1>2 DEF TakeVersion

\* A scan may be abandoned.
LEMMA AbandonStep ==
    ASSUME DatasourceInductive, NEW c \in Callers, Abandon(c)
    PROVE  DatasourceInductive'
BY LeaveStep DEF Abandon

-----------------------------------------------------------------------------
(* Steps that write the stores *)

\* The graph a scan publishes was read through the datasource's connection, unless it raced.
LEMMA ReplaceGraphStep ==
    ASSUME DatasourceInductive, NEW c \in Callers, ReplaceGraph(c)
    PROVE  DatasourceInductive'
<1>1. CASE UNCHANGED graph /\ Goto(c, "failed")
  BY <1>1, GiveUpStep DEF ReplaceGraph
<1>2. CASE graph' = [graph EXCEPT ![call[c].source] = call[c].scan] /\ Goto(c, "commit")
  <2>1. PICK k : k = [call[c] EXCEPT !.pc = "commit"]
    OBVIOUS
  <2>2. call[c] \in Call /\ Fits(call[c]) /\ call[c].pc = "replace" /\ call[c].scan \in Scan
    BY CallOf DEF ReplaceGraph, Call
  <2>3. /\ k.pc = "commit" /\ k.job = call[c].job /\ k.source = call[c].source
        /\ k.profile = call[c].profile /\ k.scan = call[c].scan /\ k \in Call
    BY <2>1, <2>2 DEF Call
  <2>4. Becomes(c, k) /\ GoesOn(c, k)
    <3>1. Becomes(c, k)
      BY <1>2, <2>1 DEF Goto, Becomes, DatasourceInductive, DatasourceTypeOK
    <3>2. GoesOn(c, k)
      BY <2>2, <2>3 DEF GoesOn
    <3>. QED  BY <3>1, <3>2
  <2>5. call'[c] = k /\ \A e \in Callers : e # c => call'[e] = call[e]
    BY <2>4 DEF Becomes, DatasourceInductive, DatasourceTypeOK
  <2>6. UNCHANGED <<catalog, history>>
    BY DEF ReplaceGraph
  <2>7. JobsHaveOneScan' /\ ReadersExcludeChangers'
    BY <2>4, <2>6, GoesOnApart
  <2>8. DatasourceTypeOK'
    BY <1>2, <2>2, <2>3, <2>4, <2>6 DEF Becomes, DatasourceInductive, DatasourceTypeOK
  <2>9. Fits(k)'
    BY <2>2, <2>3, <2>6 DEF Fits, Equipped, KnowsItsJob, StatusAt, CarriesItsScan, SeesItsSource
  <2>10. ASSUME NEW e \in Callers, e # c PROVE Fits(call[e])'
    <3>1. Fits(call[e]) /\ call'[e] = call[e]
      BY <2>5, <2>10, CallOf
    <3>2. SeesItsSource(call[e])'
      <4>1. CASE call[e].source = call[c].source /\ call[e].pc \in {"switch", "remove"}
        \* A change that waits to write the catalog would have raced with the scan.
        BY <2>2, <2>6, <3>1, <4>1
           DEF Fits, Equipped, DatasourceInductive, ReadersExcludeChangers, SeesItsSource
      <4>2. CASE ~(call[e].source = call[c].source /\ call[e].pc \in {"switch", "remove"})
        <5>1. call[e].pc \in {"switch", "remove"} => graph'[call[e].source] = graph[call[e].source]
          BY <1>2, <3>1, <4>2 DEF Fits, Equipped, DatasourceInductive, DatasourceTypeOK
        <5>. QED  BY <2>6, <3>1, <5>1 DEF Fits, SeesItsSource
      <4>. QED  BY <4>1, <4>2
    <3>. QED  BY <2>6, <3>1, <3>2 DEF Fits, Equipped, KnowsItsJob, CarriesItsScan
  <2>11. CallsFit'
    BY <2>5, <2>9, <2>10 DEF CallsFit
  <2>12. ActiveSnapshotsHaveJobs'
    BY <2>2, <2>3, <2>5, <2>6 DEF DatasourceInductive, ActiveSnapshotsHaveJobs
  <2>13. GraphFollowsConnection'
    BY <1>2, <2>2, <2>6
       DEF DatasourceInductive, DatasourceTypeOK, GraphFollowsConnection, Fits, CarriesItsScan,
           SeesItsSource
  <2>14. /\ VersionsHaveNoGaps' /\ DeletedLeavesNothing'
         /\ ReadyDescribesConnection'
    BY <2>6 DEF DatasourceInductive, VersionsHaveNoGaps, DeletedLeavesNothing, ReadyDescribesConnection
  <2>. QED  BY <2>7, <2>8, <2>11, <2>12, <2>13, <2>14 DEF DatasourceInductive
<1>. QED  BY <1>1, <1>2 DEF ReplaceGraph

\* What a commit needs is at hand, and its version is above all that are recorded.
LEMMA CommitFacts ==
    ASSUME DatasourceInductive, NEW c \in Callers, At(c, "commit"),
           MayCommit(call[c].source, call[c].scan.version)
    PROVE  /\ call[c].source \in Datasources /\ call[c].scan \in Scan /\ Published(call[c].scan)
           /\ call[c].job \in Jobs /\ call[c].scan.job = call[c].job
           /\ jobs[call[c].job].status = "profiling"
           /\ jobs[call[c].job].source = call[c].source
           /\ \A u \in versions[call[c].source] : u < call[c].scan.version
           /\ \A u \in 1..(call[c].scan.version - 1) : u \in versions[call[c].source]
<1>. DEFINE d == call[c].source  s == call[c].scan
<1>1. call[c] \in Call /\ Fits(call[c])
  BY CallOf
<1>2. d \in Datasources /\ s \in Scan /\ call[c].job \in Jobs
  BY <1>1 DEF Fits, Equipped, Call
<1>3. s.job = call[c].job /\ s.version > 0 /\ s.version \in Nat
  BY <1>1, <1>2 DEF Fits, CarriesItsScan, Scan
<1>4. \A u \in 1..(s.version - 1) : u \in versions[d]
  BY <1>1 DEF Fits, CarriesItsScan, MayCommit
<1>5. ASSUME NEW u \in versions[d] PROVE u < s.version
  <2>1. u \in Nat /\ u # s.version /\ \A w \in 1..(u - 1) : w \in versions[d]
    BY <1>2 DEF MayCommit, DatasourceInductive, DatasourceTypeOK, VersionsHaveNoGaps
  <2>2. s.version < u => s.version \in 1..(u - 1)
    BY <1>3, <2>1
  <2>. QED  BY <1>3, <2>1, <2>2 DEF MayCommit
<1>6. jobs[call[c].job].status = "profiling" /\ jobs[call[c].job].source = d
  BY <1>1 DEF Fits, KnowsItsJob, StatusAt, MayCommit
<1>. QED  BY <1>2, <1>3, <1>4, <1>5, <1>6

\* A commit makes the scan's own snapshot active.
LEMMA CommitStep ==
    ASSUME DatasourceInductive, NEW c \in Callers, Commit(c)
    PROVE  DatasourceInductive'
<1>. DEFINE d == call[c].source  s == call[c].scan
<1>1. CASE UNCHANGED <<active, versions, source>> /\ Goto(c, "failed")
  BY <1>1, GiveUpStep DEF Commit
<1>2. CASE /\ MayCommit(d, s.version)
           /\ active' = [active EXCEPT ![d] = s]
           /\ versions' = [versions EXCEPT ![d] = @ \cup {s.version}]
           /\ source' = [source EXCEPT ![d].status = "ready"]
           /\ Goto(c, "ready")
  <2>1. PICK k : k = [call[c] EXCEPT !.pc = "ready"]
    OBVIOUS
  <2>2. call[c] \in Call /\ Fits(call[c]) /\ call[c].pc = "commit"
    BY CallOf DEF Commit
  <2>3. k.pc = "ready" /\ k.job = call[c].job /\ k.source = d /\ k \in Call
    BY <2>1, <2>2 DEF Call
  <2>4. Becomes(c, k) /\ GoesOn(c, k)
    BY <1>2, <2>1, <2>3 DEF Goto, Becomes, GoesOn, DatasourceInductive, DatasourceTypeOK
  <2>5. call'[c] = k /\ \A e \in Callers : e # c => call'[e] = call[e]
    BY <2>4 DEF Becomes, DatasourceInductive, DatasourceTypeOK
  <2>6. UNCHANGED <<jobs, graph, history>>
    BY DEF Commit
  <2>7. /\ d \in Datasources /\ s \in Scan /\ Published(s)
        /\ call[c].job \in Jobs /\ s.job = call[c].job
        /\ jobs[call[c].job].status = "profiling" /\ jobs[call[c].job].source = d
        /\ s.version \in Nat
        /\ \A u \in versions[d] : u < s.version
        /\ \A u \in 1..(s.version - 1) : u \in versions[d]
    BY <1>2, <2>2, CommitFacts DEF Scan
  <2>8. Exists(d) /\ source[d] \in SourceRow /\ source'[d] = [source[d] EXCEPT !.status = "ready"]
    BY <1>2, <2>7 DEF MayCommit, DatasourceInductive, DatasourceTypeOK
  <2>9. source'[d].status = "ready" /\ source'[d].profile = source[d].profile
    BY <2>8 DEF SourceRow
  <2>10. /\ \A b \in Datasources : b # d => /\ source'[b] = source[b] /\ active'[b] = active[b]
                                            /\ versions'[b] = versions[b]
         /\ active'[d] = s /\ versions'[d] = versions[d] \cup {s.version}
    BY <1>2, <2>7 DEF DatasourceInductive, DatasourceTypeOK
  <2>11. DatasourceTypeOK'
    BY <1>2, <2>3, <2>4, <2>6, <2>7, <2>8
       DEF Becomes, SourceRow, DatasourceInductive, DatasourceTypeOK
  <2>12. JobsHaveOneScan' /\ ReadersExcludeChangers'
    BY <2>4, <2>6, GoesOnApart
  <2>13. ASSUME NEW l \in Call, Fits(l), l.pc # "idle" PROVE Fits(l)'
    <3>1. l.source \in Datasources
      BY <2>13 DEF Fits, Equipped
    <3>2. /\ Exists(l.source) <=> Exists(l.source)'
          /\ source[l.source].status = "deleted" <=> source'[l.source].status = "deleted"
          /\ source[l.source].status = "none" <=> source'[l.source].status = "none"
          /\ source'[l.source].profile = source[l.source].profile
          /\ versions[l.source] \subseteq versions'[l.source]
      BY <2>8, <2>9, <2>10, <3>1
    <3>. QED  BY <2>6, <2>13, <3>2 DEF Fits, Equipped, KnowsItsJob, CarriesItsScan, SeesItsSource
  <2>14. Fits(NoCall)'
    BY NullsAssumption DEF Fits, Equipped, KnowsItsJob, CarriesItsScan, SeesItsSource
  <2>15. Fits(k)
    BY <2>2, <2>3 DEF Fits, Equipped, KnowsItsJob, StatusAt, CarriesItsScan, SeesItsSource
  <2>16. CallsFit'
    <3>. SUFFICES ASSUME NEW e \in Callers PROVE Fits(call[e])'
      BY DEF CallsFit
    <3>1. CASE e = c
      BY <2>3, <2>5, <2>13, <2>15, <3>1
    <3>2. CASE e # c
      BY <2>5, <2>13, <2>14, <3>2, CallOf DEF Fits, Equipped
    <3>. QED  BY <3>1, <3>2
  <2>17. ActiveSnapshotsHaveJobs'
    <3>. SUFFICES ASSUME NEW b \in Datasources, Published(active'[b])
                  PROVE  /\ active'[b].job \in Jobs /\ jobs[active'[b].job].source = b
                         /\ jobs[active'[b].job].status # "none"
                         /\ \A e \in Callers : call'[e].job = active'[b].job => At(e, "ready")'
      BY <2>6 DEF ActiveSnapshotsHaveJobs
    <3>1. CASE b = d
      <4>1. \A e \in Callers : e # c => call[e].job # call[c].job
        BY <2>7, NullsAssumption DEF DatasourceInductive, JobsHaveOneScan
      <4>. QED  BY <2>3, <2>5, <2>7, <2>10, <3>1, <4>1
    <3>2. CASE b # d
      BY <2>2, <2>3, <2>5, <2>10, <3>2 DEF DatasourceInductive, ActiveSnapshotsHaveJobs
    <3>. QED  BY <3>1, <3>2
  <2>18. VersionsHaveNoGaps'
    <3>. SUFFICES ASSUME NEW b \in Datasources, NEW v \in versions'[b]
                  PROVE  v > 0 /\ \A u \in 1..(v - 1) : u \in versions'[b]
      BY DEF VersionsHaveNoGaps
    <3>1. v \in versions[b] \/ (b = d /\ v = s.version)
      BY <2>10
    <3>2. CASE v \in versions[b]
      BY <2>10, <3>2 DEF DatasourceInductive, VersionsHaveNoGaps
    <3>3. CASE b = d /\ v = s.version
      BY <2>2, <2>7, <2>10, <3>3 DEF Fits, CarriesItsScan
    <3>. QED  BY <3>1, <3>2, <3>3
  <2>19. GraphFollowsConnection'
    <3>. SUFFICES ASSUME NEW b \in Datasources \ raced, Published(graph[b])
                  PROVE  Exists(b)' /\ graph[b].via = source'[b].profile
      BY <2>6 DEF GraphFollowsConnection
    <3>1. Exists(b) /\ graph[b].via = source[b].profile
      BY DEF DatasourceInductive, GraphFollowsConnection
    <3>2. CASE b = d
      BY <2>9, <3>1, <3>2
    <3>3. CASE b # d
      BY <2>10, <3>1, <3>3
    <3>. QED  BY <3>2, <3>3
  <2>20. ReadyDescribesConnection'
    BY <2>2, <2>6, <2>7, <2>9, <2>10
       DEF DatasourceInductive, ReadyDescribesConnection, Fits, CarriesItsScan, SeesItsSource
  <2>21. DeletedLeavesNothing'
    BY <2>9, <2>10 DEF DatasourceInductive, DeletedLeavesNothing
  <2>. QED  BY <2>11, <2>12, <2>16, <2>17, <2>18, <2>19, <2>20, <2>21
            DEF DatasourceInductive
<1>. QED  BY <1>1, <1>2 DEF Commit

-----------------------------------------------------------------------------
(* Creation, updates and deletions *)

\* A step that leaves a datasource created keeps the invariant, if it had the connection before or
\* nobody reads it and nothing is published of it.
LEMMA SourceStep ==
    ASSUME DatasourceInductive, NEW c \in Callers, NEW d \in Datasources, NEW row \in SourceRow,
           NEW k \in Call, Becomes(c, k), GoesOn(c, k), k.job = NoJob, Fits(k)',
           source[d].status # "deleted", row.status = "created",
           source' = [source EXCEPT ![d] = row],
           active' \in {active, [active EXCEPT ![d] = NoScan]},
           UNCHANGED <<versions, jobs, graph, history>>,
           d \in raced \/ (Exists(d) /\ row.profile = source[d].profile)
                       \/ (~Published(graph[d]) /\ \A e \in Callers : ~Reading(e, d))
    PROVE  DatasourceInductive'
<1>1. call'[c] = k /\ \A e \in Callers : e # c => call'[e] = call[e]
  BY DEF Becomes, DatasourceInductive, DatasourceTypeOK
<1>2. source'[d] = row /\ \A b \in Datasources : b # d => source'[b] = source[b]
  BY DEF DatasourceInductive, DatasourceTypeOK
<1>3. /\ \A b \in Datasources : b # d => active'[b] = active[b]
      /\ active'[d] \in {active[d], NoScan}
  BY DEF DatasourceInductive, DatasourceTypeOK
<1>4. DatasourceTypeOK'
  <2>1. NoScan \in Scan
    BY DEF Scan
  <2>2. active' \in [Datasources -> Scan]
    BY <2>1 DEF DatasourceInductive, DatasourceTypeOK
  <2>3. call' \in [Callers -> Call]
    BY DEF Becomes, DatasourceInductive, DatasourceTypeOK
  <2>. QED  BY <2>2, <2>3 DEF DatasourceInductive, DatasourceTypeOK
<1>5. JobsHaveOneScan' /\ ReadersExcludeChangers'
  BY GoesOnApart
<1>6. ASSUME NEW e \in Callers, e # c PROVE Fits(call[e])'
  <2>1. call'[e] = call[e] /\ Fits(call[e])
    BY <1>1, <1>6, CallOf
  <2>2. CASE call[e].source = d
    <3>1. SeesItsSource(call[e])'
      BY <1>2, <2>1, <2>2 DEF Fits, SeesItsSource
    <3>. QED  BY <1>2, <2>1, <2>2, <3>1 DEF Fits, Equipped, KnowsItsJob, CarriesItsScan
  <2>3. CASE call[e].source # d
    <3>1. call[e].pc # "idle" => source'[call[e].source] = source[call[e].source]
      BY <1>2, <2>1, <2>3 DEF Fits, Equipped
    <3>. QED  BY <2>1, <3>1 DEF Fits, Equipped, KnowsItsJob, CarriesItsScan, SeesItsSource
  <2>. QED  BY <2>2, <2>3
<1>7. CallsFit'
  BY <1>1, <1>6 DEF CallsFit
<1>8. ActiveSnapshotsHaveJobs'
  BY <1>1, <1>3, NullsAssumption DEF DatasourceInductive, ActiveSnapshotsHaveJobs
<1>9. VersionsHaveNoGaps' /\ DeletedLeavesNothing' /\ ReadyDescribesConnection'
  BY <1>2, <1>3
     DEF DatasourceInductive, VersionsHaveNoGaps, DeletedLeavesNothing, ReadyDescribesConnection
<1>10. GraphFollowsConnection'
  BY <1>2 DEF DatasourceInductive, GraphFollowsConnection
<1>. QED  BY <1>4, <1>5, <1>7, <1>8, <1>9, <1>10 DEF DatasourceInductive

\* Nothing reads or publishes a datasource that never was.
LEMMA CreateStep ==
    ASSUME DatasourceInductive, NEW c \in Callers, NEW d \in Datasources, NEW p \in Profiles,
           Create(c, d, p)
    PROVE  DatasourceInductive'
<1>1. PICK row : row = [status |-> "created", profile |-> p]
  OBVIOUS
<1>2. row \in SourceRow /\ row.status = "created" /\ source' = [source EXCEPT ![d] = row]
  BY <1>1 DEF SourceRow, Create
<1>3. call[c] = NoCall
  BY CallOf DEF Create, Fits, Equipped
<1>4. Becomes(c, NoCall) /\ GoesOn(c, NoCall)
  BY <1>3 DEF Create, Becomes, GoesOn, DatasourceInductive, DatasourceTypeOK
<1>5. ASSUME NEW e \in Callers PROVE ~Reading(e, d)
  BY CallOf DEF Create, Fits, Equipped
<1>6. d \in raced \/ ~Published(graph[d])
  BY DEF Create, DatasourceInductive, GraphFollowsConnection
<1>7. UNCHANGED <<versions, active, jobs, graph, history>> /\ source[d].status # "deleted"
  BY DEF Create
<1>8. NoCall.job = NoJob
  OBVIOUS
<1>. QED  BY <1>2, <1>4, <1>5, <1>6, <1>7, <1>8, NoCallFits, SourceStep

\* A change that begins notes the scans it races with.
LEMMA ChangeStart ==
    ASSUME DatasourceInductive, NEW c \in Callers, NEW d \in Datasources,
           NEW op \in {"update", "delete"}, NEW p \in Profiles \cup {NoProfile}, Change(c, d, op, p)
    PROVE  DatasourceInductive'
<1>1. PICK k : k = [NoCall EXCEPT !.pc = "unpublish", !.op = op, !.source = d, !.profile = p]
  OBVIOUS
<1>2. k.pc = "unpublish" /\ k.source = d /\ k.job = NoJob /\ k \in Call
  BY ZenonT(60), <1>1, NoCallFits DEF Call
<1>3. Becomes(c, k)
  BY <1>1 DEF Change, Becomes
<1>4. Fits(k)
  BY <1>2 DEF Change, Fits, Equipped, KnowsItsJob, CarriesItsScan, SeesItsSource
<1>5. /\ JobsHaveOneScan' /\ ReadersExcludeChangers'
      /\ raced \subseteq raced' /\ raced' \subseteq Datasources
  BY <1>2, <1>3, NotedApart DEF Change
<1>6. \A b \in Datasources : Published(active[b]) => k.job # active[b].job
  BY <1>2, NullsAssumption DEF DatasourceInductive, ActiveSnapshotsHaveJobs
<1>7. /\ UNCHANGED <<catalog, graph>>
      /\ changes' \in 0..MaxChanges /\ crashes' \in 0..MaxCrashes
  BY ChangesAssumption DEF Change, DatasourceInductive, DatasourceTypeOK
<1>. QED  BY <1>2, <1>3, <1>4, <1>5, <1>6, <1>7, CallStep

\* Nothing is published of a datasource once its change has unpublished it.
LEMMA UnpublishStep ==
    ASSUME DatasourceInductive, NEW c \in Callers, Unpublish(c)
    PROVE  DatasourceInductive'
<1>1. CASE UNCHANGED graph /\ Leave(c)
  BY <1>1, LeaveStep DEF Unpublish
<1>2. ASSUME graph' = [graph EXCEPT ![call[c].source] = NoScan],
             NEW then \in {"switch", "remove"}, Goto(c, then)
      PROVE  DatasourceInductive'
  <2>1. PICK k : k = [call[c] EXCEPT !.pc = then]
    OBVIOUS
  <2>2. call[c] \in Call /\ Fits(call[c]) /\ call[c].pc = "unpublish"
    BY CallOf DEF Unpublish
  <2>3. k.pc = then /\ k.source = call[c].source /\ k.job = NoJob /\ k \in Call
    BY <2>1, <2>2 DEF Call, Fits, Equipped
  <2>4. Becomes(c, k) /\ GoesOn(c, k)
    <3>1. Becomes(c, k)
      BY <1>2, <2>1 DEF Goto, Becomes, DatasourceInductive, DatasourceTypeOK
    <3>2. GoesOn(c, k)
      BY <2>2, <2>3 DEF GoesOn
    <3>. QED  BY <3>1, <3>2
  <2>5. call'[c] = k /\ \A e \in Callers : e # c => call'[e] = call[e]
    BY <2>4 DEF Becomes, DatasourceInductive, DatasourceTypeOK
  <2>6. UNCHANGED <<catalog, history>>
    BY DEF Unpublish
  <2>7. \A d \in Datasources : graph'[d] \in {graph[d], NoScan}
    BY <1>2 DEF DatasourceInductive, DatasourceTypeOK
  <2>8. DatasourceTypeOK'
    <3>1. NoScan \in Scan
      BY DEF Scan
    <3>. QED  BY <1>2, <2>3, <2>4, <2>6, <3>1 DEF Becomes, DatasourceInductive, DatasourceTypeOK
  <2>9. JobsHaveOneScan' /\ ReadersExcludeChangers'
    BY <2>4, <2>6, GoesOnApart
  <2>10. Fits(k)'
    <3>1. k.source \in Datasources /\ source[k.source].status # "none"
      BY <2>2, <2>3 DEF Fits, Equipped
    <3>2. ~Published(graph'[k.source])
      BY <1>2, <2>3, <3>1 DEF DatasourceInductive, DatasourceTypeOK
    <3>. QED  BY <2>3, <2>6, <3>1, <3>2
              DEF Fits, Equipped, KnowsItsJob, CarriesItsScan, SeesItsSource
  <2>11. ASSUME NEW e \in Callers, e # c PROVE Fits(call[e])'
    <3>1. call'[e] = call[e] /\ Fits(call[e])
      BY <2>5, <2>11, CallOf
    <3>. QED  BY <2>6, <2>7, <3>1 DEF Fits, Equipped, KnowsItsJob, CarriesItsScan, SeesItsSource
  <2>12. CallsFit'
    BY <2>5, <2>10, <2>11 DEF CallsFit
  <2>13. ActiveSnapshotsHaveJobs'
    BY <2>3, <2>5, <2>6, NullsAssumption DEF DatasourceInductive, ActiveSnapshotsHaveJobs
  <2>14. GraphFollowsConnection'
    BY <2>6, <2>7 DEF DatasourceInductive, GraphFollowsConnection
  <2>15. /\ VersionsHaveNoGaps' /\ DeletedLeavesNothing'
         /\ ReadyDescribesConnection'
    BY <2>6 DEF DatasourceInductive, VersionsHaveNoGaps, DeletedLeavesNothing, ReadyDescribesConnection
  <2>. QED  BY <2>8, <2>9, <2>12, <2>13, <2>14, <2>15 DEF DatasourceInductive
<1>. QED  BY <1>1, <1>2 DEF Unpublish

\* Nobody reads and nothing shows the connection that an update replaces, unless they raced.
LEMMA SwitchProfileStep ==
    ASSUME DatasourceInductive, NEW c \in Callers, SwitchProfile(c)
    PROVE  DatasourceInductive'
<1>. DEFINE d == call[c].source
<1>1. CASE UNCHANGED source /\ Leave(c)
  BY <1>1, LeaveStep DEF SwitchProfile
<1>2. CASE /\ Exists(d) /\ Goto(c, "invalidate")
           /\ source' = [source EXCEPT ![d] = [status |-> "created", profile |-> call[c].profile]]
  <2>1. PICK k : k = [call[c] EXCEPT !.pc = "invalidate"]
    OBVIOUS
  <2>2. PICK row : row = [status |-> "created", profile |-> call[c].profile]
    OBVIOUS
  <2>3. call[c] \in Call /\ Fits(call[c]) /\ call[c].pc = "switch"
    BY CallOf DEF SwitchProfile
  <2>4. /\ k.pc = "invalidate" /\ k.source = d /\ k.job = NoJob /\ k \in Call
        /\ d \in Datasources
    BY <2>1, <2>3 DEF Call, Fits, Equipped
  <2>5. row \in SourceRow /\ row.status = "created" /\ source' = [source EXCEPT ![d] = row]
    BY <1>2, <2>2, <2>3 DEF SourceRow, Call
  <2>6. Becomes(c, k)
    BY <1>2, <2>1 DEF Goto, Becomes, DatasourceInductive, DatasourceTypeOK
  <2>7. GoesOn(c, k)
    BY <2>3, <2>4 DEF GoesOn
  <2>8. source'[d].status = "created"
    BY <2>4, <2>5 DEF DatasourceInductive, DatasourceTypeOK
  <2>9. Fits(k)'
    BY <2>4, <2>8 DEF Fits, Equipped, KnowsItsJob, CarriesItsScan, SeesItsSource
  <2>10. d \in raced \/ (~Published(graph[d]) /\ \A e \in Callers : ~Reading(e, d))
    BY <2>3, <2>4
       DEF Fits, SeesItsSource, DatasourceInductive, ReadersExcludeChangers
  <2>11. UNCHANGED <<versions, active, jobs, graph, history>> /\ source[d].status # "deleted"
    BY <1>2 DEF SwitchProfile
  <2>. QED  BY <2>4, <2>5, <2>6, <2>7, <2>9, <2>10, <2>11, SourceStep
<1>. QED  BY <1>1, <1>2 DEF SwitchProfile

\* Invalidation takes the status and the active snapshot back together.
LEMMA InvalidateStep ==
    ASSUME DatasourceInductive, NEW c \in Callers, Invalidate(c)
    PROVE  DatasourceInductive'
<1>. DEFINE d == call[c].source
<1>1. CASE UNCHANGED <<source, active>>
  BY <1>1, LeaveStep DEF Invalidate
<1>2. CASE /\ Exists(d)
           /\ source' = [source EXCEPT ![d].status = "created"]
           /\ active' = [active EXCEPT ![d] = NoScan]
  <2>1. PICK row : row = [source[d] EXCEPT !.status = "created"]
    OBVIOUS
  <2>2. Fits(call[c]) /\ d \in Datasources
    BY CallOf DEF Invalidate, Fits, Equipped
  <2>3. source[d] \in SourceRow
    BY <2>2 DEF DatasourceInductive, DatasourceTypeOK
  <2>4. row \in SourceRow /\ row.status = "created" /\ row.profile = source[d].profile
    BY <2>1, <2>3 DEF SourceRow
  <2>5. source' = [source EXCEPT ![d] = row]
    BY <1>2, <2>1 DEF DatasourceInductive, DatasourceTypeOK
  <2>6. Becomes(c, NoCall) /\ GoesOn(c, NoCall) /\ NoCall.job = NoJob
    BY DEF Invalidate, Leave, Becomes, GoesOn
  <2>7. UNCHANGED <<versions, jobs, graph, history>> /\ source[d].status # "deleted"
    BY <1>2 DEF Invalidate
  <2>. QED  BY <1>2, <2>2, <2>4, <2>5, <2>6, <2>7, NoCallFits, SourceStep
<1>. QED  BY <1>1, <1>2 DEF Invalidate

\* A deletion takes everything of the datasource with it, its jobs too.
LEMMA RemoveStep ==
    ASSUME DatasourceInductive, NEW c \in Callers, Remove(c)
    PROVE  DatasourceInductive'
<1>. DEFINE d == call[c].source
<1>1. CASE UNCHANGED catalog
  BY <1>1, LeaveStep DEF Remove
<1>2. CASE /\ Exists(d)
           /\ source' = [source EXCEPT ![d] = [status |-> "deleted", profile |-> NoProfile]]
           /\ active' = [active EXCEPT ![d] = NoScan]
           /\ versions' = [versions EXCEPT ![d] = {}]
           /\ jobs' = [j \in Jobs |-> IF jobs[j].source = d
                                      THEN [jobs[j] EXCEPT !.status = "gone"] ELSE jobs[j]]
  <2>1. Fits(call[c]) /\ call[c].pc = "remove" /\ d \in Datasources
    BY CallOf DEF Remove, Fits, Equipped
  <2>2. Becomes(c, NoCall) /\ GoesOn(c, NoCall)
    BY DEF Remove, Leave, Becomes, GoesOn
  <2>3. call'[c] = NoCall /\ \A e \in Callers : e # c => call'[e] = call[e]
    BY <2>2 DEF Becomes, DatasourceInductive, DatasourceTypeOK
  <2>4. UNCHANGED <<graph, history>>
    BY DEF Remove
  <2>5. /\ \A b \in Datasources : b # d => /\ source'[b] = source[b] /\ active'[b] = active[b]
                                           /\ versions'[b] = versions[b]
        /\ source'[d].status = "deleted" /\ active'[d] = NoScan /\ versions'[d] = {}
    BY <1>2, <2>1 DEF DatasourceInductive, DatasourceTypeOK
  <2>6. \A j \in Jobs : jobs[j] \in JobRow
    BY DEF DatasourceInductive, DatasourceTypeOK
  <2>7. /\ \A j \in Jobs : jobs[j].source = d => jobs'[j] = [jobs[j] EXCEPT !.status = "gone"]
        /\ \A j \in Jobs : jobs[j].source # d => jobs'[j] = jobs[j]
    BY <1>2
  <2>8. \A j \in Jobs : /\ jobs'[j] \in JobRow /\ jobs'[j].source = jobs[j].source
                        /\ jobs[j].source = d => jobs'[j].status = "gone"
    BY ZenonT(60), <2>6, <2>7 DEF JobRow
  <2>9. DatasourceTypeOK'
    <3>1. source' \in [Datasources -> SourceRow]
      BY <1>2 DEF SourceRow, DatasourceInductive, DatasourceTypeOK
    <3>2. versions' \in [Datasources -> SUBSET Nat]
      BY <1>2 DEF DatasourceInductive, DatasourceTypeOK
    <3>3. active' \in [Datasources -> Scan]
      <4>1. NoScan \in Scan
        BY DEF Scan
      <4>. QED  BY <1>2, <4>1 DEF DatasourceInductive, DatasourceTypeOK
    <3>4. jobs' \in [Jobs -> JobRow]
      BY <1>2, <2>8
    <3>5. call' \in [Callers -> Call]
      BY <2>2, NoCallFits DEF Becomes, DatasourceInductive, DatasourceTypeOK
    <3>. QED  BY <2>4, <3>1, <3>2, <3>3, <3>4, <3>5 DEF DatasourceInductive, DatasourceTypeOK
  <2>10. JobsHaveOneScan' /\ ReadersExcludeChangers'
    BY <2>2, <2>4, GoesOnApart
  <2>11. ASSUME NEW e \in Callers, e # c PROVE Fits(call[e])'
    <3>1. call'[e] = call[e] /\ Fits(call[e]) /\ call[e] \in Call
      BY <2>3, <2>11, CallOf
    <3>2. /\ call[e].pc # "idle" => call[e].source \in Datasources
          /\ call[e].pc \in ScanStep => call[e].job \in Jobs
      BY <3>1 DEF Fits, Equipped, Call
    <3>3. CASE call[e].source = d
      <4>1. d \notin raced => ~Reading(e, d)
        BY <2>1 DEF DatasourceInductive, ReadersExcludeChangers
      <4>2. d \notin raced => ~Published(graph[d])
        BY <2>1 DEF Fits, SeesItsSource
      <4>3. SeesItsSource(call[e])'
        BY <2>4, <3>1, <3>3, <4>1, <4>2 DEF SeesItsSource
      <4>4. KnowsItsJob(call[e])'
        BY <2>5, <2>7, <2>8, <3>1, <3>2, <3>3 DEF Fits, KnowsItsJob
      <4>. QED  BY <2>5, <3>1, <3>3, <4>3, <4>4 DEF Fits, Equipped, CarriesItsScan
    <3>4. CASE call[e].source # d
      <4>1. KnowsItsJob(call[e])'
        BY <2>5, <2>7, <2>8, <3>1, <3>2, <3>4 DEF Fits, KnowsItsJob
      <4>2. Equipped(call[e])' /\ CarriesItsScan(call[e])'
        BY <2>5, <3>1, <3>2, <3>4 DEF Fits, Equipped, CarriesItsScan
      <4>3. SeesItsSource(call[e])'
        BY <2>4, <2>5, <3>1, <3>2, <3>4 DEF Fits, SeesItsSource
      <4>. QED  BY <3>1, <4>1, <4>2, <4>3 DEF Fits
    <3>. QED  BY <3>3, <3>4
  <2>12. CallsFit'
    BY <2>3, <2>11, NoCallFits DEF CallsFit
  <2>13. ActiveSnapshotsHaveJobs'
    BY <2>3, <2>5, <2>7, <2>8, NullsAssumption DEF DatasourceInductive, ActiveSnapshotsHaveJobs
  <2>14. VersionsHaveNoGaps' /\ DeletedLeavesNothing' /\ ReadyDescribesConnection'
    BY <2>4, <2>5
       DEF DatasourceInductive, VersionsHaveNoGaps, DeletedLeavesNothing, ReadyDescribesConnection
  <2>15. GraphFollowsConnection'
    BY <2>1, <2>4, <2>5 DEF DatasourceInductive, GraphFollowsConnection, Fits, SeesItsSource
  <2>. QED  BY <2>9, <2>10, <2>12, <2>13, <2>14, <2>15 DEF DatasourceInductive
<1>. QED  BY <1>1, <1>2 DEF Remove

-----------------------------------------------------------------------------
(* Questions and crashes *)

\* A question writes nothing.
LEMMA QuestionStep ==
    ASSUME DatasourceInductive, NEW c \in Callers, AskNext(c)
    PROVE  DatasourceInductive'
<1>1. ASSUME NEW d \in Datasources, Plan(c, d) PROVE DatasourceInductive'
  <2>1. PICK k : k = [NoCall EXCEPT !.pc = "fence", !.op = "ask", !.source = d, !.scan = graph[d]]
    OBVIOUS
  <2>2. /\ k.pc = "fence" /\ k.source = d /\ k.job = NoJob /\ k \in Call
    BY ZenonT(60), <2>1, NoCallFits DEF Call, DatasourceInductive, DatasourceTypeOK
  <2>3. Becomes(c, k) /\ GoesOn(c, k)
    BY <1>1, <2>1, <2>2 DEF Plan, Becomes, GoesOn
  <2>4. Fits(k)
    BY <2>2 DEF Fits, Equipped, KnowsItsJob, CarriesItsScan, SeesItsSource
  <2>. QED  BY <1>1, <2>2, <2>3, <2>4, GotoStep DEF Plan
<1>2. CASE Goto(c, "execute") /\ Fence(c)
  <2>1. PICK k : k = [call[c] EXCEPT !.pc = "execute"]
    OBVIOUS
  <2>2. call[c] \in Call /\ Fits(call[c]) /\ call[c].pc = "fence"
    BY <1>2, CallOf DEF Fence
  <2>3. k.pc = "execute" /\ k.source = call[c].source /\ k.job = call[c].job /\ k \in Call
    BY <2>1, <2>2 DEF Call
  <2>4. Becomes(c, k) /\ GoesOn(c, k)
    BY <1>2, <2>1, <2>3 DEF Goto, Becomes, GoesOn, DatasourceInductive, DatasourceTypeOK
  <2>5. Fits(k)
    BY <2>2, <2>3 DEF Fits, Equipped, KnowsItsJob, CarriesItsScan, SeesItsSource
  <2>. QED  BY <1>2, <2>2, <2>3, <2>4, <2>5, GotoStep DEF Fence
<1>3. CASE Leave(c) /\ Fence(c)
  BY <1>3, LeaveStep DEF Fence
<1>4. CASE Execute(c)
  BY <1>4, LeaveStep DEF Execute
<1>. QED  BY <1>1, <1>2, <1>3, <1>4 DEF AskNext, Fence

\* A crash forgets the calls and nothing else.
LEMMA CrashStep ==
    ASSUME DatasourceInductive, Crash
    PROVE  DatasourceInductive'
<1>1. \A c \in Callers : call'[c] = NoCall
  BY DEF Crash
<1>2. UNCHANGED <<catalog, graph, raced, changes>>
  BY DEF Crash
<1>3. DatasourceTypeOK'
  BY <1>2, NoCallFits, ChangesAssumption DEF Crash, DatasourceInductive, DatasourceTypeOK
<1>4. CallsFit' /\ JobsHaveOneScan' /\ ReadersExcludeChangers'
  BY <1>1, NoCallFits DEF CallsFit, JobsHaveOneScan, ReadersExcludeChangers
<1>5. ActiveSnapshotsHaveJobs'
  BY <1>1, <1>2, NullsAssumption DEF DatasourceInductive, ActiveSnapshotsHaveJobs
<1>6. /\ VersionsHaveNoGaps' /\ DeletedLeavesNothing'
      /\ GraphFollowsConnection' /\ ReadyDescribesConnection'
  BY <1>2 DEF DatasourceInductive, VersionsHaveNoGaps, DeletedLeavesNothing, GraphFollowsConnection, ReadyDescribesConnection
<1>. QED  BY <1>3, <1>4, <1>5, <1>6 DEF DatasourceInductive

-----------------------------------------------------------------------------
(* The theorems *)

\* The invariant holds before anything exists.
LEMMA InitFacts == Init => DatasourceInductive
<1>. SUFFICES ASSUME Init PROVE DatasourceInductive
  OBVIOUS
<1>1. DatasourceTypeOK
  BY NoCallFits, ChangesAssumption
     DEF Init, DatasourceTypeOK, SourceRow, Scan, JobRow
<1>2. CallsFit /\ JobsHaveOneScan /\ ReadersExcludeChangers
  BY NoCallFits DEF Init, CallsFit, JobsHaveOneScan, ReadersExcludeChangers
<1>3. /\ ActiveSnapshotsHaveJobs /\ VersionsHaveNoGaps /\ GraphFollowsConnection
      /\ ReadyDescribesConnection /\ DeletedLeavesNothing
  BY DEF Init, ActiveSnapshotsHaveJobs, VersionsHaveNoGaps, GraphFollowsConnection,
         ReadyDescribesConnection, DeletedLeavesNothing
<1>. QED  BY <1>1, <1>2, <1>3 DEF DatasourceInductive

\* Every step, and every step that changes nothing, keeps it.
LEMMA NextStep == DatasourceInductive /\ [Next]_vars => DatasourceInductive'
<1>. SUFFICES ASSUME DatasourceInductive, [Next]_vars PROVE DatasourceInductive'
  OBVIOUS
<1>1. ASSUME NEW c \in Callers, ScanNext(c) PROVE DatasourceInductive'
  BY <1>1, StartScanStep, InsertJobStep, OpenConnectionStep, ReportSteps, TakeVersionStep,
     ReplaceGraphStep, CommitStep, AbandonStep DEF ScanNext
<1>2. ASSUME NEW c \in Callers, ChangeNext(c) PROVE DatasourceInductive'
  BY <1>2, CreateStep, ChangeStart, UnpublishStep, SwitchProfileStep, InvalidateStep, RemoveStep
     DEF ChangeNext, Update, Delete
<1>3. ASSUME NEW c \in Callers, AskNext(c) PROVE DatasourceInductive'
  BY <1>3, QuestionStep
<1>4. CASE Crash
  BY <1>4, CrashStep
<1>5. CASE UNCHANGED vars
  <2>1. DatasourceTypeOK' /\ CallsFit'
    BY <1>5 DEF vars, DatasourceInductive, DatasourceTypeOK, CallsFit, Fits, Equipped, KnowsItsJob,
                CarriesItsScan, SeesItsSource
  <2>2. /\ JobsHaveOneScan' /\ ReadersExcludeChangers' /\ ActiveSnapshotsHaveJobs'
        /\ VersionsHaveNoGaps'
    BY <1>5 DEF vars, DatasourceInductive, JobsHaveOneScan, ReadersExcludeChangers,
                ActiveSnapshotsHaveJobs, VersionsHaveNoGaps
  <2>3. /\ GraphFollowsConnection' /\ ReadyDescribesConnection'
        /\ DeletedLeavesNothing'
    BY <1>5 DEF vars, DatasourceInductive, GraphFollowsConnection, ReadyDescribesConnection, DeletedLeavesNothing
  <2>. QED  BY <2>1, <2>2, <2>3 DEF DatasourceInductive
<1>. QED  BY <1>1, <1>2, <1>3, <1>4, <1>5 DEF Next

\* The inductive invariant holds whatever scans, changes, questions and crashes interleave.
THEOREM DatasourceInvariant == Spec => []DatasourceInductive
BY InitFacts, NextStep, PTL DEF Spec

\* Catalog, graph and calls keep their types.
THEOREM DatasourceTypes == Spec => []DatasourceTypeOK
<1>1. DatasourceInductive => DatasourceTypeOK
  BY DEF DatasourceInductive
<1>. QED  BY <1>1, DatasourceInvariant, PTL

\* Without a scan that overlaps a change, the graph shows what the datasource's connection
\* read, and nothing of a deleted datasource.
THEOREM GraphIsFaithful == Spec => []GraphFollowsConnection
<1>1. DatasourceInductive => GraphFollowsConnection
  BY DEF DatasourceInductive
<1>. QED  BY <1>1, DatasourceInvariant, PTL

\* A ready datasource has an active snapshot, read through its connection unless they raced.
THEOREM ReadyIsFaithful == Spec => []ReadyDescribesConnection
<1>1. DatasourceInductive => ReadyDescribesConnection
  BY DEF DatasourceInductive
<1>. QED  BY <1>1, DatasourceInvariant, PTL

\* A deleted datasource has no snapshot and no version, whatever scan ends late.
THEOREM DeletionIsComplete == Spec => []DeletedLeavesNothing
<1>1. DatasourceInductive => DeletedLeavesNothing
  BY DEF DatasourceInductive
<1>. QED  BY <1>1, DatasourceInvariant, PTL

\* Only a commit makes a snapshot active, above every version that is recorded.
LEMMA VersionsGrowStep ==
    ASSUME DatasourceInductive, [Next]_vars, NEW d \in Datasources,
           active'[d] # active[d], Published(active'[d]), NEW v \in versions[d]
    PROVE  v < active'[d].version
<1>1. \E c \in Callers : Commit(c)
  <2>1. \A c \in Callers : ~(Invalidate(c) \/ Remove(c))
    BY SMTT(60) DEF Invalidate, Remove, DatasourceInductive, DatasourceTypeOK
  <2>2. \A c \in Callers : ScanNext(c) => Commit(c) \/ active' = active
    BY ZenonT(60)
       DEF ScanNext, StartScan, InsertJob, OpenConnection, Verify, TestConnection, BeginScan,
           ReadSource, TakeVersion, ReplaceGraph, FinishScan, Abandon, Reports
  <2>3. \A c \in Callers : ChangeNext(c) => Invalidate(c) \/ Remove(c) \/ active' = active
    BY DEF ChangeNext, Create, Update, Delete, Change, Unpublish, SwitchProfile
  <2>4. \A c \in Callers : AskNext(c) => active' = active
    BY DEF AskNext, Plan, Fence, Execute
  <2>5. Crash \/ UNCHANGED vars => active' = active
    BY DEF Crash, vars
  <2>. QED  BY <2>1, <2>2, <2>3, <2>4, <2>5 DEF Next
<1>2. PICK c \in Callers : Commit(c)
  BY <1>1
<1>3. /\ MayCommit(call[c].source, call[c].scan.version)
      /\ active' = [active EXCEPT ![call[c].source] = call[c].scan]
  BY <1>2 DEF Commit
<1>4. \A u \in versions[call[c].source] : u < call[c].scan.version
  BY <1>2, <1>3, CommitFacts DEF Commit
<1>5. d = call[c].source /\ active'[d] = call[c].scan
  BY <1>3 DEF DatasourceInductive, DatasourceTypeOK
<1>. QED  BY <1>4, <1>5

\* A snapshot that becomes active is newer than all the catalog recorded of its datasource.
THEOREM SnapshotsGrow == Spec => VersionsGrow
<1>1. DatasourceInductive /\ [Next]_vars =>
          [\A d \in Datasources :
              active'[d] # active[d] /\ Published(active'[d]) =>
                  \A v \in versions[d] : v < active'[d].version]_vars
  BY VersionsGrowStep
<1>. QED  BY <1>1, DatasourceInvariant, PTL DEF Spec, VersionsGrow

=============================================================================
