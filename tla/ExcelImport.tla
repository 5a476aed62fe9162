------------------------------ MODULE ExcelImport ------------------------------
(***************************************************************************)
(* The import of workbooks: a directory for each file's bytes, with the    *)
(* database made of it and a manifest; a datasource that reads it; a scan  *)
(* that publishes it.  Threads import (over HTTP or the command line),     *)
(* scan and delete; nothing orders two calls.  Every action is one access  *)
(* to the directory, the catalog or the graph, with the computation around *)
(* it, and its failure is a choice.                                        *)
(***************************************************************************)
EXTENDS Naturals, FiniteSets, TLC

CONSTANTS
    Threads, Datasources,
    Files,       \* files by their bytes, policy and workspace
    Importable,  \* those whose workbook can be taken (ExcelSheet)
    None, Gone,
    MaxVersion,  \* bound: versions of a datasource
    MaxCalls,    \* bound: calls begun
    MaxCrashes   \* bound: crashes of the process

ASSUME FilesAssumption == Importable \subseteq Files /\ None \notin Datasources \cup Files

VARIABLES
    disk,    \* the directory of each file; its database with how often it was written
    source,  \* catalog: the file a datasource reads, its active snapshot, all its snapshots
    graph,   \* Neo4j: the published version of each datasource
    staged,  \* the threads whose upload is on disk
    call,    \* what each thread is doing
    doubled, \* history: files that two calls were about to do the same for
    calls, crashes

vars == <<disk, source, graph, staged, call, doubled, calls, crashes>>
bounds == <<calls, crashes>>

-----------------------------------------------------------------------------
(* Types *)

Versions == 0..MaxVersion

Manifest == [status: {"READY", "FAILED"}, source: Datasources \cup {None}, version: Versions]

Directory == [source: BOOLEAN, sqlite: Nat, manifest: Manifest \cup {None}]

Row == [file: Files, active: Versions, versions: SUBSET Versions]

ImportStep == {"reuse", "confirm", "recheck", "previous", "save", "validate", "finalized",
               "materialize", "find", "create", "snapshot", "verify", "finish", "fail", "refuse"}

ScanStep == {"job", "version", "publish", "commit", "scanned"}

Call == [pc: ImportStep \cup ScanStep \cup {"idle", "unpublish", "remove"},
         op: {"none", "import", "scan", "delete"}, file: Files \cup {None},
         source: Datasources \cup {None}, version: Versions, retry: BOOLEAN, clean: BOOLEAN]

ASSUME BoundsAssumption == MaxVersion \in Nat /\ MaxCalls \in Nat /\ MaxCrashes \in Nat

\* The marks are neither rows nor manifests.
ASSUME MarksAssumption == None # Gone /\ None \notin Manifest /\ {None, Gone} \cap Row = {}

\* clean: the call began alone, in stores that agree, and nothing failed or joined it since.
Idle == [pc |-> "idle", op |-> "none", file |-> None, source |-> None, version |-> 0,
         retry |-> FALSE, clean |-> FALSE]

Init ==
    /\ disk = [f \in Files |-> [source |-> FALSE, sqlite |-> 0, manifest |-> None]]
    /\ source = [d \in Datasources |-> None]
    /\ graph = [d \in Datasources |-> 0]
    /\ staged = {}
    /\ call = [t \in Threads |-> Idle]
    /\ doubled = {} /\ calls = 0 /\ crashes = 0

-----------------------------------------------------------------------------
(* Helpers *)

At(t, pc) == call[t].pc = pc

Exists(d) == d # None /\ source[d] \notin {None, Gone}

ReadBy(f) == {d \in Datasources : Exists(d) /\ source[d].file = f}

\* _active_snapshot(): none when the datasource is gone or not ready.
Active(d) == IF Exists(d) THEN source[d].active ELSE 0

Goto(t, pc) == call' = [call EXCEPT ![t].pc = pc]

\* Something did not work: the call goes on as the code says.
Disturbed(t, pc) == call' = [call EXCEPT ![t].pc = pc, ![t].clean = FALSE]

Return(t) == call' = [call EXCEPT ![t] = Idle] /\ staged' = staged \ {t}

\* Two calls are at one step for one file.
NotesDoubles(t) ==
    doubled' = doubled \cup {f \in Files : \E u \in Threads \ {t} :
                                call[t].file = f /\ call[u].file = f /\ call[u].pc = call[t].pc}

\* The graph is not of the active snapshot, and an import of f would trust that it is.
Torn(f) ==
    LET m == disk[f].manifest
        torn(d) == Active(d) # 0 /\ graph[d] # Active(d)
    IN IF m = None THEN \E d \in ReadBy(f) : torn(d)
       ELSE m.status = "READY" /\ torn(m.source) /\ m.version = Active(m.source)

Begin(t, op, f, d, pc) ==
    /\ At(t, "idle") /\ calls < MaxCalls
    /\ calls' = calls + 1
    /\ call' = [u \in Threads |->
            IF u = t
            THEN [Idle EXCEPT !.pc = pc, !.op = op, !.file = f, !.source = d,
                              !.clean = /\ \A v \in Threads : At(v, "idle")
                                        /\ f \in Files => ~Torn(f)]
            ELSE [call[u] EXCEPT !.clean = FALSE]]
    /\ UNCHANGED <<disk, source, graph, doubled, crashes>>

-----------------------------------------------------------------------------
(* An import looks whether it was done before *)

\* The body of an upload is written to a directory of its own for as long as the request.
Upload(t, f) == Begin(t, "import", f, None, "reuse") /\ staged' = staged \cup {t}

ImportFile(t, f) == Begin(t, "import", f, None, "reuse") /\ UNCHANGED staged

\* A READY manifest whose database is there may be answered with.
ReadManifest(t) ==
    LET m == disk[call[t].file].manifest
    IN /\ At(t, "reuse")
       /\ call' = [call EXCEPT ![t] =
            IF m # None /\ m.status = "READY" /\ disk[call[t].file].sqlite > 0
            THEN [@ EXCEPT !.pc = "confirm", !.source = m.source, !.version = m.version]
            ELSE [@ EXCEPT !.pc = "previous"]]
       /\ UNCHANGED <<disk, source, graph, staged, doubled, bounds>>

\* Not with another snapshot than it was written for: then the import is done again.
Confirm(t) ==
    /\ At(t, "confirm")
    /\ call' = [call EXCEPT ![t] =
            IF call[t].version = Active(call[t].source) THEN [@ EXCEPT !.pc = "recheck"]
            ELSE [@ EXCEPT !.pc = "previous", !.source = None, !.version = 0]]
    /\ UNCHANGED <<disk, source, graph, staged, doubled, bounds>>

IsPublished(t) == graph[call[t].source] = call[t].version

\* The publication is looked at each time; when it is not there, or cannot be seen, the call
\* fails and the manifest stays as it is.
Recheck(t) ==
    /\ At(t, "recheck")
    /\ \/ IsPublished(t) /\ Return(t)
       \/ ~IsPublished(t) /\ Goto(t, "refuse") /\ UNCHANGED staged
       \/ Disturbed(t, "refuse") /\ UNCHANGED staged
    /\ UNCHANGED <<disk, source, graph, doubled, bounds>>

Refuse(t) ==
    /\ At(t, "refuse") /\ Return(t)
    /\ UNCHANGED <<disk, source, graph, doubled, bounds>>

-----------------------------------------------------------------------------
(* The artifact *)

\* Whether there was an attempt before, of which only its manifest speaks.
ReadPrevious(t) ==
    /\ At(t, "previous")
    /\ call' = [call EXCEPT ![t].pc = "save", ![t].retry = disk[call[t].file].manifest # None]
    /\ UNCHANGED <<disk, source, graph, staged, doubled, bounds>>

\* What the directory or the catalog raises here, no manifest tells of.
WriteSource(t) ==
    /\ At(t, "save")
    /\ \/ disk' = [disk EXCEPT ![call[t].file].source = TRUE] /\ Goto(t, "validate")
       \/ UNCHANGED disk /\ Disturbed(t, "refuse")
    /\ UNCHANGED <<source, graph, staged, doubled, bounds>>

Validate(t) ==
    /\ At(t, "validate")
    /\ Goto(t, IF call[t].file \in Importable THEN "finalized" ELSE "fail")
    /\ UNCHANGED <<disk, source, graph, staged, doubled, bounds>>

CheckFinalized(t) ==
    /\ At(t, "finalized")
    /\ Goto(t, IF disk[call[t].file].sqlite > 0 THEN "find" ELSE "materialize")
    /\ UNCHANGED <<disk, source, graph, staged, doubled, bounds>>

\* A private file is written and checked, and then renamed.
Materialize(t) ==
    /\ At(t, "materialize")
    /\ \/ disk' = [disk EXCEPT ![call[t].file].sqlite = @ + 1] /\ Goto(t, "find")
       \/ UNCHANGED disk /\ Disturbed(t, "fail")
    /\ NotesDoubles(t)
    /\ UNCHANGED <<source, graph, staged, bounds>>

-----------------------------------------------------------------------------
(* The datasource *)

\* A slip of Find: only a retry looks for the datasource of the attempt before.
FindForRetry(t) ==
    LET found == IF call[t].retry THEN ReadBy(call[t].file) ELSE {}
    IN /\ At(t, "find")
       /\ \/ \E d \in found : call' = [call EXCEPT ![t].source = d, ![t].pc = "job"]
          \/ found = {} /\ Goto(t, "create")
       /\ UNCHANGED <<disk, source, graph, staged, doubled, bounds>>

\* A datasource that reads the database is used again; it is scanned when there was an
\* attempt before, or no snapshot of it is active.  A catalog that cannot be read has none.
Find(t) ==
    /\ At(t, "find")
    /\ \/ \E d \in ReadBy(call[t].file) :
            /\ call' = [call EXCEPT ![t].source = d,
                    ![t].pc = IF call[t].retry \/ Active(d) = 0 THEN "job" ELSE "snapshot"]
            /\ UNCHANGED doubled
       \/ ReadBy(call[t].file) = {} /\ Goto(t, "create") /\ UNCHANGED doubled
       \/ Disturbed(t, "create") /\ doubled' = doubled \cup {call[t].file}
    /\ UNCHANGED <<disk, source, graph, staged, bounds>>

CreateDatasource(t) ==
    /\ At(t, "create")
    /\ \/ \E d \in Datasources :
            /\ source[d] = None
            /\ source' = [source EXCEPT ![d] = [file |-> call[t].file, active |-> 0, versions |-> {}]]
            /\ call' = [call EXCEPT ![t].source = d, ![t].pc = "job"]
       \/ UNCHANGED source /\ Disturbed(t, "fail")
    /\ NotesDoubles(t)
    /\ UNCHANGED <<disk, graph, staged, bounds>>

-----------------------------------------------------------------------------
(* Its scan, by an import or a user's own *)

ScanDatasource(t, d) == Exists(d) /\ Begin(t, "scan", None, d, "job") /\ UNCHANGED staged

\* A scan that did not work ends an import with a manifest, a user's scan with its job.
Fails(t) ==
    IF call[t].op = "import" THEN Disturbed(t, "fail") /\ UNCHANGED staged ELSE Return(t)

\* The job of a datasource that is gone is not begun: the import ends without a manifest.
BeginJob(t) ==
    /\ At(t, "job")
    /\ \/ Exists(call[t].source) /\ Goto(t, "version")
       \/ ~Exists(call[t].source) /\ Goto(t, "refuse")
       \/ Disturbed(t, "refuse")
    /\ UNCHANGED <<disk, source, graph, staged, doubled, bounds>>

NextVersion(d) ==
    LET taken == IF Exists(d) THEN source[d].versions ELSE {}
    IN CHOOSE v \in 1..(MaxVersion + 1) : v - 1 \in taken \cup {0} /\ \A u \in taken : u < v

ReadDatabase(t) ==
    /\ At(t, "version")
    /\ \/ /\ NextVersion(call[t].source) <= MaxVersion
          /\ call' = [call EXCEPT ![t].pc = "publish", ![t].version = NextVersion(call[t].source)]
          /\ UNCHANGED staged
       \/ Fails(t)
    /\ UNCHANGED <<disk, source, graph, doubled, bounds>>

PublishGraph(t) ==
    /\ At(t, "publish")
    /\ \/ graph' = [graph EXCEPT ![call[t].source] = call[t].version]
          /\ Goto(t, "commit") /\ UNCHANGED staged
       \/ UNCHANGED graph /\ Fails(t)
    /\ UNCHANGED <<disk, source, doubled, bounds>>

CommitScan(t) ==
    LET d == call[t].source  v == call[t].version
    IN /\ At(t, "commit")
       /\ \/ /\ Exists(d) /\ v \notin source[d].versions
             /\ source' = [source EXCEPT ![d].active = v, ![d].versions = @ \cup {v}]
             /\ Goto(t, "scanned") /\ UNCHANGED staged
          \/ UNCHANGED source /\ Fails(t)
       /\ UNCHANGED <<disk, graph, doubled, bounds>>

FinishJob(t) ==
    /\ At(t, "scanned")
    /\ \/ call[t].op = "import" /\ Goto(t, "snapshot") /\ UNCHANGED staged
       \/ call[t].op = "scan" /\ Return(t)
       \/ Fails(t)
    /\ UNCHANGED <<disk, source, graph, doubled, bounds>>

-----------------------------------------------------------------------------
(* The end of an import *)

ReadSnapshot(t) ==
    LET d == call[t].source
    IN /\ At(t, "snapshot")
       /\ \/ Active(d) # 0 /\ call' = [call EXCEPT ![t].pc = "verify", ![t].version = Active(d)]
          \/ Active(d) = 0 /\ Goto(t, "fail")
          \/ Disturbed(t, "refuse")
       /\ UNCHANGED <<disk, source, graph, staged, doubled, bounds>>

Verify(t) ==
    /\ At(t, "verify")
    /\ \/ IsPublished(t) /\ Goto(t, "finish")
       \/ ~IsPublished(t) /\ Goto(t, "fail")
       \/ Disturbed(t, "fail")
    /\ UNCHANGED <<disk, source, graph, staged, doubled, bounds>>

Finish(t) ==
    /\ At(t, "finish")
    /\ \/ disk' = [disk EXCEPT ![call[t].file].manifest =
                        [status |-> "READY", source |-> call[t].source, version |-> call[t].version]]
       \/ UNCHANGED disk
    /\ Return(t)
    /\ UNCHANGED <<source, graph, doubled, bounds>>

\* The failure of an attempt is written over what was there, with the ids it had got, which
\* nobody reads; when that fails, too, nothing is said of it.
RecordFailure(t) ==
    /\ At(t, "fail")
    /\ \/ disk' = [disk EXCEPT ![call[t].file].manifest =
                        [status |-> "FAILED", source |-> None, version |-> 0]]
       \/ UNCHANGED disk
    /\ Return(t)
    /\ UNCHANGED <<source, graph, doubled, bounds>>

-----------------------------------------------------------------------------
(* Around it *)

DeleteDatasource(t, d) == Exists(d) /\ Begin(t, "delete", None, d, "unpublish") /\ UNCHANGED staged

Unpublish(t) ==
    /\ At(t, "unpublish")
    /\ \/ graph' = [graph EXCEPT ![call[t].source] = 0] /\ Goto(t, "remove") /\ UNCHANGED staged
       \/ UNCHANGED graph /\ Return(t)
    /\ UNCHANGED <<disk, source, doubled, bounds>>

Remove(t) ==
    /\ At(t, "remove")
    /\ \/ source' = [source EXCEPT ![call[t].source] = Gone]
       \/ UNCHANGED source
    /\ Return(t)
    /\ UNCHANGED <<disk, graph, doubled, bounds>>

\* The process dies: the stores stay, and what was uploaded.
Crash ==
    /\ crashes < MaxCrashes
    /\ call' = [t \in Threads |-> Idle]
    /\ crashes' = crashes + 1
    /\ UNCHANGED <<disk, source, graph, staged, doubled, calls>>

Step(t) ==
    \/ ReadManifest(t) \/ Confirm(t) \/ Recheck(t) \/ Refuse(t) \/ ReadPrevious(t)
    \/ WriteSource(t) \/ Validate(t) \/ CheckFinalized(t) \/ Materialize(t)
    \/ Find(t) \/ CreateDatasource(t)
    \/ BeginJob(t) \/ ReadDatabase(t) \/ PublishGraph(t) \/ CommitScan(t) \/ FinishJob(t)
    \/ ReadSnapshot(t) \/ Verify(t) \/ Finish(t) \/ RecordFailure(t)
    \/ Unpublish(t) \/ Remove(t)

Next ==
    \/ \E t \in Threads, f \in Files : Upload(t, f) \/ ImportFile(t, f)
    \/ \E t \in Threads, d \in Datasources : ScanDatasource(t, d) \/ DeleteDatasource(t, d)
    \/ \E t \in Threads : Step(t)
    \/ Crash

Spec == Init /\ [][Next]_vars

-----------------------------------------------------------------------------
(* What must hold of imports, their directories and their datasources *)

ExcelSymmetry == Permutations(Threads) \cup Permutations(Datasources)

\* Directories, rows and calls are what the code makes of them; uploads last as long as
\* their request, unless the process died (staged_upload()).
ExcelTypeOK ==
    /\ disk \in [Files -> Directory]
    /\ source \in [Datasources -> Row \cup {None, Gone}]
    /\ graph \in [Datasources -> Versions] /\ call \in [Threads -> Call]
    /\ staged \subseteq Threads
    /\ crashes = 0 => \A t \in staged : call[t].op = "import"

\* Whatever attempts were broken off or failed before, an import that is alone and finds its
\* stores in order succeeds (retry of import_excel()).
UndisturbedImportsSucceed ==
    \A t \in Threads : call[t].clean /\ call[t].file \in Importable => call[t].pc \notin {"fail", "refuse"}

\* The database is written once and has one datasource, unless two imports overlapped or the
\* catalog could not be read (is_finalized(), _existing_datasource_id()).
ImportedOnce ==
    \A f \in Files \ doubled : disk[f].sqlite <= 1 /\ Cardinality(ReadBy(f)) <= 1

\* A datasource has its database, and a READY manifest its datasource, with a snapshot of
\* the version it names, for as long as nobody deletes it (_ensure_scan()).
ReadyIsComplete ==
    /\ \A d \in Datasources : Exists(d) => disk[source[d].file].sqlite > 0
    /\ \A f \in Files :
        LET m == disk[f].manifest
        IN m # None /\ m.status = "READY" =>
            /\ disk[f].source /\ disk[f].sqlite > 0
            /\ \/ source[m.source] = Gone
               \/ m.source \in ReadBy(f) /\ m.version \in source[m.source].versions

\* An import can be repeated: it succeeds, makes nothing twice and leaves nothing half done
\* behind a READY.
ImportsAreRepeatable ==
    ExcelTypeOK /\ UndisturbedImportsSucceed /\ ImportedOnce /\ ReadyIsComplete

\* "source.xlsx and data.sqlite3 are never overwritten once finalized" and "does not create a
\* second datasource" (docs/excel-ingestion.md:318, 822): not so when two imports overlap.
NothingIsImportedTwice == \A f \in Files : disk[f].sqlite <= 1 /\ Cardinality(ReadBy(f)) <= 1

-----------------------------------------------------------------------------
(* The inductive invariant, stated on one call at a time *)

\* Where an import has saved its file, and where it has the database of it.
Kept == {"validate", "finalized", "materialize", "find", "create", "snapshot", "verify", "finish"}
        \cup ScanStep
Written == Kept \ {"validate", "finalized", "materialize"}

\* Where a call has a datasource, and where an import has one of its own.
Sourced == ScanStep \cup {"confirm", "recheck", "snapshot", "verify", "finish", "unpublish", "remove"}
Owned == ScanStep \cup {"snapshot", "verify", "finish"}

\* What is true of a call by itself.
CallSound(c) ==
    /\ c \in Call
    /\ c.pc = "idle" => c.op = "none"
    /\ c.pc \in ImportStep \ {"refuse"} => c.op = "import"
    /\ c.pc \in ScanStep => c.op \in {"import", "scan"}
    /\ c.pc \in {"unpublish", "remove"} => c.op = "delete"
    /\ IF c.op = "import" THEN c.file \in Files ELSE c.file = None
    /\ c.pc \in Sourced => c.source \in Datasources

\* The versions of a datasource are numbered from 1 on; one of them is active, or none.
RowSound(d) ==
    Exists(d) => /\ \E k \in Versions : source[d].versions = 1..k
                 /\ source[d].active \in source[d].versions \cup {0}

\* A datasource that was seen is there or was deleted, and what a call holds of it is so.
CallHolds(c) ==
    /\ c.pc \in Sourced => source[c.source] # None
    /\ c.pc \in {"publish", "commit"} =>
        /\ c.version # 0
        /\ Exists(c.source) => 1..(c.version - 1) \subseteq source[c.source].versions
    /\ c.op = "import" =>
        /\ c.pc \in Kept => disk[c.file].source
        /\ c.pc \in Written => disk[c.file].sqlite > 0
        /\ c.pc \in Owned => source[c.source] = Gone \/ source[c.source].file = c.file
        /\ c.pc \in {"verify", "finish"} =>
            /\ c.version # 0
            /\ source[c.source] = Gone \/ c.version \in source[c.source].versions
        /\ c.file \notin doubled =>
            /\ c.pc = "materialize" => disk[c.file].sqlite = 0
            /\ c.pc = "create" => ReadBy(c.file) = {}

\* What a clean import has found, and finds again as long as nobody joins it.
CleanCall(c) ==
    c.clean /\ c.op = "import" =>
        /\ c.pc \in {"reuse", "confirm", "previous", "save", "validate", "finalized",
                     "materialize", "find"} => ~Torn(c.file)
        /\ c.pc \in {"save", "validate", "finalized", "materialize", "find"} =>
            c.retry = (disk[c.file].manifest # None)
        /\ c.pc = "confirm" =>
            disk[c.file].manifest = [status |-> "READY", source |-> c.source, version |-> c.version]
        /\ c.pc = "recheck" => graph[c.source] = c.version
        /\ c.pc \in {"job", "version", "publish", "commit"} => Exists(c.source)
        /\ c.pc = "commit" => graph[c.source] = c.version
        /\ c.pc \in {"scanned", "snapshot", "verify"} =>
            Active(c.source) # 0 /\ graph[c.source] = Active(c.source)
        /\ c.pc = "verify" => c.version = Active(c.source)
        /\ c.file \in Importable => c.pc \notin {"fail", "refuse"}

\* A clean call is alone.
CleanIsAlone ==
    \A t, u \in Threads : call[t].clean /\ t # u => call[u].pc = "idle"

\* A READY manifest names a datasource and a version.
ManifestsSound ==
    \A f \in Files :
        LET m == disk[f].manifest
        IN m # None /\ m.status = "READY" => m.source \in Datasources /\ m.version # 0

\* ImportedOnce, without counting the datasources.
WrittenOnce ==
    \A f \in Files \ doubled : disk[f].sqlite <= 1 /\ \A d, e \in ReadBy(f) : d = e

Repeatable ==
    /\ ExcelTypeOK /\ crashes \in Nat
    /\ \A t \in Threads : CallSound(call[t]) /\ CallHolds(call[t]) /\ CleanCall(call[t])
    /\ \A d \in Datasources : RowSound(d)
    /\ CleanIsAlone
    /\ ManifestsSound
    /\ WrittenOnce
    /\ ReadyIsComplete

=============================================================================
