------------------------------ MODULE ScanBatch ------------------------------
(***************************************************************************)
(* MultiDatabaseScanRunner (scanning/runs.py): a batch of sources is tested *)
(* and scanned one after the other into one report, which is written after  *)
(* every source.                                                            *)
(*                                                                          *)
(* A source is what happens to it: whether its connection is "reachable",   *)
(* whether its datasource is "created", whether its scan "finishes" (or     *)
(* raises), whether it is left READY and with an active snapshot "found",    *)
(* and the graph that is read back.                                         *)
(***************************************************************************)
EXTENDS Integers, Sequences, FiniteSets

CONSTANTS
    None,           \* no snapshot, no error, no datasource
    MaxObjects      \* bound: GraphStructureRequest's limits, here one for all counts

Minimum(a, b) == IF a < b THEN a ELSE b
Maximum(a, b) == IF a > b THEN a ELSE b

-----------------------------------------------------------------------------
(* One graph read back *)

\* The reader returns at most so many objects, and says when there were more.
ReadBounded(graph, limit) ==
    [objects |-> Minimum(graph.objects, limit), truncated |-> graph.objects > limit]

\* A slip of Validate: what was cut off is not looked for.
ValidateRead(snapshot, graph) ==
    LET read == ReadBounded(graph, Maximum(1, Minimum(snapshot.objects, MaxObjects)))
    IN IF graph.readable /\ graph.databases = 1 /\ graph.version = snapshot.version
            /\ read.objects = snapshot.objects /\ snapshot.active
       THEN "passed" ELSE "failed"

\* The graph has to be that of the snapshot: its one database, its version, its counts.
Validate(snapshot, graph) ==
    IF ~graph.readable THEN "failed"
    ELSE LET limit == Maximum(1, Minimum(snapshot.objects + 1, MaxObjects))
             read == ReadBounded(graph, limit)
         IN IF /\ graph.databases = 1 /\ graph.version = snapshot.version
               /\ read.objects = snapshot.objects
               /\ snapshot.active /\ ~read.truncated
            THEN "passed" ELSE "failed"

-----------------------------------------------------------------------------
(* One source *)

Member(source) ==
    [name |-> source.name, status |-> "failed", connection |-> "passed", scan |-> "failed",
     datasource |-> None, version |-> 0, objects |-> 0, graph |-> "not_run", error |-> None]

\* The service could not be opened, or the connection test has failed.
BlockedMember(source, connection, error) ==
    [Member(source) EXCEPT !.connection = connection, !.scan = "not_run", !.error = error]

\* After an error the datasource is looked up by its name: the one just created, or one
\* that had the name before.
FailedMember(source, error) ==
    LET matches == source.before \cup (IF source.created THEN {source.id} ELSE {})
    IN [Member(source) EXCEPT !.error = error,
            !.datasource = IF Cardinality(matches) = 1 THEN CHOOSE d \in matches : TRUE ELSE None]

ScanOne(source) ==
    CASE ~source.created -> FailedMember(source, "create")
      [] source.created /\ ~source.finishes -> FailedMember(source, "scan")
      [] source.created /\ source.finishes /\ ~source.ready -> FailedMember(source, "status")
      [] source.created /\ source.finishes /\ source.ready /\ ~source.found ->
            FailedMember(source, "snapshot")
      [] OTHER ->
            LET verdict == Validate(source.snapshot, source.graph)
                passed == verdict = "passed" /\ source.document
            IN [Member(source) EXCEPT
                    !.datasource = source.id, !.scan = "passed", !.graph = verdict,
                    !.version = source.snapshot.version, !.objects = source.snapshot.objects,
                    !.status = IF passed THEN "passed" ELSE "failed",
                    !.error = IF passed THEN None ELSE "incomplete"]

TestConnection(source) == IF source.reachable THEN "passed" ELSE "failed"

-----------------------------------------------------------------------------
(* The report *)

CountOf(members, Test(_)) == Cardinality({i \in DOMAIN members : Test(members[i])})

\* The summary, the failures and the status are those of the members so far; only the
\* last report has a final status.
Summary(members, configured) ==
    [configured |-> configured,
     connected |-> CountOf(members, LAMBDA m : m.connection = "passed"),
     passed |-> CountOf(members, LAMBDA m : m.status = "passed"),
     failed |-> CountOf(members, LAMBDA m : m.status = "failed")]

Failures(members) ==
    {members[i].name : i \in {j \in DOMAIN members : members[j].status # "passed"}}

ReportOf(members, configured, complete) ==
    LET summary == Summary(members, configured)
    IN [members |-> members, summary |-> summary, failures |-> Failures(members),
        status |-> IF ~complete THEN "running"
                   ELSE IF summary.passed = configured THEN "passed" ELSE "failed"]

MemberOf(source) ==
    IF source.reachable THEN ScanOne(source) ELSE BlockedMember(source, "failed", "connection")

\* What is on the disk after each write: before the first source, after each, at the end.
\* A service that cannot be opened blocks every source.
Reports(sources, opens) ==
    LET n == Len(sources)
        members == IF opens THEN [i \in 1..n |-> MemberOf(sources[i])]
                   ELSE [i \in 1..n |-> BlockedMember(sources[i], TestConnection(sources[i]), "service")]
    IN IF opens
       THEN [k \in 1..(n + 2) |->
                ReportOf(SubSeq(members, 1, Minimum(k - 1, n)), n, k = n + 2)]
       ELSE <<ReportOf(<<>>, n, FALSE), ReportOf(members, n, TRUE)>>

\* A batch is of one workspace, and not empty; otherwise nothing is written (exit code 2).
Scan(sources, opens) ==
    IF sources = <<>> \/ Cardinality({sources[i].workspace : i \in DOMAIN sources}) # 1
    THEN <<>> ELSE Reports(sources, opens)

ExitCode(reports) ==
    IF reports = <<>> THEN 2 ELSE IF reports[Len(reports)].status = "passed" THEN 0 ELSE 1

=============================================================================
