\* Two threads, one datasource with two connections, three scans, two changes and a crash.
CONSTANTS
    Datasources = {d1}
    Profiles = {p1, p2}
    Jobs = {j1, j2, j3}
    Callers = {c1, c2}
    NoSource = nosource
    NoProfile = noprofile
    NoJob = nojob
    MaxChanges = 2
    MaxCrashes = 1
SPECIFICATION Spec
SYMMETRY DatasourceSymmetry
INVARIANTS
    DatasourceTypeOK
    GraphFollowsConnection
    ReadyDescribesConnection
    DeletedLeavesNothing
PROPERTIES
    VersionsGrow
CHECK_DEADLOCK FALSE
