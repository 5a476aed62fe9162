\* Two workers, two runs, two cancels, a deletion and a crash: the races of the pool with the API.
CONSTANTS
    Runs = {r1, r2}
    Workers = {w1, w2}
    Boot = boot
    NoRun = norun
    MaxReplies = 0
    MaxRetries = 0
    MaxCancels = 2
    MaxCrashes = 1
    MayDelete = TRUE
SPECIFICATION Spec
SYMMETRY Symmetry
INVARIANTS
    TypeOK
    SnapshotCurrent
    CancelWins
    OnlyCompletedSpeaks
CHECK_DEADLOCK FALSE
