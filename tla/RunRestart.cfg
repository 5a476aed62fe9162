\* One run through a reply, a retry, cancels, a deletion and two crashes: pool threads, the
\* constructor and calls that keep going.
CONSTANTS
    Runs = {r1}
    Workers = {w1}
    Boot = boot
    NoRun = norun
    MaxReplies = 1
    MaxRetries = 1
    MaxCancels = 2
    MaxCrashes = 2
    MayDelete = TRUE
SPECIFICATION FairSpec
INVARIANTS
    NoRunIsForgotten
PROPERTIES
    RepairsAreExact
    ImplementsLifecycle
    EveryRunComesToRest
CHECK_DEADLOCK FALSE
