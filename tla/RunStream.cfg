\* One run, one page that watches it.
CONSTANTS
    Runs = {r1}
    Workers = {w1}
    Boot = boot
    NoRun = norun
    MaxReplies = 1
    MaxRetries = 0
    MaxCancels = 0
    MaxCrashes = 1
    MayDelete = TRUE
    Watched = r1
    MaxBreaks = 1
SPECIFICATION StreamSpec
PROPERTIES
    TimelinesFollowTheRun
CHECK_DEADLOCK FALSE
