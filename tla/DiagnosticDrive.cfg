\* One run, two workers, two sources, two questions in up to two rounds.
CONSTANTS
    Runs = {r1}
    Workers = {w1, w2}
    Sources = {s1, s2}
    NoRun = norun
    NoSource = nosource
    Scope = nosource
    MaxQuestions = 2
    MaxRounds = 2
    PerRound = 2
    MaxEvents = 2
SPECIFICATION Spec
SYMMETRY DiagnosticSymmetry
INVARIANTS
    DiagnosticTypeOK
    DiagnosesAreSound
PROPERTIES
    TasksAreSettled
CHECK_DEADLOCK FALSE
