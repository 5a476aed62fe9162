\* One run over two sources, two workers, one rescan of each source.
CONSTANTS
    Runs = {r1}
    Workers = {w1, w2}
    NoRun = norun
    N = 2
    MaxBytes = 1
    MaxSize = 1
    MaxVersion = 2
    MaxEvents = 2
SPECIFICATION Spec
SYMMETRY FederatedSymmetry
INVARIANTS
    FederatedTypeOK
    CompletedRunsAreSound
    FederatedRunsAreDriven
PROPERTIES
    DecisionsAreFinal
CHECK_DEADLOCK FALSE
