\* Two threads, a workbook that can be taken and one that cannot, two datasources.
CONSTANTS
    Threads = {t1, t2}
    Datasources = {d1, d2}
    Files = {good, bad}
    Importable = {good}
    None = none
    Gone = gone
    MaxVersion = 3
    MaxCalls = 4
    MaxCrashes = 1
SPECIFICATION Spec
SYMMETRY ExcelSymmetry
INVARIANTS
    ImportsAreRepeatable
CHECK_DEADLOCK FALSE
