CONSTANTS
    Years = {2023, 2024, 2025}
    Counts = {1, 9, 10, 11, 19, 20, 21, 90, 99, 100, 101, 110, 111, 119, 120, 199, 200, 999}
    MaxRows = 2
    Values = {0, 1, 2}
SPECIFICATION Spec
INVARIANTS
    QuestionsKeepTheirMeaning
    StatementsAreRead
    ChartsShowTheAnswer
    FederatedAnswersAreSound
    TlsIsNeverWeakened
    WorkbooksAreTakenWhole
    ScanReportsAreWhole
    GovernedAssetsAreKept
    DownloadsAreWhole
