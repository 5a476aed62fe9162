CONSTANTS
    None = none
    Longer <- MCLonger
    Rank <- MCRank
    Limit = 8
    Nested = {}
    Flat = {}
    Null = null
    Sources = {"shop", "web"}
    Requests <- MCRequests
    Readings <- MCReadings
    Driver <- MCDriver
    Revisions <- MCRevisions
    Governance <- MCGovernance
    Ranges <- MCRanges
    PhysicalNames = {"orders.amount"}
    Reviewed = {"a1", "a3"}
    MaxChanges = 2
SPECIFICATION FairSpec
INVARIANTS
    AskTypeOK
    QuestionsReachTheDatabase
    AnswersAreOfOneRevision
PROPERTIES
    StreamsTellTheOutcome
