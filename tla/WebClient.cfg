CONSTANTS
    Workspaces = {default, other}
    Default = default
    None = none
    MaxSources = 2
    MaxMoves = 4
    MaxListings = 2
    MaxConversations = 2
    MaxRuns = 2
    MaxActs = 3
    MaxLost = 1
    MaxAnswers = 6
SPECIFICATION WebSpec
PROPERTIES
    PagesShowTheirSources
    ConversationsAreShown
CHECK_DEADLOCK FALSE
