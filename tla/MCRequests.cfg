SPECIFICATION RequestSpec
CONSTANTS
    Lanes <- LanesInUse
    NKeys = 2
    MaxFrames = 4
    Absent = absent
INVARIANTS Delivered EndsTruthful CollapseAgrees ConversationsKept ToolsReturn
PROPERTIES WellFormed
CHECK_DEADLOCK FALSE
