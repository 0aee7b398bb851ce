CONSTANTS
    ReadSize = 2
    StdioSize = 2
    PipeSize = 2
    MaxPrinted = 5
    MaxClicks = 3
    Recompiles = FALSE
    Callbacks = FALSE
SPECIFICATION FairSpec
PROPERTIES AllOutputShown
CHECK_DEADLOCK FALSE
