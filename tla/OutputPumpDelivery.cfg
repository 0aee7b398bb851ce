CONSTANTS
    ReadSize = 2
    StdioSize = 2
    PipeSize = 5
    MaxPrinted = 5
    MaxClicks = 3
    Recompiles = FALSE
    Callbacks = FALSE
SPECIFICATION FairSpec
INVARIANTS NothingHeldBack
PROPERTIES AllOutputShown
CHECK_DEADLOCK FALSE
