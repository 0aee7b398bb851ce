CONSTANTS
    ReadSize = 2
    StdioSize = 2
    PipeSize = 2
    MaxPrinted = 7
    MaxClicks = 3
    Recompiles = TRUE
    Callbacks = TRUE
SPECIFICATION Spec
INVARIANTS TypeOK OutputInOrder BoxShowsText OnlyKnownCycles
PROPERTIES DeadlocksLast EveryStepHelps RefinesTerminal
CHECK_DEADLOCK FALSE
