SPECIFICATION Spec
CONSTANTS
    Char = {x, y}
    Nl = nl
    MaxLen = 4
INVARIANTS
    TypeOK
    ContinuesWithAREPL
    ExecutedLinesStand
    SkippedOnlyAtStops
