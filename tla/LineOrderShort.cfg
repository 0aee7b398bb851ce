CONSTANTS
    Threshold = 5
    MaxItems = 3
    MaxLines = 2
SPECIFICATION Spec
INVARIANTS ShortLinesKeepTheirOrder EachOnce
CHECK_DEADLOCK FALSE
