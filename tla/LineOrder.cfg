CONSTANTS
    Threshold = 3
    MaxItems = 4
    MaxLines = 2
SPECIFICATION Spec
INVARIANTS ResultIsLastExpression
CHECK_DEADLOCK FALSE
