CONSTANTS
    User = {a, b}
    Sig = {s}
    Lib = {}
    Kinds = {"func"}
    InWindow = FALSE
    IsPlayground = FALSE
    MaxLines = 3
    MaxDecls = 2
    MaxRefs = 1
    MaxTakes = 0
SPECIFICATION Spec
SYMMETRY Symmetry
PROPERTIES AcceptedLineRuns
CHECK_DEADLOCK FALSE
