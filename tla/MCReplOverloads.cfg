CONSTANTS
    User = {a}
    Sig = {s, t}
    Lib = {lib}
    Kinds = {"func", "type"}
    InWindow = FALSE
    IsPlayground = FALSE
    MaxLines = 3
    MaxDecls = 2
    MaxRefs = 1
    MaxTakes = 0
SPECIFICATION Spec
SYMMETRY Symmetry
INVARIANTS ReplInv OnlyFunctionsShareAName RegisteredIsImported ImportsDouble
PROPERTIES NeverRedefined
CHECK_DEADLOCK FALSE
