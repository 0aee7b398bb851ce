CONSTANTS
    User = {a, b}
    Sig = {s}
    Lib = {}
    Kinds = {"func", "var", "type"}
    InWindow = TRUE
    IsPlayground = TRUE
    MaxLines = 2
    MaxDecls = 2
    MaxRefs = 1
    MaxTakes = 1
SPECIFICATION Spec
SYMMETRY Symmetry
INVARIANTS AddModuleCannotFail ValuesAreCurrent
PROPERTIES NeverRedefined
CHECK_DEADLOCK FALSE
