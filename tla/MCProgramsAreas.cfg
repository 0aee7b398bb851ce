CONSTANTS
    BuiltinPath = "swift"
    Argument <- MCArgument
    MaxArgs = 2
    MaxInput = 1
    MaxClicks = 1
    Library <- MCLibrary
    Present <- MCPresent
    Broken <- MCBroken
    RealPath <- MCRealPath
    CurrentDirectory = "here"
    OnSystem <- MCOnSystem
SPECIFICATION Spec
INVARIANTS NamedAreasOnly
CHECK_DEADLOCK FALSE
