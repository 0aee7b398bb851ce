CONSTANTS
    BuiltinPath = "swift"
    Argument <- MCArgument
    MaxArgs = 2
    MaxInput = 3
    MaxClicks = 2
    Library <- MCLibrary
    Present <- MCPresent
    Broken <- MCBroken
    RealPath <- MCRealPath
    CurrentDirectory = "here"
    OnSystem <- MCOnSystem
SPECIFICATION FairSpec
INVARIANTS TypeOK ShownAsAsked EveryReplIsConfigured SystemThenFirstPath 
PROPERTIES ExitEnds PromptsForEver
CHECK_DEADLOCK FALSE
