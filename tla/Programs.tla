------------------------------ MODULE Programs ------------------------------
(***************************************************************************)
(* The two programs around the REPL: main of swift-repl, which reads and   *)
(* executes lines, and WinMain of swift-playground with the clicks that    *)
(* replace the REPL.  Both parse the command line, set up logging and give *)
(* each REPL they create its search paths; libraries are loaded from a     *)
(* list of directories that outlives the REPL.                             *)
(*                                                                         *)
(* What ExecuteSwift does with a line is module Repl's subject; here it    *)
(* accepts it, with messages in every area, or rejects it, ends the        *)
(* program, or never returns because user code does not.                   *)
(***************************************************************************)
EXTENDS CommandLine, FiniteSets

CONSTANTS
    Argument,    \* arguments a command line may hold
    MaxArgs,     \* bound: arguments on the command line
    MaxInput,    \* bound: lines of input
    MaxClicks,   \* bound: clicks in the playground
    Library,     \* libraries that code may link to
    Present,     \* Present[dir]: the libraries that have a file in a directory
    Broken,      \* pairs <<dir, library>>: files that cannot be loaded
    RealPath,    \* path -> directory, for the paths that name one
    CurrentDirectory,
    OnSystem     \* libraries the system's loader finds by their bare name

ASSUME BoundsAssumption == {MaxArgs, MaxInput, MaxClicks} \subseteq Nat
\* A directory without files of libraries is one too.
ASSUME FilesAssumption ==
    /\ \A d \in DOMAIN Present : Present[d] \subseteq Library
    /\ \A p \in DOMAIN RealPath : RealPath[p] \in DOMAIN Present
    /\ CurrentDirectory \in DOMAIN Present
    /\ OnSystem \subseteq Library

VARIABLES
    program,              \* "swift-repl" or "swift-playground"
    argv, opts, parsed,   \* the arguments, the options, arguments parsed so far
    g_log_opts, g_curr_logging_area,
    g_additional_paths,   \* LibraryLoading.cpp
    loaded,               \* the directory each loaded library came from
    repl,                 \* how the REPL there is was set up, NoREPL before the first
    input, consumed,      \* the standard input, lines read from it
    line,                 \* main's line
    pc,                   \* where the program is
    clicks,               \* clicks so far
    log                   \* the calls of Log in the last step

startup == <<program, argv, opts, parsed>>
logging == <<g_log_opts, g_curr_logging_area>>
libraries == <<g_additional_paths, loaded>>
console == <<input, consumed, line>>
vars == <<startup, logging, log, libraries, repl, console, pc, clicks>>

Null == "null"
System == "system"  \* where the system's loader found a library
Blank == ""
NoREPL == [is_playground |-> FALSE, modules |-> <<>>, frameworks |-> <<>>]

Inputs == UNION {[1 .. n -> {Blank, "exit", "code"}] : n \in 0 .. MaxInput}
CommandLines == UNION {[1 .. n -> Argument] : n \in 0 .. MaxArgs}

Init ==
    /\ program \in {"swift-repl", "swift-playground"}
    /\ argv \in CommandLines
    /\ opts = DefaultCommandLineOptions /\ parsed = 0
    /\ g_log_opts = DefaultLoggingOptions /\ g_curr_logging_area = UnknownArea
    /\ log = <<>>
    /\ g_additional_paths = <<>> /\ loaded = <<>>
    /\ repl = NoREPL
    /\ input \in IF program = "swift-repl" THEN Inputs ELSE {<<>>}
    /\ consumed = 0 /\ line = Blank
    /\ pc = "parse" /\ clicks = 0

-----------------------------------------------------------------------------
(* Logging *)

Message(area, priority) == [area |-> area, priority |-> priority]

\* Calls of Log, each with the area that is current then; log_opts are the
\* options in force, area is what SetCurrentLoggingArea has set in the end.
LogAll(messages, area, log_opts) ==
    /\ log' = [k \in DOMAIN messages |->
                 [area |-> messages[k].area,
                  priority |-> messages[k].priority,
                  shown |-> ShouldLog(log_opts, messages[k].area, messages[k].priority)]]
    /\ g_log_opts' = log_opts
    /\ g_curr_logging_area' = area

\* No call of Log, and none of SetCurrentLoggingArea.
NothingLogged == log' = <<>> /\ UNCHANGED logging

JITArea == {"jit"}
JITError == <<Message(JITArea, Error)>>

\* SetupImporters, in REPL's constructor
ImporterMessages == {<<Message({"importer"}, Info)>>, <<Message({"importer"}, Error)>>}

\* JIT::AddSearchPath
PathMessages == [k \in DOMAIN opts.link_paths |-> Message(JITArea, Info)]

\* REPL::Create logs its error, and so does its caller.  Slip: each leaves it
\* to the other.
CreationFailed_Silent == <<>>
CreationFailed == JITError \o <<Message(All, Error)>>

\* The messages of a line that the front end accepts: of its link libraries,
\* then of its declarations as far as they are compiled and linked.
LinkMessages(found) ==
    [k \in DOMAIN found |-> Message(JITArea, IF found[k] = Null THEN Warning ELSE Info)]
Linked == <<Message({"sil"}, Info), Message({"ir"}, Info), Message(JITArea, Info)>>
Compiled == {<<>>, <<Message({"sil"}, Info)>>, Linked, Linked \o JITError}

-----------------------------------------------------------------------------
(* Setting up *)

ParseOption ==
    /\ pc = "parse" /\ parsed < Len(argv)
    /\ parsed' = parsed + 1
    /\ opts' = ParseSingleCommandLineOption(argv[parsed + 1], opts)
    /\ NothingLogged /\ UNCHANGED <<program, argv, libraries, repl, console, pc, clicks>>

ArgumentsParsed == pc = "parse" /\ parsed = Len(argv)

\* AddLibrarySearchPath: the error of real_path is ignored, and make_absolute
\* makes of the nothing it leaves the current directory.
DirectoryOf(path) == IF path \in DOMAIN RealPath THEN RealPath[path] ELSE CurrentDirectory
DirectoriesOf(paths) == [k \in DOMAIN paths |-> DirectoryOf(paths[k])]

\* REPL::Create and the search paths that follow it.
SetUpREPL(is_playground, importer, log_opts) ==
    /\ repl' = [is_playground |-> is_playground,
                modules |-> <<BuiltinPath>> \o opts.include_paths,
                frameworks |-> opts.framework_paths]
    /\ g_additional_paths' = g_additional_paths \o DirectoriesOf(opts.link_paths)
    /\ LogAll(importer \o PathMessages, JITArea, log_opts)
    /\ UNCHANGED loaded

SetupREPLWithOptions ==
    /\ program = "swift-repl" /\ ArgumentsParsed
    /\ \E importer \in ImporterMessages :
          SetUpREPL(opts.is_playground, importer, LoggingOptions(opts))
    /\ pc' = "prompt"
    /\ UNCHANGED <<startup, console, clicks>>

SetupFails ==
    /\ program = "swift-repl" /\ ArgumentsParsed
    /\ \E importer \in ImporterMessages :
          LogAll(importer \o CreationFailed, All, LoggingOptions(opts))
    /\ pc' = "ended"
    /\ UNCHANGED <<startup, libraries, repl, console, clicks>>

\* WinMain.  What it logs is logged in whatever area is current: none is.
OpenWindow ==
    /\ program = "swift-playground" /\ ArgumentsParsed
    /\ opts' = [opts EXCEPT !.is_playground = TRUE]
    /\ LogAll(<<>>, g_curr_logging_area, LoggingOptions(opts))
    /\ pc' = "redirect"
    /\ UNCHANGED <<program, argv, parsed, libraries, repl, console, clicks>>

OpenWindowFails ==
    /\ program = "swift-playground" /\ ArgumentsParsed
    /\ opts' = [opts EXCEPT !.is_playground = TRUE]
    /\ LogAll(<<Message(g_curr_logging_area, Error)>>, g_curr_logging_area, LoggingOptions(opts))
    /\ pc' = "ended"
    /\ UNCHANGED <<program, argv, parsed, libraries, repl, console, clicks>>

\* RedirectStdoutRAII; a failure is logged, and the thread started anyway.
RedirectStdout ==
    /\ pc = "redirect"
    /\ \E errors \in IF opts.print_to_console THEN {0} ELSE 0 .. 2 :
          LogAll([k \in 1 .. errors |-> Message(g_curr_logging_area, Error)],
                 g_curr_logging_area, g_log_opts)
    /\ pc' = "window"
    /\ UNCHANGED <<startup, libraries, repl, console, clicks>>

-----------------------------------------------------------------------------
(* Executing *)

\* The directories on the list with a file for a library, by their positions.
WithFile(lib) == {k \in DOMAIN g_additional_paths : lib \in Present[g_additional_paths[k]]}

\* What the k-th directory's file for a library gives.
LoadFrom(k, lib) ==
    IF <<g_additional_paths[k], lib>> \in Broken THEN Null ELSE g_additional_paths[k]

\* Slips: paths added later are searched first; the system is asked last.
FileOf_LastFirst(lib) ==
    IF lib \in OnSystem THEN System
    ELSE IF WithFile(lib) = {} THEN Null
    ELSE LoadFrom(CHOOSE k \in WithFile(lib) : \A j \in WithFile(lib) : k >= j, lib)
FileOf_SystemLast(lib) ==
    IF WithFile(lib) # {}
    THEN LoadFrom(CHOOSE k \in WithFile(lib) : \A j \in WithFile(lib) : k <= j, lib)
    ELSE IF lib \in OnSystem THEN System ELSE Null

\* SearchForAndLoadLibraryPermanently: the bare name first, for the system's
\* loader to find; then the first directory with a file of that name decides.
FileOf(lib) ==
    IF lib \in OnSystem THEN System
    ELSE IF WithFile(lib) = {} THEN Null
    ELSE LoadFrom(CHOOSE k \in WithFile(lib) : \A j \in WithFile(lib) : k <= j, lib)

\* AddDylib for each library an accepted line links to, at most one here; a
\* library stays loaded, and its name then finds it without a search.  The
\* area is JIT in the end unless ExecuteSwift returns early.
LinkLibraries(libs, rest) ==
    /\ LET found == [k \in DOMAIN libs |->
                        IF libs[k] \in DOMAIN loaded THEN loaded[libs[k]] ELSE FileOf(libs[k])]
           new == {libs[k] : k \in {k \in DOMAIN libs : found[k] # Null}} \ DOMAIN loaded
           messages == <<Message({"ast"}, Info)>> \o LinkMessages(found) \o rest
       IN  /\ loaded' = [l \in DOMAIN loaded \cup new |->
                            IF l \in new THEN FileOf(l) ELSE loaded[l]]
           /\ \E area \in {messages[Len(messages)].area, JITArea} :
                 LogAll(messages, area, g_log_opts)
    /\ UNCHANGED g_additional_paths

LinkedLibraries == {<<>>} \cup {<<l>> : l \in Library}

Prompt ==
    /\ pc = "prompt"
    /\ pc' = "getline"
    /\ NothingLogged /\ UNCHANGED <<startup, libraries, repl, console, clicks>>

\* std::getline leaves the line empty when there is no more input.  Slip: the
\* end of input ends the session.
GetLine_StopAtEnd ==
    /\ pc = "getline"
    /\ IF consumed < Len(input)
       THEN /\ consumed' = consumed + 1 /\ line' = input[consumed + 1]
            /\ pc' = IF line' = Blank THEN "prompt" ELSE "execute"
       ELSE pc' = "ended" /\ UNCHANGED <<consumed, line>>
    /\ NothingLogged /\ UNCHANGED <<startup, libraries, repl, input, clicks>>
GetLine ==
    /\ pc = "getline"
    /\ IF consumed < Len(input)
       THEN consumed' = consumed + 1 /\ line' = input[consumed + 1]
       ELSE line' = Blank /\ UNCHANGED consumed
    /\ pc' = IF line' = Blank THEN "prompt" ELSE "execute"
    /\ NothingLogged /\ UNCHANGED <<startup, libraries, repl, input, clicks>>

Executing == pc = "execute"
Executed == UNCHANGED <<startup, repl, console, clicks>>

\* ExecuteSwift returns false at an exit string.  Slip: it is case for the
\* front end like any other line.
ExitLine_Rejected ==
    /\ Executing /\ line = "exit" /\ pc' = "prompt"
    /\ NothingLogged /\ UNCHANGED libraries /\ Executed
ExitLine ==
    /\ Executing /\ line = "exit" /\ pc' = "ended"
    /\ NothingLogged /\ UNCHANGED libraries /\ Executed

\* The front end finds an error before or after the first message.
Reject ==
    \/ NothingLogged /\ UNCHANGED libraries
    \/ LogAll(<<Message({"ast"}, Info)>>, {"ast"}, g_log_opts) /\ UNCHANGED libraries

RejectLine ==
    /\ Executing /\ line # "exit" /\ pc' = "prompt"
    /\ Reject
    /\ Executed

\* It runs, or is given up with true: redeclaration, errors, failed pointers.
Accept == \E libs \in LinkedLibraries, rest \in Compiled : LinkLibraries(libs, rest)

AcceptLine ==
    /\ Executing /\ line # "exit" /\ pc' = "prompt"
    /\ Accept
    /\ Executed

LineFunctionMissing ==
    /\ Executing /\ line # "exit" /\ pc' = "ended"
    /\ \E libs \in LinkedLibraries : LinkLibraries(libs, Linked \o JITError)
    /\ Executed

UserCodeNeverReturns ==
    /\ Executing /\ line # "exit" /\ pc' = "running"
    /\ \E libs \in LinkedLibraries : LinkLibraries(libs, Linked)
    /\ Executed

Click ==
    /\ pc = "window" /\ clicks < MaxClicks
    /\ clicks' = clicks + 1
    /\ UNCHANGED <<startup, console>>

\* ResetREPL; ExecuteSwift follows.
RecompileEverything ==
    /\ Click
    /\ \E importer \in ImporterMessages :
          SetUpREPL(opts.is_playground, importer, g_log_opts)
    /\ pc' = "handler"

\* ResetREPL goes on with a REPL that is not there.
RecompileFails ==
    /\ Click
    /\ \E importer \in ImporterMessages :
          LogAll(importer \o CreationFailed, All, g_log_opts)
    /\ pc' = "crashed"
    /\ UNCHANGED <<libraries, repl>>

\* Slip: m_repl is taken to be there.
ContinueExecution_Unchecked ==
    /\ Click
    /\ pc' = "handler"
    /\ NothingLogged /\ UNCHANGED <<libraries, repl>>

\* There is a REPL to continue with, or this recompiles (module Playground).
ContinueExecution ==
    /\ Click /\ repl # NoREPL
    /\ pc' = "handler"
    /\ NothingLogged /\ UNCHANGED <<libraries, repl>>

\* The window ignores what ExecuteSwift returns.
HandlerExecutes ==
    /\ pc = "handler" /\ pc' = "window"
    /\ Reject \/ Accept
    /\ UNCHANGED <<startup, repl, console, clicks>>

CloseWindow ==
    /\ pc = "window" /\ pc' = "closed"
    /\ NothingLogged /\ UNCHANGED <<startup, libraries, repl, console, clicks>>

ExecuteSwift ==
    ExitLine \/ RejectLine \/ AcceptLine \/ LineFunctionMissing \/ UserCodeNeverReturns

Main == ParseOption \/ SetupREPLWithOptions \/ SetupFails \/ Prompt \/ GetLine \/ ExecuteSwift

Window ==
    \/ OpenWindow \/ OpenWindowFails \/ RedirectStdout
    \/ RecompileEverything \/ RecompileFails \/ ContinueExecution \/ HandlerExecutes
    \/ CloseWindow

Next == Main \/ Window

Spec == Init /\ [][Next]_vars

\* main has one thread, which goes on until it returns or user code does not.
FairSpec == Spec /\ WF_vars(Main)

-----------------------------------------------------------------------------
(* Properties *)

TypeOK ==
    /\ argv \in CommandLines /\ parsed \in 0 .. Len(argv)
    /\ \A k \in DOMAIN log : log[k].area \subseteq All /\ log[k].priority \in Info .. Error
    /\ g_curr_logging_area \subseteq All
    /\ \A l \in DOMAIN loaded : l \in Library /\ loaded[l] \in DOMAIN Present \cup {System}
    /\ repl = NoREPL => pc \notin {"prompt", "getline", "execute", "running", "handler"}
    /\ pc \in {"parse", "redirect", "prompt", "getline", "execute", "running", "ended",
               "window", "handler", "closed", "crashed"}

\* The values given for an option: every argument that a "=" splits into the
\* option's name, in any case, and a value.
Given(opt, values) == {k \in DOMAIN argv : argv[k].eq /\ argv[k].opt = opt /\ argv[k].val \in values}
LastOf(S) == CHOOSE k \in S : \A j \in S : j <= k

\* Without a recognised --logging_priority, no message is shown; with one,
\* the last decides, and every message of that priority or a higher one is
\* shown, whatever areas were asked for -- unless it was logged before any
\* area was set, as all that WinMain logs is.
ShownAsAsked ==
    LET asked == Given("--logging_priority", DOMAIN Priorities)
    IN  \A k \in DOMAIN log :
           log[k].shown <=>
              /\ asked # {}
              /\ Priorities[argv[LastOf(asked)].val] <= log[k].priority
              /\ log[k].area # UnknownArea

\* Logging.h: bits are set for the areas one wants to log.  So when areas have
\* been named, what is shown belongs to one of them.
NamedAreasOnly ==
    LET named == Given("--logging", Areas)
    IN  \A k \in DOMAIN log :
           /\ named # {} /\ Given("--logging", {"all"}) = {}
           /\ log[k].shown
           => log[k].area \cap {argv[n].val : n \in named} # {}

\* The arguments that give a path for a flag.
PathArguments(flag) == {k \in DOMAIN argv : ~argv[k].eq /\ argv[k].opt = flag}

\* These paths are those the arguments give, in their order: the path of each
\* stands as far behind as there are such arguments up to it.
AsGiven(paths, arguments) ==
    /\ Len(paths) = Cardinality(arguments)
    /\ \A k \in arguments : paths[Cardinality({j \in arguments : j <= k})] = argv[k].val

\* Every REPL a program creates, not only its first, is set up from the whole
\* command line: all paths without a "=" in the order given, and the last
\* word on --playground, which the window program overrules.
EveryReplIsConfigured ==
    repl # NoREPL =>
        LET modes == {k \in DOMAIN argv : argv[k].eq /\ argv[k].opt = "--playground"}
        IN  /\ Head(repl.modules) = BuiltinPath
            /\ AsGiven(Tail(repl.modules), PathArguments("-I"))
            /\ AsGiven(repl.frameworks, PathArguments("-F"))
            /\ repl.is_playground =
                 (program = "swift-playground" \/ (modes # {} /\ argv[LastOf(modes)].val = "true"))

\* A library the system knows comes from there, whatever directories are given.
\* Any other comes from the directory of the first -L that has a file of its
\* name, though the list is filled again by every recompilation; if that file
\* cannot be loaded, it comes from nowhere.  A -L that names no directory stands
\* for the current one, at its place in that order.
SystemThenFirstPath ==
    \A l \in DOMAIN loaded :
        LET where == {k \in PathArguments("-L") : l \in Present[DirectoryOf(argv[k].val)]}
        IN  IF l \in OnSystem THEN loaded[l] = System
            ELSE \E k \in where :
                    /\ \A j \in where : k <= j
                    /\ loaded[l] = DirectoryOf(argv[k].val)
                    /\ <<loaded[l], l>> \notin Broken

\* A program that stops without being told to has logged an error last, and the
\* user who asked for errors is shown it -- unless it is that the window could
\* not be opened, which is logged before any area is set.
StopsAreExplained ==
    pc \in {"ended", "crashed"} /\ line # "exit" =>
        LET asked == Given("--logging_priority", DOMAIN Priorities)
        IN  /\ log # <<>> /\ log[Len(log)].priority = Error
            /\ log[Len(log)].shown <=>
                  /\ asked # {} /\ Priorities[argv[LastOf(asked)].val] <= Error
                  /\ ~(program = "swift-playground" /\ pc = "ended")

\* An exit line ends the session, whatever the lines before it led to, unless
\* user code never returns or the session has ended already.
ExitEnds ==
    (program = "swift-repl" /\ \E k \in DOMAIN input : input[k] = "exit")
        ~> (pc \in {"ended", "running"})

\* Once GetLine has met the end of the input the session never ends: it
\* prompts for ever.
PromptsForEver ==
    [](pc = "getline" /\ consumed = Len(input)
        => []<>(pc = "prompt") /\ []<>(pc = "getline"))

=============================================================================
