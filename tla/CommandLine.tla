----------------------------- MODULE CommandLine -----------------------------
(***************************************************************************)
(* What each command line argument does to the options, and which messages *)
(* the logging options let through (CommandLineOptions.cpp, Logging.cpp).  *)
(*                                                                         *)
(* An argument is a record: opt, what stands before "=" or is a flag's     *)
(* name; val, what follows; eq, is there a "="; caps, is any letter a      *)
(* capital, the I, L and F of the path flags apart.  Values with a meaning *)
(* are written as in the code, in small letters, and so are names.         *)
(***************************************************************************)
EXTENDS Naturals, Sequences

CONSTANT BuiltinPath  \* SWIFT_BUILTIN_MODULE_PATH and the default module cache

\* enum class LoggingPriority
Info == 0
Warning == 1
Error == 2
None == 3
UnknownPriority == 4

\* enum class LoggingArea, a set of bits; All is ~0, which has more bits than
\* there are names.
Areas == {"ast", "sil", "ir", "jit", "importer"}
All == Areas \cup {"unnamed"}
UnknownArea == {}

ShouldLog(log_opts, area, priority) ==
    /\ log_opts.min_priority <= priority
    /\ priority < None
    /\ log_opts.log_areas \cap area # {}

-----------------------------------------------------------------------------

DefaultLoggingOptions == [log_areas |-> UnknownArea, min_priority |-> UnknownPriority]

DefaultCommandLineOptions ==
    [log_areas |-> All, min_priority |-> None,
     module_cache |-> BuiltinPath,
     is_playground |-> FALSE, print_to_console |-> FALSE,
     include_paths |-> <<>>, link_paths |-> <<>>, framework_paths |-> <<>>]

LoggingOptions(opts) ==
    [log_areas |-> opts.log_areas, min_priority |-> opts.min_priority]

AreaBits(val) == IF val = "all" THEN All ELSE {val} \cap Areas

Priorities == [info |-> Info, warning |-> Warning, error |-> Error, none |-> None]

SetLoggingAreaOption(val, opts) == [opts EXCEPT !.log_areas = @ \cup AreaBits(val)]

\* Slip: an unrecognised priority is stored like any other.
SetLoggingPriorityOption_Unchecked(val, opts) ==
    [opts EXCEPT !.min_priority =
        IF val \in DOMAIN Priorities THEN Priorities[val] ELSE UnknownPriority]

SetLoggingPriorityOption(val, opts) ==
    IF val \in DOMAIN Priorities
    THEN [opts EXCEPT !.min_priority = Priorities[val]]
    ELSE opts

\* Slip: an unrecognised value leaves the option as it was.
SetPlaygroundOption_IgnoreJunk(val, opts) ==
    IF val \in {"true", "false"} THEN [opts EXCEPT !.is_playground = (val = "true")] ELSE opts

\* Anything but "true" is false for one option, but "false" true for the other.
SetPlaygroundOption(val, opts) == [opts EXCEPT !.is_playground = (val = "true")]
SetPrintToConsoleOption(val, opts) == [opts EXCEPT !.print_to_console = (val # "false")]

SetModuleCachePathOption(val, opts) == [opts EXCEPT !.module_cache = val]

HandleOptionWithoutEquals(arg, opts) ==
    IF arg.opt = "-I" THEN [opts EXCEPT !.include_paths = Append(@, arg.val)]
    ELSE IF arg.opt = "-L" THEN [opts EXCEPT !.link_paths = Append(@, arg.val)]
    ELSE IF arg.opt = "-F" THEN [opts EXCEPT !.framework_paths = Append(@, arg.val)]
    ELSE IF arg.opt = "--print_to_console" /\ ~arg.caps
         THEN [opts EXCEPT !.print_to_console = TRUE]
    ELSE opts

\* With a "=", the argument is put in small letters as a whole, so that caps
\* no longer matters and a path flag is not recognised.
ParseSingleCommandLineOption(arg, opts) ==
    IF ~arg.eq THEN HandleOptionWithoutEquals(arg, opts)
    ELSE IF arg.opt = "--logging" THEN SetLoggingAreaOption(arg.val, opts)
    ELSE IF arg.opt = "--logging_priority" THEN SetLoggingPriorityOption(arg.val, opts)
    ELSE IF arg.opt = "--playground" THEN SetPlaygroundOption(arg.val, opts)
    ELSE IF arg.opt = "--module_cache_path" THEN SetModuleCachePathOption(arg.val, opts)
    ELSE IF arg.opt = "--print_to_console" THEN SetPrintToConsoleOption(arg.val, opts)
    ELSE opts

=============================================================================
