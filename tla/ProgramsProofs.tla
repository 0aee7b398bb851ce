--------------------------- MODULE ProgramsProofs ---------------------------
(***************************************************************************)
(* What is logged and shown, for every command line, and that a program    *)
(* that stops has said why.                                                *)
(***************************************************************************)
EXTENDS Programs, SequenceTheorems, TLAPS

Values == {a.val : a \in Argument}

\* What the options are, whatever is on the command line.  No argument takes
\* an area away.
Options ==
    [log_areas : {All}, min_priority : Info .. None,
     module_cache : Values \cup {BuiltinPath},
     is_playground : BOOLEAN, print_to_console : BOOLEAN,
     include_paths : Seq(Values), link_paths : Seq(Values), framework_paths : Seq(Values)]

\* The arguments among the first n that set a priority.
Asked(n) ==
    {k \in 1 .. n : /\ argv[k].eq /\ argv[k].opt = "--logging_priority"
                    /\ argv[k].val \in DOMAIN Priorities}

ParseInv ==
    /\ argv \in Seq(Argument) /\ parsed \in 0 .. Len(argv)
    /\ opts \in Options
    /\ opts.min_priority =
         IF Asked(parsed) = {} THEN None ELSE Priorities[argv[LastOf(Asked(parsed))].val]

\* Logging is set up by the step that ends the parsing, and what is shown was
\* decided by the options.
LogInv ==
    /\ g_curr_logging_area \subseteq All
    /\ pc = "parse" => log = <<>> /\ g_curr_logging_area = UnknownArea
    /\ pc # "parse" => parsed = Len(argv) /\ g_log_opts = LoggingOptions(opts)
    /\ \A k \in DOMAIN log :
          /\ log[k].area \subseteq All /\ log[k].priority \in Info .. Error
          /\ log[k].shown <=> ShouldLog(g_log_opts, log[k].area, log[k].priority)

\* Only main prompts.  A program that stops unasked has logged an error last,
\* and it was logged in some area, except where the window could not be opened.
Prompting == {"prompt", "getline", "execute", "running"}
Windowless == program = "swift-playground" /\ pc = "ended"
StopInv ==
    /\ pc \in Prompting => program = "swift-repl"
    /\ pc \in {"ended", "crashed"} /\ line # "exit" =>
          /\ log # <<>> /\ Len(log) \in DOMAIN log /\ log[Len(log)].priority = Error
          /\ log[Len(log)].area # UnknownArea <=> ~Windowless

Inv == ParseInv /\ LogInv /\ StopInv

Messages == Seq([area : SUBSET All, priority : Info .. Error])

\* The last message is an error, in some area.
Tells(m) == m # <<>> /\ m[Len(m)].priority = Error /\ m[Len(m)].area # UnknownArea

-----------------------------------------------------------------------------
(* Logging *)

LEMMA LogAllFacts ==
    ASSUME NEW m \in Messages, NEW area, NEW o, LogAll(m, area, o)
    PROVE  /\ g_log_opts' = o /\ g_curr_logging_area' = area
           /\ DOMAIN log' = 1 .. Len(m) /\ Len(log') = Len(m) /\ Len(m) \in Nat
           /\ \A k \in 1 .. Len(m) :
                 /\ log'[k].area = m[k].area /\ log'[k].priority = m[k].priority
                 /\ log'[k].area \subseteq All /\ log'[k].priority \in Info .. Error
                 /\ log'[k].shown <=> ShouldLog(o, log'[k].area, log'[k].priority)
<1>1. DOMAIN m = 1 .. Len(m) /\ Len(m) \in Nat
  BY LenProperties DEF Messages
<1>2. log' = [k \in 1 .. Len(m) |->
                [area |-> m[k].area, priority |-> m[k].priority,
                 shown |-> ShouldLog(o, m[k].area, m[k].priority)]]
  BY <1>1, Zenon DEF LogAll
<1>3. \A k \in 1 .. Len(m) : m[k] \in [area : SUBSET All, priority : Info .. Error]
  BY ElementOfSeq DEF Messages
<1>4. \A k \in 1 .. Len(m) : m[k].area \subseteq All /\ m[k].priority \in Info .. Error
  BY <1>3
<1>5. DOMAIN log' = 1 .. Len(m) /\ Len(log') = Len(m)
  BY <1>1, <1>2
<1>6. \A k \in 1 .. Len(m) :
         log'[k] = [area |-> m[k].area, priority |-> m[k].priority,
                    shown |-> ShouldLog(o, m[k].area, m[k].priority)]
  BY <1>2
<1>7. g_log_opts' = o /\ g_curr_logging_area' = area
  BY DEF LogAll
<1> QED BY <1>1, <1>4, <1>5, <1>6, <1>7

\* Messages that end with an error do so after any others.
LEMMA EndsInError ==
    ASSUME NEW m \in Messages, NEW e \in Messages, Tells(e)
    PROVE  m \o e \in Messages /\ Len(m \o e) \in Nat \ {0} /\ Tells(m \o e)
<1>1. Len(m) \in Nat /\ Len(e) \in Nat \ {0}
  BY LenProperties, EmptySeq DEF Messages, Tells
<1>2. /\ m \o e \in Messages /\ Len(m \o e) = Len(m) + Len(e)
      /\ \A i \in 1 .. Len(m) + Len(e) :
            (m \o e)[i] = IF i <= Len(m) THEN m[i] ELSE e[i - Len(m)]
  BY ConcatProperties DEF Messages
<1>3. /\ Len(m) + Len(e) \in 1 .. Len(m) + Len(e) /\ ~(Len(m) + Len(e) <= Len(m))
      /\ (Len(m) + Len(e)) - Len(m) = Len(e)
  BY <1>1
<1>4. (m \o e)[Len(m) + Len(e)] = e[Len(e)]
  BY <1>2, <1>3
<1>5. Len(m \o e) \in Nat \ {0}
  BY <1>1, <1>2
<1>6. m \o e # <<>>
  BY <1>2, <1>5, EmptySeq DEF Messages
<1> QED BY <1>2, <1>4, <1>5, <1>6 DEF Tells

LEMMA FunctionIsSeq ==
    ASSUME NEW S, NEW n \in Nat, NEW f \in [1 .. n -> S]
    PROVE  f \in Seq(S)
OBVIOUS

LEMMA OneMessage ==
    ASSUME NEW area \in SUBSET All, NEW p \in Info .. Error
    PROVE  <<Message(area, p)>> \in Messages
BY DEF Message, Messages

LEMMA FirstMessage ==
    <<Message({"ast"}, Info)>> \in Messages /\ Len(<<Message({"ast"}, Info)>>) = 1
<1>1. {"ast"} \in SUBSET All /\ Info \in Info .. Error
  BY DEF All, Areas, Info, Error
<1>2. <<Message({"ast"}, Info)>> \in Messages
  BY <1>1, OneMessage
<1> QED BY <1>2

LEMMA TwoMessages ==
    ASSUME NEW m \in Messages, NEW e \in Messages
    PROVE  m \o e \in Messages
BY ConcatProperties DEF Messages

\* All that is logged are messages; those of a failure end with an error.
LEMMA LoggedMessages ==
    ASSUME opts \in Options
    PROVE  /\ \A importer \in ImporterMessages : importer \in Messages
           /\ PathMessages \in Messages
           /\ CreationFailed \in Messages /\ Tells(CreationFailed)
           /\ \A rest \in Compiled : rest \in Messages
           /\ Linked \in Messages /\ JITError \in Messages /\ Tells(JITError)
<1>1. {"importer"} \subseteq All /\ {"sil"} \subseteq All /\ {"ir"} \subseteq All /\ JITArea \subseteq All
  BY DEF All, Areas, JITArea
<1>2. Info \in Info .. Error /\ Warning \in Info .. Error /\ Error \in Info .. Error
  BY DEF Info, Warning, Error
<1>3. \A importer \in ImporterMessages : importer \in Messages
  BY <1>1, <1>2, OneMessage DEF ImporterMessages
<1>4. PathMessages \in Messages
  <2>1. DOMAIN opts.link_paths = 1 .. Len(opts.link_paths) /\ Len(opts.link_paths) \in Nat
    BY LenProperties DEF Options
  <2>2. Message(JITArea, Info) \in [area : SUBSET All, priority : Info .. Error]
    BY <1>1, <1>2 DEF Message
  <2> QED BY <2>1, <2>2 DEF PathMessages, Messages
<1>5. JITError \in Messages /\ Tells(JITError)
  <2>1. JITError \in Messages
    BY <1>1, <1>2, OneMessage DEF JITError
  <2>2. JITError = <<[area |-> JITArea, priority |-> Error]>> /\ JITArea # UnknownArea
    BY DEF JITError, Message, JITArea, UnknownArea
  <2> QED BY <2>1, <2>2 DEF Tells
<1>6. <<Message(All, Error)>> \in Messages
  BY <1>2, OneMessage
<1>7. CreationFailed \in Messages
  BY <1>5, <1>6, TwoMessages DEF CreationFailed
<1>8. Tells(CreationFailed)
  <2>1. All # UnknownArea
    BY DEF All, UnknownArea
  <2>2. Tells(<<Message(All, Error)>>)
    BY <2>1 DEF Tells, Message
  <2> QED BY <1>5, <1>6, <2>2, EndsInError DEF CreationFailed
<1>9. Linked \in Messages /\ <<Message({"sil"}, Info)>> \in Messages
  BY <1>1, <1>2 DEF Linked, Message, Messages
<1>10. \A rest \in Compiled : rest \in Messages
  <2>1. <<>> \in Messages
    BY DEF Messages
  <2>2. Linked \o JITError \in Messages
    BY <1>5, <1>9, TwoMessages
  <2> QED BY <1>9, <2>1, <2>2 DEF Compiled
<1> QED BY <1>3, <1>4, <1>5, <1>7, <1>8, <1>9, <1>10

\* A step that logs messages when logging is set up.
LEMMA LogStep ==
    ASSUME ParseInv', NEW m \in Messages, NEW area \in SUBSET All,
           LogAll(m, area, LoggingOptions(opts')), parsed' = Len(argv'), pc' # "parse"
    PROVE  LogInv'
<1>1. /\ g_log_opts' = LoggingOptions(opts') /\ g_curr_logging_area' = area
      /\ DOMAIN log' = 1 .. Len(m)
      /\ \A k \in 1 .. Len(m) :
            /\ log'[k].area \subseteq All /\ log'[k].priority \in Info .. Error
            /\ log'[k].shown <=> ShouldLog(LoggingOptions(opts'), log'[k].area, log'[k].priority)
  BY LogAllFacts
<1> QED BY <1>1, Zenon DEF LogInv

\* A step that logs nothing when logging is set up.
LEMMA QuietStep ==
    ASSUME LogInv, NothingLogged, pc # "parse", pc' # "parse",
           UNCHANGED <<argv, parsed, opts>>
    PROVE  LogInv'
<1>1. DOMAIN log' = {}
  BY DEF NothingLogged
<1>2. g_log_opts' = g_log_opts /\ g_curr_logging_area' = g_curr_logging_area
  BY DEF NothingLogged, logging
<1> QED BY <1>1, <1>2 DEF LogInv, LoggingOptions

LEMMA Linking ==
    ASSUME NEW libs \in LinkedLibraries, NEW rest \in Messages, LinkLibraries(libs, rest)
    PROVE  \E m \in Messages, area \in SUBSET All :
              /\ LogAll(m, area, g_log_opts)
              /\ Tells(rest) => Tells(m)
<1> DEFINE found == [k \in DOMAIN libs |->
                        IF libs[k] \in DOMAIN loaded THEN loaded[libs[k]] ELSE FileOf(libs[k])]
           first == <<Message({"ast"}, Info)>>
           m == first \o LinkMessages(found) \o rest
<1>1. PICK area \in {m[Len(m)].area, JITArea} : LogAll(m, area, g_log_opts)
  BY DEF LinkLibraries
<1>2. DOMAIN found = 1 .. Len(libs) /\ Len(libs) \in Nat
  <2>1. libs \in Seq(Library)
    BY DEF LinkedLibraries
  <2> QED BY <2>1, LenProperties
<1> HIDE DEF found
<1>3. LinkMessages(found) \in Messages
  <2>1. JITArea \in SUBSET All /\ Info \in Info .. Error /\ Warning \in Info .. Error
    BY DEF JITArea, All, Areas, Info, Warning, Error
  <2>2. \A p \in {Info, Warning} : Message(JITArea, p) \in [area : SUBSET All, priority : Info .. Error]
    BY <2>1 DEF Message
  <2>3. \A k \in DOMAIN found : (IF found[k] = Null THEN Warning ELSE Info) \in {Info, Warning}
    OBVIOUS
  <2>4. LinkMessages(found) \in [1 .. Len(libs) -> [area : SUBSET All, priority : Info .. Error]]
    BY <1>2, <2>2, <2>3 DEF LinkMessages
  <2> HIDE DEF found
  <2> QED BY <1>2, <2>4, FunctionIsSeq DEF Messages
<1>4. first \o LinkMessages(found) \in Messages
  <2>1. first \in Messages
    BY FirstMessage
  <2> HIDE DEF first
  <2> QED BY <1>3, <2>1, TwoMessages
<1> DEFINE before == first \o LinkMessages(found)
<1>5. before \in Messages /\ m = before \o rest
  BY <1>4
<1> HIDE DEF before
<1>6. m \in Messages /\ Len(m) \in Nat \ {0}
  <2>1. m \in Messages
    BY <1>5, TwoMessages
  <2>2. Len(m) = Len(before) + Len(rest) /\ Len(before) \in Nat /\ Len(rest) \in Nat
    BY <1>5, ConcatProperties, LenProperties DEF Messages
  <2>3. Len(before) = 1 + Len(LinkMessages(found)) /\ Len(LinkMessages(found)) \in Nat
    <3>1. first \in Messages /\ Len(first) = 1
      BY FirstMessage
    <3> HIDE DEF first
    <3>2. Len(first \o LinkMessages(found)) = Len(first) + Len(LinkMessages(found))
      BY <1>3, <3>1, ConcatProperties DEF Messages
    <3> QED BY <1>3, <3>1, <3>2, LenProperties DEF before, Messages
  <2> HIDE DEF m
  <2> QED BY <2>1, <2>2, <2>3
<1>7. Tells(rest) => Tells(m)
  BY <1>5, EndsInError
<1> HIDE DEF m
<1>8. m[Len(m)].area \in SUBSET All /\ JITArea \in SUBSET All
  <2>1. Len(m) \in 1 .. Len(m)
    BY <1>6
  <2>2. m[Len(m)] \in [area : SUBSET All, priority : Info .. Error]
    BY <1>6, <2>1, ElementOfSeq DEF Messages
  <2> QED BY <2>2 DEF JITArea, All, Areas
<1>9. area \in SUBSET All
  BY <1>1, <1>8
<1> QED BY <1>1, <1>6, <1>7, <1>9

-----------------------------------------------------------------------------
(* Parsing *)

LEMMA InitInv == Init => Inv
<1> SUFFICES ASSUME Init PROVE Inv
  OBVIOUS
<1>1. argv \in Seq(Argument)
  <2>1. PICK n \in 0 .. MaxArgs : argv \in [1 .. n -> Argument]
    BY DEF Init, CommandLines
  <2>2. n \in Nat
    BY BoundsAssumption
  <2> QED BY <2>1, <2>2
<1>2. parsed \in 0 .. Len(argv) /\ Asked(parsed) = {}
  BY <1>1, LenProperties DEF Init, Asked
<1>3. opts \in Options /\ opts.min_priority = None
  BY DEF Init, Options, DefaultCommandLineOptions, Info, None
<1>4. ParseInv
  BY <1>1, <1>2, <1>3 DEF ParseInv
<1>5. LogInv
  <2>1. log = <<>> /\ g_curr_logging_area = UnknownArea /\ pc = "parse"
    BY DEF Init
  <2> QED BY <2>1 DEF LogInv, UnknownArea
<1>6. StopInv
  <2>1. pc = "parse"
    BY DEF Init
  <2> QED BY <2>1 DEF StopInv, Prompting
<1> QED BY <1>4, <1>5, <1>6 DEF Inv

\* An argument changes no option but its own, and the priority only if it
\* names one.
LEMMA ParsedOption ==
    ASSUME NEW a \in Argument, NEW o \in Options
    PROVE  /\ ParseSingleCommandLineOption(a, o) \in Options
           /\ ParseSingleCommandLineOption(a, o).min_priority =
                IF a.eq /\ a.opt = "--logging_priority" /\ a.val \in DOMAIN Priorities
                THEN Priorities[a.val] ELSE o.min_priority
<1>1. a.val \in Values
  BY DEF Values
<1>2. All \cup AreaBits(a.val) = All
  BY DEF AreaBits, All
<1>3. CASE ~a.eq
  <2>1. ParseSingleCommandLineOption(a, o) = HandleOptionWithoutEquals(a, o)
    BY <1>3 DEF ParseSingleCommandLineOption
  <2>2. /\ HandleOptionWithoutEquals(a, o) \in Options
        /\ HandleOptionWithoutEquals(a, o).min_priority = o.min_priority
    <3>1. /\ Append(o.include_paths, a.val) \in Seq(Values)
          /\ Append(o.link_paths, a.val) \in Seq(Values)
          /\ Append(o.framework_paths, a.val) \in Seq(Values)
      BY <1>1 DEF Options
    <3>2. CASE a.opt = "-I"
      BY <3>1, <3>2 DEF HandleOptionWithoutEquals, Options
    <3>3. CASE a.opt = "-L"
      BY <3>1, <3>3 DEF HandleOptionWithoutEquals, Options
    <3>4. CASE a.opt = "-F"
      BY <3>1, <3>4 DEF HandleOptionWithoutEquals, Options
    <3>5. CASE a.opt \notin {"-I", "-L", "-F"}
      BY <3>5 DEF HandleOptionWithoutEquals, Options
    <3> QED BY <3>2, <3>3, <3>4, <3>5
  <2> QED BY <1>3, <2>1, <2>2
<1>4. CASE a.eq /\ a.opt = "--logging"
  <2>1. ParseSingleCommandLineOption(a, o) = SetLoggingAreaOption(a.val, o)
    BY <1>4 DEF ParseSingleCommandLineOption
  <2>2. o.log_areas \cup AreaBits(a.val) = All
    BY <1>2 DEF Options
  <2> HIDE DEF All
  <2>3. SetLoggingAreaOption(a.val, o) \in Options
        /\ SetLoggingAreaOption(a.val, o).min_priority = o.min_priority
    BY <2>2 DEF SetLoggingAreaOption, Options
  <2> QED BY <1>4, <2>1, <2>3
<1>5. CASE a.eq /\ a.opt = "--logging_priority"
  <2>1. ParseSingleCommandLineOption(a, o) = SetLoggingPriorityOption(a.val, o)
    BY <1>5 DEF ParseSingleCommandLineOption
  <2>2. ASSUME a.val \in DOMAIN Priorities
        PROVE  Priorities[a.val] \in Info .. None
    BY <2>2 DEF Priorities, Info, Warning, Error, None
  <2>3. SetLoggingPriorityOption(a.val, o) \in Options
    BY <2>2 DEF SetLoggingPriorityOption, Options
  <2>4. SetLoggingPriorityOption(a.val, o).min_priority =
           IF a.val \in DOMAIN Priorities THEN Priorities[a.val] ELSE o.min_priority
    BY DEF SetLoggingPriorityOption, Options
  <2> QED BY <1>5, <2>1, <2>3, <2>4
<1>6. CASE a.eq /\ a.opt # "--logging" /\ a.opt # "--logging_priority"
  <2>1. /\ ParseSingleCommandLineOption(a, o) \in Options
        /\ ParseSingleCommandLineOption(a, o).min_priority = o.min_priority
    BY <1>1, <1>6 DEF ParseSingleCommandLineOption, SetPlaygroundOption,
         SetModuleCachePathOption, SetPrintToConsoleOption, Options
  <2> QED BY <1>6, <2>1
<1> QED BY <1>3, <1>4, <1>5, <1>6

LEMMA ParseStep ==
    ASSUME Inv, ParseOption
    PROVE  Inv'
<1> DEFINE n == parsed + 1
           a == argv[n]
<1>1. /\ argv' = argv /\ parsed' = n /\ opts' = ParseSingleCommandLineOption(a, opts)
      /\ pc = "parse" /\ pc' = pc /\ parsed < Len(argv)
  BY DEF ParseOption
<1>2. /\ argv \in Seq(Argument) /\ Len(argv) \in Nat /\ parsed \in 0 .. Len(argv)
      /\ n \in 1 .. Len(argv) /\ a \in Argument /\ opts \in Options
  <2>1. argv \in Seq(Argument) /\ Len(argv) \in Nat /\ parsed \in 0 .. Len(argv) /\ opts \in Options
    BY LenProperties DEF Inv, ParseInv
  <2>2. n \in 1 .. Len(argv)
    BY <1>1, <2>1
  <2> HIDE DEF n
  <2> QED BY <2>1, <2>2, ElementOfSeq
<1> DEFINE sets == a.eq /\ a.opt = "--logging_priority" /\ a.val \in DOMAIN Priorities
<1>3. /\ opts' \in Options
      /\ opts'.min_priority = IF sets THEN Priorities[a.val] ELSE opts.min_priority
  BY <1>1, <1>2, ParsedOption
<1>4. Asked(n) = Asked(parsed) \cup (IF sets THEN {n} ELSE {})
  <2>1. 1 .. n = 1 .. parsed \cup {n}
    BY <1>2
  <2>2. \A k \in {n} : argv[k] = a
    OBVIOUS
  <2> HIDE DEF a, n
  <2> QED BY <2>1, <2>2 DEF Asked
<1>5. Asked(parsed)' = Asked(n)
  <2>1. argv' = argv /\ parsed' = n
    BY <1>1
  <2> HIDE DEF n
  <2> QED BY <2>1, Zenon DEF Asked
<1>6. opts'.min_priority =
         IF Asked(n) = {} THEN None ELSE Priorities[argv[LastOf(Asked(n))].val]
  <2>1. CASE sets
    <3>1. n \in Asked(n) /\ \A j \in Asked(n) : j \in Int /\ j <= n
      <4>1. \A j \in 1 .. n : j \in Int /\ j <= n
        BY <1>2
      <4> QED BY <1>4, <2>1, <4>1 DEF Asked
    <3>2. LastOf(Asked(n)) = n
      <4> DEFINE S == Asked(n)
                 c == CHOOSE k \in S : \A j \in S : j <= k
      <4>1. n \in S /\ \A j \in S : j \in Int /\ j <= n
        BY <3>1
      <4> HIDE DEF S
      <4>2. c \in S /\ \A j \in S : j <= c
        BY <4>1
      <4>3. c = n
        <5> HIDE DEF c
        <5> QED BY <4>1, <4>2
      <4> QED BY <4>3 DEF S, LastOf
    <3> QED BY <1>3, <2>1, <3>1, <3>2
  <2>2. CASE ~sets
    <3>1. Asked(n) = Asked(parsed)
      BY <1>4, <2>2
    <3>2. opts'.min_priority = opts.min_priority
      BY <1>3, <2>2
    <3> QED BY <3>1, <3>2 DEF Inv, ParseInv
  <2> QED BY <2>1, <2>2
<1>7. ParseInv'
  <2>1. argv' \in Seq(Argument) /\ parsed' \in 0 .. Len(argv')
    BY <1>1, <1>2
  <2> HIDE DEF a, n
  <2>2. LastOf(Asked(parsed))' = LastOf(Asked(n))
    BY <1>5 DEF LastOf
  <2>3. opts'.min_priority =
           IF Asked(parsed)' = {} THEN None
           ELSE Priorities[argv'[LastOf(Asked(parsed))'].val]
    BY <1>1, <1>5, <1>6, <2>2
  <2> QED BY <1>3, <2>1, <2>3 DEF ParseInv
<1>8. LogInv'
  <2>1. log' = <<>> /\ g_curr_logging_area' = g_curr_logging_area
    BY DEF ParseOption, NothingLogged, logging
  <2> QED BY <1>1, <2>1 DEF Inv, LogInv
<1>9. StopInv'
  BY <1>1 DEF StopInv, Prompting
<1> QED BY <1>7, <1>8, <1>9 DEF Inv

-----------------------------------------------------------------------------
(* After parsing *)

LEMMA ParsedStays ==
    ASSUME ParseInv, UNCHANGED <<argv, parsed>>, opts' \in Options,
           opts'.min_priority = opts.min_priority
    PROVE  ParseInv'
<1>1. argv' = argv /\ parsed' = parsed
  OBVIOUS
<1>2. Asked(parsed)' = Asked(parsed)
  BY <1>1, Zenon DEF Asked
<1>3. LastOf(Asked(parsed))' = LastOf(Asked(parsed))
  BY <1>2, Zenon DEF LastOf
<1> QED BY <1>1, <1>2, <1>3 DEF ParseInv

\* A step that logs messages, the last an error if the program stops there, in
\* an area unless the window is missing.
LEMMA LoggingStep ==
    ASSUME Inv, NEW m \in Messages, NEW area \in SUBSET All,
           LogAll(m, area, LoggingOptions(opts)), parsed = Len(argv),
           UNCHANGED <<argv, parsed>>, opts' \in Options,
           LoggingOptions(opts') = LoggingOptions(opts),
           pc' # "parse", pc' \in Prompting => program' = "swift-repl",
           pc' \in {"ended", "crashed"} =>
              /\ m # <<>> /\ m[Len(m)].priority = Error
              /\ m[Len(m)].area # UnknownArea <=> ~Windowless'
    PROVE  Inv'
<1>1. ParseInv'
  <2>1. opts'.min_priority = opts.min_priority
    BY DEF LoggingOptions
  <2> QED BY <2>1, ParsedStays DEF Inv
<1>2. LogInv'
  BY <1>1, LogStep
<1>3. StopInv'
  <2>1. ASSUME pc' \in {"ended", "crashed"}
        PROVE  /\ log' # <<>> /\ Len(log') \in DOMAIN log'
               /\ log'[Len(log')].priority = Error
               /\ log'[Len(log')].area # UnknownArea <=> ~Windowless'
    <3>1. /\ m # <<>> /\ m[Len(m)].priority = Error
          /\ m[Len(m)].area # UnknownArea <=> ~Windowless'
      BY <2>1
    <3>2. Len(m) \in Nat \ {0} /\ Len(m) \in 1 .. Len(m)
      <4>1. Len(m) \in Nat /\ Len(m) # 0
        BY <3>1, LenProperties, EmptySeq DEF Messages
      <4> QED BY <4>1
    <3>3. DOMAIN log' = 1 .. Len(m) /\ Len(log') = Len(m)
          /\ log'[Len(m)].priority = m[Len(m)].priority
          /\ log'[Len(m)].area = m[Len(m)].area
      BY <3>2, LogAllFacts
    <3> QED BY <3>1, <3>2, <3>3
  <2> QED BY <2>1 DEF StopInv
<1> QED BY <1>1, <1>2, <1>3 DEF Inv

\* A step that logs nothing and stops the program at an exit line only.
LEMMA SilentStep ==
    ASSUME Inv, NothingLogged, UNCHANGED <<argv, parsed, opts>>,
           pc # "parse", pc' # "parse", pc' \in Prompting => program' = "swift-repl",
           pc' \in {"ended", "crashed"} => line' = "exit"
    PROVE  Inv'
<1>1. ParseInv'
  <2>1. opts' \in Options
    BY DEF Inv, ParseInv
  <2> QED BY <2>1, ParsedStays DEF Inv
<1>2. LogInv'
  BY QuietStep DEF Inv
<1>3. StopInv'
  BY DEF StopInv
<1> QED BY <1>1, <1>2, <1>3 DEF Inv

\* What is known once the arguments are parsed.
LEMMA Running ==
    ASSUME Inv, pc # "parse"
    PROVE  /\ parsed = Len(argv) /\ g_log_opts = LoggingOptions(opts) /\ opts \in Options
           /\ g_curr_logging_area \in SUBSET All
BY DEF Inv, ParseInv, LogInv

LEMMA AreasAndPriorities ==
    /\ JITArea \in SUBSET All /\ {"ast"} \in SUBSET All /\ All \in SUBSET All
    /\ Info \in Info .. Error /\ Error \in Info .. Error
BY DEF JITArea, All, Areas, Info, Error

-----------------------------------------------------------------------------
(* The steps *)

LEMMA SetUpStep ==
    ASSUME Inv, NEW importer \in ImporterMessages, NEW mode, NEW o, o = LoggingOptions(opts),
           SetUpREPL(mode, importer, o), UNCHANGED <<argv, parsed, opts>>,
           parsed = Len(argv), pc' \notin {"parse", "ended", "crashed"},
           pc' \in Prompting => program' = "swift-repl"
    PROVE  Inv'
<1>1. opts \in Options
  BY DEF Inv, ParseInv
<1>2. importer \o PathMessages \in Messages
  BY <1>1, LoggedMessages, TwoMessages
<1>3. LogAll(importer \o PathMessages, JITArea, LoggingOptions(opts))
  BY DEF SetUpREPL
<1>4. JITArea \in SUBSET All
  BY AreasAndPriorities
<1> QED BY <1>1, <1>2, <1>3, <1>4, LoggingStep

LEMMA FailingSetUpStep ==
    ASSUME Inv, NEW importer \in ImporterMessages, NEW o, o = LoggingOptions(opts),
           LogAll(importer \o CreationFailed, All, o),
           UNCHANGED <<argv, parsed, opts>>, parsed = Len(argv),
           pc' \in {"ended", "crashed"}, ~Windowless'
    PROVE  Inv'
<1>1. opts \in Options
  BY DEF Inv, ParseInv
<1>2. importer \in Messages /\ CreationFailed \in Messages /\ Tells(CreationFailed)
  BY <1>1, LoggedMessages
<1> DEFINE m == importer \o CreationFailed
<1>3. m \in Messages /\ Tells(m)
  BY <1>2, EndsInError
<1>4. LogAll(m, All, LoggingOptions(opts))
  OBVIOUS
<1> HIDE DEF m
<1>5. All \in SUBSET All
  BY AreasAndPriorities
<1>6. pc' # "parse" /\ pc' \notin Prompting
  BY DEF Prompting
<1> QED BY <1>1, <1>3, <1>4, <1>5, <1>6, LoggingStep DEF Tells

LEMMA LinkingStep ==
    ASSUME Inv, NEW libs \in LinkedLibraries, NEW rest \in Messages,
           LinkLibraries(libs, rest), UNCHANGED <<argv, parsed, opts>>,
           pc # "parse", pc' # "parse", pc' \in Prompting => program' = "swift-repl",
           pc' \in {"ended", "crashed"} => Tells(rest) /\ ~Windowless'
    PROVE  Inv'
<1>1. PICK m \in Messages, area \in SUBSET All :
         /\ LogAll(m, area, g_log_opts)
         /\ Tells(rest) => Tells(m)
  BY Linking
<1>2. pc' \in {"ended", "crashed"} =>
         /\ m # <<>> /\ m[Len(m)].priority = Error
         /\ m[Len(m)].area # UnknownArea <=> ~Windowless'
  BY <1>1 DEF Tells
<1>3. /\ parsed = Len(argv) /\ g_log_opts = LoggingOptions(opts) /\ opts \in Options
  BY Running
<1> QED BY <1>1, <1>2, <1>3, LoggingStep

\* The two ways the front end may take a line.
LEMMA RejectStep ==
    ASSUME Inv, Reject, UNCHANGED <<argv, parsed, opts>>,
           pc # "parse", pc' \notin {"parse", "ended", "crashed"},
           pc' \in Prompting => program' = "swift-repl"
    PROVE  Inv'
<1>1. CASE NothingLogged
  BY <1>1, SilentStep
<1>2. CASE LogAll(<<Message({"ast"}, Info)>>, {"ast"}, g_log_opts)
  <2>1. /\ parsed = Len(argv) /\ g_log_opts = LoggingOptions(opts) /\ opts \in Options
    BY Running
  <2>2. <<Message({"ast"}, Info)>> \in Messages /\ {"ast"} \in SUBSET All
    BY FirstMessage, AreasAndPriorities
  <2> DEFINE m == <<Message({"ast"}, Info)>>
  <2>3. LogAll(m, {"ast"}, LoggingOptions(opts))
    BY <1>2, <2>1
  <2> HIDE DEF m
  <2>4. m \in Messages
    BY <2>2 DEF m
  <2> QED BY <2>1, <2>2, <2>3, <2>4, LoggingStep
<1> QED BY <1>1, <1>2 DEF Reject

LEMMA AcceptStep ==
    ASSUME Inv, Accept, UNCHANGED <<argv, parsed, opts>>,
           pc # "parse", pc' \notin {"parse", "ended", "crashed"},
           pc' \in Prompting => program' = "swift-repl"
    PROVE  Inv'
<1>1. opts \in Options
  BY DEF Inv, ParseInv
<1>2. PICK libs \in LinkedLibraries, rest \in Compiled : LinkLibraries(libs, rest)
  BY DEF Accept
<1>3. rest \in Messages
  BY <1>1, LoggedMessages
<1> QED BY <1>2, <1>3, LinkingStep

\* main: one case per action.
LEMMA MainStep ==
    ASSUME Inv, Main
    PROVE  Inv'
<1>0. pc \in Prompting => program = "swift-repl"
  BY DEF Inv, StopInv
<1> USE DEF Prompting
<1>1. CASE ParseOption
  BY <1>1, ParseStep
<1>2. CASE SetupREPLWithOptions
  <2>1. /\ parsed = Len(argv) /\ pc' = "prompt" /\ program = "swift-repl" /\ UNCHANGED <<program, argv, parsed, opts>>
        /\ \E importer \in ImporterMessages :
              SetUpREPL(opts.is_playground, importer, LoggingOptions(opts))
    BY <1>2 DEF SetupREPLWithOptions, ArgumentsParsed, startup
  <2> QED BY <2>1, SetUpStep
<1>3. CASE SetupFails
  <2>1. /\ parsed = Len(argv) /\ pc' = "ended" /\ program = "swift-repl" /\ UNCHANGED <<program, argv, parsed, opts>>
        /\ \E importer \in ImporterMessages :
              LogAll(importer \o CreationFailed, All, LoggingOptions(opts))
    BY <1>3 DEF SetupFails, ArgumentsParsed, startup
  <2> QED BY <2>1, FailingSetUpStep DEF Windowless
<1>4. CASE Prompt
  <2>1. pc = "prompt" /\ pc' = "getline" /\ NothingLogged /\ UNCHANGED <<program, argv, parsed, opts>>
    BY <1>4 DEF Prompt, startup
  <2> QED BY <1>0, <2>1, SilentStep
<1>5. CASE GetLine
  <2>1. /\ pc = "getline" /\ pc' \in {"prompt", "execute"}
        /\ NothingLogged /\ UNCHANGED <<program, argv, parsed, opts>>
    BY <1>5 DEF GetLine, startup
  <2> QED BY <1>0, <2>1, SilentStep
<1>6. CASE ExitLine
  <2>1. /\ pc = "execute" /\ pc' = "ended" /\ line' = "exit"
        /\ NothingLogged /\ UNCHANGED <<program, argv, parsed, opts>>
    BY <1>6 DEF ExitLine, Executing, Executed, startup, console
  <2> QED BY <1>0, <2>1, SilentStep
<1>7. CASE RejectLine
  <2>1. pc = "execute" /\ pc' = "prompt" /\ Reject /\ UNCHANGED <<program, argv, parsed, opts>>
    BY <1>7 DEF RejectLine, Executing, Executed, startup
  <2> QED BY <1>0, <2>1, RejectStep
<1>8. CASE AcceptLine
  <2>1. pc = "execute" /\ pc' = "prompt" /\ Accept /\ UNCHANGED <<program, argv, parsed, opts>>
    BY <1>8 DEF AcceptLine, Executing, Executed, startup
  <2> QED BY <1>0, <2>1, AcceptStep
<1>9. CASE LineFunctionMissing
  <2>1. /\ pc = "execute" /\ pc' = "ended" /\ UNCHANGED <<program, argv, parsed, opts>>
        /\ \E libs \in LinkedLibraries : LinkLibraries(libs, Linked \o JITError)
    BY <1>9 DEF LineFunctionMissing, Executing, Executed, startup
  <2>2. Linked \in Messages /\ JITError \in Messages /\ Tells(JITError)
    BY LoggedMessages DEF Inv, ParseInv
  <2> DEFINE rest == Linked \o JITError
  <2>3. rest \in Messages /\ Tells(rest)
    BY <2>2, EndsInError
  <2>4. PICK libs \in LinkedLibraries : LinkLibraries(libs, rest)
    BY <2>1
  <2> HIDE DEF rest
  <2>5. ~Windowless'
    BY <1>0, <2>1 DEF Windowless
  <2> QED BY <2>1, <2>3, <2>4, <2>5, LinkingStep
<1>10. CASE UserCodeNeverReturns
  <2>1. /\ pc = "execute" /\ pc' = "running" /\ UNCHANGED <<program, argv, parsed, opts>>
        /\ \E libs \in LinkedLibraries : LinkLibraries(libs, Linked)
    BY <1>10 DEF UserCodeNeverReturns, Executing, Executed, startup
  <2>2. Linked \in Messages
    BY LoggedMessages DEF Inv, ParseInv
  <2> QED BY <1>0, <2>1, <2>2, LinkingStep
<1> QED BY <1>1, <1>2, <1>3, <1>4, <1>5, <1>6, <1>7, <1>8, <1>9, <1>10 DEF Main, ExecuteSwift

LEMMA WindowStep ==
    ASSUME Inv, Window
    PROVE  Inv'
<1> USE DEF Prompting
<1>1. ASSUME ArgumentsParsed, opts' = [opts EXCEPT !.is_playground = TRUE],
             UNCHANGED <<argv, parsed>>
      PROVE  /\ parsed = Len(argv) /\ opts \in Options /\ opts' \in Options
             /\ LoggingOptions(opts') = LoggingOptions(opts)
             /\ g_curr_logging_area \in SUBSET All
  <2>1. parsed = Len(argv) /\ opts \in Options /\ g_curr_logging_area \in SUBSET All
    BY <1>1 DEF ArgumentsParsed, Inv, ParseInv, LogInv
  <2> QED BY <1>1, <2>1 DEF Options, LoggingOptions
<1>2. <<>> \in Messages
  BY DEF Messages
<1>3. CASE OpenWindow
  <2>1. /\ ArgumentsParsed /\ opts' = [opts EXCEPT !.is_playground = TRUE]
        /\ UNCHANGED <<argv, parsed>> /\ pc' = "redirect"
        /\ LogAll(<<>>, g_curr_logging_area, LoggingOptions(opts))
    BY <1>3 DEF OpenWindow
  <2>2. pc' \notin {"parse", "ended", "crashed"}
    BY <2>1
  <2> DEFINE none == <<>>
  <2>3. none \in Messages /\ LogAll(none, g_curr_logging_area, LoggingOptions(opts))
    BY <1>2, <2>1
  <2> HIDE DEF none
  <2> QED BY <1>1, <2>1, <2>2, <2>3, LoggingStep
<1>4. CASE OpenWindowFails
  <2> DEFINE m == <<Message(g_curr_logging_area, Error)>>
  <2>1. /\ ArgumentsParsed /\ opts' = [opts EXCEPT !.is_playground = TRUE]
        /\ UNCHANGED <<argv, parsed>> /\ pc' = "ended"
        /\ LogAll(m, g_curr_logging_area, LoggingOptions(opts))
    BY <1>4 DEF OpenWindowFails
  <2>2. g_curr_logging_area = UnknownArea /\ Windowless'
    <3>1. pc = "parse" /\ program = "swift-playground" /\ program' = program
      BY <1>4 DEF OpenWindowFails, ArgumentsParsed
    <3> QED BY <2>1, <3>1 DEF Inv, LogInv, Windowless
  <2>3. m \in Messages
    BY <1>1, <2>1, OneMessage, AreasAndPriorities
  <2>4. m # <<>> /\ m[Len(m)].priority = Error /\ m[Len(m)].area = UnknownArea
    BY <2>2 DEF Message
  <2> HIDE DEF m
  <2> QED BY <1>1, <2>1, <2>3, <2>4, <2>2, LoggingStep
<1>5. CASE RedirectStdout
  <2>1. PICK errors \in 0 .. 2 :
           LogAll([k \in 1 .. errors |-> Message(g_curr_logging_area, Error)],
                  g_curr_logging_area, g_log_opts)
    BY <1>5 DEF RedirectStdout
  <2>2. pc = "redirect" /\ pc' = "window" /\ UNCHANGED <<argv, parsed, opts>>
    BY <1>5 DEF RedirectStdout, startup
  <2>3. /\ parsed = Len(argv) /\ g_log_opts = LoggingOptions(opts) /\ opts \in Options
        /\ g_curr_logging_area \in SUBSET All
    BY <2>2, Running
  <2> DEFINE m == [k \in 1 .. errors |-> Message(g_curr_logging_area, Error)]
  <2>4. m \in Messages
    <3>1. Message(g_curr_logging_area, Error) \in [area : SUBSET All, priority : Info .. Error]
      BY <2>3, AreasAndPriorities DEF Message
    <3>2. errors \in Nat /\ m \in [1 .. errors -> [area : SUBSET All, priority : Info .. Error]]
      BY <3>1
    <3> HIDE DEF m
    <3> QED BY <3>2, FunctionIsSeq DEF Messages
  <2>5. LogAll(m, g_curr_logging_area, LoggingOptions(opts))
    BY <2>1, <2>3
  <2> HIDE DEF m
  <2> QED BY <2>2, <2>3, <2>4, <2>5, LoggingStep
<1>6. CASE RecompileEverything
  <2>1. /\ pc = "window" /\ pc' = "handler" /\ UNCHANGED <<argv, parsed, opts>>
        /\ \E importer \in ImporterMessages : SetUpREPL(opts.is_playground, importer, g_log_opts)
    BY <1>6 DEF RecompileEverything, Click, startup
  <2>2. parsed = Len(argv) /\ g_log_opts = LoggingOptions(opts)
    BY <2>1, Running
  <2> QED BY <2>1, <2>2, SetUpStep
<1>7. CASE RecompileFails
  <2>1. /\ pc = "window" /\ pc' = "crashed" /\ UNCHANGED <<argv, parsed, opts>>
        /\ \E importer \in ImporterMessages :
              LogAll(importer \o CreationFailed, All, g_log_opts)
    BY <1>7 DEF RecompileFails, Click, startup
  <2>2. parsed = Len(argv) /\ g_log_opts = LoggingOptions(opts)
    BY <2>1, Running
  <2> QED BY <2>1, <2>2, FailingSetUpStep DEF Windowless
<1>8. CASE ContinueExecution
  <2>1. /\ pc = "window" /\ pc' = "handler" /\ NothingLogged /\ UNCHANGED <<argv, parsed, opts>>
    BY <1>8 DEF ContinueExecution, Click, startup
  <2> QED BY <2>1, SilentStep
<1>9. CASE HandlerExecutes
  <2>1. /\ pc = "handler" /\ pc' = "window" /\ UNCHANGED <<argv, parsed, opts>>
        /\ Reject \/ Accept
    BY <1>9 DEF HandlerExecutes, startup
  <2> QED BY <2>1, RejectStep, AcceptStep
<1>10. CASE CloseWindow
  <2>1. pc = "window" /\ pc' = "closed" /\ NothingLogged /\ UNCHANGED <<argv, parsed, opts>>
    BY <1>10 DEF CloseWindow, startup
  <2> QED BY <2>1, SilentStep
<1> QED BY <1>3, <1>4, <1>5, <1>6, <1>7, <1>8, <1>9, <1>10 DEF Window

LEMMA StutterStep ==
    ASSUME Inv, UNCHANGED vars
    PROVE  Inv'
<1>1. UNCHANGED <<program, argv, parsed, opts, g_log_opts, g_curr_logging_area, log, pc, line>>
  BY DEF vars, startup, logging, console
<1>2. ParseInv'
  <2>1. opts' \in Options
    BY <1>1 DEF Inv, ParseInv
  <2> QED BY <1>1, <2>1, ParsedStays DEF Inv
<1>3. LogInv'
  BY <1>1 DEF Inv, LogInv, ShouldLog, LoggingOptions
<1>4. StopInv'
  BY <1>1 DEF Inv, StopInv, Windowless
<1> QED BY <1>2, <1>3, <1>4 DEF Inv

LEMMA Invariant == Spec => []Inv
<1>1. Inv /\ [Next]_vars => Inv'
  BY MainStep, WindowStep, StutterStep DEF Next
<1> QED BY <1>1, InitInv, PTL DEF Spec

-----------------------------------------------------------------------------

\* What the options and the rule for what is shown come to.
LEMMA Shown ==
    ASSUME Inv, NEW k \in DOMAIN log
    PROVE  LET asked == Given("--logging_priority", DOMAIN Priorities)
           IN  log[k].shown <=>
                  /\ asked # {}
                  /\ Priorities[argv[LastOf(asked)].val] <= log[k].priority
                  /\ log[k].area # UnknownArea
<1> DEFINE asked == Given("--logging_priority", DOMAIN Priorities)
<1>1. pc # "parse"
  BY DEF Inv, LogInv
<1>2. /\ parsed = Len(argv) /\ g_log_opts = LoggingOptions(opts) /\ opts \in Options
  BY <1>1, Running
<1>3. Asked(parsed) = asked
  <2>1. DOMAIN argv = 1 .. parsed
    BY <1>2, LenProperties DEF Inv, ParseInv
  <2> QED BY <2>1 DEF Asked, Given
<1>4. opts.min_priority = IF asked = {} THEN None ELSE Priorities[argv[LastOf(asked)].val]
  BY <1>3 DEF Inv, ParseInv
<1>5. /\ log[k].area \subseteq All /\ log[k].priority \in Info .. Error
      /\ log[k].shown <=> ShouldLog(g_log_opts, log[k].area, log[k].priority)
  BY DEF Inv, LogInv
<1>6. g_log_opts.log_areas = All /\ g_log_opts.min_priority = opts.min_priority
  BY <1>2 DEF LoggingOptions, Options
<1>7. All \cap log[k].area # {} <=> log[k].area # UnknownArea
  BY <1>5 DEF UnknownArea
<1>8. log[k].priority < None /\ ~(None <= log[k].priority)
  BY <1>5 DEF Info, Error, None
<1> HIDE DEF asked
<1>9. log[k].shown <=> opts.min_priority <= log[k].priority /\ log[k].area # UnknownArea
  BY <1>5, <1>6, <1>7, <1>8 DEF ShouldLog
<1>10. log[k].shown <=>
          /\ asked # {}
          /\ Priorities[argv[LastOf(asked)].val] <= log[k].priority
          /\ log[k].area # UnknownArea
  BY <1>4, <1>8, <1>9
<1> QED BY <1>10 DEF asked

\* A message is shown exactly if the last recognised --logging_priority of the
\* command line asks for it; areas never hide one that has an area.
THEOREM ShownExactly == Spec => []ShownAsAsked
<1>1. Inv => ShownAsAsked
  BY Shown DEF ShownAsAsked
<1> QED BY <1>1, Invariant, PTL

\* A program that stops, other than at an exit line or because its window is
\* closed, has logged an error last, and has shown it if the command line asked
\* for errors at all, except where the window could not be opened.
THEOREM StopsExplained == Spec => []StopsAreExplained
<1>1. Inv => StopsAreExplained
  <2> SUFFICES ASSUME Inv PROVE StopsAreExplained
    OBVIOUS
  <2> DEFINE asked == Given("--logging_priority", DOMAIN Priorities)
             last == Len(log)
  <2> SUFFICES ASSUME pc \in {"ended", "crashed"}, line # "exit"
               PROVE  /\ log # <<>> /\ log[last].priority = Error
                      /\ log[last].shown <=>
                            /\ asked # {} /\ Priorities[argv[LastOf(asked)].val] <= Error
                            /\ ~Windowless
    BY DEF StopsAreExplained, Windowless
  <2>1. /\ log # <<>> /\ last \in DOMAIN log /\ log[last].priority = Error
        /\ log[last].area # UnknownArea <=> ~Windowless
    BY DEF Inv, StopInv
  <2> HIDE DEF last
  <2>2. log[last].shown <=>
           /\ asked # {}
           /\ Priorities[argv[LastOf(asked)].val] <= log[last].priority
           /\ log[last].area # UnknownArea
    BY <2>1, Shown
  <2> QED BY <2>1, <2>2
<1> QED BY <1>1, Invariant, PTL

=============================================================================
