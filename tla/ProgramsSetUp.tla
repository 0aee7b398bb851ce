---------------------------- MODULE ProgramsSetUp ----------------------------
(***************************************************************************)
(* How REPLs are set up and where libraries come from, for every command   *)
(* line, any directories and any number of recompilations.                 *)
(***************************************************************************)
EXTENDS ProgramsProofs, FiniteSetTheorems, WellFoundedInduction

\* The arguments among the first n that give a path for a flag, and those that
\* choose the mode.
PathsTo(flag, n) == {k \in 1 .. n : ~argv[k].eq /\ argv[k].opt = flag}
ModesTo(n) == {k \in 1 .. n : argv[k].eq /\ argv[k].opt = "--playground"}

Directories == DOMAIN Present

\* p is the first directory of the list s with a file for library l; there is
\* none.
FirstIn(p, l, s) ==
    \E k \in 1 .. Len(s) :
        /\ s[k] = p /\ l \in Present[p]
        /\ \A j \in 1 .. Len(s) : j < k => l \notin Present[s[j]]
NoneIn(l, s) == \A k \in 1 .. Len(s) : l \notin Present[s[k]]

\* The same of the directories that the arguments among the first n stand for.
DirectoryGiven(k) == DirectoryOf(argv[k].val)
FirstGiven(p, l, n) ==
    \E k \in PathsTo("-L", n) :
        /\ DirectoryGiven(k) = p /\ l \in Present[p]
        /\ \A j \in PathsTo("-L", n) : j < k => l \notin Present[DirectoryGiven(j)]
NoneGiven(l, n) == \A k \in PathsTo("-L", n) : l \notin Present[DirectoryGiven(k)]

\* The options are those of the arguments parsed so far.
PathsInv ==
    /\ AsGiven(opts.include_paths, PathsTo("-I", parsed))
    /\ AsGiven(opts.framework_paths, PathsTo("-F", parsed))
LinksInv ==
    \A l \in Library :
        /\ \A p \in Directories :
              FirstIn(p, l, DirectoriesOf(opts.link_paths)) => FirstGiven(p, l, parsed)
        /\ NoneIn(l, DirectoriesOf(opts.link_paths)) => NoneGiven(l, parsed)
ModeInv ==
    opts.is_playground =
       \/ pc # "parse" /\ program = "swift-playground"
       \/ ModesTo(parsed) # {} /\ argv[LastOf(ModesTo(parsed))].val = "true"

\* There is a REPL where one is used, and it is set up from the options.
States ==
    {"parse", "redirect", "prompt", "getline", "execute", "running", "ended",
     "window", "handler", "closed", "crashed"}
SetUpInv ==
    /\ argv \in CommandLines
    /\ pc \in States
    /\ pc \in {"prompt", "getline", "execute", "running", "handler"} => repl # NoREPL
    /\ pc = "parse" => repl = NoREPL
    /\ repl # NoREPL =>
          /\ repl.modules = <<BuiltinPath>> \o opts.include_paths
          /\ repl.frameworks = opts.framework_paths
          /\ repl.is_playground = opts.is_playground

\* Where a library can have come from: the system, if that knows it, and else
\* the first of these directories that has its file, which is not a broken one.
Origin(p, l, s) ==
    IF l \in OnSystem THEN p = System
    ELSE p \in Directories /\ FirstIn(p, l, s) /\ <<p, l>> \notin Broken

\* However often the list of directories is filled, its first answer is that
\* of the options, and what is loaded came from there.
LibraryInv ==
    /\ g_additional_paths \in Seq(Directories)
    /\ pc = "parse" => g_additional_paths = <<>> /\ DOMAIN loaded = {}
    /\ \A l \in Library, p \in Directories :
          FirstIn(p, l, g_additional_paths) => FirstIn(p, l, DirectoriesOf(opts.link_paths))
    /\ \A l \in DOMAIN loaded :
          l \in Library /\ Origin(loaded[l], l, DirectoriesOf(opts.link_paths))

ConfigInv == PathsInv /\ LinksInv /\ ModeInv /\ SetUpInv /\ LibraryInv

-----------------------------------------------------------------------------
(* Lists of paths *)

\* Each path stands for a directory.
LEMMA DirectoriesType ==
    ASSUME NEW s \in Seq(Values)
    PROVE  DirectoriesOf(s) \in Seq(Directories)
<1>1. DOMAIN s = 1 .. Len(s) /\ Len(s) \in Nat
  BY LenProperties
<1>2. DirectoriesOf(s) \in [1 .. Len(s) -> Directories]
  BY <1>1, FilesAssumption DEF DirectoriesOf, DirectoryOf, Directories
<1> QED BY <1>1, <1>2, FunctionIsSeq

\* One path more stands for one directory more, at the end.
LEMMA DirectoriesAppend ==
    ASSUME NEW s \in Seq(Values), NEW v \in Values
    PROVE  /\ DirectoryOf(v) \in Directories
           /\ DirectoriesOf(Append(s, v)) = Append(DirectoriesOf(s), DirectoryOf(v))
<1>1. \A w : DirectoryOf(w) \in Directories
  BY FilesAssumption DEF DirectoryOf, Directories
<1>2. /\ DOMAIN s = 1 .. Len(s) /\ Len(s) \in Nat
      /\ Append(s, v) \in Seq(Values) /\ Len(Append(s, v)) = Len(s) + 1
      /\ DOMAIN Append(s, v) = 1 .. Len(s) + 1
      /\ \A i \in 1 .. Len(s) : Append(s, v)[i] = s[i]
      /\ Append(s, v)[Len(s) + 1] = v
  BY AppendProperties, LenProperties
<1> DEFINE d == DirectoriesOf(s)
           e == DirectoriesOf(Append(s, v))
<1>3. d \in [1 .. Len(s) -> Directories] /\ e \in [1 .. Len(s) + 1 -> Directories]
  BY <1>1, <1>2 DEF DirectoriesOf
<1>4. d \in Seq(Directories) /\ e \in Seq(Directories)
  BY <1>2, DirectoriesType
<1>5. /\ \A i \in 1 .. Len(s) : e[i] = d[i]
      /\ e[Len(s) + 1] = DirectoryOf(v)
  <2>1. \A i \in 1 .. Len(s) : i \in 1 .. Len(s) + 1
    BY <1>2
  <2>2. Len(s) + 1 \in 1 .. Len(s) + 1
    BY <1>2
  <2> QED BY <1>2, <2>1, <2>2 DEF DirectoriesOf
<1> HIDE DEF d, e
<1>6. Len(d) = Len(s) /\ Len(e) = Len(s) + 1
  BY <1>2, <1>3, <1>4, LenProperties
<1>7. e = Append(d, DirectoryOf(v))
  <2>1. /\ Append(d, DirectoryOf(v)) \in Seq(Directories)
        /\ Len(Append(d, DirectoryOf(v))) = Len(s) + 1
        /\ \A i \in 1 .. Len(s) : Append(d, DirectoryOf(v))[i] = d[i]
        /\ Append(d, DirectoryOf(v))[Len(s) + 1] = DirectoryOf(v)
    BY <1>1, <1>4, <1>6, AppendProperties
  <2>2. \A i \in 1 .. Len(s) + 1 : i \in 1 .. Len(s) \/ i = Len(s) + 1
    BY <1>2
  <2>3. \A i \in 1 .. Len(e) : e[i] = Append(d, DirectoryOf(v))[i]
    BY <1>5, <1>6, <2>1, <2>2
  <2> QED BY <1>4, <1>6, <2>1, <2>3, SeqEqual
<1> QED BY <1>1, <1>7 DEF d, e

LEMMA LeastElement ==
    ASSUME NEW S \in SUBSET Nat, S # {}
    PROVE  \E x \in S : \A y \in S : x <= y
<1>1. PICK x \in S : \A y \in S : ~ (<<y, x>> \in OpToRel(<, Nat))
  BY WFMin, NatLessThanWellFounded
<1>2. \A y \in S : <<y, x>> \in OpToRel(<, Nat) <=> y < x
  BY DEF OpToRel
<1>3. \A y \in S : x \in Nat /\ y \in Nat
  OBVIOUS
<1>4. \A y \in S : ~(y < x)
  BY <1>1, <1>2
<1> QED BY <1>3, <1>4

\* One more argument with a path, and the path, go on at the end.
LEMMA GivenAppend ==
    ASSUME NEW n \in Nat, NEW args \in SUBSET (1 .. n), NEW s \in Seq(Values),
           argv[n + 1].val \in Values, AsGiven(s, args)
    PROVE  AsGiven(Append(s, argv[n + 1].val), args \cup {n + 1})
<1> DEFINE v == argv[n + 1].val
           more == args \cup {n + 1}
           UpTo(A, k) == {j \in A : j <= k}
<1>1. IsFiniteSet(args) /\ Cardinality(args) \in Nat
  <2>1. IsFiniteSet(1 .. n)
    BY FS_Interval
  <2> QED BY <2>1, FS_Subset, FS_CardinalityType
<1>2. n + 1 \notin args /\ Cardinality(more) = Cardinality(args) + 1
  <2>1. n + 1 \notin args
    OBVIOUS
  <2> QED BY <1>1, <2>1, FS_AddElement
<1>3. Len(s) = Cardinality(args) /\ \A k \in args : s[Cardinality(UpTo(args, k))] = argv[k].val
  BY DEF AsGiven
<1>4. v \in Values
  OBVIOUS
<1> HIDE DEF v
<1>5. /\ Len(Append(s, v)) = Len(s) + 1 /\ Append(s, v)[Len(s) + 1] = v
      /\ \A i \in 1 .. Len(s) : Append(s, v)[i] = s[i]
  BY <1>4, AppendProperties
<1>6. ASSUME NEW k \in args
      PROVE  Append(s, v)[Cardinality(UpTo(more, k))] = argv[k].val
  <2>1. UpTo(more, k) = UpTo(args, k)
    OBVIOUS
  <2>2. k \in UpTo(args, k) /\ UpTo(args, k) \in SUBSET args
    OBVIOUS
  <2> HIDE DEF UpTo
  <2>3. /\ Cardinality(UpTo(args, k)) <= Cardinality(args)
        /\ IsFiniteSet(UpTo(args, k)) /\ Cardinality(UpTo(args, k)) \in Nat
    BY <1>1, <2>2, FS_Subset, FS_CardinalityType
  <2>4. Cardinality(UpTo(args, k)) # 0
    BY <2>2, <2>3, FS_EmptySet
  <2>5. Cardinality(UpTo(args, k)) \in 1 .. Len(s)
    BY <1>1, <1>3, <2>3, <2>4
  <2> QED BY <1>3, <1>5, <2>1, <2>5
<1>7. Append(s, v)[Cardinality(UpTo(more, n + 1))] = v
  <2>1. UpTo(more, n + 1) = more
    <3>1. \A j \in more : j <= n + 1
      OBVIOUS
    <3> QED BY <3>1
  <2> HIDE DEF UpTo, more
  <2> QED BY <1>2, <1>3, <1>5, <2>1
<1>8. \A k \in more : Append(s, v)[Cardinality(UpTo(more, k))] = argv[k].val
  BY <1>6, <1>7 DEF v
<1>9. Len(Append(s, v)) = Cardinality(more)
  BY <1>2, <1>3, <1>5
<1> HIDE DEF more
<1> QED BY <1>8, <1>9 DEF AsGiven, v, more

\* What one more directory at the end does to the first with a file for a library.
LEMMA FirstInAppend ==
    ASSUME NEW s \in Seq(Directories), NEW v \in Directories, NEW p, NEW l
    PROVE  /\ FirstIn(p, l, Append(s, v)) =>
                FirstIn(p, l, s) \/ (NoneIn(l, s) /\ p = v /\ l \in Present[v])
           /\ NoneIn(l, Append(s, v)) => NoneIn(l, s) /\ l \notin Present[v]
<1> DEFINE t == Append(s, v)
<1>1. /\ Len(s) \in Nat /\ Len(t) = Len(s) + 1 /\ t[Len(s) + 1] = v
      /\ \A i \in 1 .. Len(s) : t[i] = s[i]
  BY AppendProperties, LenProperties
<1> HIDE DEF t
<1>2. ASSUME FirstIn(p, l, t)
      PROVE  FirstIn(p, l, s) \/ (NoneIn(l, s) /\ p = v /\ l \in Present[v])
  <2>1. PICK k \in 1 .. Len(t) :
           /\ t[k] = p /\ l \in Present[p]
           /\ \A j \in 1 .. Len(t) : j < k => l \notin Present[t[j]]
    BY <1>2 DEF FirstIn
  <2>2. CASE k = Len(s) + 1
    <3>1. \A j \in 1 .. Len(s) : j \in 1 .. Len(t) /\ j < k
      BY <1>1, <2>2
    <3> QED BY <1>1, <2>1, <2>2, <3>1 DEF NoneIn
  <2>3. CASE k # Len(s) + 1
    <3>1. k \in 1 .. Len(s) /\ \A j \in 1 .. Len(s) : j \in 1 .. Len(t)
      BY <1>1, <2>3
    <3> QED BY <1>1, <2>1, <3>1 DEF FirstIn
  <2> QED BY <2>2, <2>3
<1>3. ASSUME NoneIn(l, t)
      PROVE  NoneIn(l, s) /\ l \notin Present[v]
  <2>1. Len(s) + 1 \in 1 .. Len(t) /\ \A j \in 1 .. Len(s) : j \in 1 .. Len(t)
    BY <1>1
  <2> QED BY <1>1, <1>3, <2>1 DEF NoneIn
<1> QED BY <1>2, <1>3 DEF t

\* The first directory of two lists in a row is the first of one of them.
LEMMA FirstInConcat ==
    ASSUME NEW s \in Seq(Directories), NEW t \in Seq(Directories), NEW p, NEW l,
           FirstIn(p, l, s \o t)
    PROVE  FirstIn(p, l, s) \/ FirstIn(p, l, t)
<1> DEFINE c == s \o t
<1>1. /\ Len(s) \in Nat /\ Len(t) \in Nat /\ Len(c) = Len(s) + Len(t)
      /\ \A i \in 1 .. Len(s) : c[i] = s[i]
      /\ \A i \in 1 .. Len(t) : c[Len(s) + i] = t[i]
  BY ConcatProperties, LenProperties
<1>2. PICK k \in 1 .. Len(c) :
         /\ c[k] = p /\ l \in Present[p]
         /\ \A j \in 1 .. Len(c) : j < k => l \notin Present[c[j]]
  BY DEF FirstIn
<1> HIDE DEF c
<1>3. CASE k <= Len(s)
  <2>1. k \in 1 .. Len(s) /\ \A j \in 1 .. Len(s) : j \in 1 .. Len(c)
    BY <1>1, <1>3
  <2> QED BY <1>1, <1>2, <2>1 DEF FirstIn
<1>4. CASE k > Len(s)
  <2> DEFINE i == k - Len(s)
  <2>1. i \in 1 .. Len(t) /\ k = Len(s) + i
    BY <1>1, <1>4
  <2>2. \A j \in 1 .. Len(t) : Len(s) + j \in 1 .. Len(c) /\ (j < i => Len(s) + j < k)
    BY <1>1, <2>1
  <2> HIDE DEF i
  <2>3. t[i] = p /\ \A j \in 1 .. Len(t) : j < i => l \notin Present[t[j]]
    BY <1>1, <1>2, <2>1, <2>2
  <2> QED BY <1>2, <2>1, <2>3 DEF FirstIn
<1> QED BY <1>1, <1>3, <1>4

-----------------------------------------------------------------------------
(* Parsing *)

\* What an argument does to the paths and the mode.
LEMMA ParsedPaths ==
    ASSUME NEW a \in Argument, NEW o \in Options
    PROVE  LET o2 == ParseSingleCommandLineOption(a, o)
           IN  /\ o2.include_paths = IF ~a.eq /\ a.opt = "-I"
                                     THEN Append(o.include_paths, a.val) ELSE o.include_paths
               /\ o2.link_paths = IF ~a.eq /\ a.opt = "-L"
                                  THEN Append(o.link_paths, a.val) ELSE o.link_paths
               /\ o2.framework_paths = IF ~a.eq /\ a.opt = "-F"
                                       THEN Append(o.framework_paths, a.val) ELSE o.framework_paths
               /\ o2.is_playground = IF a.eq /\ a.opt = "--playground"
                                     THEN a.val = "true" ELSE o.is_playground
<1>1. CASE ~a.eq
  <2>1. ParseSingleCommandLineOption(a, o) = HandleOptionWithoutEquals(a, o)
    BY <1>1 DEF ParseSingleCommandLineOption
  <2>2. CASE a.opt \in {"-I", "-L", "-F"}
    BY <1>1, <2>1, <2>2 DEF HandleOptionWithoutEquals, Options
  <2>3. CASE a.opt \notin {"-I", "-L", "-F"}
    BY <1>1, <2>1, <2>3 DEF HandleOptionWithoutEquals, Options
  <2> QED BY <2>2, <2>3
<1>2. CASE a.eq /\ a.opt = "--logging"
  <2>1. ParseSingleCommandLineOption(a, o) = SetLoggingAreaOption(a.val, o)
    BY <1>2 DEF ParseSingleCommandLineOption
  <2> QED BY <1>2, <2>1 DEF SetLoggingAreaOption, Options
<1>3. CASE a.eq /\ a.opt = "--logging_priority"
  <2>1. ParseSingleCommandLineOption(a, o) = SetLoggingPriorityOption(a.val, o)
    BY <1>3 DEF ParseSingleCommandLineOption
  <2> QED BY <1>3, <2>1 DEF SetLoggingPriorityOption, Options
<1>4. CASE a.eq /\ a.opt \notin {"--logging", "--logging_priority"}
  BY <1>4 DEF ParseSingleCommandLineOption, SetPlaygroundOption,
       SetModuleCachePathOption, SetPrintToConsoleOption, Options
<1> QED BY <1>1, <1>2, <1>3, <1>4

LEMMA OneMore ==
    ASSUME NEW n \in Nat, NEW flag
    PROVE  /\ PathsTo(flag, n + 1) = PathsTo(flag, n) \cup
                (IF ~argv[n + 1].eq /\ argv[n + 1].opt = flag THEN {n + 1} ELSE {})
           /\ ModesTo(n + 1) = ModesTo(n) \cup
                (IF argv[n + 1].eq /\ argv[n + 1].opt = "--playground" THEN {n + 1} ELSE {})
<1>1. 1 .. n + 1 = 1 .. n \cup {n + 1}
  OBVIOUS
<1> QED BY <1>1 DEF PathsTo, ModesTo

\* Parsing leaves the arguments alone, so that what is said of the first n of
\* them afterwards can be said before.
LEMMA SameArguments ==
    ASSUME argv' = argv, NEW n, parsed' = n
    PROVE  /\ \A flag : PathsTo(flag, parsed)' = PathsTo(flag, n)
           /\ ModesTo(parsed)' = ModesTo(n)
           /\ \A p, l : FirstGiven(p, l, parsed)' <=> FirstGiven(p, l, n)
           /\ \A l : NoneGiven(l, parsed)' <=> NoneGiven(l, n)
<1>1. \A flag : PathsTo(flag, parsed)' = PathsTo(flag, n)
  BY Zenon DEF PathsTo
<1>2. ModesTo(parsed)' = ModesTo(n)
  BY Zenon DEF ModesTo
<1>3. \A k : DirectoryGiven(k)' = DirectoryGiven(k)
  BY DEF DirectoryGiven, DirectoryOf
<1> QED BY <1>1, <1>2, <1>3 DEF FirstGiven, NoneGiven

\* The list of a flag grows with the arguments that give it a path.
LEMMA GivenStep ==
    ASSUME NEW n \in Nat, NEW flag, NEW s \in Seq(Values), NEW t,
           argv[n + 1].val \in Values, AsGiven(s, PathsTo(flag, n)),
           t = IF ~argv[n + 1].eq /\ argv[n + 1].opt = flag
               THEN Append(s, argv[n + 1].val) ELSE s
    PROVE  AsGiven(t, PathsTo(flag, n + 1))
<1>1. PathsTo(flag, n) \in SUBSET (1 .. n)
  BY DEF PathsTo
<1>2. CASE ~argv[n + 1].eq /\ argv[n + 1].opt = flag
  <2>1. PathsTo(flag, n + 1) = PathsTo(flag, n) \cup {n + 1} /\ t = Append(s, argv[n + 1].val)
    BY <1>2, OneMore
  <2> QED BY <1>1, <2>1, GivenAppend
<1>3. CASE ~(~argv[n + 1].eq /\ argv[n + 1].opt = flag)
  <2>1. PathsTo(flag, n + 1) = PathsTo(flag, n) \cup {}
    BY <1>3, OneMore, Zenon
  <2>2. t = s
    BY <1>3
  <2> QED BY <2>1, <2>2
<1> QED BY <1>2, <1>3

\* So does which directory is the first with a file for a library.
LEMMA LinksStep ==
    ASSUME NEW n \in Nat, NEW s \in Seq(Values), NEW t, NEW p, NEW l,
           argv[n + 1].val \in Values,
           FirstIn(p, l, DirectoriesOf(s)) => FirstGiven(p, l, n),
           NoneIn(l, DirectoriesOf(s)) => NoneGiven(l, n),
           t = IF ~argv[n + 1].eq /\ argv[n + 1].opt = "-L"
               THEN Append(s, argv[n + 1].val) ELSE s
    PROVE  /\ FirstIn(p, l, DirectoriesOf(t)) => FirstGiven(p, l, n + 1)
           /\ NoneIn(l, DirectoriesOf(t)) => NoneGiven(l, n + 1)
<1> DEFINE A == PathsTo("-L", n)
           B == PathsTo("-L", n + 1)
           v == DirectoryGiven(n + 1)
           d == DirectoriesOf(s)
<1>1. A \subseteq 1 .. n
  BY DEF PathsTo
<1>2. CASE ~argv[n + 1].eq /\ argv[n + 1].opt = "-L"
  <2>1. /\ B = A \cup {n + 1} /\ v \in Directories /\ d \in Seq(Directories)
        /\ DirectoriesOf(t) = Append(d, v)
    <3>1. B = A \cup {n + 1} /\ t = Append(s, argv[n + 1].val)
      BY <1>2, OneMore
    <3> QED BY <3>1, DirectoriesAppend, DirectoriesType DEF DirectoryGiven
  <2>2. \A j \in A : j \in Nat /\ j < n + 1
    BY <1>1
  <2> HIDE DEF A, B
  <2>3. ASSUME FirstGiven(p, l, n)
        PROVE  FirstGiven(p, l, n + 1)
    <3>1. PICK k \in A : /\ DirectoryGiven(k) = p /\ l \in Present[p]
                         /\ \A j \in A : j < k => l \notin Present[DirectoryGiven(j)]
      BY <2>3 DEF FirstGiven, A
    <3>2. k \in Nat /\ k < n + 1
      BY <2>2
    <3>3. ~(n + 1 < k)
      BY <3>2
    <3>4. k \in B /\ \A j \in B : j < k => l \notin Present[DirectoryGiven(j)]
      BY <2>1, <3>1, <3>3
    <3> QED BY <3>1, <3>4 DEF FirstGiven, B
  <2>4. ASSUME NoneGiven(l, n), p = v, l \in Present[v]
        PROVE  FirstGiven(p, l, n + 1)
    <3>1. n + 1 \in B /\ ~(n + 1 < n + 1)
      BY <2>1
    <3>2. \A j \in B : j < n + 1 => l \notin Present[DirectoryGiven(j)]
      BY <2>1, <2>4, <3>1 DEF NoneGiven, A
    <3> QED BY <2>4, <3>1, <3>2 DEF FirstGiven, B
  <2>5. ASSUME NoneGiven(l, n), l \notin Present[v]
        PROVE  NoneGiven(l, n + 1)
    BY <2>1, <2>5 DEF NoneGiven, A, B
  <2> HIDE DEF v, d
  <2>6. /\ FirstIn(p, l, DirectoriesOf(t)) =>
              FirstIn(p, l, d) \/ (NoneIn(l, d) /\ p = v /\ l \in Present[v])
        /\ NoneIn(l, DirectoriesOf(t)) => NoneIn(l, d) /\ l \notin Present[v]
    <3>1. /\ FirstIn(p, l, Append(d, v)) =>
                FirstIn(p, l, d) \/ (NoneIn(l, d) /\ p = v /\ l \in Present[v])
          /\ NoneIn(l, Append(d, v)) => NoneIn(l, d) /\ l \notin Present[v]
      BY <2>1, FirstInAppend
    <3> QED BY <2>1, <3>1, Zenon
  <2>7. /\ FirstIn(p, l, d) => FirstGiven(p, l, n)
        /\ NoneIn(l, d) => NoneGiven(l, n)
    BY DEF d
  <2> QED BY <2>3, <2>4, <2>5, <2>6, <2>7
<1>3. CASE ~(~argv[n + 1].eq /\ argv[n + 1].opt = "-L")
  <2>1. B = A \cup {}
    BY <1>3, OneMore, Zenon
  <2>2. t = s
    BY <1>3
  <2> HIDE DEF A, B
  <2> QED BY <2>1, <2>2 DEF FirstGiven, NoneGiven, A, B
<1> QED BY <1>2, <1>3

LEMMA ParseConfig ==
    ASSUME Inv, ConfigInv, ParseOption
    PROVE  ConfigInv'
<1> DEFINE n == parsed
           a == argv[n + 1]
<1>1. /\ argv' = argv /\ parsed' = n + 1 /\ opts' = ParseSingleCommandLineOption(a, opts)
      /\ pc = "parse" /\ pc' = pc /\ parsed < Len(argv)
      /\ UNCHANGED <<program, repl, g_additional_paths, loaded>>
  BY DEF ParseOption, libraries
<1>2. /\ n \in Nat /\ a \in Argument /\ a.val \in Values /\ opts \in Options
  <2>1. argv \in Seq(Argument) /\ Len(argv) \in Nat /\ parsed \in 0 .. Len(argv) /\ opts \in Options
    BY LenProperties DEF Inv, ParseInv
  <2>2. n + 1 \in 1 .. Len(argv)
    BY <1>1, <2>1
  <2>3. a \in Argument
    BY <2>1, <2>2, ElementOfSeq
  <2> QED BY <2>1, <2>3 DEF Values
<1>3. /\ opts.include_paths \in Seq(Values) /\ opts.link_paths \in Seq(Values)
      /\ opts.framework_paths \in Seq(Values)
  BY <1>2 DEF Options
<1>4. /\ opts'.include_paths = IF ~a.eq /\ a.opt = "-I"
                               THEN Append(opts.include_paths, a.val) ELSE opts.include_paths
      /\ opts'.link_paths = IF ~a.eq /\ a.opt = "-L"
                            THEN Append(opts.link_paths, a.val) ELSE opts.link_paths
      /\ opts'.framework_paths = IF ~a.eq /\ a.opt = "-F"
                                 THEN Append(opts.framework_paths, a.val)
                                 ELSE opts.framework_paths
      /\ opts'.is_playground = IF a.eq /\ a.opt = "--playground"
                               THEN a.val = "true" ELSE opts.is_playground
  BY <1>1, <1>2, ParsedPaths
<1>5. /\ \A flag : PathsTo(flag, parsed)' = PathsTo(flag, n + 1)
      /\ ModesTo(parsed)' = ModesTo(n + 1)
      /\ \A p, l : FirstGiven(p, l, parsed)' <=> FirstGiven(p, l, n + 1)
      /\ \A l : NoneGiven(l, parsed)' <=> NoneGiven(l, n + 1)
  <2> HIDE DEF n
  <2> QED BY <1>1, SameArguments
<1>6. PathsInv'
  <2>1. /\ AsGiven(opts'.include_paths, PathsTo("-I", n + 1))
        /\ AsGiven(opts'.framework_paths, PathsTo("-F", n + 1))
    BY <1>2, <1>3, <1>4, GivenStep DEF ConfigInv, PathsInv
  <2> QED BY <1>1, <1>5, <2>1 DEF PathsInv, AsGiven
<1>7. LinksInv'
  <2>1. ASSUME NEW l \in Library, NEW p \in Directories
        PROVE  /\ FirstIn(p, l, DirectoriesOf(opts'.link_paths)) => FirstGiven(p, l, n + 1)
               /\ NoneIn(l, DirectoriesOf(opts'.link_paths)) => NoneGiven(l, n + 1)
    <3>1. /\ FirstIn(p, l, DirectoriesOf(opts.link_paths)) => FirstGiven(p, l, n)
          /\ NoneIn(l, DirectoriesOf(opts.link_paths)) => NoneGiven(l, n)
      BY DEF ConfigInv, LinksInv
    <3> HIDE DEF n
    <3> QED BY <1>2, <1>3, <1>4, <3>1, LinksStep
  <2>2. Directories # {}
    BY FilesAssumption DEF Directories
  <2>3. ASSUME NEW l \in Library
        PROVE  /\ \A p \in Directories :
                     FirstIn(p, l, DirectoriesOf(opts.link_paths))' => FirstGiven(p, l, parsed)'
               /\ NoneIn(l, DirectoriesOf(opts.link_paths))' => NoneGiven(l, parsed)'
    <3>1. /\ \A p : FirstIn(p, l, DirectoriesOf(opts.link_paths))' <=>
                       FirstIn(p, l, DirectoriesOf(opts'.link_paths))
          /\ NoneIn(l, DirectoriesOf(opts.link_paths))' <=>
                NoneIn(l, DirectoriesOf(opts'.link_paths))
      BY DEF FirstIn, NoneIn, DirectoriesOf, DirectoryOf
    <3> QED BY <1>5, <2>1, <2>2, <3>1
  <2> QED BY <2>3 DEF LinksInv
<1>8. ModeInv'
  <2>1. opts.is_playground = (ModesTo(n) # {} /\ argv[LastOf(ModesTo(n))].val = "true")
    BY <1>1 DEF ConfigInv, ModeInv
  <2>2. opts'.is_playground =
           (ModesTo(n + 1) # {} /\ argv[LastOf(ModesTo(n + 1))].val = "true")
    <3>1. CASE a.eq /\ a.opt = "--playground"
      <4> DEFINE S == ModesTo(n + 1)
                 c == CHOOSE k \in S : \A j \in S : j <= k
      <4>1. n + 1 \in S /\ \A j \in S : j \in Nat /\ j <= n + 1
        BY <1>2, <3>1, OneMore DEF ModesTo
      <4> HIDE DEF S
      <4>2. c \in S /\ \A j \in S : j <= c
        BY <4>1
      <4>3. c = n + 1
        <5> HIDE DEF c
        <5> QED BY <1>2, <4>1, <4>2
      <4>4. LastOf(S) = n + 1
        BY <4>3 DEF LastOf
      <4> QED BY <1>4, <3>1, <4>1, <4>4 DEF S
    <3>2. CASE ~(a.eq /\ a.opt = "--playground")
      <4>1. ModesTo(n + 1) = ModesTo(n)
        BY <1>2, <3>2, OneMore
      <4> QED BY <1>4, <2>1, <3>2, <4>1
    <3> QED BY <3>1, <3>2
  <2>3. LastOf(ModesTo(parsed))' = LastOf(ModesTo(n + 1))
    BY <1>5 DEF LastOf
  <2> QED BY <1>1, <1>5, <2>2, <2>3 DEF ModeInv
<1>9. SetUpInv'
  BY <1>1 DEF ConfigInv, SetUpInv
<1>10. LibraryInv'
  <2>1. g_additional_paths' = <<>> /\ DOMAIN loaded' = {} /\ Len(<<>>) = 0 /\ <<>> \in Seq(Directories)
    BY <1>1, EmptySeq DEF ConfigInv, LibraryInv
  <2>2. \A l, p : ~FirstIn(p, l, g_additional_paths)'
    BY <2>1 DEF FirstIn
  <2> QED BY <1>1, <2>1, <2>2 DEF LibraryInv
<1> QED BY <1>6, <1>7, <1>8, <1>9, <1>10 DEF ConfigInv

-----------------------------------------------------------------------------
(* After parsing *)

LEMMA OptionsStay ==
    ASSUME PathsInv, LinksInv, UNCHANGED <<argv, parsed>>,
           opts'.include_paths = opts.include_paths, opts'.link_paths = opts.link_paths,
           opts'.framework_paths = opts.framework_paths
    PROVE  PathsInv' /\ LinksInv'
<1>1. argv' = argv /\ parsed' = parsed
  OBVIOUS
<1>2. /\ \A flag : PathsTo(flag, parsed)' = PathsTo(flag, parsed)
      /\ \A p, l : FirstGiven(p, l, parsed)' <=> FirstGiven(p, l, parsed)
      /\ \A l : NoneGiven(l, parsed)' <=> NoneGiven(l, parsed)
  BY <1>1, SameArguments
<1>3. PathsInv'
  BY <1>1, <1>2 DEF PathsInv, AsGiven
<1>4. DirectoriesOf(opts.link_paths)' = DirectoriesOf(opts.link_paths)
  BY DEF DirectoriesOf, DirectoryOf
<1>5. LinksInv'
  BY <1>2, <1>4 DEF LinksInv, FirstIn, NoneIn
<1> QED BY <1>3, <1>5

\* What the libraries are loaded from goes with the list and the options.
LEMMA LibrariesStay ==
    ASSUME LibraryInv, UNCHANGED <<g_additional_paths, loaded>>,
           opts'.link_paths = opts.link_paths, pc' # "parse" \/ pc = "parse"
    PROVE  LibraryInv'
<1>1. DirectoriesOf(opts.link_paths)' = DirectoriesOf(opts.link_paths)
  BY DEF DirectoriesOf, DirectoryOf
<1>2. /\ \A p, l : FirstIn(p, l, DirectoriesOf(opts.link_paths))' <=>
                     FirstIn(p, l, DirectoriesOf(opts.link_paths))
      /\ \A p, l : FirstIn(p, l, g_additional_paths)' <=> FirstIn(p, l, g_additional_paths)
  BY <1>1 DEF FirstIn
<1>3. \A l : Origin(loaded[l], l, DirectoriesOf(opts.link_paths))' <=>
             Origin(loaded[l], l, DirectoriesOf(opts.link_paths))
  BY <1>1 DEF Origin, FirstIn
<1> QED BY <1>1, <1>2, <1>3 DEF LibraryInv

LEMMA ModeStays ==
    ASSUME ModeInv, UNCHANGED <<program, argv, parsed>>,
           opts'.is_playground = opts.is_playground,
           pc # "parse" \/ program # "swift-playground", pc' # "parse"
    PROVE  ModeInv'
<1>1. argv' = argv /\ parsed' = parsed
  OBVIOUS
<1>2. ModesTo(parsed)' = ModesTo(parsed)
  BY <1>1, SameArguments
<1>3. LastOf(ModesTo(parsed))' = LastOf(ModesTo(parsed))
  BY <1>2 DEF LastOf
<1> QED BY <1>1, <1>2, <1>3 DEF ModeInv

\* A step that neither sets up a REPL nor loads a library.
LEMMA QuietConfig ==
    ASSUME ConfigInv, UNCHANGED <<program, argv, opts, parsed, repl, g_additional_paths, loaded>>,
           pc # "parse" \/ program # "swift-playground", pc' \in States \ {"parse"},
           pc' \in {"prompt", "getline", "execute", "running", "handler"} => repl # NoREPL
    PROVE  ConfigInv'
<1>1. PathsInv' /\ LinksInv'
  BY OptionsStay DEF ConfigInv
<1>2. ModeInv'
  BY ModeStays DEF ConfigInv
<1>3. SetUpInv'
  BY DEF ConfigInv, SetUpInv
<1>4. LibraryInv'
  BY LibrariesStay DEF ConfigInv
<1> QED BY <1>1, <1>2, <1>3, <1>4 DEF ConfigInv

\* The window program overrules the mode before it has a REPL.
LEMMA OpenConfig ==
    ASSUME Inv, ConfigInv, opts' = [opts EXCEPT !.is_playground = TRUE],
           UNCHANGED <<program, argv, parsed, repl, g_additional_paths, loaded>>,
           program = "swift-playground", pc = "parse", pc' \in {"redirect", "ended"}
    PROVE  ConfigInv'
<1>1. /\ opts'.include_paths = opts.include_paths /\ opts'.link_paths = opts.link_paths
      /\ opts'.framework_paths = opts.framework_paths /\ opts'.is_playground = TRUE
  BY DEF Inv, ParseInv, Options
<1>2. PathsInv' /\ LinksInv'
  BY <1>1, OptionsStay DEF ConfigInv
<1>3. ModeInv'
  BY <1>1 DEF ModeInv
<1>4. SetUpInv'
  BY DEF ConfigInv, SetUpInv, States
<1>5. LibraryInv'
  BY <1>1, LibrariesStay DEF ConfigInv
<1> QED BY <1>2, <1>3, <1>4, <1>5 DEF ConfigInv

LEMMA SetUpConfig ==
    ASSUME Inv, ConfigInv, NEW importer, NEW o, SetUpREPL(opts.is_playground, importer, o),
           UNCHANGED <<program, argv, opts, parsed>>,
           pc # "parse" \/ program # "swift-playground", pc' \in {"prompt", "handler"}
    PROVE  ConfigInv'
<1>1. /\ repl' = [is_playground |-> opts.is_playground,
                  modules |-> <<BuiltinPath>> \o opts.include_paths,
                  frameworks |-> opts.framework_paths]
      /\ g_additional_paths' = g_additional_paths \o DirectoriesOf(opts.link_paths)
      /\ loaded' = loaded
  BY DEF SetUpREPL
<1>2. /\ opts.include_paths \in Seq(Values)
      /\ DirectoriesOf(opts.link_paths) \in Seq(Directories)
      /\ g_additional_paths \in Seq(Directories)
  BY DirectoriesType DEF Inv, ParseInv, Options, ConfigInv, LibraryInv
<1>3. repl' # NoREPL
  <2>1. Len(<<BuiltinPath>> \o opts.include_paths) = 1 + Len(opts.include_paths)
        /\ Len(opts.include_paths) \in Nat
    BY <1>2, LenProperties
  <2>2. <<BuiltinPath>> \o opts.include_paths # <<>>
    BY <2>1
  <2>3. repl'.modules # <<>>
    BY <1>1, <2>2
  <2> QED BY <2>3 DEF NoREPL
<1>4. PathsInv' /\ LinksInv'
  BY OptionsStay DEF ConfigInv
<1>5. ModeInv'
  BY ModeStays DEF ConfigInv
<1>6. SetUpInv'
  <2>1. /\ repl'.modules = <<BuiltinPath>> \o opts.include_paths
        /\ repl'.frameworks = opts.framework_paths /\ repl'.is_playground = opts.is_playground
    BY <1>1
  <2> QED BY <1>3, <2>1 DEF ConfigInv, SetUpInv, States
<1>7. LibraryInv'
  <2>1. g_additional_paths' \in Seq(Directories)
    BY <1>1, <1>2, ConcatProperties
  <2>2. ASSUME NEW l \in Library, NEW p \in Directories,
               FirstIn(p, l, g_additional_paths')
        PROVE  FirstIn(p, l, DirectoriesOf(opts.link_paths))
    <3>1. \/ FirstIn(p, l, g_additional_paths)
          \/ FirstIn(p, l, DirectoriesOf(opts.link_paths))
      BY <1>1, <1>2, <2>2, FirstInConcat
    <3> QED BY <3>1 DEF ConfigInv, LibraryInv
  <2>3. DirectoriesOf(opts.link_paths)' = DirectoriesOf(opts.link_paths)
    BY DEF DirectoriesOf, DirectoryOf
  <2>4. /\ \A p, l : FirstIn(p, l, DirectoriesOf(opts.link_paths))' <=>
                       FirstIn(p, l, DirectoriesOf(opts.link_paths))
        /\ \A p, l : FirstIn(p, l, g_additional_paths)' <=> FirstIn(p, l, g_additional_paths')
        /\ \A l : Origin(loaded[l], l, DirectoriesOf(opts.link_paths))' <=>
                   Origin(loaded[l], l, DirectoriesOf(opts.link_paths))
    BY <1>1, <2>3 DEF FirstIn, Origin
  <2> QED BY <1>1, <2>1, <2>2, <2>4 DEF ConfigInv, LibraryInv
<1> QED BY <1>4, <1>5, <1>6, <1>7 DEF ConfigInv

\* A library is loaded from the system, or else from the first directory on the
\* list with its file.
LEMMA FoundFirst ==
    ASSUME g_additional_paths \in Seq(Directories), NEW l, FileOf(l) # Null
    PROVE  Origin(FileOf(l), l, g_additional_paths)
<1> DEFINE G == g_additional_paths
           where == WithFile(l)
           c == CHOOSE k \in where : \A j \in where : k <= j
<1>1. DOMAIN G = 1 .. Len(G) /\ Len(G) \in Nat
  BY LenProperties
<1>2. CASE l \in OnSystem
  BY <1>2 DEF FileOf, Origin
<1>3. CASE l \notin OnSystem
  <2>1. where # {} /\ FileOf(l) = G[c] /\ <<G[c], l>> \notin Broken
    BY <1>3 DEF FileOf, LoadFrom
  <2>2. where = {k \in 1 .. Len(G) : l \in Present[G[k]]}
    BY <1>1 DEF WithFile
  <2>3. \E k \in where : \A j \in where : k <= j
    <3>1. where \in SUBSET Nat
      BY <2>2
    <3> HIDE DEF where
    <3> QED BY <2>1, <3>1, LeastElement
  <2>4. c \in where /\ \A j \in where : c <= j
    <3> HIDE DEF where
    <3> QED BY <2>3
  <2> HIDE DEF c, where
  <2>5. c \in 1 .. Len(G) /\ l \in Present[G[c]]
    BY <2>2, <2>4
  <2>6. ASSUME NEW j \in 1 .. Len(G), j < c
        PROVE  l \notin Present[G[j]]
    <3>1. j \notin where
      BY <2>4, <2>5, <2>6
    <3> QED BY <2>2, <3>1
  <2>7. G[c] \in Directories
    BY <2>5, ElementOfSeq
  <2> QED BY <1>3, <2>1, <2>5, <2>6, <2>7 DEF FirstIn, Origin
<1> QED BY <1>2, <1>3

LEMMA LinkConfig ==
    ASSUME Inv, ConfigInv, NEW libs \in LinkedLibraries, NEW rest, LinkLibraries(libs, rest),
           UNCHANGED <<program, argv, opts, parsed, repl>>,
           pc # "parse", pc' \in States \ {"parse"},
           pc' \in {"prompt", "getline", "execute", "running", "handler"} => repl # NoREPL
    PROVE  ConfigInv'
<1> DEFINE found == [k \in DOMAIN libs |->
                        IF libs[k] \in DOMAIN loaded THEN loaded[libs[k]] ELSE FileOf(libs[k])]
           new == {libs[k] : k \in {k \in DOMAIN libs : found[k] # Null}} \ DOMAIN loaded
<1>1. /\ loaded' = [l \in DOMAIN loaded \cup new |-> IF l \in new THEN FileOf(l) ELSE loaded[l]]
      /\ g_additional_paths' = g_additional_paths
  BY DEF LinkLibraries
<1>2. ASSUME NEW l \in new
      PROVE  l \in Library /\ FileOf(l) # Null
  <2>1. PICK k \in DOMAIN libs : libs[k] = l /\ found[k] # Null
    BY <1>2
  <2>2. libs[k] \in Library
    BY DEF LinkedLibraries
  <2> QED BY <1>2, <2>1, <2>2
<1> HIDE DEF new
<1>3. PathsInv' /\ LinksInv'
  BY OptionsStay DEF ConfigInv
<1>4. ModeInv'
  BY ModeStays DEF ConfigInv
<1>5. SetUpInv'
  BY DEF ConfigInv, SetUpInv
<1>6. LibraryInv'
  <2>1. ASSUME NEW l \in DOMAIN loaded'
        PROVE  l \in Library /\ Origin(loaded'[l], l, DirectoriesOf(opts.link_paths))
    <3>1. CASE l \in new
      <4>1. loaded'[l] = FileOf(l) /\ l \in Library
        BY <1>1, <1>2, <3>1
      <4>2. Origin(FileOf(l), l, g_additional_paths)
        BY <1>2, <3>1, FoundFirst DEF ConfigInv, LibraryInv
      <4>3. Origin(FileOf(l), l, DirectoriesOf(opts.link_paths))
        BY <4>1, <4>2 DEF ConfigInv, LibraryInv, Origin
      <4> QED BY <4>1, <4>3
    <3>2. CASE l \notin new
      <4>1. l \in DOMAIN loaded /\ loaded'[l] = loaded[l]
        BY <1>1, <3>2
      <4> QED BY <4>1 DEF ConfigInv, LibraryInv
    <3> QED BY <3>1, <3>2
  <2>2. DirectoriesOf(opts.link_paths)' = DirectoriesOf(opts.link_paths)
    BY DEF DirectoriesOf, DirectoryOf
  <2>3. /\ \A p, l : FirstIn(p, l, DirectoriesOf(opts.link_paths))' <=>
                       FirstIn(p, l, DirectoriesOf(opts.link_paths))
        /\ \A p, l : FirstIn(p, l, g_additional_paths)' <=> FirstIn(p, l, g_additional_paths)
    BY <1>1, <2>2 DEF FirstIn
  <2>4. \A l \in DOMAIN loaded' : Origin(loaded[l], l, DirectoriesOf(opts.link_paths))'
    BY <2>1, <2>2 DEF Origin, FirstIn
  <2> QED BY <1>1, <2>1, <2>3, <2>4 DEF ConfigInv, LibraryInv
<1> QED BY <1>3, <1>4, <1>5, <1>6 DEF ConfigInv

-----------------------------------------------------------------------------
(* The steps *)

LEMMA InitConfig == Init => ConfigInv
<1> SUFFICES ASSUME Init PROVE ConfigInv
  OBVIOUS
<1>1. /\ opts = DefaultCommandLineOptions /\ parsed = 0 /\ pc = "parse" /\ repl = NoREPL
      /\ g_additional_paths = <<>> /\ loaded = <<>> /\ argv \in CommandLines
  BY DEF Init
<1>2. /\ \A flag : PathsTo(flag, 0) = {}
      /\ ModesTo(0) = {}
  BY DEF PathsTo, ModesTo
<1>3. PathsInv
  <2>1. /\ opts.include_paths = <<>> /\ opts.framework_paths = <<>> /\ Len(<<>>) = 0
    BY <1>1 DEF DefaultCommandLineOptions
  <2> QED BY <1>1, <1>2, <2>1, FS_EmptySet DEF PathsInv, AsGiven
<1>4. LinksInv
  <2>1. DirectoriesOf(opts.link_paths) = <<>> /\ 1 .. Len(<<>>) = {}
    BY <1>1 DEF DefaultCommandLineOptions, DirectoriesOf
  <2>2. \A p, l : ~FirstIn(p, l, DirectoriesOf(opts.link_paths))
    BY <2>1 DEF FirstIn
  <2>3. \A l : NoneGiven(l, parsed)
    BY <1>1, <1>2 DEF NoneGiven
  <2> QED BY <2>2, <2>3 DEF LinksInv
<1>5. ModeInv
  <2>1. opts.is_playground = FALSE
    BY <1>1 DEF DefaultCommandLineOptions
  <2> QED BY <1>1, <1>2, <2>1 DEF ModeInv
<1>6. SetUpInv
  BY <1>1 DEF SetUpInv, States
<1>7. LibraryInv
  <2>1. DOMAIN loaded = {} /\ <<>> \in Seq(Directories) /\ 1 .. Len(<<>>) = {}
    BY <1>1
  <2>2. \A p, l : ~FirstIn(p, l, g_additional_paths)
    BY <1>1, <2>1 DEF FirstIn
  <2> QED BY <1>1, <2>1, <2>2 DEF LibraryInv
<1> QED BY <1>3, <1>4, <1>5, <1>6, <1>7 DEF ConfigInv

\* Where a REPL is used there is one.
LEMMA HasREPL ==
    ASSUME ConfigInv, pc \in {"prompt", "getline", "execute", "running", "handler"}
    PROVE  repl # NoREPL
BY DEF ConfigInv, SetUpInv

\* What the front end makes of a line, in main or in a handler.
LEMMA TakesLine ==
    ASSUME Inv, ConfigInv, Reject \/ Accept, UNCHANGED <<program, argv, opts, parsed, repl>>,
           pc \in {"execute", "handler"}, pc' \in States \ {"parse"}
    PROVE  ConfigInv'
<1>1. repl # NoREPL
  BY HasREPL
<1>2. CASE Reject
  <2>1. UNCHANGED <<g_additional_paths, loaded>>
    BY <1>2 DEF Reject, libraries
  <2> QED BY <1>1, <2>1, QuietConfig
<1>3. CASE Accept
  <2>1. PICK libs \in LinkedLibraries, rest \in Compiled : LinkLibraries(libs, rest)
    BY <1>3 DEF Accept
  <2> QED BY <1>1, <2>1, LinkConfig
<1> QED BY <1>2, <1>3

LEMMA MainConfig ==
    ASSUME Inv, ConfigInv, Main
    PROVE  ConfigInv'
<1> USE DEF startup, libraries, States
<1>1. CASE ParseOption
  BY <1>1, ParseConfig
<1>2. CASE SetupREPLWithOptions
  <2>1. /\ program = "swift-repl" /\ pc' = "prompt" /\ UNCHANGED <<program, argv, opts, parsed>>
        /\ \E importer : SetUpREPL(opts.is_playground, importer, LoggingOptions(opts))
    BY <1>2 DEF SetupREPLWithOptions
  <2> QED BY <2>1, SetUpConfig
<1>3. CASE SetupFails
  <2>1. /\ program = "swift-repl" /\ pc' = "ended"
        /\ UNCHANGED <<program, argv, opts, parsed, repl, g_additional_paths, loaded>>
    BY <1>3 DEF SetupFails
  <2> QED BY <2>1, QuietConfig
<1>4. CASE Prompt \/ GetLine
  <2>1. /\ pc \in {"prompt", "getline"} /\ pc' \in {"prompt", "getline", "execute"}
        /\ UNCHANGED <<program, argv, opts, parsed, repl, g_additional_paths, loaded>>
    BY <1>4 DEF Prompt, GetLine
  <2> QED BY <2>1, HasREPL, QuietConfig
<1>5. CASE ExitLine
  <2>1. /\ pc = "execute" /\ pc' = "ended"
        /\ UNCHANGED <<program, argv, opts, parsed, repl, g_additional_paths, loaded>>
    BY <1>5 DEF ExitLine, Executing, Executed
  <2> QED BY <2>1, QuietConfig
<1>6. CASE RejectLine \/ AcceptLine
  <2>1. /\ pc = "execute" /\ pc' = "prompt" /\ (Reject \/ Accept)
        /\ UNCHANGED <<program, argv, opts, parsed, repl>>
    BY <1>6 DEF RejectLine, AcceptLine, Executing, Executed
  <2>2. pc \in {"execute", "handler"} /\ pc' \in States \ {"parse"}
    BY <2>1
  <2> HIDE DEF States
  <2> QED BY <2>1, <2>2, TakesLine
<1>7. CASE LineFunctionMissing \/ UserCodeNeverReturns
  <2>1. /\ pc = "execute" /\ pc' \in {"ended", "running"}
        /\ \E libs \in LinkedLibraries : \E rest : LinkLibraries(libs, rest)
        /\ UNCHANGED <<program, argv, opts, parsed, repl>>
    BY <1>7 DEF LineFunctionMissing, UserCodeNeverReturns, Executing, Executed
  <2> QED BY <2>1, HasREPL, LinkConfig
<1> QED BY <1>1, <1>2, <1>3, <1>4, <1>5, <1>6, <1>7 DEF Main, ExecuteSwift

LEMMA WindowConfig ==
    ASSUME Inv, ConfigInv, Window
    PROVE  ConfigInv'
<1> USE DEF startup, libraries, States
<1>1. CASE OpenWindow \/ OpenWindowFails
  <2>1. /\ program = "swift-playground" /\ pc = "parse" /\ pc' \in {"redirect", "ended"}
        /\ opts' = [opts EXCEPT !.is_playground = TRUE]
        /\ UNCHANGED <<program, argv, parsed, repl, g_additional_paths, loaded>>
    BY <1>1 DEF OpenWindow, OpenWindowFails, ArgumentsParsed
  <2> QED BY <2>1, OpenConfig
<1>2. CASE RedirectStdout \/ CloseWindow
  <2>1. /\ pc \in {"redirect", "window"} /\ pc' \in {"window", "closed"}
        /\ UNCHANGED <<program, argv, opts, parsed, repl, g_additional_paths, loaded>>
    BY <1>2 DEF RedirectStdout, CloseWindow
  <2> QED BY <2>1, QuietConfig
<1>3. CASE RecompileEverything
  <2>1. /\ pc = "window" /\ pc' = "handler" /\ UNCHANGED <<program, argv, opts, parsed>>
        /\ \E importer : SetUpREPL(opts.is_playground, importer, g_log_opts)
    BY <1>3 DEF RecompileEverything, Click
  <2> QED BY <2>1, SetUpConfig
<1>4. CASE RecompileFails
  <2>1. /\ pc = "window" /\ pc' = "crashed"
        /\ UNCHANGED <<program, argv, opts, parsed, repl, g_additional_paths, loaded>>
    BY <1>4 DEF RecompileFails, Click
  <2> QED BY <2>1, QuietConfig
<1>5. CASE ContinueExecution
  <2>1. /\ pc = "window" /\ pc' = "handler" /\ repl # NoREPL
        /\ UNCHANGED <<program, argv, opts, parsed, repl, g_additional_paths, loaded>>
    BY <1>5 DEF ContinueExecution, Click
  <2> QED BY <2>1, QuietConfig
<1>6. CASE HandlerExecutes
  <2>1. /\ pc = "handler" /\ pc' = "window" /\ (Reject \/ Accept)
        /\ UNCHANGED <<program, argv, opts, parsed, repl>>
    BY <1>6 DEF HandlerExecutes
  <2>2. pc \in {"execute", "handler"} /\ pc' \in States \ {"parse"}
    BY <2>1
  <2> HIDE DEF States
  <2> QED BY <2>1, <2>2, TakesLine
<1> QED BY <1>1, <1>2, <1>3, <1>4, <1>5, <1>6 DEF Window

LEMMA StutterConfig ==
    ASSUME ConfigInv, UNCHANGED vars
    PROVE  ConfigInv'
<1>1. UNCHANGED <<program, argv, opts, parsed, repl, g_additional_paths, loaded, pc>>
  BY DEF vars, startup, libraries
<1>2. PathsInv' /\ LinksInv'
  BY <1>1, OptionsStay DEF ConfigInv
<1>3. ModeInv'
  <2>1. ModesTo(parsed)' = ModesTo(parsed)
    BY <1>1, SameArguments
  <2>2. LastOf(ModesTo(parsed))' = LastOf(ModesTo(parsed))
    BY <2>1 DEF LastOf
  <2> QED BY <1>1, <2>1, <2>2 DEF ConfigInv, ModeInv
<1>4. SetUpInv'
  BY <1>1 DEF ConfigInv, SetUpInv
<1>5. LibraryInv'
  BY <1>1, LibrariesStay DEF ConfigInv
<1> QED BY <1>2, <1>3, <1>4, <1>5 DEF ConfigInv

LEMMA ConfigInvariant == Spec => [](Inv /\ ConfigInv)
<1>1. Inv /\ Inv' /\ ConfigInv /\ [Next]_vars => ConfigInv'
  BY MainConfig, WindowConfig, StutterConfig DEF Next
<1> QED BY <1>1, InitConfig, Invariant, PTL DEF Spec

-----------------------------------------------------------------------------
(* Theorems *)

\* Types; and no line is read or executed without a REPL, in either program,
\* whatever fails before.
THEOREM TypeCorrect == Spec => []TypeOK
<1>1. Inv /\ ConfigInv => TypeOK
  <2> SUFFICES ASSUME Inv, ConfigInv PROVE TypeOK
    OBVIOUS
  <2>1. /\ argv \in CommandLines /\ pc \in States /\ parsed \in 0 .. Len(argv)
        /\ pc \in {"prompt", "getline", "execute", "running", "handler"} => repl # NoREPL
    BY DEF Inv, ParseInv, ConfigInv, SetUpInv
  <2>2. /\ g_curr_logging_area \subseteq All
        /\ \A k \in DOMAIN log : log[k].area \subseteq All /\ log[k].priority \in Info .. Error
    BY DEF Inv, LogInv
  <2>3. \A l \in DOMAIN loaded : l \in Library /\ loaded[l] \in DOMAIN Present \cup {System}
    BY DEF ConfigInv, LibraryInv, Origin, Directories
  <2> QED BY <2>1, <2>2, <2>3 DEF TypeOK, States
<1> QED BY <1>1, ConfigInvariant, PTL

\* Once parsing has ended the arguments parsed are all there are.
LEMMA AllParsed ==
    ASSUME Inv, pc # "parse"
    PROVE  /\ \A flag : PathsTo(flag, parsed) = PathArguments(flag)
           /\ ModesTo(parsed) = {k \in DOMAIN argv : argv[k].eq /\ argv[k].opt = "--playground"}
<1>1. parsed = Len(argv) /\ argv \in Seq(Argument)
  BY DEF Inv, ParseInv, LogInv
<1>2. DOMAIN argv = 1 .. parsed
  BY <1>1, LenProperties
<1> QED BY <1>2 DEF PathsTo, ModesTo, PathArguments

\* A REPL that replaces another is set up from the whole command line, as the
\* first one was, after any number of recompilations.
THEOREM EveryREPLConfigured == Spec => []EveryReplIsConfigured
<1>1. Inv /\ ConfigInv => EveryReplIsConfigured
  <2> DEFINE modes == {k \in DOMAIN argv : argv[k].eq /\ argv[k].opt = "--playground"}
  <2> SUFFICES ASSUME Inv, ConfigInv, repl # NoREPL
               PROVE  /\ Head(repl.modules) = BuiltinPath
                      /\ AsGiven(Tail(repl.modules), PathArguments("-I"))
                      /\ AsGiven(repl.frameworks, PathArguments("-F"))
                      /\ repl.is_playground =
                           (program = "swift-playground"
                              \/ (modes # {} /\ argv[LastOf(modes)].val = "true"))
    BY DEF EveryReplIsConfigured
  <2>1. /\ pc # "parse" /\ repl.modules = <<BuiltinPath>> \o opts.include_paths
        /\ repl.frameworks = opts.framework_paths /\ repl.is_playground = opts.is_playground
    BY DEF ConfigInv, SetUpInv
  <2>2. opts.include_paths \in Seq(Values)
    BY DEF Inv, ParseInv, Options
  <2>3. Head(repl.modules) = BuiltinPath /\ Tail(repl.modules) = opts.include_paths
    BY <2>1, <2>2
  <2>4. /\ AsGiven(opts.include_paths, PathArguments("-I"))
        /\ AsGiven(opts.framework_paths, PathArguments("-F"))
    BY <2>1, AllParsed DEF ConfigInv, PathsInv
  <2>5. opts.is_playground =
           (program = "swift-playground" \/ (modes # {} /\ argv[LastOf(modes)].val = "true"))
    <3>1. ModesTo(parsed) = modes
      BY <2>1, AllParsed
    <3> HIDE DEF modes
    <3> QED BY <2>1, <3>1 DEF ConfigInv, ModeInv
  <2> QED BY <2>1, <2>3, <2>4, <2>5
<1> QED BY <1>1, ConfigInvariant, PTL

\* A library the system knows comes from there; any other from the directory
\* that the first -L with a file of its name stands for, and not from a broken
\* file, however often the list of directories was filled.
THEOREM FirstPath == Spec => []SystemThenFirstPath
<1>1. Inv /\ ConfigInv => SystemThenFirstPath
  <2> SUFFICES ASSUME Inv, ConfigInv, NEW l \in DOMAIN loaded
               PROVE  LET where == {k \in PathArguments("-L") :
                                       l \in Present[DirectoryOf(argv[k].val)]}
                      IN  IF l \in OnSystem THEN loaded[l] = System
                          ELSE \E k \in where :
                                  /\ \A j \in where : k <= j
                                  /\ loaded[l] = DirectoryOf(argv[k].val)
                                  /\ <<loaded[l], l>> \notin Broken
    BY DEF SystemThenFirstPath
  <2>1. /\ l \in Library /\ pc # "parse"
        /\ Origin(loaded[l], l, DirectoriesOf(opts.link_paths))
    BY DEF ConfigInv, LibraryInv
  <2>2. CASE l \in OnSystem
    BY <2>1, <2>2 DEF Origin
  <2>3. CASE l \notin OnSystem
    <3>1. FirstGiven(loaded[l], l, parsed) /\ <<loaded[l], l>> \notin Broken
      BY <2>1, <2>3 DEF ConfigInv, LinksInv, Origin
    <3>2. PathsTo("-L", parsed) = PathArguments("-L")
      BY <2>1, AllParsed
    <3>3. PICK k \in PathArguments("-L") :
             /\ DirectoryGiven(k) = loaded[l] /\ l \in Present[loaded[l]]
             /\ \A j \in PathArguments("-L") : j < k => l \notin Present[DirectoryGiven(j)]
      BY <3>1, <3>2 DEF FirstGiven
    <3>4. \A j \in PathArguments("-L") : j \in Nat
      BY <3>2 DEF PathsTo
    <3> DEFINE where == {j \in PathArguments("-L") : l \in Present[DirectoryOf(argv[j].val)]}
    <3>5. k \in where /\ \A j \in where : k <= j
      <4>1. \A j \in where : ~(j < k) /\ j \in Nat /\ k \in Nat
        BY <3>3, <3>4 DEF DirectoryGiven
      <4>2. k \in where
        BY <3>3 DEF DirectoryGiven
      <4> HIDE DEF where
      <4> QED BY <4>1, <4>2
    <3> QED BY <2>3, <3>1, <3>3, <3>5 DEF DirectoryGiven
  <2> QED BY <2>2, <2>3
<1> QED BY <1>1, ConfigInvariant, PTL

=============================================================================
