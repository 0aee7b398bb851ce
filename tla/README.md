# A verification project for swift-repl

swift-repl is a Swift REPL and a playground window for Windows. It compiles
each line of Swift with the Swift compiler's libraries and runs it in an LLVM
ORC JIT. This directory holds TLA+ models of it, checked with TLC, and proofs
about them, checked with TLAPS. Paths below are relative to `src/`.

## 1. The system

| component | code | state | operations |
|---|---|---|---|
| REPL | `REPL.cpp`, `swift-repl.cpp` | `m_curr_input_number`, the diagnostic engine's error flag, `m_decl_map`, `m_imports`, `m_fn_ptr_map` | `ExecuteSwift`, called by `main`'s loop or by the playground window; `REPL::Create` and the search paths |
| JIT | `JIT.cpp` | one ORC JITDylib: symbols, their definitions, what is materialised; the `__imp_` cells | `AddModule`, `RemoveSymbol`, `LookupSymbol`, `AddDylib`, `SymbolGenerator` |
| function indirection | `TransformIR.cpp` | `m_fn_ptr_map` (the REPL's), one pointer variable in the JIT per function | `AddFunctionPointers`, `ReplaceFunctionCalls...` |
| AST rewriting | `TransformAST.cpp` | none | the passes of `ModifyAST`, `AddImportNodes` |
| playground document | `swift-playground.cpp`: `struct Playground` | text, text at the last click, `m_min_line`, `m_num_lines`, the REPL | `HandleTextChange`, `RecompileEverything`, `ContinueExecution` |
| playground output | `swift-playground.cpp`: `UpdateOutputTextbox`, `ClearOutputTextBox`, `RedirectStdoutRAII`, the window procedure | stdout buffer, pipe, `g_output_text`, `g_output_text_lock`, the output box | printing, flushing, pumping, clearing |
| live view | `PlaygroundSupport/` | `PlaygroundPage.current.liveView`, child windows of `g_ui` | `didSet` |
| command line, logging | `CommandLineOptions.cpp`, `Logging.cpp` | options, `g_log_opts`, `g_curr_logging_area` | option parsing, `Log`, `ShouldLog` |
| library loading | `LibraryLoading.cpp` | `g_additional_paths`, the libraries loaded | `AddSearchPath`, `SearchForAndLoadLibraryPermanently` |

How they interact. `main` and `WinMain` parse the command line, set up logging
and create REPLs: `main` one, the window one per recompilation. `main` or the
window hands text to `ExecuteSwift`, which runs the front end on it, lets
TransformAST turn it into a list of declarations, and for each declaration in
turn: checks for redeclaration, registers it in `m_decl_map` and `m_imports`,
compiles it to a module of its own, removes the functions it redefines from the
JIT, lets TransformIR redirect calls through pointers, adds the module to the
JIT and sets every function pointer of the session again. At the end it looks
up the function `__repl_<n>`, which holds the line's statements, and calls it.
What this prints goes, in the playground, through a pipe to a second thread
that shows it in a box owned by the first.

What is hard in this code:

* The REPL is sequential, but a session is a long history over five tables
  that are keyed by different names (mangled, unmangled, module) and updated
  at different points. Errors leave the tables between two of those updates:
  an error in one declaration of a line is reported to the loop as success,
  a declaration is registered before it compiles, and one that cannot be
  linked stays among the functions every later line must link.
* ORC links lazily. Whether a symbol can be found depends on what its code
  refers to, at the time of the first lookup. Code that calls a function goes
  through a pointer that is set again after each declaration; code that uses it
  as a value reads a cell that is filled once.
* The order of a line's statements rests on a sort that keeps the order of
  short sequences only, and the sequence grows with the session.
* The playground has two threads, a lock, a bounded pipe and a synchronous
  message between the threads.
* The playground decides from two texts and a line count what still counts as
  executed.
* Options, the logging state and the list of library directories outlive the
  REPLs, of which a playground creates many.

`PROJECT.json` lists every hazard at its line, with the properties that cover
it or the reason none does.

What makes each component correct: user code runs against the current
definition of every function, a line runs as a whole or not at all, in the
order written, no legal line ends or wedges a session, a symbol is never
defined twice, tables agree (REPL, JIT, AST rewriting); output is shown
complete, in order and eventually, without the threads blocking each other
(output); text is executed once, in order, by a REPL that has executed all the
text above it (document); every REPL is set up as the command line says, and
what a program has to say is shown if it was asked for (programs).

## 2. Modules

| module | about | builds on |
|---|---|---|
| `JIT` | the symbol table, as operators | |
| `Repl` | one session | `JIT`; implements `Bindings` |
| `Bindings` | what a session promises, without modules or pointers | |
| `LineOrder` | what the passes of `ModifyAST` do to a line's order | |
| `CommandLine` | options and the logging filter, as operators | |
| `Programs` | `main` and `WinMain` around the REPL | `CommandLine` |
| `OutputPump` | the output path of the playground | implements `Terminal` |
| `Terminal` | what the output box promises, without buffers or threads | |
| `Playground` | text and buttons of the playground | |
| `MCRepl`, `MCPrograms` | symmetry; arguments and files for TLC | |
| `ReplProofs`, `LineOrderProofs`, `OutputPumpProofs`, `PlaygroundProofs`, `ProgramsProofs` | theorems | the module they are named for |
| `ReplBindings` | theorems about `Repl` and its refinement | `ReplProofs` |
| `ProgramsSetUp` | theorems about set-up and libraries | `ProgramsProofs` |

**JIT** is the symbol table as a record (`def`, `direct`, `ready`, `imp`) with
one operator per call. They are operators, not actions, because one step of the
REPL applies several. ORC is a library; the operators model what the calls in
`JIT.cpp` rely on: `AddModule` records symbols without linking; `LookupSymbol`
finds a symbol only if everything reachable through references without a cell
is defined (`Loadable`, a greatest fixed point, since functions may be mutually
recursive), and materialises all of it; a failed lookup drops the symbol and
any of the unloadable symbols it leads to (`Dropped` lists all possibilities).
`DefineCells` is `SymbolGenerator`: the first lookup of `__imp_y` makes a cell
with the address `y` has then, and no one touches it again.

**Repl** (EXTENDS JIT) is one session. A line is three kinds of steps:
`ExitLine`, `RejectLine` or `AcceptLine` (front end, `ModifyAST`, imports);
then one step per declaration, `RejectRedeclaration`, `DeclareWithErrors`,
`DeclareAndLink` or `DeclareAndFailToLink`; then `RunLine`,
`LineFunctionMissing` or `NothingToRun`.

| in the model | in the code |
|---|---|
| `m_curr_input_number`, `hadAnyError`, `m_decl_map`, `m_imports` | the same; `m_imports` counts import nodes per module |
| `m_fn_ptr_map` | its keys; `cell` is what the pointer of each leads to, as the line whose definition it is |
| `m_jit` | the JITDylib, see JIT |
| `prog`, `pos`, `res_fn` | locals of `ExecuteSwift`: the declarations left by `ModifyAST`, the loop's position, `res_fn != nullptr` |
| a declaration's `refs`, `takes` | the symbols its code refers to; the functions it uses as values instead of calling them |
| `InWindow` | `main` stops at `false`, the window ignores the result of `ExecuteSwift` |
| `ran`, `saw` | history: the lines whose function was called, the pointers as the last one found them |

The user's input is any list of function, variable and type declarations that
refer to anything the front end can see, plus any statements, which may also
use functions as values. What the front end does is modelled by the lines it
accepts: `Compatible` (redeclarations in one line) and `Visible` (names that
earlier lines registered, because their modules are imported and all
declarations made public). Signatures stand for mangling: a function's symbol
is `<<name, signature>>`. A name's "method" symbol stands for the functions of a
type. Errors found after the front end (SIL generation and SIL diagnostics) may
occur in any declaration with code.

The order in which `UpdateFunctionPointers` walks the hash table is unknown:
when one function cannot be found, any set of the others may have been updated
before it.

**Bindings** is the abstract specification. A function is bound to the line
that defined it last; a line is entered, defines functions one at a time,
may fail, be given up or run; when it runs its code sees all bindings as they
are. A failure may lose functions (ORC drops them), but none that code has been
able to see, unless it is the one being redefined. `Repl`'s `RefinesBindings`
maps `binding` to the JIT's definitions of functions and `saw` to what the
pointers led to: that both agree is what the indirection is for.

**LineOrder** follows one line through `AddImportNodes`,
`CombineTopLevelDeclsAndMoveToBack`, `TransformFinalExpressionAndAddGlobal`,
`WrapInFunction` and `LoadImportedModules`, and the number of imports from line
to line. `Sorts` is what `std::sort` may do: any permutation that moves code
behind declarations, except that it keeps the order when there are no more than
`Threshold` elements (the libraries' insertion sort) or nothing needs to move.

**CommandLine** has one operator per option handler; an argument is a record
of its parts, as `ParseSingleCommandLineOption` splits it. **Programs** has the
two programs: parsing one argument per step, logging, the REPL's creation
and its search paths, `main`'s prompt, `GetLine` and `ExecuteSwift` as far as a
caller sees it, the window's clicks, libraries linked by accepted lines, and
every message logged meanwhile with its area and whether it is shown. `log`
holds the messages of the last step. The area is set by `SetCurrentLoggingArea`
at the places the code does, and stays as the last of them left it. A library
is asked for by its bare name first, for the system's loader to find
(`OnSystem`; the readme has the user put swift-win32 on `PATH`), then in the
list of directories (`FileOf`). A directory gets on the list through
`AddLibrarySearchPath` (`DirectoryOf`), which resolves links (`RealPath`) and, as
the error of `real_path` is ignored, makes a path that is not there the current
directory.

**OutputPump** is the output path. `ui` and `pump` are the program counters of
the window thread and of `UpdateOutputTextbox`; stdio, pipe, buff,
`g_output_text` and `box` are the places a unit of output passes through.
`Edit_SetText` from the pump is `SendMessage` to a window of the other thread,
which `SetText` handles only in `GetMessage` (`ui = "idle"`); the box's
EN_CHANGE makes the window procedure flush stdout before `AnswerPump` lets the
pump go on. Typing flushes too, through the change of the line numbers' box
(`TypeText`); user code that a live view runs from the message loop
(`Callback`) does not. `ClearOutputTextBox` sets the box's text under the lock from
the window thread, which makes the window procedure run its last branch,
`fflush(stdout)`: state "clear". The runtime's buffer is written out at these
flushes, when it is full and whenever user code flushes it (`Spill`). Units are
numbered in the order printed. `RedirectStdoutRAII` logs a failure to create the
pipe and starts the pump all the same; `pipeCreated` says which it was. Without
a pipe, output goes elsewhere and `ReadFile` fails at once, setting `bytes_read` to
0; the loop looks at neither (`PumpReadFails`). The module is the playground
without `--print_to_console`.

**Terminal** is the abstract specification of that path: units are printed, the
next few are shown, the box is cleared. `OutputPump`'s `RefinesTerminal` maps
`shown` to the number of units that have left stdio, pipe and `buff` and are not
in `g_output_text` ahead of the box: a unit is shown when the window thread sets
the box's text, and every step of the buffers and of the lock is a stutter.

**Playground** is the document: `HandleTextChange`, `RecompileEverything`,
`ContinueExecution` on sequences of characters. `executed` (all text the
present REPL was given) and `stops` (where each click stopped) are history.
`\r` never occurs: the rich edit control separates lines with `\r\n` and the
code removes every `\r`.

`Playground`, `Repl` and `Programs` meet at `ExecuteSwift`: `Repl` says what a
text does, `Playground` which text it is, `Programs` which REPL gets it.

Definitions whose comments begin "Slip:" are wrong versions of the definition
that follows them. No specification uses them; they record which plausible
mistake each property would catch.

## 3. Runs

| run | configuration | checks | shows |
|---|---|---|---|
| functions | `MCReplFunctions.cfg`: REPL mode, functions a and b, 3 lines of up to 2 declarations, 1 reference each | `ReplInv` `RunsOnCurrentDefinitions` `RunsWholeLine` `ExitOnlyOnRequestOrError` `WedgeIsPermanent` `CallsGoThroughPointers` `RefinesBindings` | `test_functions_repl.test` for every session: a, b calling a, a redefined, and all failures in between; a session implements Bindings |
| playground | `MCReplPlayground.cfg`: playground window, a and b, functions, variables, types, 2 lines, 1 function used as a value | `AddModuleCannotFail` `ValuesAreCurrent` `NeverRedefined` | no symbol is defined twice, `test_functions_playground.test` for every session; no value is stale |
| overloads | `MCReplOverloads.cfg`: REPL mode, one name, two signatures, functions and types, one library, 3 lines | `ReplInv` `OnlyFunctionsShareAName` `RegisteredIsImported` `ImportsDouble` `NeverRedefined` | the tables agree; how often modules are imported |
| line_runs | `MCReplLineRuns.cfg`: as functions | `AcceptedLineRuns`, violated | an accepted line need not run |
| line_order | `LineOrder.cfg`: 2 lines of up to 4 items, threshold 3 | `ResultIsLastExpression`, violated | the value printed need not be the last expression's |
| line_order_short | `LineOrderShort.cfg`: 2 lines of up to 3 items, threshold 5 | `ShortLinesKeepTheirOrder` `EachOnce` | below the threshold it is, and statements keep their order; above it, too, everything runs or is kept once |
| pump_safety | `OutputPump.cfg`: pipe and buffers of 2 units, or no pipe, 7 units, 3 clicks, a live view | `TypeOK` `OutputInOrder` `BoxShowsText` `OnlyKnownCycles` `DeadlocksLast` `EveryStepHelps` `RefinesTerminal` | output is in order and complete up to where it is; the three deadlocks are all there are, and last; with a pipe the threads do not keep each other busy for nothing, and without one the failing read alone keeps the pump busy; the box is a terminal |
| pump_delivery | `OutputPumpDelivery.cfg`: pipe of 5, 5 units, 3 clicks, no recompiling, no live view | `NothingHeldBack` `AllOutputShown` | every handler flushes; delivery, when the pipe holds all output |
| pump_small_pipe | `OutputPumpSmallPipe.cfg`: pipe of 2 | `AllOutputShown`, violated | a click that prints more than the pipe holds can hang the program |
| playground_text | `Playground.cfg`: texts of up to 4 characters over {x, y, newline} | `TypeOK` `ContinuesWithAREPL` `ExecutedLinesStand` `SkippedOnlyAtStops` | what was executed still stands when execution continues; what continuing leaves out |
| programs | `MCPrograms.cfg`: 2 of 15 arguments, 3 lines of input or 2 clicks, three libraries, one of them the system's, three directories, one broken file, a link, a missing path | `TypeOK` `ShownAsAsked` `EveryReplIsConfigured` `SystemThenFirstPath` `StopsAreExplained` `ExitEnds` `PromptsForEver` | options, logging, set-up and libraries over the life of a program; how a session ends or does not |
| named_areas | `MCProgramsAreas.cfg`: as programs, 1 line or click | `NamedAreasOnly`, violated | naming logging areas restricts nothing |

Bounds. Three lines suffice to define a function, use it and redefine it, or
fail, retry and use; two declarations a line give forward references, mutual
recursion and a failure between two of them. One reference per declaration is
enough for chains and cycles, as the line function also refers to the line's
variables. Two names, two signatures or three kinds are used where the run
is about them; `User` and `Sig` are symmetric. Values are taken in the
playground run, where none may go stale; outside playgrounds a function can be
redefined after it has been taken, and the other properties do not depend on
that. Two lines of up to four items make the second line's declarations, with
the first line's imports, exceed the threshold; the real one (32) needs a few
lines more, as imports double. Every buffer of the pump holds
two units, the least that tells full, partly full and empty apart, and what is
printed exceeds all of them together. Four characters hold three
lines, or two lines with one extended. Two arguments are the least that repeat
or contradict each other, or give two directories of which the first has a
broken file, or a missing one before a good one; two clicks are a recompilation
after a recompilation.
`CHECK_DEADLOCK FALSE` stands where sessions end (exit, the bound on lines or
clicks, user code that never returns) and, for the pump, where the code
does block for ever or the user clicks no more; `OnlyKnownCycles` replaces the
check there. `Playground` never stops.

Fairness. `FairSpec` of OutputPump assumes that each of the two threads takes
a step if it stays able to, as the operating system's scheduler provides, and
that user code and its printing end (the bound on units sees to that). `SetText`
is strongly fair: `GetMessage` handles messages sent by other threads before it
fetches input, so a user who types for ever does not keep the pump waiting.
Nothing is assumed of the user. `FairSpec` of Programs assumes only that `main`,
which has one thread and blocks on nothing but its input, goes on; input is
there from the start, and user code may still never return. The window of
Programs has no fairness. The other modules state safety only.

## 4. What the runs found

* `AcceptedLineRuns` (line_runs). The comment above `ModifyAST` says the
  line's function is later looked up and called. The declarations of a line
  are linked one by one in the order written, so a function that refers to a
  type or calls a function declared after it on the same line cannot
  be linked, the line is given up, and its statements do not run. In a
  playground the text is one line, so the order of functions in it matters.
* If the declaration that fails to link is `__repl_<n>` itself, it stays in
  `m_fn_ptr_map`; every later line must link it first and no line can define
  it again. `WedgeIsPermanent` states that nothing runs any more. A session
  gets there by a line whose statements use something that was registered but
  never compiled.
* `ResultIsLastExpression` (line_order). The comment above `ModifyAST` speaks
  of the last expression. Once the declarations of a line, with the imports of
  all lines before it in front, are more than `std::sort` keeps in order,
  statements may change places and another expression, or none, is last.
  `ShortLinesKeepTheirOrder` is what remains true of the order; of the contents
  `EachOnce` remains, for lines of any length: no statement is lost or run twice.
* `AllOutputShown` (pump_small_pipe). The comment at `CreatePipe` takes the
  effect of a small pipe for slowness. It is a deadlock, which a larger pipe
  only makes rarer. `OnlyKnownCycles` names the ways to block: `LockCycle` (a
  recompilation wants the lock the pump holds while the pump waits for the
  window thread), `PipeCycle` and `FlushCycle`. The first needs no full pipe:
  any recompilation with output still under way can hang. None of them ends:
  from then on no click is taken and the box stays as it is (`DeadlocksLast`).
* `NamedAreasOnly` (named_areas). `Logging.h` says to set the bits of the areas
  one wants. The options start with all of them set and only add to them, so
  the area test hides nothing that has an area. `ShownAsAsked` states the rule
  that does hold: the last recognised priority alone decides, and by
  default nothing is shown, errors included.
* What `WinMain` and `RedirectStdoutRAII` log comes before any area is set, and
  so is never shown whatever the options (also `ShownAsAsked`).
* `NothingHeldBack` holds without a live view only. What a live view's code
  prints stays in the C runtime's buffer until the next click, key or other
  output; no document says when it should appear.
* `ImportsDouble`: the number of import nodes doubles with each accepted line.
  The property compares the lines that ran: each is imported at least twice as
  often as any that ran after it, so one with k lines after it at least 2^k times.
* `SkippedOnlyAtStops` is as much as can be said of "continue": text appended
  to the very line where execution stopped is never executed, and is
  afterwards taken for executed.
* `ValuesAreCurrent` holds where nothing is redefined. In the REPL a function
  taken as a value before its redefinition keeps leading to the old one, for all
  later lines that take it.
* `SystemThenFirstPath`: a library the system finds by its name comes from there,
  so that no `-L` can replace it. For the others the list of directories grows
  with every recompilation, without effect on which file is chosen; a broken
  file in the first directory that has one hides a good file in the next, and a
  `-L` with a misspelt directory searches the current one in its place.
* `EveryStepHelps` excepts one step: if the pipe could not be created, the pump
  reads, fails and sets the box's text to what it was, for as long as the
  program runs. The failure was logged, but before any area was set, so no one is
  told.
* `StopsAreExplained`: who asks for messages of any priority is shown the error
  that ends the program, but for the window that could not be opened.
* `PromptsForEver`: at the end of its input, `swift-repl` prompts in a loop.
  A session fed from a file ends only by an exit line or an error.
* An argument with `=` is put in small letters as a whole: the module cache
  path loses its case, and a `-I`, `-L` or `-F` path with `=` in it is not
  recognised. No document says otherwise and no property speaks of it:
  `EveryReplIsConfigured` is about paths without a `=`.

## 5. Proofs

All theorems are for every value of the constants, from the assumptions named in
the modules, none of which restricts more than kinds of values (bounds and sizes
are numbers, modes Booleans and the window a playground, generated names are not
the user's and not those of libraries, a newline is no other character, every
directory has a set of libraries' files, which may be empty, every path that
leads anywhere leads to a directory, and so is the current directory one).

**ReplProofs**: any names, signatures, libraries and kinds, either mode and
caller, sessions and lines of any length.

| theorem | property |
|---|---|
| `TypeCorrect` | `TypeOK` (a conjunct of `ReplInv`) |
| `LoopInvariant` | `ReplInv` |
| `CurrentDefinitions` | `RunsOnCurrentDefinitions` |
| `WholeLine` | `RunsWholeLine` |
| `ExitCause` | `ExitOnlyOnRequestOrError` |
| `WedgedForEver` | `WedgeIsPermanent` |
| `NoDuplicateSymbols` | `AddModuleCannotFail` |
| `NoRedefinition` | `NeverRedefined` |
| `NamesNotMixed` | `OnlyFunctionsShareAName` |
| `ImportsComplete` | `RegisteredIsImported` |
| `CopiesDouble` | `ImportsDouble` |

User code runs only in `RunLine`. That needs the lookup of
`__repl_<n>` to succeed, and nothing in the code checks that the
line had no error; the proof must show that success implies it. `ReplInv` says
why: `__repl_<n>` is the line's last declaration (`ProgInv`); no symbol of a
line function exists before its line, and the one of the current line exists
only if the loop has met it without error (`LineFnInv`); and as long as there
is no error everything the loop has passed is linked, with every pointer of
the session at its current definition (`LinkInv`). So if the function is
found, the whole line was linked and the last `UpdateFunctionPointers` ran to
its end after the last module was added. `TypeOK` alone is inductive; the
other three parts need each other, and each is checked as an invariant of the
runs functions and overloads before being proved. The theorems from
`NoDuplicateSymbols` on need facts about the tables, defined with their lemmas:
data symbols in the JIT are registered (`DataRegistered`), keys with a
signature stand for functions (`TableNames`), table and JIT agree on kinds
(`KindsAgree`). `ImportsDouble` speaks of lines that ran; inductive is
`DoublingInv`, which speaks of every line whose function is registered, and
says that its imports are at least two from the next accepted line on, so that
the single one `Register` adds for a new line is half of them at most. That a
line which runs is among them uses `RegisteredIsImported`.

**ReplBindings** builds on those.

| theorem | property |
|---|---|
| `CallsAreIndirect` | `CallsGoThroughPointers` |
| `CurrentValues` | `ValuesAreCurrent` |
| `BindingsImplemented` | `RefinesBindings` |

`PointerInv` (exactly functions have pointers, and every function that is
defined has one) makes every call an indirect one. `ValueInv` follows a cell
from its making: where nothing is redefined the symbol stays and so does its
line. The refinement needs `SawInv`: a function that code has seen at its
present definition is materialised, hence loadable, hence not among those a
failed lookup may drop; that is `Bindings`' promise about failures. Each action
of `Repl` is shown to be one action of `Bindings` or a stutter
(`RefinementStep`).

**LineOrderProofs**: any threshold, lines and numbers of lines. `ShortLines`
proves `ShortLinesKeepTheirOrder`. A permutation that never swaps two
elements of a kind keeps the order among code (`CombinedInv`: the combined code
is exactly the line's code, in order), from which the last of it is the line's
last code.

`NothingLost` proves `EachOnce` with no bound on the line. `Sorts` only says that
every declaration is reached from some place of the sorted list; that it is
reached from one only (`SortsOnce`) is the pigeonhole principle, from the
library's theorems on finite sets. Each pass is then followed for one piece of
the line (`CombineOnce`, `FinalOnce`, `WrapOnce`); what the passes add is told
from it by its place in the line, which is 0 (`OnceBesides`).

**OutputPumpProofs**: buffers and a pipe of any size, any number of units,
clicks and callbacks.

| theorem | property |
|---|---|
| `TypeCorrect` | `TypeOK` |
| `InOrder` | `OutputInOrder` |
| `BoxIsCurrent` | `BoxShowsText` |
| `EverythingFlushed` | `NothingHeldBack` |
| `NoOtherCycle` | `OnlyKnownCycles` |
| `CyclesAreFinal` | `DeadlocksLast` |
| `NothingForNothing` | `EveryStepHelps` |
| `AtRestAllIsShown` | |
| `ShowsLikeATerminal` | `RefinesTerminal` |

`OutputInOrder` speaks of the concatenation of four places; the inductive
`OrderInv` says of each place that it holds a run of units ending where the
next place begins (`EndsAt`), so that each step moves the border between two
runs (`ConcatRun`); without a pipe, all places behind the runtime's buffer stay
empty (`EmptyInv`). `LockInv` says who holds the lock in which states, which is
what keeps clearing out of the pump's critical section, and what leaves no fourth
way to wait: if both threads wait, the lock's holder is known from where they
stand. For the refinement the box must be the beginning of `g_output_text` at
all times (`PrefixInv`), also between the pump's append and the window's answer;
then what setting the box adds is the next units in order (`TerminalStep`).

Delivery is a liveness property, and fails with a small pipe. What can be proved
short of fairness is all that it takes. `EveryStepHelps` gives a measure, `ToDo`:
a place in the handler or the pump counts the steps from there to rest, a unit in
the pipe 5 (one round of the pump and the answer to it), a unit in the runtime's
buffer 6 (its write in addition). Every step of the two threads other than
printing and writing out a buffer lowers it, except the failing read of a pump
without a pipe. So with a pipe they come to rest after at most `ToDo` such steps
unless someone clicks, types or prints. `OnlyKnownCycles` says where they rest, and
`AtRestAllIsShown` that, outside the three deadlocks, there is a pipe and all that
left the runtime's buffer has been shown, which without a live view is all that
was printed.
What fairness adds is that a thread that can step does.

**PlaygroundProofs**: any characters and texts of any length.

| theorem | property |
|---|---|
| `TypeCorrect` | `TypeOK` |
| `ContinueHasREPL` | `ContinuesWithAREPL` |
| `ExecutedStands` | `ExecutedLinesStand` |
| `SkippedOnlyThere` | `SkippedOnlyAtStops` |

The code compares whole texts and counts newlines; the properties are about
lines. `ExecutedInv` joins them: the text at the last click is a prefix of the
present one, it has as many lines as were executed, and each of its lines
starts with what was executed of it. The lemmas say what a prefix and an
appended text do to lines and to the positions of newlines.

**ProgramsProofs**: any arguments, directories and libraries, command lines and
sessions of any length.

| theorem | property |
|---|---|
| `ShownExactly` | `ShownAsAsked` |
| `StopsExplained` | `StopsAreExplained` |

`ParseInv` follows the options argument by argument: the priority is that of
the last argument so far that sets one, and no argument ever takes an area away
(`Options` has `log_areas` always all). `LogInv` says that after parsing the
options in force are those. `StopsAreExplained` needs that the messages of each
failing step end in an error, logged in some area, whatever came before them
(`Tells`), and that only `main` prompts: the one stop of the window program that
counts as ended is the window that could not be opened (`StopInv`). That the
error is then shown to who asked is `ShownAsAsked`.

**ProgramsSetUp** builds on those.

| theorem | property |
|---|---|
| `TypeCorrect` | `TypeOK` |
| `EveryREPLConfigured` | `EveryReplIsConfigured` |
| `FirstPath` | `SystemThenFirstPath` |

The properties speak of positions of arguments, the program of lists built one
argument at a time, lower-cased where they hold a `=`, and copied to every REPL.
`PathsInv` counts: while the first n arguments are parsed, the path of each
stands in its list at the number of such arguments up to it. `ModeInv` does the
same for the last word on `--playground`, and `SetUpInv` carries both from the
options to the REPL that is in use, the tenth like the first. For libraries the
length of `g_additional_paths` is unbounded in the number of recompilations;
`LibraryInv` says that its first directory with a given file is that of the
options, to which appending the same list again changes nothing, and that what
is loaded came from the system or from there (`Origin`); `LinksInv` says that the
options' first is the command line's first. Paths become directories one by one,
so that a path added to the options adds its directory to the list
(`DirectoriesAppend`).

Only model-checked: the liveness properties `AllOutputShown`, `ExitEnds` and
`PromptsForEver`; the prover does not reach liveness under fairness, nor `ENABLED`. The violated
properties have no theorem, of course. Every other property of a run is a
theorem.

## 6. Assumptions, and what is not modelled

* LLVM is built without checks for unhandled `llvm::Error`s. With them the
  program would abort where `DeclareAndFailToLink` and `LineFunctionMissing`
  go on, as the code drops those errors. Assertions are off (the readme builds
  RelWithDebInfo).
* Functions are taken as values by statements (`takes`), at most `MaxTakes` of
  them; a function's body that takes another is not distinguished from one that calls it.
* `Repl` keeps the order of a line's statements; `LineOrder` is about when the
  code does not. A line in `LineOrder` registers each declaration as new.
* `Repl` starts with a REPL that was created; that creation may fail is in
  `Programs`. In the window a failure is logged and the result used: "crashed".
* User code runs no message loop while the window executes it, so window
  handlers are not nested. Nothing in the repository makes it run one.
* Imports of a library only count in `m_imports`; its symbols are found
  outside the session's own JIT symbols. Files, the current directory and what
  the system's loader finds do not change while a program runs.
* The values of arguments with a `=` are given in small letters, as they are once
  `ParseSingleCommandLineOption` has lowered them.
* Without a pipe, `_dup2` is given a descriptor that is none. `Programs` and
  `OutputPump` let the program go on, as the code means it to; the C runtime's
  handler of invalid parameters may instead end it there.
* `Programs` accepts or rejects a line without regard to its content; `Repl`
  says when which happens.
* The window ignores the module cache default that `main` uses; nothing in the
  model depends on it.
* Live views (`PlaygroundSupport/`): thirty lines that set parents and styles of
  windows and destroy them. Their state is that of Win32 and SwiftWin32: which
  windows a `View` owns, and what happens to it when its parent goes. What the
  repository adds is listed under the hazards (a handle that outlives its
  window; assigning the same view again); a model would have to invent the
  rest. Code that live views run later is in `OutputPump`.
* Layout, fonts, painting, the label of the button, compiler options set up
  once in the REPL's constructor, the diagnostics' wording, and build files
  have no state the properties depend on.

## 7. What could follow

* Handlers nested through a message loop of user code, should a live view's
  library come to run one: `Playground` and `OutputPump` would then have to be
  composed.
* A model of SwiftWin32's windows, as the base of one of live views.
