-------------------------------- MODULE JIT --------------------------------
(***************************************************************************)
(* The symbol table behind JIT.cpp: one ORC JITDylib to which the REPL     *)
(* adds modules, from which it removes the functions it redefines, and in  *)
(* which it looks symbols up.  ORC links lazily: adding a module only      *)
(* records its symbols; a symbol is materialised by the first lookup that  *)
(* reaches it, and then everything its code references directly must be    *)
(* found too.  A symbol whose references cannot be found fails, and ORC    *)
(* drops it.                                                               *)
(*                                                                         *)
(* Code refers to another module's symbol y as __imp_y, a cell holding the *)
(* address of y.  No module defines such cells; SymbolGenerator makes one  *)
(* when __imp_y is first looked up, from the y of that moment, and defines *)
(* __imp_y for good: nothing removes it when y is removed.                 *)
(*                                                                         *)
(* The operators work on a record                                          *)
(*   def    : symbol -> the input line whose module defines it now         *)
(*   direct : symbol -> the symbols its code references by name            *)
(*   ready  : the symbols already materialised                             *)
(*   imp    : symbol -> the line whose definition its cell leads to        *)
(* and are free of state, so that one step of the REPL can apply several   *)
(* of them in the order the code does.  ORC itself is a library (LLVM);    *)
(* what it does is modelled from how JIT.cpp and REPL.cpp use it.          *)
(***************************************************************************)
EXTENDS Naturals

EmptyJIT ==
    [def |-> [x \in {} |-> 0], direct |-> [x \in {} |-> {}], ready |-> {},
     imp |-> [x \in {} |-> 0]]

\* JIT::AddModule: the symbols S of a module compiled for line n, each
\* referencing the symbols refs directly.  The code's cantFail aborts when
\* one of them is defined already; Repl guards this operator accordingly.
AddModule(jit, S, n, refs) ==
    [def    |-> [x \in DOMAIN jit.def \cup S |-> IF x \in S THEN n ELSE jit.def[x]],
     direct |-> [x \in DOMAIN jit.def \cup S |-> IF x \in S THEN refs ELSE jit.direct[x]],
     ready  |-> jit.ready,
     imp    |-> jit.imp]

\* JIT::RemoveSymbol, for each of the symbols S.  A symbol that is not found
\* is not an error (REPL.cpp passes over SymbolsNotFound).
RemoveSymbols(jit, S) ==
    [def    |-> [x \in DOMAIN jit.def \ S |-> jit.def[x]],
     direct |-> [x \in DOMAIN jit.def \ S |-> jit.direct[x]],
     ready  |-> jit.ready \ S,
     imp    |-> jit.imp]

\* The symbols defined but not materialised yet.
Pending(jit) == DOMAIN jit.def \ jit.ready

\* The symbols x's code references that have no cell yet: SymbolGenerator looks
\* them up when x is materialised.
Unresolved(jit, x) == jit.direct[x] \ DOMAIN jit.imp

\* What LookupSymbol finds: what is materialised, and every pending symbol
\* whose references, and theirs in turn, have a cell or are defined.  References
\* may be cyclic, hence the largest such set of pending symbols.
Loadable(jit) ==
    jit.ready \cup UNION {S \in SUBSET Pending(jit) :
                              \A x \in S : Unresolved(jit, x) \subseteq S \cup jit.ready}

\* The pending symbols whose materialisation a lookup of S sets off.
Reach(jit, S) ==
    {y \in Pending(jit) :
        \A T \in SUBSET Pending(jit) :
            /\ S \cap Pending(jit) \subseteq T
            /\ \A x \in T : Unresolved(jit, x) \cap Pending(jit) \subseteq T
            => y \in T}

\* SymbolGenerator gives those of Y that have none a cell.
DefineCells(jit, Y) ==
    [def    |-> jit.def,
     direct |-> jit.direct,
     ready  |-> jit.ready,
     imp    |-> [y \in DOMAIN jit.imp \cup Y |->
                    IF y \in DOMAIN jit.imp THEN jit.imp[y] ELSE jit.def[y]]]

\* Successful lookups of the loadable symbols S.
Materialise(jit, S) ==
    LET new == Reach(jit, S)
        j   == DefineCells(jit, UNION {Unresolved(jit, x) : x \in new})
    IN  [def |-> j.def, direct |-> j.direct, ready |-> j.ready \cup new, imp |-> j.imp]

\* The sets of symbols that a failed lookup of bad may drop: bad itself if it
\* was defined, and any of the unloadable symbols its references lead to (how
\* many of them ORC reaches before it gives up is not the REPL's to know).
Dropped(jit, bad) ==
    {E \in SUBSET (Reach(jit, {bad}) \ Loadable(jit)) : bad \in DOMAIN jit.def => bad \in E}

\* A lookup that fails drops E, but what could be found for E's symbols on the
\* way has been materialised and has its cell.
FailLookup(jit, E) ==
    LET found == (UNION {Unresolved(jit, x) : x \in E}) \cap Loadable(jit)
    IN  RemoveSymbols(DefineCells(Materialise(jit, found), found), E)

=============================================================================
