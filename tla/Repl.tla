-------------------------------- MODULE Repl --------------------------------
(***************************************************************************)
(* One REPL session: swift-repl.cpp's loop around REPL::ExecuteSwift, or   *)
(* the calls of it that the playground window makes.                       *)
(*                                                                         *)
(* A line of Swift goes through the front end (parse, name binding, type   *)
(* check), is rewritten by ModifyAST into a sequence of declarations whose *)
(* last one is the function __repl_<n> holding the line's statements, and  *)
(* each declaration is then registered, compiled into a module of its own, *)
(* added to the JIT and linked, one after the other.  At the end the JIT   *)
(* is asked for __repl_<n> and the function is called.                     *)
(*                                                                         *)
(* Names.  A symbol is a pair <<identifier, tag>>: the tag is a signature  *)
(* for the mangled name of a function, "plain" for an unmangled name and   *)
(* for the data symbol of a variable or type, "method" for a type's        *)
(* methods.  The content of a function is the set of symbols it refers to  *)
(* and, apart, the functions it takes as values instead of calling them.   *)
(***************************************************************************)
EXTENDS Integers, Sequences, FiniteSets, JIT

CONSTANTS
    User,           \* identifiers the user may declare
    Sig,            \* function signatures: functions overload by signature
    Lib,            \* library modules a line may import
    Kinds,          \* kinds of user declaration, a subset of {"func", "var", "type"}
    IsPlayground,   \* m_is_playground
    InWindow,       \* does the playground window call ExecuteSwift
    MaxLines,       \* bound: input lines of a session
    MaxDecls,       \* bound: user declarations on a line
    MaxRefs,        \* bound: symbols one declaration refers to
    MaxTakes        \* bound: functions the statements of a line use as values

\* Slip: a module name without the line number.
LineId_Fixed(n) == <<"__repl_", 1>>

LineId(n) == <<"__repl_", n>>         \* the identifier __repl_<n>
ResId(n)  == <<"__repl_res_", n>>     \* the identifier __repl_<n>_res

Lines == 1 .. MaxLines + 1            \* values of m_curr_input_number

ASSUME BoundsAssumption ==
    /\ MaxLines \in Nat
    /\ MaxDecls \in Nat
    /\ MaxRefs \in Nat
    /\ MaxTakes \in Nat
ASSUME ModeAssumption ==
    /\ IsPlayground \in BOOLEAN /\ InWindow \in BOOLEAN
    /\ InWindow => IsPlayground
    /\ Kinds \subseteq {"func", "var", "type"}
ASSUME NamesAssumption ==
    /\ \A n \in Lines : LineId(n) \notin User /\ ResId(n) \notin User
    /\ {"plain", "method", "()"} \cap Sig = {}

Tags == Sig \cup {"plain", "method", "()"}
Ids  == User \cup {LineId(n) : n \in Lines} \cup {ResId(n) : n \in Lines}
Name == Ids \X Tags
Decl == [id : Ids, sig : Sig \cup {"()"}, kind : {"func"}, refs : SUBSET Name, takes : SUBSET Name]
            \cup [id : Ids, sig : {"plain"}, kind : {"var", "type"}, refs : SUBSET Name,
                  takes : SUBSET Name]

Plain(id)  == <<id, "plain">>
LineFn(n)  == <<LineId(n), "()">>     \* the mangled name of __repl_<n>

\* The libraries are other modules than those ExecuteSwift makes of the lines.
ASSUME LibAssumption == \A n \in Lines : LineFn(n) \notin Lib

\* The key of m_decl_map that names the declaration's own module.
Key(d) == IF d.kind = "func" THEN <<d.id, d.sig>> ELSE Plain(d.id)

\* The functions, and all the symbols, that d's module defines.
Fns(d) == IF d.kind = "func" THEN {<<d.id, d.sig>>}
          ELSE IF d.kind = "type" THEN {<<d.id, "method">>} ELSE {}
Symbols(d) == Fns(d) \cup (IF d.kind = "func" THEN {} ELSE {Plain(d.id)})

IsFunction(x) == x[2] # "plain"

Null == 0   \* the initial content of a function pointer

VARIABLES
    phase,                \* where ExecuteSwift stands: "prompt" (not running), "decls", "exited"
    m_curr_input_number,  \* number of the current line
    hadAnyError,          \* the diagnostic engine's flag
    prog,                 \* the line's declarations after ModifyAST
    pos,                  \* the declaration the loop is at
    res_fn,               \* has the loop met __repl_<n>
    m_decl_map,           \* name -> kind of the declaration registered under it
    m_imports,            \* module -> how many import nodes of it m_imports holds
    m_fn_ptr_map,         \* the functions called through a pointer
    m_jit,                \* the symbol table, see module JIT
    cell,                 \* function -> the definition its pointer leads to
    ran,                  \* history: the lines whose __repl_<n> was called
    saw                   \* history: the pointers as the last of them found them

lineVars == <<prog, pos, res_fn>>
declVars == <<m_decl_map, m_imports>>
linkVars == <<m_fn_ptr_map, m_jit, cell>>
history  == <<ran, saw>>
vars == <<phase, m_curr_input_number, hadAnyError, lineVars, declVars, linkVars, history>>

-----------------------------------------------------------------------------
(* Input lines *)

\* A user declaration without its content.
Heads == [id : User, sig : Sig, kind : Kinds \cap {"func"}]
             \cup [id : User, sig : {"plain"}, kind : Kinds \ {"func"}]

\* The front end's redeclaration check within one line: two declarations
\* share an identifier only as overloads of a function.
Compatible(heads) ==
    \A i, j \in DOMAIN heads :
        i # j /\ heads[i].id = heads[j].id =>
            /\ heads[i].kind = "func" /\ heads[j].kind = "func"
            /\ heads[i].sig # heads[j].sig

\* What earlier lines registered is imported through m_imports, and so the
\* front end lets a line refer to it, whether or not it was ever compiled.
Visible ==
    {x \in DOMAIN m_decl_map :
        x[1] \in User /\ (m_decl_map[x] = "func" => x[2] # "plain")}
    \cup {<<u, "method">> : u \in {u \in User :
             Plain(u) \in DOMAIN m_decl_map /\ m_decl_map[Plain(u)] = "type"}}

RefSets(S) == {R \in SUBSET S : Cardinality(R) <= MaxRefs}

\* Functions that statements use as values, as in [1, 2].map(f).
TakeSets(S) == {T \in SUBSET {x \in S : x[2] \in Sig} : Cardinality(T) <= MaxTakes}

\* If the last statement is an expression with a value, a variable for it.
ResVar(n) == [id |-> ResId(n), sig |-> "plain", kind |-> "var", refs |-> {}, takes |-> {}]

\* The statements, wrapped in the function __repl_<n>.
LineFunction(n, refs, takes) ==
    [id |-> LineId(n), sig |-> "()", kind |-> "func", refs |-> refs, takes |-> takes]

\* The variables whose initial values, being statements, move to the back of
\* the line with the others.
Initialised(decls) == {Plain(decls[i].id) : i \in {i \in DOMAIN decls : decls[i].kind = "var"}}

\* The declarations ModifyAST leaves for line n, __repl_<n> last.
ModifyAST(n, decls, top, refs, takes) ==
    IF top = "none" THEN decls
    ELSE IF top = "stmt" THEN Append(decls, LineFunction(n, refs \cup Initialised(decls), takes))
    ELSE <<ResVar(n)>> \o Append(decls,
             LineFunction(n, refs \cup Initialised(decls) \cup {Plain(ResId(n))}, takes))

-----------------------------------------------------------------------------
(* Actions *)

Init ==
    /\ phase = "prompt"
    /\ m_curr_input_number = 1
    /\ hadAnyError = FALSE
    /\ prog = <<>> /\ pos = 1 /\ res_fn = FALSE
    /\ m_decl_map = [x \in {} |-> "func"]
    /\ m_imports = [x \in {} |-> 0]
    /\ m_fn_ptr_map = {}
    /\ m_jit = EmptyJIT
    /\ cell = [x \in {} |-> Null]
    /\ ran = {}
    /\ saw = cell

\* What ExecuteSwift does first, with any line.
ReadLine ==
    /\ phase = "prompt"
    /\ m_curr_input_number <= MaxLines
    /\ m_curr_input_number' = m_curr_input_number + 1

\* ExecuteSwift returns; its locals are gone.  The loop in swift-repl.cpp goes
\* on while the result is true, the playground window ignores it.
ReturnTrue  == phase' = "prompt" /\ prog' = <<>> /\ pos' = 1 /\ res_fn' = FALSE
ReturnFalse ==
    /\ phase' = IF InWindow THEN "prompt" ELSE "exited"
    /\ prog' = <<>> /\ pos' = 1 /\ res_fn' = FALSE

\* "e" or "exit".
ExitLine ==
    /\ ReadLine
    /\ hadAnyError' = FALSE
    /\ ReturnFalse
    /\ UNCHANGED <<declVars, linkVars, history>>

\* A line with an error the front end finds.  That SourceFile cannot be made,
\* the one other early return, is left out: its new never gives a null pointer.
RejectLine ==
    /\ ReadLine
    /\ hadAnyError' = TRUE
    /\ ReturnTrue
    /\ UNCHANGED <<declVars, linkVars, history>>

Copies(x) == IF x \in DOMAIN m_imports THEN m_imports[x] ELSE 0

\* Slip: LoadImportedModules called before AddImportNodes.
CopiesFound_OwnOnly(x) == Copies(x)

\* AddImportNodes puts every node of m_imports in front of the line's own
\* declarations, and LoadImportedModules then appends every import node it
\* finds there, the ones just added included, to m_imports.
CopiesFound(x) == 2 * Copies(x)

LoadImportedModules(libs) ==
    m_imports' = [x \in DOMAIN m_imports \cup libs |->
                     CopiesFound(x) + IF x \in libs THEN 1 ELSE 0]

\* A line the front end accepts: declarations, statements (top) with what
\* they refer to, and imports.  The initial value of a variable is a statement.
AcceptLine ==
    /\ ReadLine
    /\ hadAnyError' = FALSE
    /\ \E k \in 0 .. MaxDecls : \E heads \in [1 .. k -> Heads] :
         /\ Compatible(heads)
         /\ LET known == Visible \cup UNION {Symbols(heads[i]) : i \in 1 .. k}
            IN  \E content \in [1 .. k -> RefSets(known)], top \in {"none", "stmt", "expr"},
                   refs \in RefSets(known), takes \in TakeSets(known) :
                  /\ top = "none" => refs = {} /\ takes = {} /\ \A i \in 1 .. k : heads[i].kind # "var"
                  /\ prog' = ModifyAST(m_curr_input_number',
                                 [i \in 1 .. k |-> [id |-> heads[i].id, sig |-> heads[i].sig,
                                                    kind |-> heads[i].kind, refs |-> content[i],
                                                    takes |-> {}]],
                                 top, refs, takes)
    /\ \E libs \in SUBSET Lib : LoadImportedModules(libs)
    /\ phase' = "decls" /\ pos' = 1 /\ res_fn' = FALSE
    /\ UNCHANGED <<m_decl_map, linkVars, history>>

\* The loop over the declarations of the line.
AtDecl == phase = "decls" /\ pos \in DOMAIN prog
AtEnd  == phase = "decls" /\ pos \notin DOMAIN prog

\* Slips: no check of variables and types; none in playgrounds; no check that
\* the other declaration is a function.
Redeclared_FunctionsOnly(d) ==
    d.kind = "func" /\ Plain(d.id) \in DOMAIN m_decl_map /\ m_decl_map[Plain(d.id)] # "func"
Redeclared_NoPlayground(d) ==
    Plain(d.id) \in DOMAIN m_decl_map /\ (d.kind = "func" => m_decl_map[Plain(d.id)] # "func")
Redeclared_AnyKind(d) == d.kind # "func" /\ Plain(d.id) \in DOMAIN m_decl_map

Redeclared(d) ==
    IF d.kind = "func"
    THEN \/ Plain(d.id) \in DOMAIN m_decl_map /\ m_decl_map[Plain(d.id)] # "func"
         \/ IsPlayground /\ Key(d) \in DOMAIN m_decl_map
    ELSE Plain(d.id) \in DOMAIN m_decl_map

\* "Invalid redeclaration": the line ends here; what the declarations before
\* this one registered and defined stays.
RejectRedeclaration ==
    /\ AtDecl
    /\ Redeclared(prog[pos])
    /\ ReturnTrue
    /\ UNCHANGED <<m_curr_input_number, hadAnyError, declVars, linkVars, history>>

\* Slip: the import is decided by the unmangled name.
IsNew_Unmangled(d) == Plain(d.id) \notin DOMAIN m_decl_map

\* A name the session has not seen gets an import node of its own.
IsNew(d) == Key(d) \notin DOMAIN m_decl_map

\* Registration precedes compilation.
Register(d) ==
    /\ m_decl_map' = [x \in DOMAIN m_decl_map \cup {Plain(d.id), Key(d)} |->
                         IF x \in {Plain(d.id), Key(d)} THEN d.kind ELSE m_decl_map[x]]
    /\ m_imports' = IF IsNew(d)
                    THEN [x \in DOMAIN m_imports \cup {Key(d)} |->
                             Copies(x) + IF x = Key(d) THEN 1 ELSE 0]
                    ELSE m_imports

\* Slip: the flag is reset for every declaration.
ErrorAfterDecl_Reset == FALSE

\* Nothing resets the diagnostic engine's flag before the next line.
ErrorAfterDecl == TRUE

\* CompileSourceFileToIRAndAddToJIT finds an error in SILGen or in the SIL
\* diagnostic passes, now or in an earlier declaration of the line.  It
\* returns true, as on success: the loop goes on, but nothing of this line is
\* compiled any more.  Only code can have such an error.
DeclareWithErrors ==
    /\ AtDecl
    /\ LET d == prog[pos]
       IN  /\ ~Redeclared(d)
           /\ hadAnyError \/ Fns(d) # {}
           /\ Register(d)
           /\ res_fn' = (res_fn \/ d.id = LineId(m_curr_input_number))
    /\ hadAnyError' = ErrorAfterDecl
    /\ pos' = pos + 1
    /\ UNCHANGED <<phase, m_curr_input_number, prog, linkVars, history>>

RemoveRedeclarationsFromJIT(d) == RemoveSymbols(m_jit, Fns(d))

\* Slip: calls of other modules' functions are left as they are.
AddToJIT_Direct(d) ==
    AddModule(RemoveRedeclarationsFromJIT(d), Symbols(d), m_curr_input_number,
              (d.refs \ Symbols(d)) \cup d.takes)

\* The symbol table once d's functions are removed and d's module is added.
\* Calls of the functions in the new m_fn_ptr_map go through their pointers;
\* every other use of another module's symbol is a reference by name.
AddToJIT(d) ==
    AddModule(RemoveRedeclarationsFromJIT(d), Symbols(d), m_curr_input_number,
              (d.refs \ (m_fn_ptr_map \cup Symbols(d))) \cup d.takes)

\* A pointer, null, for each function new to the map.
AddFunctionPointers(map) == [f \in map |-> IF f \in m_fn_ptr_map THEN cell[f] ELSE Null]

\* Slip: a pointer that was set once is left alone.
UpdateFunctionPointers_NullOnly(jit, map, done) ==
    [f \in map |-> IF f \in done /\ AddFunctionPointers(map)[f] = Null
                   THEN jit.def[f] ELSE AddFunctionPointers(map)[f]]

\* The pointers once UpdateFunctionPointers has reached the functions done.
UpdateFunctionPointers(jit, map, done) ==
    [f \in map |-> IF f \in done THEN jit.def[f] ELSE AddFunctionPointers(map)[f]]

\* UpdateFunctionPointers finds every function of the map.
DeclareAndLink ==
    /\ AtDecl
    /\ LET d   == prog[pos]
           jit == AddToJIT(d)
       IN  /\ ~hadAnyError /\ ~Redeclared(d)
           /\ m_fn_ptr_map \cup Fns(d) \subseteq Loadable(jit)
           /\ Register(d)
           /\ m_fn_ptr_map' = m_fn_ptr_map \cup Fns(d)
           /\ m_jit' = Materialise(jit, m_fn_ptr_map')
           /\ cell' = UpdateFunctionPointers(jit, m_fn_ptr_map', m_fn_ptr_map')
           /\ res_fn' = (res_fn \/ d.id = LineId(m_curr_input_number))
    /\ pos' = pos + 1
    /\ UNCHANGED <<phase, m_curr_input_number, hadAnyError, prog, history>>

\* UpdateFunctionPointers stops at the first function, bad, that cannot be
\* found; it has updated those that come before bad (done) in the order of
\* the hash table.  ExecuteSwift returns to the prompt.
DeclareAndFailToLink ==
    /\ AtDecl
    /\ LET d   == prog[pos]
           jit == AddToJIT(d)
           map == m_fn_ptr_map \cup Fns(d)
       IN  /\ ~hadAnyError /\ ~Redeclared(d)
           /\ Register(d)
           /\ m_fn_ptr_map' = map
           /\ \E bad \in map \ Loadable(jit), done \in SUBSET (map \cap Loadable(jit)) :
                /\ cell' = UpdateFunctionPointers(jit, map, done)
                /\ \E E \in Dropped(jit, bad) :
                     m_jit' = FailLookup(Materialise(jit, done), E)
    /\ ReturnTrue
    /\ UNCHANGED <<m_curr_input_number, hadAnyError, history>>

\* Slip: the previous line's function is looked up.
CalledFn_Previous == LineFn(m_curr_input_number - 1)

\* The function ExecuteSwift looks up.
CalledFn == LineFn(m_curr_input_number)

\* __repl_<n> is found and called.
RunLine ==
    /\ AtEnd
    /\ res_fn
    /\ CalledFn \in Loadable(m_jit)
    /\ m_jit' = Materialise(m_jit, {CalledFn})
    /\ ran' = ran \cup {m_curr_input_number}
    /\ saw' = cell
    /\ ReturnTrue
    /\ UNCHANGED <<m_curr_input_number, hadAnyError, declVars, m_fn_ptr_map, cell>>

\* __repl_<n> is not found: ExecuteSwift returns false and the loop ends.
LineFunctionMissing ==
    /\ AtEnd
    /\ res_fn
    /\ CalledFn \notin Loadable(m_jit)
    /\ ReturnFalse
    /\ UNCHANGED <<m_curr_input_number, hadAnyError, declVars, linkVars, history>>

\* A line of declarations only.
NothingToRun ==
    /\ AtEnd
    /\ ~res_fn
    /\ ReturnTrue
    /\ UNCHANGED <<m_curr_input_number, hadAnyError, declVars, linkVars, history>>

Next ==
    \/ ExitLine
    \/ RejectLine
    \/ AcceptLine
    \/ RejectRedeclaration
    \/ DeclareWithErrors
    \/ DeclareAndLink
    \/ DeclareAndFailToLink
    \/ RunLine
    \/ LineFunctionMissing
    \/ NothingToRun

Spec == Init /\ [][Next]_vars

-----------------------------------------------------------------------------
(* Properties *)

\* Every variable stays in its type; the partial maps have the domains the
\* code gives them.
TypeOK ==
    /\ phase \in {"prompt", "decls", "exited"}
    /\ m_curr_input_number \in Lines
    /\ hadAnyError \in BOOLEAN
    /\ prog \in Seq(Decl)
    /\ pos \in Nat \ {0}
    /\ res_fn \in BOOLEAN
    /\ DOMAIN m_decl_map \subseteq Name
    /\ \A x \in DOMAIN m_decl_map : m_decl_map[x] \in {"func", "var", "type"}
    /\ DOMAIN m_imports \subseteq Name \cup Lib
    /\ \A x \in DOMAIN m_imports : m_imports[x] \in Nat
    /\ m_fn_ptr_map \subseteq Name
    /\ DOMAIN m_jit.def \subseteq Name
    /\ \A x \in DOMAIN m_jit.def : m_jit.def[x] \in Lines
    /\ DOMAIN m_jit.direct = DOMAIN m_jit.def
    /\ \A x \in DOMAIN m_jit.direct : m_jit.direct[x] \subseteq Name
    /\ m_jit.ready \subseteq DOMAIN m_jit.def
    /\ DOMAIN m_jit.imp \subseteq Name
    /\ \A x \in DOMAIN m_jit.imp : m_jit.imp[x] \in Lines
    /\ cell \in [m_fn_ptr_map -> Lines \cup {Null}]
    /\ ran \subseteq Lines
    /\ DOMAIN saw \subseteq Name

\* Linked: every pointer leads to the current definition of its function,
\* and that definition has been materialised.
Linked == \A f \in m_fn_ptr_map : f \in m_jit.ready /\ cell[f] = m_jit.def[f]

\* What user code sees when it runs.  test_functions_repl.test: after a is
\* redefined, a() and the older b(), which calls a, both use the new a.  When
\* __repl_<n> is called, every function pointer of the session leads to the
\* last definition added for that function.
RunsOnCurrentDefinitions == [][ran' # ran => Linked]_vars

\* A line never runs in part: when __repl_<n> is called, every declaration of
\* the line has been compiled and added to the JIT by this line, although
\* compilation errors are reported to the loop in ExecuteSwift as success.
RunsWholeLine ==
    [][ran' # ran => \A i \in DOMAIN prog : \A x \in Symbols(prog[i]) :
           x \in DOMAIN m_jit.def /\ m_jit.def[x] = m_curr_input_number]_vars

\* The session ends only when the user asks for it, or after a line that was
\* diagnosed in error: a line the compiler accepts never ends the session.
ExitOnlyOnRequestOrError ==
    [][phase' = "exited" => phase = "prompt" \/ hadAnyError]_vars

\* Some line's function could not be linked, and is still among the functions
\* every line must link.
Wedged == \E n \in Lines : LineFn(n) \in m_fn_ptr_map /\ LineFn(n) \notin DOMAIN m_jit.def

\* No line defines __repl_<n> again, so a session that is wedged stays so:
\* UpdateFunctionPointers fails for every later module and no line runs again.
WedgeIsPermanent == [][Wedged => Wedged' /\ ran' = ran]_vars

\* REPL.cpp, above ModifyAST: "Later, we lookup the function by name from the
\* JIT and call it and print out result".  A line that the compiler accepts and
\* that redeclares nothing has its function called.  It does not hold: one
\* function that calls another declared later on the same line cannot be
\* linked before that other exists, and takes the line down with it.
AcceptedLineRuns ==
    [][phase = "decls" /\ phase' # "decls" /\ ~hadAnyError
         /\ ~(AtDecl /\ Redeclared(prog[pos]))
         /\ (\E i \in DOMAIN prog : prog[i].id = LineId(m_curr_input_number))
       => m_curr_input_number \in ran']_vars

\* JIT::AddModule's cantFail: when the loop goes on to compile a declaration,
\* the JIT holds no symbol of its module but functions, which
\* RemoveRedeclarationsFromJIT takes out first.
AddModuleCannotFail ==
    AtDecl /\ ~hadAnyError /\ ~Redeclared(prog[pos]) =>
        (Symbols(prog[pos]) \ Fns(prog[pos])) \cap DOMAIN m_jit.def = {}

\* REPL.cpp, ExecuteSwift: "Two functions can have the same unmangled name,
\* but no other pair": whatever the history of the session, an identifier has
\* functions or one other declaration behind it, in the table and in the JIT.
OnlyFunctionsShareAName ==
    \A x \in DOMAIN m_jit.def : x[2] \in Sig =>
        /\ {<<x[1], "plain">>, <<x[1], "method">>} \cap DOMAIN m_jit.def = {}
        /\ Plain(x[1]) \in DOMAIN m_decl_map /\ m_decl_map[Plain(x[1])] = "func"

\* "Don't allow redefinitions of any kind in playgrounds", and in no mode of
\* anything but functions: once a name is registered its definition does not
\* change and, if it was lost to an error, does not come back.
NeverRedefined ==
    [][\A x \in DOMAIN m_decl_map \cap DOMAIN m_jit'.def :
          \/ x \in DOMAIN m_jit.def /\ m_jit'.def[x] = m_jit.def[x]
          \/ ~IsPlayground /\ m_decl_map[x] = "func"]_vars

\* Every declaration that is registered, each overload of a function included,
\* is imported into the lines that follow.
RegisteredIsImported ==
    \A x \in DOMAIN m_decl_map :
        m_decl_map[x] # "func" \/ x[2] # "plain" => x \in DOMAIN m_imports

\* The price of LoadImportedModules: the module of a line that ran is imported
\* again by every later line, at least twice as often as the module of any line
\* that ran after it; with k such lines, at least 2^k times.
ImportsDouble ==
    \A n \in ran :
        /\ Copies(LineFn(n)) >= 1
        /\ \A m \in ran : n < m => Copies(LineFn(n)) >= 2 * Copies(LineFn(m))

\* A function's value, and the address of any other symbol, is read from its
\* __imp_ cell, which SymbolGenerator fills once (m_imps is only added to).
\* Where nothing can be redefined the cell is never stale: the symbol is there
\* and its cell leads to it.
ValuesAreCurrent ==
    \A x \in DOMAIN m_jit.imp : IsPlayground \/ x[2] \in {"plain", "method"} =>
        x \in DOMAIN m_jit.def /\ m_jit.imp[x] = m_jit.def[x]

\* A declaration that links calls every function through its
\* pointer, wherever that function was declared; by name it refers only to data
\* and to the functions it takes as values.  So what RunsOnCurrentDefinitions
\* says of the pointers is true of every call.
CallsGoThroughPointers ==
    [][AtDecl /\ pos' = pos + 1 /\ ~hadAnyError' =>
          \A f \in Fns(prog[pos]) : \A y \in m_jit'.direct[f] \ prog[pos].takes :
              ~IsFunction(y)]_vars

\* The abstract view of a session.
B == INSTANCE Bindings WITH
         Func    <- {x \in Name : IsFunction(x)},
         number  <- m_curr_input_number,
         open    <- phase = "decls" /\ ~hadAnyError,
         binding <- [f \in {x \in DOMAIN m_jit.def : IsFunction(x)} |-> m_jit.def[f]]

\* A session with its modules, pointers and lazy linking does what Bindings
\* says: the code of a line sees, through the pointers, exactly the functions
\* that are defined, each as its last definition; no failure takes away a
\* function that code has been able to see.
RefinesBindings == B!Spec

-----------------------------------------------------------------------------
(* The inductive invariant behind RunsOnCurrentDefinitions, RunsWholeLine,  *)
(* ExitOnlyOnRequestOrError and WedgeIsPermanent.                           *)

\* Only the last declaration of a line is its function.
ProgInv ==
    \A i \in DOMAIN prog :
        /\ prog[i].id \in User \cup {LineId(m_curr_input_number), ResId(m_curr_input_number)}
        /\ prog[i].id = LineId(m_curr_input_number) =>
               i = Len(prog) /\ prog[i].kind = "func" /\ prog[i].sig = "()"

\* As long as a line has no error, everything up to pos is linked.
LinkInv ==
    phase = "decls" /\ ~hadAnyError =>
        /\ pos > 1 => Linked
        /\ \A i \in 1 .. pos - 1 : \A x \in Symbols(prog[i]) :
               x \in DOMAIN m_jit.def /\ m_jit.def[x] = m_curr_input_number

\* Line functions are numbered: there is none of a later line, and that of
\* the current line is known to the JIT exactly if the loop has met it and
\* the line has no error.
LineFnInv ==
    /\ \A n \in Lines : n > m_curr_input_number =>
           LineFn(n) \notin m_fn_ptr_map \cup DOMAIN m_jit.def
    /\ phase = "decls" =>
           /\ res_fn => pos > Len(prog) /\ pos > 1
           /\ res_fn /\ ~hadAnyError => LineFn(m_curr_input_number) \in m_fn_ptr_map
           /\ LineFn(m_curr_input_number) \in m_fn_ptr_map \cup DOMAIN m_jit.def =>
                  res_fn /\ ~hadAnyError

ReplInv == TypeOK /\ ProgInv /\ LinkInv /\ LineFnInv

=============================================================================
