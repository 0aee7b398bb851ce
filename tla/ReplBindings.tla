---------------------------- MODULE ReplBindings ----------------------------
(***************************************************************************)
(* Proofs that a session of Repl implements Bindings, and about the two    *)
(* ways in which code refers to a function: calls, which go through its    *)
(* pointer, and values, which are read from its __imp_ cell.               *)
(***************************************************************************)
EXTENDS ReplProofs

-----------------------------------------------------------------------------
(* Which functions have a pointer *)

\* Exactly functions have pointers, and every function that is defined, or was
\* when its cell was made, has one.
PointerInv ==
    /\ \A f \in m_fn_ptr_map : IsFunction(f)
    /\ \A x \in DOMAIN m_jit.def \cup DOMAIN m_jit.imp : IsFunction(x) => x \in m_fn_ptr_map

\* Of the symbols of a declaration, its functions are those with a signature.
LEMMA DeclFunctions ==
    ASSUME NEW d \in Decl
    PROVE  \A x \in Symbols(d) : IsFunction(x) <=> x \in Fns(d)
<1>1. CASE d.kind = "func"
    <2>1. d.sig # "plain"
        BY <1>1, NamesAssumption DEF Decl
    <2> QED BY <1>1, <2>1 DEF Symbols, Fns, IsFunction
<1>2. CASE d.kind # "func"
    BY <1>2 DEF Symbols, Fns, Plain, IsFunction
<1> QED BY <1>1, <1>2

\* Only linking and running a line change the symbol table or the pointers.
LEMMA OtherSteps ==
    ASSUME [Next]_vars, ~DeclareAndLink, ~DeclareAndFailToLink, ~RunLine
    PROVE  m_jit' = m_jit /\ m_fn_ptr_map' = m_fn_ptr_map /\ cell' = cell /\ saw' = saw /\ ran' = ran
BY DEF Next, ExitLine, RejectLine, AcceptLine, RejectRedeclaration, DeclareWithErrors,
       LineFunctionMissing, NothingToRun, vars, linkVars, history

\* A lookup of __repl_<n> adds cells for defined symbols only.
LEMMA RunFacts ==
    ASSUME TypeOK, RunLine
    PROVE  /\ m_jit'.def = m_jit.def
           /\ m_jit.ready \subseteq m_jit'.ready
           /\ DOMAIN m_jit.imp \subseteq DOMAIN m_jit'.imp
           /\ \A y \in DOMAIN m_jit.imp : m_jit'.imp[y] = m_jit.imp[y]
           /\ \A y \in DOMAIN m_jit'.imp \ DOMAIN m_jit.imp :
                 /\ y \in DOMAIN m_jit.def /\ m_jit'.imp[y] = m_jit.def[y]
                 /\ y \in m_jit'.ready
           /\ m_fn_ptr_map' = m_fn_ptr_map /\ cell' = cell
BY MaterialiseReady, LoadableDefined DEF RunLine, TypeOK

\* Functions and pointers go on matching.
LEMMA PointerNext == TypeOK /\ PointerInv /\ [Next]_vars => PointerInv'
<1> SUFFICES ASSUME TypeOK, PointerInv, [Next]_vars PROVE PointerInv'
    OBVIOUS
<1>1. CASE DeclareAndLink \/ DeclareAndFailToLink
    <2> DEFINE d == prog[pos]
               j == AddToJIT(d)
    <2>1. /\ d \in Decl
          /\ DOMAIN m_jit'.def \subseteq DOMAIN j.def
          /\ \A y \in DOMAIN m_jit'.imp : y \in DOMAIN j.imp \cup DOMAIN j.def
        BY <1>1, LinkFacts
    <2>2. DOMAIN j.def = DOMAIN m_jit.def \cup Symbols(d) /\ j.imp = m_jit.imp
        BY <2>1, AddToJITFacts
    <2>3. m_fn_ptr_map' = m_fn_ptr_map \cup Fns(d)
        BY <1>1, CompileFacts
    <2> HIDE DEF j, d
    <2>4. \A x \in Symbols(d) : IsFunction(x) <=> x \in Fns(d)
        BY <2>1, DeclFunctions
    <2>5. Fns(d) \subseteq Symbols(d)
        BY <2>1, DeclFacts
    <2> QED BY <2>1, <2>2, <2>3, <2>4, <2>5 DEF PointerInv
<1>2. CASE RunLine
    BY <1>2, RunFacts DEF PointerInv
<1>3. CASE ~(DeclareAndLink \/ DeclareAndFailToLink \/ RunLine)
    BY <1>3, OtherSteps DEF PointerInv
<1> QED BY <1>1, <1>2, <1>3

\* A session starts without functions or pointers.
LEMMA PointerInit == Init => PointerInv
BY DEF Init, PointerInv, EmptyJIT

\* In what has been linked, every call goes through a pointer.
THEOREM CallsAreIndirect == Spec => CallsGoThroughPointers
<1>1. ASSUME TypeOK, PointerInv, [Next]_vars, AtDecl, pos' = pos + 1, ~hadAnyError',
             NEW f \in Fns(prog[pos]), NEW y \in m_jit'.direct[f] \ prog[pos].takes,
             IsFunction(y)
      PROVE  FALSE
    <2> DEFINE d == prog[pos]
               j == AddToJIT(d)
    <2>1. DeclareAndLink
        <3>1. pos' # 1
            BY <1>1 DEF TypeOK
        <3>2. pos' # pos
            BY <1>1 DEF TypeOK
        <3>3. ExitLine \/ RejectLine \/ AcceptLine \/ RejectRedeclaration \/ DeclareAndFailToLink
                \/ RunLine \/ LineFunctionMissing \/ NothingToRun => pos' = 1
            BY DEF ExitLine, RejectLine, AcceptLine, RejectRedeclaration, DeclareAndFailToLink,
                   RunLine, LineFunctionMissing, NothingToRun, ReturnTrue, ReturnFalse
        <3>4. DeclareWithErrors => hadAnyError'
            BY DEF DeclareWithErrors, ErrorAfterDecl
        <3>5. UNCHANGED vars => pos' = pos
            BY DEF vars, lineVars
        <3> QED BY <1>1, <3>1, <3>2, <3>3, <3>4, <3>5 DEF Next
    <2>2. /\ d \in Decl /\ Fns(d) \subseteq Symbols(d)
          /\ m_jit'.def = j.def /\ m_jit'.direct = j.direct
          /\ m_fn_ptr_map \cup Fns(d) \subseteq Loadable(j)
        <3>1. d \in Decl
            BY <1>1, <2>1, LinkFacts
        <3>2. j.ready \subseteq DOMAIN j.def
            BY <3>1, <1>1, AddToJITFacts
        <3> HIDE DEF j, d
        <3>3. m_jit' = Materialise(j, m_fn_ptr_map') /\ m_fn_ptr_map \cup Fns(d) \subseteq Loadable(j)
            BY <2>1 DEF DeclareAndLink, j, d
        <3> QED BY <3>1, <3>2, <3>3, DeclFacts, MaterialiseReady
    <2>3. /\ DOMAIN j.def = DOMAIN m_jit.def \cup Symbols(d)
          /\ j.direct[f] = (d.refs \ (m_fn_ptr_map \cup Symbols(d))) \cup d.takes
          /\ f \notin j.ready /\ j.ready \subseteq DOMAIN j.def
          /\ j.imp = m_jit.imp
        BY <1>1, <2>2, AddToJITFacts
    <2>4. y \in j.direct[f] /\ y \notin m_fn_ptr_map \cup Symbols(d)
        BY <1>1, <2>2, <2>3
    <2>5. f \in Loadable(j) \ j.ready
        BY <1>1, <2>2, <2>3
    <2> HIDE DEF j, d
    <2>6. y \notin DOMAIN j.imp => y \in DOMAIN j.def
        BY <2>3, <2>4, <2>5, LoadableClosed, LoadableDefined DEF Unresolved
    <2> QED BY <1>1, <2>3, <2>4, <2>6 DEF PointerInv
<1>2. TypeOK /\ PointerInv /\ [Next]_vars =>
        [AtDecl /\ pos' = pos + 1 /\ ~hadAnyError' =>
            \A f \in Fns(prog[pos]) : \A y \in m_jit'.direct[f] \ prog[pos].takes :
                ~IsFunction(y)]_vars
    BY <1>1
<1> QED BY <1>2, PointerInit, PointerNext, TypeCorrect, PTL DEF Spec, CallsGoThroughPointers

-----------------------------------------------------------------------------
(* Values *)

\* What is defined is registered, and where it cannot be redefined its cell
\* leads to its definition, which is ready and so cannot be dropped.
ValueInv ==
    /\ \A x \in DOMAIN m_jit.def :
          IF x[2] \in {"plain", "method"} THEN Plain(x[1]) \in DOMAIN m_decl_map
          ELSE x \in DOMAIN m_decl_map
    /\ \A x \in DOMAIN m_jit.imp : IsPlayground \/ x[2] \in {"plain", "method"} =>
          x \in m_jit.ready /\ m_jit.imp[x] = m_jit.def[x]

\* Registration only adds names.
LEMMA RegisteredGrows == [Next]_vars => DOMAIN m_decl_map \subseteq DOMAIN m_decl_map'
BY DEF Next, ExitLine, RejectLine, AcceptLine, RejectRedeclaration, DeclareWithErrors, Register,
       DeclareAndLink, DeclareAndFailToLink, RunLine, LineFunctionMissing, NothingToRun,
       vars, declVars

\* A declaration that passes the redeclaration check replaces no symbol that
\* cannot be redefined.
LEMMA NothingReplaced ==
    ASSUME TypeOK, ValueInv, NEW d \in Decl, ~Redeclared(d),
           NEW x \in Symbols(d), IsPlayground \/ x[2] \in {"plain", "method"}
    PROVE  x \notin DOMAIN m_jit.def
<1>1. x[1] = d.id
    BY DeclFacts
<1>2. CASE d.kind = "func"
    <2>1. x = Key(d) /\ x[2] = d.sig /\ x[2] \notin {"plain", "method"}
        BY <1>2, NamesAssumption DEF Symbols, Fns, Key, Decl
    <2>2. x \notin DOMAIN m_decl_map
        BY <1>2, <2>1 DEF Redeclared
    <2> QED BY <2>1, <2>2 DEF ValueInv
<1>3. CASE d.kind # "func"
    <2>1. Plain(x[1]) \notin DOMAIN m_decl_map
        BY <1>1, <1>3 DEF Redeclared
    <2>2. x[2] \in {"plain", "method"}
        BY <1>3 DEF Symbols, Fns, Plain
    <2> QED BY <2>1, <2>2 DEF ValueInv
<1> QED BY <1>2, <1>3

\* Cells stay current where nothing is redefined.
LEMMA ValueNext == TypeOK /\ ValueInv /\ [Next]_vars => ValueInv'
<1> SUFFICES ASSUME TypeOK, ValueInv, [Next]_vars PROVE ValueInv'
    OBVIOUS
<1>1. CASE DeclareAndLink \/ DeclareAndFailToLink
    <2> DEFINE d == prog[pos]
               j == AddToJIT(d)
    <2>1. /\ d \in Decl
          /\ DOMAIN m_jit'.def \subseteq DOMAIN j.def
          /\ \A x \in DOMAIN m_jit'.def : m_jit'.def[x] = j.def[x]
          /\ j.ready \subseteq m_jit'.ready /\ m_jit'.ready \subseteq DOMAIN m_jit'.def
          /\ \A y \in DOMAIN j.imp : m_jit'.imp[y] = j.imp[y]
          /\ \A y \in DOMAIN m_jit'.imp \ DOMAIN j.imp :
                y \in m_jit'.ready /\ y \in DOMAIN j.def /\ m_jit'.imp[y] = j.def[y]
        BY <1>1, LinkFacts
    <2>2. /\ DOMAIN j.def = DOMAIN m_jit.def \cup Symbols(d)
          /\ \A x \in DOMAIN m_jit.def \ Symbols(d) : j.def[x] = m_jit.def[x]
          /\ j.ready = m_jit.ready \ Fns(d)
          /\ j.imp = m_jit.imp
        BY <2>1, AddToJITFacts
    <2>3. /\ ~Redeclared(d) /\ Register(d)
        BY <1>1, CompileFacts
    <2>4. Fns(d) \subseteq Symbols(d) /\ \A x \in Symbols(d) : x[1] = d.id
        BY <2>1, DeclFacts
    <2>5. \A x \in Symbols(d) : IsPlayground \/ x[2] \in {"plain", "method"} =>
              x \notin DOMAIN m_jit.def
        BY <2>1, <2>3, NothingReplaced
    <2>6. \A x \in Symbols(d) : IF x[2] \in {"plain", "method"} THEN x[1] = d.id ELSE x = Key(d)
        BY <2>1, NamesAssumption DEF Symbols, Fns, Key, Plain, Decl
    <2>7. /\ DOMAIN m_decl_map \subseteq DOMAIN m_decl_map'
          /\ Plain(d.id) \in DOMAIN m_decl_map' /\ Key(d) \in DOMAIN m_decl_map'
        BY <2>3 DEF Register
    <2> HIDE DEF j, d
    <2>8. ASSUME NEW x \in DOMAIN m_jit'.def
          PROVE  IF x[2] \in {"plain", "method"} THEN Plain(x[1]) \in DOMAIN m_decl_map'
                 ELSE x \in DOMAIN m_decl_map'
        <3>1. CASE x \in Symbols(d)
            BY <2>6, <2>7, <3>1
        <3>2. CASE x \notin Symbols(d)
            BY <2>1, <2>2, <2>7, <3>2 DEF ValueInv
        <3> QED BY <3>1, <3>2
    <2>9. ASSUME NEW x \in DOMAIN m_jit'.imp, IsPlayground \/ x[2] \in {"plain", "method"}
          PROVE  x \in m_jit'.ready /\ m_jit'.imp[x] = m_jit'.def[x]
        <3>1. CASE x \in DOMAIN m_jit.imp
            <4>1. x \in m_jit.ready /\ x \in DOMAIN m_jit.def /\ m_jit.imp[x] = m_jit.def[x]
                BY <2>9, <3>1 DEF ValueInv, TypeOK
            <4>2. x \notin Symbols(d)
                BY <2>5, <2>9, <4>1
            <4>3. x \in m_jit'.ready /\ x \in DOMAIN m_jit'.def
                BY <2>1, <2>2, <2>4, <4>1, <4>2
            <4> QED BY <2>1, <2>2, <3>1, <4>1, <4>2, <4>3
        <3>2. CASE x \notin DOMAIN m_jit.imp
            BY <2>1, <2>2, <2>9, <3>2
        <3> QED BY <3>1, <3>2
    <2> QED BY <2>8, <2>9 DEF ValueInv
<1>2. CASE RunLine
    <2>1. m_decl_map' = m_decl_map
        BY <1>2 DEF RunLine, declVars
    <2> QED BY <1>2, <2>1, RunFacts DEF ValueInv
<1>3. CASE ~(DeclareAndLink \/ DeclareAndFailToLink \/ RunLine)
    BY <1>3, OtherSteps, RegisteredGrows DEF ValueInv
<1> QED BY <1>1, <1>2, <1>3

\* Values are current where nothing can be redefined.
THEOREM CurrentValues == Spec => []ValuesAreCurrent
<1>1. Init => ValueInv
    BY DEF Init, ValueInv, EmptyJIT
<1>2. TypeOK /\ ValueInv => ValuesAreCurrent
    BY DEF TypeOK, ValueInv, ValuesAreCurrent
<1> QED BY <1>1, <1>2, ValueNext, TypeCorrect, PTL DEF Spec

-----------------------------------------------------------------------------
(* The refinement *)

\* Lines are numbered in order, so a function that a line redefines is not the
\* one that code saw before; one that code saw, if it is still the last, is
\* ready, and so no failure can drop it.
SawInv ==
    /\ \A x \in DOMAIN m_jit.def : m_jit.def[x] <= m_curr_input_number
    /\ \A f \in DOMAIN saw :
          /\ saw[f] \in Nat /\ saw[f] <= m_curr_input_number
          /\ phase = "decls" => saw[f] < m_curr_input_number
    /\ \A f \in DOMAIN saw \cap DOMAIN m_jit.def : saw[f] = m_jit.def[f] => f \in m_jit.ready

\* When a line runs, the pointers are the bindings.
LEMMA RunSees ==
    ASSUME ReplInv, PointerInv, RunLine
    PROVE  /\ phase = "decls" /\ ~hadAnyError
           /\ DOMAIN cell = {x \in DOMAIN m_jit.def : IsFunction(x)}
           /\ \A f \in DOMAIN cell : cell[f] = m_jit.def[f] /\ f \in m_jit.ready
           /\ cell = [f \in {x \in DOMAIN m_jit.def : IsFunction(x)} |-> m_jit.def[f]]
<1>1. AtEnd /\ res_fn /\ CalledFn \in Loadable(m_jit)
    BY DEF RunLine
<1>2. ~hadAnyError /\ Linked
    BY <1>1, FoundMeansLinked
<1>3. phase = "decls"
    BY <1>1 DEF AtEnd
<1>4. DOMAIN cell = m_fn_ptr_map /\ m_jit.ready \subseteq DOMAIN m_jit.def
    BY DEF ReplInv, TypeOK
<1>5. m_fn_ptr_map = {x \in DOMAIN m_jit.def : IsFunction(x)}
    BY <1>2, <1>4 DEF PointerInv, Linked
<1>6. cell = [f \in m_fn_ptr_map |-> cell[f]]
    BY DEF ReplInv, TypeOK
<1> QED BY <1>2, <1>3, <1>4, <1>5, <1>6 DEF Linked

\* Line numbers only grow, and a line starts with a number of its own.
LEMMA NumberSteps ==
    ASSUME TypeOK, [Next]_vars, ~DeclareAndLink, ~DeclareAndFailToLink, ~RunLine
    PROVE  \/ m_curr_input_number' = m_curr_input_number + 1
           \/ /\ m_curr_input_number' = m_curr_input_number
              /\ phase' = "decls" => phase = "decls"
<1>1. CASE ExitLine \/ RejectLine \/ AcceptLine
    BY <1>1 DEF ExitLine, RejectLine, AcceptLine, ReadLine
<1>2. CASE RejectRedeclaration \/ LineFunctionMissing \/ NothingToRun
    BY <1>2 DEF RejectRedeclaration, LineFunctionMissing, NothingToRun, ReturnTrue, ReturnFalse
<1>3. CASE DeclareWithErrors
    BY <1>3 DEF DeclareWithErrors
<1>4. CASE UNCHANGED vars
    BY <1>4 DEF vars
<1> QED BY <1>1, <1>2, <1>3, <1>4 DEF Next

\* What code saw stays in the past, and safe while it is current.
LEMMA SawNext == ReplInv /\ PointerInv /\ SawInv /\ [Next]_vars => SawInv'
<1> SUFFICES ASSUME ReplInv, PointerInv, SawInv, [Next]_vars PROVE SawInv'
    OBVIOUS
<1> DEFINE n == m_curr_input_number
<1>a. TypeOK /\ n \in Nat /\ \A x \in DOMAIN m_jit.def : m_jit.def[x] \in Nat
    BY BoundsAssumption DEF ReplInv, TypeOK, Lines
<1>1. CASE DeclareAndLink \/ DeclareAndFailToLink
    <2> DEFINE d == prog[pos]
               j == AddToJIT(d)
    <2>1. /\ d \in Decl
          /\ DOMAIN m_jit'.def \subseteq DOMAIN j.def
          /\ \A x \in DOMAIN m_jit'.def : m_jit'.def[x] = j.def[x]
          /\ j.ready \subseteq m_jit'.ready
        BY <1>a, <1>1, LinkFacts
    <2>2. /\ DOMAIN j.def = DOMAIN m_jit.def \cup Symbols(d)
          /\ \A x \in Symbols(d) : j.def[x] = n
          /\ \A x \in DOMAIN m_jit.def \ Symbols(d) : j.def[x] = m_jit.def[x]
          /\ j.ready = m_jit.ready \ Fns(d)
        BY <1>a, <2>1, AddToJITFacts
    <2>3. n' = n /\ saw' = saw /\ phase = "decls"
        BY <1>a, <1>1, CompileFacts DEF AtDecl
    <2>4. Fns(d) \subseteq Symbols(d)
        BY <2>1, DeclFacts
    <2> HIDE DEF j, d
    <2>5. ASSUME NEW f \in DOMAIN saw \cap DOMAIN m_jit'.def, saw[f] = m_jit'.def[f]
          PROVE  f \in m_jit'.ready
        <3>1. f \notin Symbols(d)
            BY <1>a, <2>1, <2>2, <2>3, <2>5 DEF SawInv
        <3> QED BY <2>1, <2>2, <2>4, <2>5, <3>1 DEF SawInv
    <2>6. \A x \in DOMAIN m_jit'.def : m_jit'.def[x] <= n
        BY <1>a, <2>1, <2>2 DEF SawInv
    <2> QED BY <2>3, <2>5, <2>6 DEF SawInv
<1>2. CASE RunLine
    <2>1. n' = n /\ saw' = cell /\ phase' # "decls" /\ m_jit'.def = m_jit.def
          /\ m_jit.ready \subseteq m_jit'.ready
        BY <1>a, <1>2, RunFacts DEF RunLine, ReturnTrue
    <2>2. /\ DOMAIN cell \subseteq DOMAIN m_jit.def
          /\ \A f \in DOMAIN cell : cell[f] = m_jit.def[f] /\ f \in m_jit.ready
        BY <1>2, RunSees
    <2> QED BY <1>a, <2>1, <2>2 DEF SawInv
<1>3. CASE ~(DeclareAndLink \/ DeclareAndFailToLink \/ RunLine)
    <2>1. m_jit' = m_jit /\ saw' = saw
        BY <1>3, OtherSteps
    <2>2. n' = n + 1 \/ (n' = n /\ (phase' = "decls" => phase = "decls"))
        BY <1>a, <1>3, NumberSteps
    <2> QED BY <1>a, <2>1, <2>2 DEF SawInv
<1> QED BY <1>1, <1>2, <1>3

\* A declaration defines at most one function.
LEMMA OneFunction ==
    ASSUME NEW d \in Decl
    PROVE  Fns(d) \in B!Declared
<1>1. \A x \in Fns(d) : x \in Name /\ IsFunction(x)
    BY DeclFacts, DeclFunctions
<1>2. Fns(d) = {} \/ \E x \in Fns(d) : Fns(d) = {x}
    BY DEF Fns
<1> QED BY <1>1, <1>2 DEF B!Declared

\* The bindings after linking a declaration, with or without success.
LEMMA LinkBinds ==
    ASSUME ReplInv, SawInv, DeclareAndLink \/ DeclareAndFailToLink
    PROVE  LET old  == {x \in DOMAIN m_jit.def : IsFunction(x)}
               new  == {x \in DOMAIN m_jit'.def : IsFunction(x)}
               F    == Fns(prog[pos])
           IN  /\ new \subseteq old \cup F
               /\ \A f \in new : m_jit'.def[f] = IF f \in F THEN m_curr_input_number ELSE m_jit.def[f]
               /\ DeclareAndLink => new = old \cup F
               /\ \A f \in (old \ F) \ new : ~(f \in DOMAIN saw /\ saw[f] = m_jit.def[f])
<1> DEFINE d == prog[pos]
           j == AddToJIT(d)
<1>a. TypeOK
    BY DEF ReplInv
<1>1. /\ d \in Decl
      /\ DOMAIN m_jit'.def \subseteq DOMAIN j.def
      /\ \A x \in DOMAIN m_jit'.def : m_jit'.def[x] = j.def[x]
      /\ j.ready \subseteq m_jit'.ready
      /\ m_jit'.ready \subseteq DOMAIN m_jit'.def
    BY <1>a, LinkFacts
<1>2. /\ DOMAIN j.def = DOMAIN m_jit.def \cup Symbols(d)
      /\ \A x \in Symbols(d) : j.def[x] = m_curr_input_number
      /\ \A x \in DOMAIN m_jit.def \ Symbols(d) : j.def[x] = m_jit.def[x]
      /\ j.ready = m_jit.ready \ Fns(d)
    BY <1>a, <1>1, AddToJITFacts
<1>3. Fns(d) \subseteq Symbols(d) /\ \A x \in Symbols(d) : IsFunction(x) <=> x \in Fns(d)
    BY <1>1, DeclFacts, DeclFunctions
<1>4. DeclareAndLink => Symbols(d) \cup DOMAIN m_jit.def \subseteq DOMAIN m_jit'.def
    BY <1>a, LinkSucceeds
<1> HIDE DEF j, d
<1>5. \A f \in m_jit.ready \ Fns(d) : f \in DOMAIN m_jit'.def
    BY <1>1, <1>2
<1>6. \A f \in DOMAIN saw \cap DOMAIN m_jit.def : saw[f] = m_jit.def[f] => f \in m_jit.ready
    BY DEF SawInv
<1> QED BY <1>1, <1>2, <1>3, <1>4, <1>5, <1>6 DEF d

\* Every step of a session is a step of Bindings, or none.
LEMMA RefinementStep ==
    ReplInv /\ PointerInv /\ SawInv /\ [Next]_vars => [B!Next]_(B!vars)
<1> SUFFICES ASSUME ReplInv, PointerInv, SawInv, [Next]_vars
             PROVE  [B!Next]_(B!vars)
    OBVIOUS
<1> DEFINE old  == {x \in DOMAIN m_jit.def : IsFunction(x)}
           new  == {x \in DOMAIN m_jit'.def : IsFunction(x)}
           bind == [f \in old |-> m_jit.def[f]]
           F    == Fns(prog[pos])
<1>a. TypeOK
    BY DEF ReplInv
<1>1. CASE ExitLine \/ RejectLine \/ AcceptLine
    <2>1. /\ phase = "prompt" /\ m_curr_input_number' = m_curr_input_number + 1
          /\ m_jit' = m_jit /\ ran' = ran /\ saw' = saw
        BY <1>1 DEF ExitLine, RejectLine, AcceptLine, ReadLine, linkVars, history
    <2>2. B!Enter
        BY <2>1 DEF B!Enter
    <2> QED BY <2>2 DEF B!Next
<1>2. CASE RejectRedeclaration \/ LineFunctionMissing \/ NothingToRun \/ DeclareWithErrors
    <2>1. /\ phase = "decls" /\ (phase' # "decls" \/ hadAnyError')
          /\ m_curr_input_number' = m_curr_input_number
          /\ m_jit' = m_jit /\ ran' = ran /\ saw' = saw
        BY <1>2 DEF RejectRedeclaration, LineFunctionMissing, NothingToRun, DeclareWithErrors,
              ErrorAfterDecl, AtDecl, AtEnd, ReturnTrue, ReturnFalse, linkVars, history
    <2>2. CASE hadAnyError
        BY <2>1, <2>2 DEF B!vars
    <2>3. CASE ~hadAnyError
        BY <2>1, <2>3 DEF B!Next, B!GiveUp
    <2> QED BY <2>2, <2>3
<1>3. CASE RunLine
    <2>1. /\ phase' # "decls" /\ m_curr_input_number' = m_curr_input_number
          /\ m_jit'.def = m_jit.def /\ ran' = ran \cup {m_curr_input_number} /\ saw' = cell
        BY <1>a, <1>3, RunFacts DEF RunLine, ReturnTrue
    <2>2. phase = "decls" /\ ~hadAnyError /\ cell = bind
        BY <1>3, RunSees
    <2>3. B!Run
        BY <2>1, <2>2 DEF B!Run
    <2> QED BY <2>3 DEF B!Next
<1>4. CASE DeclareAndLink \/ DeclareAndFailToLink
    <2>1. /\ new \subseteq old \cup F
          /\ \A f \in new : m_jit'.def[f] = IF f \in F THEN m_curr_input_number ELSE m_jit.def[f]
          /\ DeclareAndLink => new = old \cup F
          /\ \A f \in (old \ F) \ new : ~(f \in DOMAIN saw /\ saw[f] = m_jit.def[f])
        BY <1>4, LinkBinds
    <2>2. /\ phase = "decls" /\ ~hadAnyError /\ F \in B!Declared
          /\ m_curr_input_number' = m_curr_input_number /\ ran' = ran /\ saw' = saw
        <3>1. prog[pos] \in Decl
            BY <1>a, <1>4, LinkFacts
        <3> QED BY <1>a, <1>4, <3>1, CompileFacts, OneFunction DEF AtDecl
    <2>3. B!Bind(F) = [f \in old \cup F |-> IF f \in F THEN m_curr_input_number ELSE m_jit.def[f]]
        BY DEF B!Bind
    <2>4. [f \in new |-> m_jit'.def[f]] = [f \in new |-> B!Bind(F)[f]]
        BY <2>1, <2>3
    <2>5. CASE DeclareAndLink
        <3>1. phase' = phase /\ hadAnyError' = hadAnyError
            BY <2>5 DEF DeclareAndLink
        <3>2. [f \in new |-> m_jit'.def[f]] = B!Bind(F)
            BY <2>1, <2>3, <2>5
        <3>3. \E G \in B!Declared : B!Define(G)
            BY <2>2, <3>1, <3>2 DEF B!Define
        <3> QED BY <3>3 DEF B!Next
    <2>6. CASE DeclareAndFailToLink
        <3> DEFINE lost == (old \cup F) \ new
        <3>1. phase' # "decls"
            BY <2>6 DEF DeclareAndFailToLink, ReturnTrue
        <3>2. new = (old \cup F) \ lost
            BY <2>1
        <3>3. \A f \in lost \ F : ~B!Safe(f)
            BY <2>1 DEF B!Safe
        <3>4. [f \in new |-> m_jit'.def[f]] = [f \in (old \cup F) \ lost |-> B!Bind(F)[f]]
            BY <2>4, <3>2
        <3>5. lost \in SUBSET (old \cup F)
            OBVIOUS
        <3>6. \E G \in B!Declared : B!Fail(G)
            BY <2>2, <3>1, <3>3, <3>4, <3>5 DEF B!Fail
        <3> QED BY <3>6 DEF B!Next
    <2> QED BY <1>4, <2>5, <2>6
<1>5. CASE UNCHANGED vars
    BY <1>5 DEF vars, linkVars, history, B!vars
<1> QED BY <1>1, <1>2, <1>3, <1>4, <1>5 DEF Next

\* A session implements Bindings.
THEOREM BindingsImplemented == Spec => RefinesBindings
<1>1. Init => B!Init /\ SawInv
    BY DEF Init, EmptyJIT, B!Init, B!Empty, SawInv
<1>2. ReplInv /\ PointerInv /\ SawInv /\ [Next]_vars => [B!Next]_(B!vars)
    BY RefinementStep
<1>3. ReplInv => TypeOK
    BY DEF ReplInv
<1> QED BY <1>1, <1>2, <1>3, PointerInit, PointerNext, SawNext, LoopInvariant, PTL
        DEF Spec, RefinesBindings, B!Spec

=============================================================================
