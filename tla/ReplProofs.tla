----------------------------- MODULE ReplProofs -----------------------------
(***************************************************************************)
(* Proofs about Repl, for every set of identifiers, signatures, libraries  *)
(* and kinds, in both modes and for sessions and lines of any length.      *)
(***************************************************************************)
EXTENDS Repl, TLAPS

-----------------------------------------------------------------------------
(* The symbol table *)

\* LookupSymbol finds defined symbols only.
LEMMA LoadableDefined ==
    ASSUME NEW jit, jit.ready \subseteq DOMAIN jit.def
    PROVE  Loadable(jit) \subseteq DOMAIN jit.def
BY DEF Loadable, Pending

\* What a pending symbol that can be found references can be found too, or has
\* its cell.
LEMMA LoadableClosed ==
    ASSUME NEW jit, NEW x \in Loadable(jit) \ jit.ready
    PROVE  Unresolved(jit, x) \subseteq Loadable(jit)
<1>1. PICK S \in SUBSET Pending(jit) :
         x \in S /\ \A y \in S : Unresolved(jit, y) \subseteq S \cup jit.ready
    BY DEF Loadable
<1>2. S \cup jit.ready \subseteq Loadable(jit)
    BY <1>1 DEF Loadable
<1> QED BY <1>1, <1>2

\* A lookup of what can be found reaches nothing else.
LEMMA ReachLoadable ==
    ASSUME NEW jit, NEW S, S \subseteq Loadable(jit)
    PROVE  Reach(jit, S) \subseteq Loadable(jit) /\ Reach(jit, S) \subseteq Pending(jit)
<1> DEFINE T == Loadable(jit) \cap Pending(jit)
<1>1. \A x \in T : x \in Loadable(jit) \ jit.ready
    BY DEF Pending
<1>2. \A x \in T : Unresolved(jit, x) \cap Pending(jit) \subseteq T
    BY <1>1, LoadableClosed
<1>3. T \in SUBSET Pending(jit) /\ S \cap Pending(jit) \subseteq T
    OBVIOUS
<1> HIDE DEF T
<1>4. Reach(jit, S) \subseteq T
    BY <1>2, <1>3 DEF Reach
<1> QED BY <1>4 DEF T, Reach

\* New cells lead to present definitions, old ones stay as they are.
LEMMA CellFacts ==
    ASSUME NEW jit, NEW Y
    PROVE  LET j == DefineCells(jit, Y)
           IN  /\ j.def = jit.def /\ j.direct = jit.direct /\ j.ready = jit.ready
               /\ DOMAIN j.imp = DOMAIN jit.imp \cup Y
               /\ \A y \in DOMAIN jit.imp : j.imp[y] = jit.imp[y]
               /\ \A y \in Y \ DOMAIN jit.imp : j.imp[y] = jit.def[y]
BY DEF DefineCells

\* What is loadable is ready once it has been looked up, and a lookup makes
\* nothing ready, and no cell for anything, that is not defined.
LEMMA MaterialiseReady ==
    ASSUME NEW jit, NEW S, jit.ready \subseteq DOMAIN jit.def
    PROVE  LET j == Materialise(jit, S)
           IN  /\ j.def = jit.def
               /\ j.direct = jit.direct
               /\ jit.ready \subseteq j.ready
               /\ j.ready \subseteq DOMAIN jit.def
               /\ DOMAIN jit.imp \subseteq DOMAIN j.imp
               /\ \A y \in DOMAIN jit.imp : j.imp[y] = jit.imp[y]
               /\ S \subseteq Loadable(jit) =>
                     /\ S \subseteq j.ready /\ j.ready \subseteq Loadable(jit)
                     /\ DOMAIN j.imp \subseteq DOMAIN jit.imp \cup Loadable(jit)
                     /\ \A y \in DOMAIN j.imp \ DOMAIN jit.imp :
                           j.imp[y] = jit.def[y] /\ y \in j.ready
<1> DEFINE new == Reach(jit, S)
           Y == UNION {Unresolved(jit, x) : x \in new}
           c == DefineCells(jit, Y)
           j == Materialise(jit, S)
<1>1. new \subseteq DOMAIN jit.def
    BY DEF Reach, Pending
<1>2. /\ j.def = jit.def /\ j.direct = jit.direct /\ j.ready = jit.ready \cup new
      /\ DOMAIN j.imp = DOMAIN jit.imp \cup Y
      /\ \A y \in DOMAIN jit.imp : j.imp[y] = jit.imp[y]
      /\ \A y \in Y \ DOMAIN jit.imp : j.imp[y] = jit.def[y]
    <2>1. /\ j.def = c.def /\ j.direct = c.direct /\ j.ready = c.ready \cup new /\ j.imp = c.imp
        BY DEF Materialise
    <2> HIDE DEF j, c, Y, new
    <2>2. /\ c.def = jit.def /\ c.direct = jit.direct /\ c.ready = jit.ready
          /\ DOMAIN c.imp = DOMAIN jit.imp \cup Y
          /\ \A y \in DOMAIN jit.imp : c.imp[y] = jit.imp[y]
          /\ \A y \in Y \ DOMAIN jit.imp : c.imp[y] = jit.def[y]
        BY CellFacts DEF c
    <2> QED BY <2>1, <2>2
<1>3. ASSUME S \subseteq Loadable(jit), NEW x \in S
      PROVE  x \in jit.ready \cup new
    <2>1. x \in DOMAIN jit.def
        BY <1>3, LoadableDefined
    <2>2. CASE x \in jit.ready
        BY <2>2
    <2>3. CASE x \notin jit.ready
        BY <2>1, <2>3 DEF Reach, Pending
    <2> QED BY <2>2, <2>3
<1>4. ASSUME S \subseteq Loadable(jit), NEW y \in Y
      PROVE  y \in Loadable(jit) /\ y \in jit.ready \cup new
    <2>1. PICK x \in new : y \in Unresolved(jit, x)
        OBVIOUS
    <2>2. x \in Loadable(jit) \ jit.ready
        BY <1>4, <2>1, ReachLoadable DEF Pending
    <2>3. y \in Loadable(jit)
        BY <2>1, <2>2, LoadableClosed
    <2>4. CASE y \in jit.ready
        BY <2>3, <2>4
    <2>5. CASE y \notin jit.ready
        <3>1. y \in Pending(jit)
            BY <2>3, <2>5, LoadableDefined DEF Pending
        <3>2. y \in new
            BY <2>1, <3>1 DEF Reach
        <3> QED BY <2>3, <3>2
    <2> QED BY <2>4, <2>5
<1>5. S \subseteq Loadable(jit) => jit.ready \cup new \subseteq Loadable(jit)
    BY ReachLoadable DEF Loadable
<1> HIDE DEF j, c, Y, new
<1> QED BY <1>1, <1>2, <1>3, <1>4, <1>5 DEF j

\* Looking up what can be found makes nothing else findable.
LEMMA LoadableAfter ==
    ASSUME NEW jit, NEW S, jit.ready \subseteq DOMAIN jit.def, S \subseteq Loadable(jit)
    PROVE  Loadable(Materialise(jit, S)) \subseteq Loadable(jit)
<1> DEFINE m == Materialise(jit, S)
<1>1. /\ m.def = jit.def /\ m.direct = jit.direct
      /\ jit.ready \subseteq m.ready /\ m.ready \subseteq Loadable(jit)
      /\ DOMAIN m.imp \subseteq DOMAIN jit.imp \cup Loadable(jit)
    BY MaterialiseReady
<1> HIDE DEF m
<1> SUFFICES ASSUME NEW x \in Loadable(m), x \notin m.ready
             PROVE  x \in Loadable(jit)
    BY <1>1 DEF m
<1>2. PICK T \in SUBSET Pending(m) :
         x \in T /\ \A y \in T : Unresolved(m, y) \subseteq T \cup m.ready
    BY DEF Loadable
<1> DEFINE U == T \cup (Loadable(jit) \cap Pending(jit))
<1>3. U \in SUBSET Pending(jit)
    BY <1>1 DEF Pending
<1>4. Loadable(jit) \subseteq U \cup jit.ready
    BY LoadableDefined DEF Pending
<1>5. \A y \in T : Unresolved(jit, y) \subseteq U \cup jit.ready
    BY <1>1, <1>2, <1>4 DEF Unresolved
<1>6. \A y \in Loadable(jit) \cap Pending(jit) : Unresolved(jit, y) \subseteq U \cup jit.ready
    BY <1>4, LoadableClosed DEF Pending
<1>7. \A y \in U : Unresolved(jit, y) \subseteq U \cup jit.ready
    BY <1>5, <1>6
<1> HIDE DEF U
<1>8. U \subseteq Loadable(jit)
    BY <1>3, <1>7 DEF Loadable
<1> QED BY <1>2, <1>8 DEF U

\* What RemoveSymbols leaves.
LEMMA RemoveFacts ==
    ASSUME NEW jit, NEW S
    PROVE  LET j == RemoveSymbols(jit, S)
           IN  /\ DOMAIN j.def = DOMAIN jit.def \ S
               /\ DOMAIN j.direct = DOMAIN jit.def \ S
               /\ \A x \in DOMAIN jit.def \ S : j.def[x] = jit.def[x] /\ j.direct[x] = jit.direct[x]
               /\ j.ready = jit.ready \ S
               /\ j.imp = jit.imp
BY DEF RemoveSymbols

\* What AddModule adds, and leaves.
LEMMA AddFacts ==
    ASSUME NEW jit, NEW S, NEW n, NEW refs
    PROVE  LET j == AddModule(jit, S, n, refs)
           IN  /\ DOMAIN j.def = DOMAIN jit.def \cup S
               /\ DOMAIN j.direct = DOMAIN jit.def \cup S
               /\ \A x \in S : j.def[x] = n /\ j.direct[x] = refs
               /\ \A x \in DOMAIN jit.def \ S : j.def[x] = jit.def[x] /\ j.direct[x] = jit.direct[x]
               /\ j.ready = jit.ready
               /\ j.imp = jit.imp
BY DEF AddModule

\* A failed lookup removes the symbols it drops; what it leaves behind is what
\* lookups that succeed leave behind.
LEMMA FailFacts ==
    ASSUME NEW jit, NEW E, jit.ready \subseteq DOMAIN jit.def
    PROVE  LET j == FailLookup(jit, E)
           IN  /\ DOMAIN j.def = DOMAIN jit.def \ E
               /\ DOMAIN j.direct = DOMAIN jit.def \ E
               /\ \A x \in DOMAIN jit.def \ E : j.def[x] = jit.def[x] /\ j.direct[x] = jit.direct[x]
               /\ jit.ready \ E \subseteq j.ready
               /\ j.ready \subseteq DOMAIN jit.def \ E
               /\ DOMAIN jit.imp \subseteq DOMAIN j.imp
               /\ DOMAIN j.imp \subseteq DOMAIN jit.imp \cup Loadable(jit)
               /\ \A y \in DOMAIN jit.imp : j.imp[y] = jit.imp[y]
               /\ \A y \in DOMAIN j.imp \ DOMAIN jit.imp :
                     j.imp[y] = jit.def[y] /\ (y \in j.ready \/ y \in E)
<1> DEFINE found == (UNION {Unresolved(jit, x) : x \in E}) \cap Loadable(jit)
           m == Materialise(jit, found)
           c == DefineCells(m, found)
           j == FailLookup(jit, E)
<1>1. j = RemoveSymbols(c, E)
    BY DEF FailLookup
<1>2. found \subseteq Loadable(jit)
    OBVIOUS
<1> HIDE DEF found, j
<1>3. /\ m.def = jit.def /\ m.direct = jit.direct
      /\ jit.ready \subseteq m.ready /\ m.ready \subseteq DOMAIN jit.def
      /\ DOMAIN jit.imp \subseteq DOMAIN m.imp
      /\ \A y \in DOMAIN jit.imp : m.imp[y] = jit.imp[y]
      /\ found \subseteq m.ready
      /\ DOMAIN m.imp \subseteq DOMAIN jit.imp \cup Loadable(jit)
      /\ \A y \in DOMAIN m.imp \ DOMAIN jit.imp : m.imp[y] = jit.def[y] /\ y \in m.ready
    BY <1>2, MaterialiseReady
<1> HIDE DEF m
<1>4. /\ c.def = m.def /\ c.direct = m.direct /\ c.ready = m.ready
      /\ DOMAIN c.imp = DOMAIN m.imp \cup found
      /\ \A y \in DOMAIN m.imp : c.imp[y] = m.imp[y]
      /\ \A y \in found \ DOMAIN m.imp : c.imp[y] = m.def[y]
    BY CellFacts
<1> HIDE DEF c
<1>5. /\ DOMAIN j.def = DOMAIN c.def \ E
      /\ DOMAIN j.direct = DOMAIN c.def \ E
      /\ \A x \in DOMAIN c.def \ E : j.def[x] = c.def[x] /\ j.direct[x] = c.direct[x]
      /\ j.ready = c.ready \ E
      /\ j.imp = c.imp
    BY <1>1, RemoveFacts
<1> QED BY <1>2, <1>3, <1>4, <1>5 DEF j

-----------------------------------------------------------------------------
(* Names and declarations *)

\* The names and symbols of a declaration are names of the session.
LEMMA DeclFacts ==
    ASSUME NEW d \in Decl
    PROVE  /\ Fns(d) \subseteq Symbols(d)
           /\ Symbols(d) \subseteq Name
           /\ Key(d) \in Name /\ Plain(d.id) \in Name
           /\ \A x \in Symbols(d) : x[1] = d.id
<1>1. d.id \in Ids /\ d.sig \in Tags /\ d.kind \in {"func", "var", "type"}
    BY DEF Decl, Tags
<1>2. "plain" \in Tags /\ "method" \in Tags
    BY DEF Tags
<1>3. CASE d.kind = "func"
    BY <1>1, <1>2, <1>3 DEF Fns, Symbols, Key, Plain, Name
<1>4. CASE d.kind = "var"
    BY <1>1, <1>2, <1>4 DEF Fns, Symbols, Key, Plain, Name
<1>5. CASE d.kind = "type"
    BY <1>1, <1>2, <1>5 DEF Fns, Symbols, Key, Plain, Name
<1> QED BY <1>1, <1>3, <1>4, <1>5

\* A line of declarations of which only the last can be __repl_<n>.
LineShape(n, p) ==
    /\ p \in Seq(Decl)
    /\ \A i \in DOMAIN p :
          /\ p[i].id \in User \cup {LineId(n), ResId(n)}
          /\ p[i].id = LineId(n) => i = Len(p) /\ p[i].kind = "func" /\ p[i].sig = "()"

\* ModifyAST yields declarations, and only the last of them is __repl_<n>.
LEMMA ModifyASTFacts ==
    ASSUME NEW n \in Lines, NEW decls \in Seq(Decl),
           \A i \in DOMAIN decls : decls[i].id \in User,
           NEW top \in {"none", "stmt", "expr"}, NEW refs \in SUBSET Name,
           NEW takes \in SUBSET Name
    PROVE  LineShape(n, ModifyAST(n, decls, top, refs, takes))
<1> USE DEF LineShape
<1> DEFINE fn(R) == LineFunction(n, R, takes)
           p == ModifyAST(n, decls, top, refs, takes)
<1>1. LineId(n) \in Ids /\ ResId(n) \in Ids /\ LineId(n) # ResId(n)
    BY DEF Ids, LineId, ResId
<1>2. LineId(n) \notin User /\ ResId(n) \notin User
    BY NamesAssumption
<1>3. Initialised(decls) \subseteq Name
    <2>1. \A i \in DOMAIN decls : Plain(decls[i].id) \in Name
        BY DeclFacts
    <2> QED BY <2>1 DEF Initialised
<1>4. Plain(ResId(n)) \in Name
    BY <1>1 DEF Plain, Name, Tags
<1>5. \A R \in SUBSET Name : fn(R) \in Decl /\ fn(R).id = LineId(n)
                              /\ fn(R).kind = "func" /\ fn(R).sig = "()"
    BY <1>1 DEF LineFunction, Decl, Tags
<1>6. ResVar(n) \in Decl /\ ResVar(n).id = ResId(n)
    BY <1>1 DEF ResVar, Decl, Tags
<1>7. CASE top = "none"
    <2>1. p = decls
        BY <1>7 DEF ModifyAST
    <2> QED BY <2>1, <1>2
<1>8. CASE top = "stmt"
    <2> DEFINE f == fn(refs \cup Initialised(decls))
    <2>1. p = Append(decls, f)
        BY <1>8 DEF ModifyAST
    <2>2. f \in Decl /\ f.id = LineId(n) /\ f.kind = "func" /\ f.sig = "()"
        BY <1>3, <1>5
    <2> HIDE DEF f, p
    <2>3. p \in Seq(Decl) /\ Len(p) = Len(decls) + 1 /\ DOMAIN p = 1 .. Len(decls) + 1
        BY <2>1, <2>2
    <2>4. \A i \in 1 .. Len(decls) : p[i] = decls[i]
        BY <2>1, <2>2
    <2>5. p[Len(decls) + 1] = f
        BY <2>1, <2>2
    <2>6. \A i \in DOMAIN p : i \in DOMAIN decls \/ i = Len(decls) + 1
        BY <2>3
    <2> QED BY <2>2, <2>3, <2>4, <2>5, <2>6, <1>2 DEF p
<1>9. CASE top = "expr"
    <2> DEFINE f == fn(refs \cup Initialised(decls) \cup {Plain(ResId(n))})
               q == Append(decls, f)
               r == ResVar(n)
    <2>1. p = <<r>> \o q
        BY <1>9 DEF ModifyAST
    <2>2. f \in Decl /\ f.id = LineId(n) /\ f.kind = "func" /\ f.sig = "()"
        BY <1>3, <1>4, <1>5
    <2>r. r \in Decl /\ r.id = ResId(n)
        BY <1>6
    <2> HIDE DEF f, p, r
    <2>q. /\ q \in Seq(Decl) /\ Len(q) = Len(decls) + 1
          /\ \A i \in 1 .. Len(decls) : q[i] = decls[i]
          /\ q[Len(decls) + 1] = f
        BY <2>2
    <2> HIDE DEF q
    <2>3. p \in Seq(Decl) /\ Len(p) = Len(decls) + 2 /\ DOMAIN p = 1 .. Len(decls) + 2
        BY <2>1, <2>q, <2>r
    <2>4. p[1] = r
        BY <2>1, <2>q, <2>r
    <2>5. \A i \in 2 .. Len(decls) + 2 : p[i] = q[i - 1]
        BY <2>1, <2>q, <2>r
    <2>6. \A i \in DOMAIN p : i = 1 \/ (i \in 2 .. Len(decls) + 1 /\ i - 1 \in DOMAIN decls
                                          /\ p[i] = decls[i - 1])
                               \/ (i = Len(decls) + 2 /\ p[i] = f)
        <3> SUFFICES ASSUME NEW i \in DOMAIN p, i # 1
                     PROVE  \/ i \in 2 .. Len(decls) + 1 /\ i - 1 \in DOMAIN decls
                                 /\ p[i] = decls[i - 1]
                            \/ i = Len(decls) + 2 /\ p[i] = f
            OBVIOUS
        <3>1. i \in 2 .. Len(decls) + 2 /\ p[i] = q[i - 1] /\ Len(decls) \in Nat
            BY <2>3, <2>5
        <3>2. CASE i = Len(decls) + 2
            <4>1. i - 1 = Len(decls) + 1
                BY <3>1, <3>2
            <4> QED BY <3>1, <3>2, <4>1, <2>q
        <3>3. CASE i # Len(decls) + 2
            <4>1. i - 1 \in 1 .. Len(decls) /\ i \in 2 .. Len(decls) + 1
                BY <3>1, <3>3
            <4> QED BY <3>1, <4>1, <2>q
        <3> QED BY <3>2, <3>3
    <2> QED BY <2>2, <2>3, <2>4, <2>6, <2>r, <1>1, <1>2 DEF p
<1> QED BY <1>7, <1>8, <1>9

-----------------------------------------------------------------------------
(* Type correctness *)

\* What a declaration step does to the symbol table keeps its shape.
LEMMA AddToJITFacts ==
    ASSUME TypeOK, NEW d \in Decl
    PROVE  LET j == AddToJIT(d)
           IN  /\ DOMAIN j.def = DOMAIN m_jit.def \cup Symbols(d)
               /\ DOMAIN j.direct = DOMAIN j.def
               /\ \A x \in Symbols(d) : j.def[x] = m_curr_input_number
               /\ \A x \in DOMAIN m_jit.def \ Symbols(d) : j.def[x] = m_jit.def[x]
               /\ \A x \in DOMAIN j.def : j.def[x] \in Lines /\ j.direct[x] \subseteq Name
               /\ \A x \in Symbols(d) :
                     j.direct[x] = (d.refs \ (m_fn_ptr_map \cup Symbols(d))) \cup d.takes
               /\ j.ready = m_jit.ready \ Fns(d)
               /\ j.ready \subseteq DOMAIN j.def
               /\ j.imp = m_jit.imp
               /\ DOMAIN j.def \subseteq Name
<1> DEFINE rest == RemoveSymbols(m_jit, Fns(d))
           refs == (d.refs \ (m_fn_ptr_map \cup Symbols(d))) \cup d.takes
           j == AddModule(rest, Symbols(d), m_curr_input_number, refs)
<1>1. j = AddToJIT(d)
    BY DEF AddToJIT, RemoveRedeclarationsFromJIT
<1>2. Fns(d) \subseteq Symbols(d) /\ Symbols(d) \subseteq Name
    BY DeclFacts
<1>3. refs \subseteq Name
    BY DEF Decl
<1>4. /\ DOMAIN rest.def = DOMAIN m_jit.def \ Fns(d)
      /\ DOMAIN rest.direct = DOMAIN m_jit.def \ Fns(d)
      /\ rest.ready = m_jit.ready \ Fns(d) /\ rest.imp = m_jit.imp
      /\ \A x \in DOMAIN m_jit.def \ Fns(d) : /\ rest.def[x] = m_jit.def[x]
                                              /\ rest.direct[x] = m_jit.direct[x]
    BY RemoveFacts
<1> HIDE DEF rest, refs
<1>5. /\ DOMAIN j.def = DOMAIN rest.def \cup Symbols(d)
      /\ DOMAIN j.direct = DOMAIN rest.def \cup Symbols(d)
      /\ j.ready = rest.ready /\ j.imp = rest.imp
      /\ \A x \in Symbols(d) : j.def[x] = m_curr_input_number /\ j.direct[x] = refs
      /\ \A x \in DOMAIN rest.def \ Symbols(d) : /\ j.def[x] = rest.def[x]
                                                 /\ j.direct[x] = rest.direct[x]
    BY AddFacts
<1> HIDE DEF j
<1>6. \A x \in DOMAIN j.def : j.def[x] \in Lines /\ j.direct[x] \subseteq Name
    BY <1>2, <1>3, <1>4, <1>5 DEF TypeOK
<1>7. j.ready \subseteq DOMAIN j.def /\ DOMAIN j.def \subseteq Name
    BY <1>2, <1>4, <1>5 DEF TypeOK
<1> QED BY <1>1, <1>2, <1>4, <1>5, <1>6, <1>7 DEF refs

\* What linking declaration d, with or without success, does to the symbol
\* table: what was ready stays so, d's own functions apart, and new cells lead
\* to symbols that are ready.
LEMMA LinkFacts ==
    ASSUME TypeOK, DeclareAndLink \/ DeclareAndFailToLink
    PROVE  LET d == prog[pos]
               j == AddToJIT(d)
           IN  /\ d \in Decl
               /\ DOMAIN m_jit'.def \subseteq DOMAIN j.def
               /\ DOMAIN m_jit'.direct = DOMAIN m_jit'.def
               /\ \A x \in DOMAIN m_jit'.def : /\ m_jit'.def[x] = j.def[x]
                                               /\ m_jit'.direct[x] = j.direct[x]
               /\ j.ready \subseteq m_jit'.ready
               /\ m_jit'.ready \subseteq DOMAIN m_jit'.def
               /\ DOMAIN j.imp \subseteq DOMAIN m_jit'.imp
               /\ \A y \in DOMAIN j.imp : m_jit'.imp[y] = j.imp[y]
               /\ \A y \in DOMAIN m_jit'.imp \ DOMAIN j.imp :
                     y \in m_jit'.ready /\ y \in DOMAIN j.def /\ m_jit'.imp[y] = j.def[y]
<1> DEFINE d == prog[pos]
           j == AddToJIT(d)
<1>1. d \in Decl
    BY DEF DeclareAndLink, DeclareAndFailToLink, AtDecl, TypeOK
<1>2. j.ready \subseteq DOMAIN j.def /\ DOMAIN j.direct = DOMAIN j.def
    BY <1>1, AddToJITFacts
<1>3. CASE DeclareAndLink
    <2>1. m_fn_ptr_map' \subseteq Loadable(j) /\ m_jit' = Materialise(j, m_fn_ptr_map')
        BY <1>3 DEF DeclareAndLink
    <2> HIDE DEF j, d
    <2>2. /\ m_jit'.def = j.def /\ m_jit'.direct = j.direct
          /\ j.ready \subseteq m_jit'.ready /\ m_jit'.ready \subseteq DOMAIN j.def
          /\ DOMAIN j.imp \subseteq DOMAIN m_jit'.imp
          /\ \A y \in DOMAIN j.imp : m_jit'.imp[y] = j.imp[y]
          /\ \A y \in DOMAIN m_jit'.imp \ DOMAIN j.imp :
                m_jit'.imp[y] = j.def[y] /\ y \in m_jit'.ready
        BY <1>2, <2>1, MaterialiseReady
    <2> QED BY <1>1, <1>2, <2>2 DEF j, d
<1>4. CASE DeclareAndFailToLink
    <2>1. PICK bad, done, E : /\ done \subseteq Loadable(j)
                              /\ E \in Dropped(j, bad)
                              /\ m_jit' = FailLookup(Materialise(j, done), E)
        BY <1>4 DEF DeclareAndFailToLink
    <2> HIDE DEF j, d
    <2> DEFINE m == Materialise(j, done)
    <2>2. E \cap Loadable(j) = {}
        BY <2>1 DEF Dropped
    <2>3. /\ m.def = j.def /\ m.direct = j.direct
          /\ j.ready \subseteq m.ready /\ m.ready \subseteq DOMAIN j.def
          /\ m.ready \subseteq Loadable(j)
          /\ DOMAIN j.imp \subseteq DOMAIN m.imp
          /\ \A y \in DOMAIN j.imp : m.imp[y] = j.imp[y]
          /\ DOMAIN m.imp \subseteq DOMAIN j.imp \cup Loadable(j)
          /\ \A y \in DOMAIN m.imp \ DOMAIN j.imp : m.imp[y] = j.def[y] /\ y \in m.ready
        BY <1>2, <2>1, MaterialiseReady
    <2>4. Loadable(m) \subseteq Loadable(j)
        BY <1>2, <2>1, LoadableAfter
    <2>5. Loadable(j) \subseteq DOMAIN j.def
        BY <1>2, LoadableDefined
    <2> HIDE DEF m
    <2>6. /\ DOMAIN m_jit'.def = DOMAIN m.def \ E
          /\ DOMAIN m_jit'.direct = DOMAIN m.def \ E
          /\ \A x \in DOMAIN m.def \ E : /\ m_jit'.def[x] = m.def[x]
                                         /\ m_jit'.direct[x] = m.direct[x]
          /\ m.ready \ E \subseteq m_jit'.ready
          /\ m_jit'.ready \subseteq DOMAIN m.def \ E
          /\ DOMAIN m.imp \subseteq DOMAIN m_jit'.imp
          /\ DOMAIN m_jit'.imp \subseteq DOMAIN m.imp \cup Loadable(m)
          /\ \A y \in DOMAIN m.imp : m_jit'.imp[y] = m.imp[y]
          /\ \A y \in DOMAIN m_jit'.imp \ DOMAIN m.imp :
                m_jit'.imp[y] = m.def[y] /\ (y \in m_jit'.ready \/ y \in E)
        BY <2>1, <2>3, FailFacts DEF m
    <2>7. m.ready \subseteq m_jit'.ready
        BY <2>2, <2>3, <2>6
    <2>8. ASSUME NEW y \in DOMAIN m_jit'.imp \ DOMAIN j.imp
          PROVE  y \in m_jit'.ready /\ y \in DOMAIN j.def /\ m_jit'.imp[y] = j.def[y]
        <3>1. CASE y \in DOMAIN m.imp
            BY <2>3, <2>6, <2>7, <3>1
        <3>2. CASE y \notin DOMAIN m.imp
            <4>1. y \in Loadable(j)
                BY <2>4, <2>6, <3>2
            <4> QED BY <2>2, <2>3, <2>5, <2>6, <3>2, <4>1
        <3> QED BY <3>1, <3>2
    <2> QED BY <1>1, <2>3, <2>6, <2>7, <2>8 DEF j, d
<1> QED BY <1>3, <1>4

\* Linking keeps the symbol table in its type.
LEMMA LinkType ==
    ASSUME TypeOK, DeclareAndLink \/ DeclareAndFailToLink
    PROVE  /\ DOMAIN m_jit'.def \subseteq Name
           /\ \A x \in DOMAIN m_jit'.def : m_jit'.def[x] \in Lines
           /\ DOMAIN m_jit'.direct = DOMAIN m_jit'.def
           /\ \A x \in DOMAIN m_jit'.direct : m_jit'.direct[x] \subseteq Name
           /\ m_jit'.ready \subseteq DOMAIN m_jit'.def
           /\ DOMAIN m_jit'.imp \subseteq Name
           /\ \A x \in DOMAIN m_jit'.imp : m_jit'.imp[x] \in Lines
<1> DEFINE j == AddToJIT(prog[pos])
<1>1. /\ \A x \in DOMAIN j.def : j.def[x] \in Lines /\ j.direct[x] \subseteq Name
      /\ DOMAIN j.def \subseteq Name /\ j.imp = m_jit.imp
    BY LinkFacts, AddToJITFacts
<1>2. /\ DOMAIN m_jit'.def \subseteq DOMAIN j.def
      /\ DOMAIN m_jit'.direct = DOMAIN m_jit'.def
      /\ \A x \in DOMAIN m_jit'.def : /\ m_jit'.def[x] = j.def[x]
                                      /\ m_jit'.direct[x] = j.direct[x]
      /\ m_jit'.ready \subseteq DOMAIN m_jit'.def
      /\ DOMAIN j.imp \subseteq DOMAIN m_jit'.imp
      /\ \A y \in DOMAIN j.imp : m_jit'.imp[y] = j.imp[y]
      /\ \A y \in DOMAIN m_jit'.imp \ DOMAIN j.imp : y \in DOMAIN j.def /\ m_jit'.imp[y] = j.def[y]
    BY LinkFacts
<1> HIDE DEF j
<1> QED BY <1>1, <1>2 DEF TypeOK

\* Registering a declaration keeps the two tables of declarations in their types.
LEMMA RegisterType ==
    ASSUME TypeOK, NEW d \in Decl, Register(d)
    PROVE  /\ DOMAIN m_decl_map' \subseteq Name
           /\ \A x \in DOMAIN m_decl_map' : m_decl_map'[x] \in {"func", "var", "type"}
           /\ DOMAIN m_imports' \subseteq Name \cup Lib
           /\ \A x \in DOMAIN m_imports' : m_imports'[x] \in Nat
<1>1. Key(d) \in Name /\ Plain(d.id) \in Name /\ d.kind \in {"func", "var", "type"}
    BY DeclFacts DEF Decl
<1>2. \A x : Copies(x) \in Nat
    BY DEF Copies, TypeOK
<1>3. /\ DOMAIN m_decl_map' \subseteq Name
      /\ \A x \in DOMAIN m_decl_map' : m_decl_map'[x] \in {"func", "var", "type"}
    BY <1>1 DEF Register, TypeOK
<1>4. CASE IsNew(d)
    BY <1>1, <1>2, <1>3, <1>4 DEF Register, TypeOK
<1>5. CASE ~IsNew(d)
    <2>1. m_imports' = m_imports
        BY <1>5 DEF Register
    <2> QED BY <1>3, <2>1 DEF TypeOK
<1> QED BY <1>3, <1>4, <1>5

\* A new session is in its types.
LEMMA TypeInit == Init => TypeOK
<1> SUFFICES ASSUME Init PROVE TypeOK
    OBVIOUS
<1>1. 1 \in Lines /\ 1 \in Nat \ {0}
    BY BoundsAssumption DEF Lines
<1>2. prog \in Seq(Decl)
    BY DEF Init
<1>3. /\ DOMAIN m_jit.def = {} /\ DOMAIN m_jit.direct = {} /\ m_jit.ready = {}
      /\ DOMAIN m_jit.imp = {}
    BY DEF Init, EmptyJIT
<1> QED BY <1>1, <1>2, <1>3 DEF Init, TypeOK

\* The line handed to the declaration loop.
LEMMA AcceptLineProg ==
    ASSUME TypeOK, AcceptLine
    PROVE  /\ prog' \in Seq(Decl)
           /\ m_curr_input_number' \in Lines
           /\ \A i \in DOMAIN prog' :
                 /\ prog'[i].id \in User \cup {LineId(m_curr_input_number'), ResId(m_curr_input_number')}
                 /\ prog'[i].id = LineId(m_curr_input_number') =>
                        i = Len(prog') /\ prog'[i].kind = "func" /\ prog'[i].sig = "()"
<1>1. m_curr_input_number' \in Lines
    BY BoundsAssumption DEF AcceptLine, ReadLine, TypeOK, Lines
<1>p. PICK k \in 0 .. MaxDecls : \E heads \in [1 .. k -> Heads] :
       /\ Compatible(heads)
       /\ LET known == Visible \cup UNION {Symbols(heads[i]) : i \in 1 .. k}
          IN  \E content \in [1 .. k -> RefSets(known)], top \in {"none", "stmt", "expr"},
                 refs \in RefSets(known), takes \in TakeSets(known) :
                /\ top = "none" => refs = {} /\ takes = {} /\ \A i \in 1 .. k : heads[i].kind # "var"
                /\ prog' = ModifyAST(m_curr_input_number',
                               [i \in 1 .. k |-> [id |-> heads[i].id, sig |-> heads[i].sig,
                                                  kind |-> heads[i].kind, refs |-> content[i],
                                                  takes |-> {}]],
                               top, refs, takes)
    BY DEF AcceptLine
<1>2. PICK heads \in [1 .. k -> Heads] :
       LET known == Visible \cup UNION {Symbols(heads[i]) : i \in 1 .. k}
       IN  \E content \in [1 .. k -> RefSets(known)], top \in {"none", "stmt", "expr"},
              refs \in RefSets(known), takes \in TakeSets(known) :
             /\ top = "none" => refs = {} /\ takes = {} /\ \A i \in 1 .. k : heads[i].kind # "var"
             /\ prog' = ModifyAST(m_curr_input_number',
                            [i \in 1 .. k |-> [id |-> heads[i].id, sig |-> heads[i].sig,
                                               kind |-> heads[i].kind, refs |-> content[i],
                                               takes |-> {}]],
                            top, refs, takes)
    BY <1>p
<1> DEFINE known == Visible \cup UNION {Symbols(heads[i]) : i \in 1 .. k}
<1>3. PICK content \in [1 .. k -> RefSets(known)], top \in {"none", "stmt", "expr"},
           refs \in RefSets(known), takes \in TakeSets(known) :
              prog' = ModifyAST(m_curr_input_number',
                         [i \in 1 .. k |-> [id |-> heads[i].id, sig |-> heads[i].sig,
                                            kind |-> heads[i].kind, refs |-> content[i],
                                            takes |-> {}]],
                         top, refs, takes)
    BY <1>2
<1>4. \A i \in 1 .. k :
         /\ heads[i].id \in User /\ heads[i].id \in Ids
         /\ heads[i].sig \in Tags
         /\ \/ heads[i].kind = "func" /\ heads[i].sig \in Sig \cup {"()"}
            \/ heads[i].kind \in {"var", "type"} /\ heads[i].sig = "plain"
    <2>1. \A h \in Heads : /\ h.id \in User
                           /\ \/ h.kind = "func" /\ h.sig \in Sig
                              \/ h.kind \in {"var", "type"} /\ h.sig = "plain"
        BY ModeAssumption DEF Heads
    <2> QED BY <2>1 DEF Tags, Ids
<1>5. known \subseteq Name
    <2>1. \A i \in 1 .. k : Symbols(heads[i]) \subseteq Name
        BY <1>4 DEF Symbols, Fns, Plain, Name, Tags
    <2>2. Visible \subseteq Name
        BY DEF Visible, TypeOK, Name, Tags, Ids
    <2> QED BY <2>1, <2>2
<1>6. refs \in SUBSET Name /\ takes \in SUBSET Name /\ \A i \in 1 .. k : content[i] \in SUBSET Name
    BY <1>5 DEF RefSets, TakeSets
<1> DEFINE decl(i) == [id |-> heads[i].id, sig |-> heads[i].sig,
                       kind |-> heads[i].kind, refs |-> content[i],
                       takes |-> {}]
           decls == [i \in 1 .. k |-> decl(i)]
<1>7. \A i \in 1 .. k : decl(i) \in Decl /\ decl(i).id \in User
    BY <1>4, <1>6 DEF Decl
<1> HIDE DEF decl
<1>8. decls \in Seq(Decl) /\ \A i \in DOMAIN decls : decls[i].id \in User
    BY <1>7
<1> HIDE DEF decls
<1>9. prog' = ModifyAST(m_curr_input_number', decls, top, refs, takes)
    BY <1>3 DEF decls, decl
<1> HIDE DEF known
<1>10. top \in {"none", "stmt", "expr"}
    OBVIOUS
<1>11. LineShape(m_curr_input_number', prog')
    BY <1>1, <1>6, <1>8, <1>9, <1>10, ModifyASTFacts
<1> QED BY <1>1, <1>11 DEF LineShape

\* Every step of a session keeps every variable in its type.
LEMMA TypeNext == TypeOK /\ [Next]_vars => TypeOK'
<1> SUFFICES ASSUME TypeOK, [Next]_vars PROVE TypeOK'
    OBVIOUS
<1> USE DEF lineVars, declVars, linkVars, history
<1>a. <<>> \in Seq(Decl) /\ 1 \in Nat \ {0}
    OBVIOUS
<1>b. ASSUME ReadLine PROVE m_curr_input_number' \in Lines
    BY <1>b, BoundsAssumption DEF ReadLine, TypeOK, Lines
<1>c. ASSUME AtDecl PROVE prog[pos] \in Decl /\ pos + 1 \in Nat \ {0}
    BY <1>c DEF AtDecl, TypeOK
<1>1. CASE ExitLine
    BY <1>1, <1>a, <1>b DEF ExitLine, ReturnTrue, ReturnFalse, TypeOK
<1>2. CASE RejectLine
    BY <1>2, <1>a, <1>b DEF RejectLine, ReturnTrue, ReturnFalse, TypeOK
<1>3. CASE AcceptLine
    <2>1. prog' \in Seq(Decl) /\ m_curr_input_number' \in Lines
        BY <1>3, AcceptLineProg
    <2>2. PICK libs \in SUBSET Lib : LoadImportedModules(libs)
        BY <1>3 DEF AcceptLine
    <2>3. \A x : CopiesFound(x) \in Nat
        BY DEF CopiesFound, Copies, TypeOK
    <2>4. DOMAIN m_imports' \subseteq Name \cup Lib /\ \A x \in DOMAIN m_imports' : m_imports'[x] \in Nat
        BY <2>2, <2>3 DEF LoadImportedModules, TypeOK
    <2> QED BY <1>3, <1>a, <2>1, <2>4 DEF AcceptLine, TypeOK
<1>4. CASE RejectRedeclaration
    BY <1>4, <1>a DEF RejectRedeclaration, ReturnTrue, ReturnFalse, TypeOK
<1>5. CASE DeclareWithErrors
    <2>1. prog[pos] \in Decl /\ pos + 1 \in Nat \ {0}
        BY <1>5, <1>c DEF DeclareWithErrors
    <2>2. Register(prog[pos]) /\ res_fn' \in BOOLEAN /\ hadAnyError' \in BOOLEAN
        BY <1>5 DEF DeclareWithErrors, ErrorAfterDecl, TypeOK
    <2>3. /\ DOMAIN m_decl_map' \subseteq Name
          /\ \A x \in DOMAIN m_decl_map' : m_decl_map'[x] \in {"func", "var", "type"}
          /\ DOMAIN m_imports' \subseteq Name \cup Lib
          /\ \A x \in DOMAIN m_imports' : m_imports'[x] \in Nat
        BY <2>1, <2>2, RegisterType
    <2> QED BY <1>5, <2>1, <2>2, <2>3 DEF DeclareWithErrors, TypeOK
<1>6. CASE DeclareAndLink
    <2> DEFINE d == prog[pos]
               j == AddToJIT(d)
    <2>1. d \in Decl /\ pos + 1 \in Nat \ {0}
        BY <1>6, <1>c DEF DeclareAndLink
    <2>2. /\ Register(d) /\ res_fn' \in BOOLEAN
          /\ m_fn_ptr_map \cup Fns(d) \subseteq Loadable(j)
          /\ m_fn_ptr_map' = m_fn_ptr_map \cup Fns(d)
          /\ cell' = UpdateFunctionPointers(j, m_fn_ptr_map', m_fn_ptr_map')
        BY <1>6 DEF DeclareAndLink, TypeOK
    <2>3. /\ DOMAIN m_decl_map' \subseteq Name
          /\ \A x \in DOMAIN m_decl_map' : m_decl_map'[x] \in {"func", "var", "type"}
          /\ DOMAIN m_imports' \subseteq Name \cup Lib
          /\ \A x \in DOMAIN m_imports' : m_imports'[x] \in Nat
        BY <2>1, <2>2, RegisterType
    <2>4. /\ \A x \in DOMAIN j.def : j.def[x] \in Lines
          /\ j.ready \subseteq DOMAIN j.def
        BY <2>1, AddToJITFacts
    <2>5. Fns(d) \subseteq Name
        BY <2>1, DeclFacts
    <2> HIDE DEF j, d
    <2>6. Loadable(j) \subseteq DOMAIN j.def
        BY <2>4, LoadableDefined
    <2>8. m_fn_ptr_map' \subseteq DOMAIN j.def
        BY <2>2, <2>6
    <2>9. cell' \in [m_fn_ptr_map' -> Lines \cup {Null}]
        BY <2>2, <2>4, <2>8 DEF UpdateFunctionPointers, AddFunctionPointers
    <2> QED BY <1>6, <2>1, <2>2, <2>3, <2>5, <2>9, LinkType DEF DeclareAndLink, TypeOK
<1>7. CASE DeclareAndFailToLink
    <2> DEFINE d == prog[pos]
               j == AddToJIT(d)
               map == m_fn_ptr_map \cup Fns(d)
    <2>1. d \in Decl
        BY <1>7, <1>c DEF DeclareAndFailToLink
    <2>2. PICK done \in SUBSET (map \cap Loadable(j)) : cell' = UpdateFunctionPointers(j, map, done)
        BY <1>7 DEF DeclareAndFailToLink
    <2>4. Register(d) /\ m_fn_ptr_map' = map
        BY <1>7 DEF DeclareAndFailToLink
    <2>5. /\ DOMAIN m_decl_map' \subseteq Name
          /\ \A x \in DOMAIN m_decl_map' : m_decl_map'[x] \in {"func", "var", "type"}
          /\ DOMAIN m_imports' \subseteq Name \cup Lib
          /\ \A x \in DOMAIN m_imports' : m_imports'[x] \in Nat
        BY <2>1, <2>4, RegisterType
    <2>6. /\ \A x \in DOMAIN j.def : j.def[x] \in Lines
          /\ j.ready \subseteq DOMAIN j.def
        BY <2>1, AddToJITFacts
    <2>7. Fns(d) \subseteq Name
        BY <2>1, DeclFacts
    <2> HIDE DEF j, d
    <2>8. done \subseteq DOMAIN j.def
        BY <2>6, LoadableDefined
    <2>9. cell' \in [map -> Lines \cup {Null}]
        <3>1. \A f \in done : j.def[f] \in Lines
            BY <2>6, <2>8
        <3> QED BY <2>2, <3>1 DEF UpdateFunctionPointers, AddFunctionPointers, TypeOK
    <2> QED BY <1>7, <1>a, <2>4, <2>5, <2>7, <2>9, LinkType
            DEF DeclareAndFailToLink, ReturnTrue, ReturnFalse, TypeOK
<1>8. CASE RunLine
    <2>1. /\ m_jit'.def = m_jit.def /\ m_jit'.direct = m_jit.direct
          /\ m_jit'.ready \subseteq DOMAIN m_jit.def
          /\ DOMAIN m_jit'.imp \subseteq DOMAIN m_jit.imp \cup DOMAIN m_jit.def
          /\ \A y \in DOMAIN m_jit'.imp :
                m_jit'.imp[y] = IF y \in DOMAIN m_jit.imp THEN m_jit.imp[y] ELSE m_jit.def[y]
        BY <1>8, MaterialiseReady, LoadableDefined DEF RunLine, TypeOK
    <2>2. DOMAIN m_jit'.imp \subseteq Name /\ \A y \in DOMAIN m_jit'.imp : m_jit'.imp[y] \in Lines
        BY <2>1 DEF TypeOK
    <2> QED BY <1>8, <1>a, <2>1, <2>2 DEF RunLine, ReturnTrue, ReturnFalse, TypeOK
<1>9. CASE LineFunctionMissing
    BY <1>9, <1>a DEF LineFunctionMissing, ReturnTrue, ReturnFalse, TypeOK
<1>10. CASE NothingToRun
    BY <1>10, <1>a DEF NothingToRun, ReturnTrue, ReturnFalse, TypeOK
<1>11. CASE UNCHANGED vars
    BY <1>11 DEF vars, TypeOK
<1> QED BY <1>1, <1>2, <1>3, <1>4, <1>5, <1>6, <1>7, <1>8, <1>9, <1>10, <1>11 DEF Next

\* Every variable keeps its type, in every session: TypeOK is inductive.
THEOREM TypeCorrect == Spec => []TypeOK
<1>1. Init => TypeOK
    BY TypeInit
<1>2. TypeOK /\ [Next]_vars => TypeOK'
    BY TypeNext
<1> QED BY <1>1, <1>2, PTL DEF Spec

-----------------------------------------------------------------------------
(* The invariant of the declaration loop *)

\* A symbol of __repl_<n> can only come from line n's own last declaration.
LEMMA LineFnSymbol ==
    ASSUME TypeOK, ProgInv, AtDecl, NEW n \in Lines, LineFn(n) \in Symbols(prog[pos])
    PROVE  n = m_curr_input_number /\ prog[pos].id = LineId(m_curr_input_number)
<1>1. prog[pos] \in Decl
    BY DEF TypeOK, AtDecl
<1>2. prog[pos].id = LineId(n)
    BY <1>1, DeclFacts DEF LineFn
<1>3. LineId(n) \notin User
    BY NamesAssumption
<1>4. LineId(n) # ResId(m_curr_input_number)
    BY DEF LineId, ResId
<1>5. LineId(n) = LineId(m_curr_input_number)
    BY <1>2, <1>3, <1>4 DEF ProgInv, AtDecl
<1> QED BY <1>2, <1>5 DEF LineId

\* What a step that compiles declaration d may change in the JIT.
LEMMA CompileFacts ==
    ASSUME TypeOK, DeclareAndLink \/ DeclareAndFailToLink
    PROVE  /\ AtDecl /\ ~hadAnyError /\ ~Redeclared(prog[pos]) /\ Register(prog[pos])
           /\ m_curr_input_number' = m_curr_input_number /\ ran' = ran /\ saw' = saw
           /\ m_fn_ptr_map' = m_fn_ptr_map \cup Fns(prog[pos])
           /\ DOMAIN m_jit'.def \subseteq DOMAIN m_jit.def \cup Symbols(prog[pos])
           /\ \A x \in DOMAIN m_jit'.def :
                 m_jit'.def[x] = IF x \in Symbols(prog[pos]) THEN m_curr_input_number ELSE m_jit.def[x]
<1> DEFINE d == prog[pos]
           j == AddToJIT(d)
<1>1. AtDecl /\ d \in Decl
    BY DEF DeclareAndLink, DeclareAndFailToLink, AtDecl, TypeOK
<1>2. /\ DOMAIN j.def = DOMAIN m_jit.def \cup Symbols(d)
      /\ \A x \in Symbols(d) : j.def[x] = m_curr_input_number
      /\ \A x \in DOMAIN m_jit.def \ Symbols(d) : j.def[x] = m_jit.def[x]
      /\ j.ready \subseteq DOMAIN j.def
    BY <1>1, AddToJITFacts
<1>3. DOMAIN m_jit'.def \subseteq DOMAIN j.def /\ \A x \in DOMAIN m_jit'.def : m_jit'.def[x] = j.def[x]
    BY LinkFacts
<1>4. DOMAIN m_jit'.def \subseteq DOMAIN m_jit.def \cup Symbols(d)
    BY <1>2, <1>3
<1>5. \A x \in DOMAIN m_jit'.def :
         m_jit'.def[x] = IF x \in Symbols(d) THEN m_curr_input_number ELSE m_jit.def[x]
    BY <1>2, <1>3
<1>6. /\ ~hadAnyError /\ ~Redeclared(d) /\ Register(d)
      /\ m_curr_input_number' = m_curr_input_number /\ ran' = ran /\ saw' = saw
      /\ m_fn_ptr_map' = m_fn_ptr_map \cup Fns(d)
    BY DEF DeclareAndLink, DeclareAndFailToLink, history
<1> QED BY <1>1, <1>4, <1>5, <1>6

\* A declaration that links leaves every pointer at its current definition.
LEMMA LinkSucceeds ==
    ASSUME TypeOK, DeclareAndLink
    PROVE  /\ Linked'
           /\ Symbols(prog[pos]) \subseteq DOMAIN m_jit'.def
           /\ DOMAIN m_jit.def \subseteq DOMAIN m_jit'.def
           /\ m_fn_ptr_map' \subseteq DOMAIN m_jit'.def
<1> DEFINE d == prog[pos]
           j == AddToJIT(d)
<1>1. d \in Decl
    BY DEF DeclareAndLink, AtDecl, TypeOK
<1>2. /\ DOMAIN j.def = DOMAIN m_jit.def \cup Symbols(d)
      /\ j.ready \subseteq DOMAIN j.def
    BY <1>1, AddToJITFacts
<1>3. /\ m_fn_ptr_map' \subseteq Loadable(j)
      /\ m_jit' = Materialise(j, m_fn_ptr_map')
      /\ cell' = UpdateFunctionPointers(j, m_fn_ptr_map', m_fn_ptr_map')
    BY DEF DeclareAndLink
<1> HIDE DEF j, d
<1>4. m_jit'.def = j.def /\ m_fn_ptr_map' \subseteq m_jit'.ready /\ m_jit'.ready \subseteq DOMAIN j.def
    BY <1>2, <1>3, MaterialiseReady
<1>5. \A f \in m_fn_ptr_map' : cell'[f] = j.def[f]
    BY <1>3 DEF UpdateFunctionPointers, AddFunctionPointers
<1>6. Linked'
    BY <1>4, <1>5 DEF Linked
<1> QED BY <1>2, <1>4, <1>6 DEF d

\* __repl_<n> stays the last declaration of its line.
LEMMA ProgNext == TypeOK /\ ProgInv /\ [Next]_vars => ProgInv'
<1> SUFFICES ASSUME TypeOK, ProgInv, [Next]_vars PROVE ProgInv'
    OBVIOUS
<1>1. CASE prog' = <<>>
    BY <1>1 DEF ProgInv
<1>2. CASE prog' = prog /\ m_curr_input_number' = m_curr_input_number
    BY <1>2 DEF ProgInv
<1>3. CASE AcceptLine
    BY <1>3, AcceptLineProg DEF ProgInv
<1>4. CASE ExitLine \/ RejectLine \/ RejectRedeclaration \/ DeclareAndFailToLink
             \/ RunLine \/ LineFunctionMissing \/ NothingToRun
    BY <1>1, <1>4 DEF ExitLine, RejectLine, RejectRedeclaration, DeclareAndFailToLink,
                      RunLine, LineFunctionMissing, NothingToRun, ReturnTrue, ReturnFalse
<1>5. CASE DeclareWithErrors \/ DeclareAndLink
    BY <1>2, <1>5 DEF DeclareWithErrors, DeclareAndLink
<1>6. CASE UNCHANGED vars
    BY <1>2, <1>6 DEF vars, lineVars
<1> QED BY <1>3, <1>4, <1>5, <1>6 DEF Next

\* What the loop has passed stays linked while the line has no error.
LEMMA LinkNext == TypeOK /\ LinkInv /\ [Next]_vars => LinkInv'
<1> SUFFICES ASSUME TypeOK, LinkInv, [Next]_vars, phase' = "decls", ~hadAnyError'
             PROVE  /\ pos' > 1 => Linked'
                    /\ \A i \in 1 .. pos' - 1 : \A x \in Symbols(prog'[i]) :
                          x \in DOMAIN m_jit'.def /\ m_jit'.def[x] = m_curr_input_number'
    BY DEF LinkInv
<1>1. CASE AcceptLine
    BY <1>1 DEF AcceptLine
<1>2. CASE DeclareWithErrors
    BY <1>2 DEF DeclareWithErrors, ErrorAfterDecl
<1>3. CASE DeclareAndLink
    <2>1. /\ pos' = pos + 1 /\ prog' = prog /\ phase = "decls" /\ ~hadAnyError
          /\ m_curr_input_number' = m_curr_input_number
        BY <1>3 DEF DeclareAndLink, AtDecl
    <2>2. \A x \in DOMAIN m_jit'.def :
             m_jit'.def[x] = IF x \in Symbols(prog[pos]) THEN m_curr_input_number ELSE m_jit.def[x]
        BY <1>3, CompileFacts
    <2>3. /\ Linked' /\ Symbols(prog[pos]) \subseteq DOMAIN m_jit'.def
          /\ DOMAIN m_jit.def \subseteq DOMAIN m_jit'.def
        BY <1>3, LinkSucceeds
    <2>4. ASSUME NEW i \in 1 .. pos, NEW x \in Symbols(prog[i])
          PROVE  x \in DOMAIN m_jit'.def /\ m_jit'.def[x] = m_curr_input_number
        <3>1. CASE i = pos
            BY <2>2, <2>3, <3>1
        <3>2. CASE i # pos
            <4>1. i \in 1 .. pos - 1
                BY <3>2 DEF TypeOK
            <4>2. x \in DOMAIN m_jit.def /\ m_jit.def[x] = m_curr_input_number
                BY <2>1, <4>1 DEF LinkInv
            <4> QED BY <2>2, <2>3, <4>2
        <3> QED BY <3>1, <3>2
    <2>5. 1 .. pos' - 1 = 1 .. pos
        BY <2>1 DEF TypeOK
    <2> QED BY <2>1, <2>3, <2>4, <2>5
<1>4. CASE UNCHANGED vars
    BY <1>4 DEF vars, lineVars, linkVars, LinkInv, Linked
<1>5. CASE ExitLine \/ RejectLine \/ RejectRedeclaration \/ DeclareAndFailToLink
             \/ RunLine \/ LineFunctionMissing \/ NothingToRun
    BY <1>5 DEF ExitLine, RejectLine, RejectRedeclaration, DeclareAndFailToLink,
                RunLine, LineFunctionMissing, NothingToRun, ReturnTrue, ReturnFalse
<1> QED BY <1>1, <1>2, <1>3, <1>4, <1>5 DEF Next

\* Line functions stay numbered, one to a line.
LEMMA LineFnNext == TypeOK /\ ProgInv /\ LineFnInv /\ [Next]_vars => LineFnInv'
<1> SUFFICES ASSUME TypeOK, ProgInv, LineFnInv, [Next]_vars PROVE LineFnInv'
    OBVIOUS
<1> DEFINE m == m_curr_input_number
           known == m_fn_ptr_map \cup DOMAIN m_jit.def
<1>a. m \in Lines /\ m \in Nat /\ \A n \in Lines : n \in Nat
    BY BoundsAssumption DEF TypeOK, Lines
<1>b. ASSUME linkVars' = linkVars \/ RunLine PROVE known' = known
    BY <1>b, MaterialiseReady DEF linkVars, RunLine, TypeOK
<1>1. CASE ExitLine \/ RejectLine
    <2>1. m' = m + 1 /\ phase' # "decls" /\ known' = known
        BY <1>1, <1>b DEF ExitLine, RejectLine, ReadLine, ReturnTrue, ReturnFalse
    <2>2. \A n \in Lines : n > m + 1 => n > m
        BY <1>a
    <2>3. \A n \in Lines : n > m' => LineFn(n) \notin known'
        BY <2>1, <2>2 DEF LineFnInv
    <2> QED BY <2>1, <2>3 DEF LineFnInv
<1>2. CASE AcceptLine
    <2>1. m' = m + 1 /\ m' \in Lines /\ ~res_fn' /\ known' = known
        BY <1>2, <1>b, AcceptLineProg DEF AcceptLine, ReadLine
    <2>2. \A n \in Lines : n > m + 1 => n > m
        BY <1>a
    <2>3. \A n \in Lines : n > m' => LineFn(n) \notin known'
        BY <2>1, <2>2 DEF LineFnInv
    <2>4. m + 1 > m
        BY <1>a
    <2>5. LineFn(m') \notin known'
        BY <2>1, <2>4 DEF LineFnInv
    <2> QED BY <2>1, <2>3, <2>5 DEF LineFnInv
<1>3. CASE RejectRedeclaration \/ RunLine \/ LineFunctionMissing \/ NothingToRun
    <2>1. m' = m /\ phase' # "decls" /\ known' = known
        BY <1>3, <1>b DEF RejectRedeclaration, RunLine, LineFunctionMissing, NothingToRun, ReturnTrue, ReturnFalse
    <2> QED BY <2>1 DEF LineFnInv
<1>4. CASE DeclareWithErrors
    <2>1. /\ AtDecl /\ m' = m /\ known' = known /\ prog' = prog /\ pos' = pos + 1
          /\ hadAnyError' /\ res_fn' = (res_fn \/ prog[pos].id = LineId(m))
        BY <1>4, <1>b DEF DeclareWithErrors, ErrorAfterDecl
    <2>2. ~res_fn /\ LineFn(m) \notin known
        BY <2>1 DEF LineFnInv, AtDecl, TypeOK
    <2>3. res_fn' => pos' > Len(prog') /\ pos' > 1
        BY <2>1, <2>2 DEF ProgInv, AtDecl, TypeOK
    <2> QED BY <2>1, <2>2, <2>3 DEF LineFnInv
<1>5. CASE DeclareAndLink
    <2> DEFINE d == prog[pos]
    <2>1. /\ AtDecl /\ m' = m /\ prog' = prog /\ pos' = pos + 1
          /\ ~hadAnyError' /\ res_fn' = (res_fn \/ d.id = LineId(m))
        BY <1>5 DEF DeclareAndLink
    <2>2. ~res_fn /\ LineFn(m) \notin known
        BY <2>1 DEF LineFnInv, AtDecl, TypeOK
    <2>3. m_fn_ptr_map' = m_fn_ptr_map \cup Fns(d) /\ known' \subseteq known \cup Symbols(d)
        <3>1. d \in Decl
            BY <2>1 DEF AtDecl, TypeOK
        <3> QED BY <1>5, <3>1, CompileFacts, DeclFacts
    <2>4. \A n \in Lines : LineFn(n) \in Symbols(d) => n = m /\ d.id = LineId(m)
        BY <2>1, LineFnSymbol
    <2>5. res_fn' => pos' > Len(prog') /\ pos' > 1 /\ LineFn(m) \in m_fn_ptr_map'
        <3>1. SUFFICES ASSUME d.id = LineId(m)
                       PROVE  pos' > Len(prog') /\ pos' > 1 /\ LineFn(m) \in m_fn_ptr_map'
            BY <2>1, <2>2
        <3>2. pos = Len(prog) /\ d.kind = "func" /\ d.sig = "()"
            BY <2>1, <3>1 DEF ProgInv, AtDecl
        <3>3. LineFn(m) \in Fns(d)
            BY <3>1, <3>2 DEF Fns, LineFn
        <3> QED BY <2>1, <2>3, <3>2, <3>3 DEF TypeOK
    <2>6. LineFn(m) \in known' => res_fn'
        BY <1>a, <2>1, <2>2, <2>3, <2>4
    <2>7. \A n \in Lines : n > m => LineFn(n) \notin known'
        BY <1>a, <2>3, <2>4 DEF LineFnInv
    <2> QED BY <2>1, <2>5, <2>6, <2>7 DEF LineFnInv
<1>6. CASE DeclareAndFailToLink
    <2> DEFINE d == prog[pos]
    <2>1. AtDecl /\ m' = m /\ phase' # "decls"
        BY <1>6 DEF DeclareAndFailToLink, ReturnTrue, ReturnFalse
    <2>2. known' \subseteq known \cup Symbols(d)
        <3>1. d \in Decl
            BY <2>1 DEF AtDecl, TypeOK
        <3> QED BY <1>6, <3>1, CompileFacts, DeclFacts
    <2>3. \A n \in Lines : LineFn(n) \in Symbols(d) => n = m
        BY <2>1, LineFnSymbol
    <2> QED BY <1>a, <2>1, <2>2, <2>3 DEF LineFnInv
<1>7. CASE UNCHANGED vars
    BY <1>7 DEF vars, lineVars, linkVars, LineFnInv
<1> QED BY <1>1, <1>2, <1>3, <1>4, <1>5, <1>6, <1>7 DEF Next

\* The invariant of the declaration loop holds in every session.
THEOREM LoopInvariant == Spec => []ReplInv
<1>1. Init => ReplInv
    <2> SUFFICES ASSUME Init PROVE ReplInv
        OBVIOUS
    <2>1. TypeOK
        BY TypeInit
    <2>2. ProgInv /\ LinkInv
        BY DEF Init, ProgInv, LinkInv
    <2>3. LineFnInv
        BY DEF Init, LineFnInv, EmptyJIT
    <2> QED BY <2>1, <2>2, <2>3 DEF ReplInv
<1>2. ReplInv /\ [Next]_vars => ReplInv'
    BY TypeNext, ProgNext, LinkNext, LineFnNext DEF ReplInv
<1> QED BY <1>1, <1>2, PTL DEF Spec

-----------------------------------------------------------------------------
(* What the loop guarantees *)

\* A line's function is found exactly on lines without an error, and then the
\* whole line has been linked.
LEMMA FoundMeansLinked ==
    ASSUME ReplInv, AtEnd, res_fn
    PROVE  /\ CalledFn \in Loadable(m_jit) <=> ~hadAnyError
           /\ ~hadAnyError =>
                 /\ Linked
                 /\ \A i \in DOMAIN prog : \A x \in Symbols(prog[i]) :
                       x \in DOMAIN m_jit.def /\ m_jit.def[x] = m_curr_input_number
<1>1. phase = "decls" /\ pos > Len(prog) /\ pos > 1
    BY DEF AtEnd, ReplInv, LineFnInv
<1>2. ~hadAnyError => Linked
    BY <1>1 DEF ReplInv, LinkInv
<1>3. ASSUME ~hadAnyError, NEW i \in DOMAIN prog, NEW x \in Symbols(prog[i])
      PROVE  x \in DOMAIN m_jit.def /\ m_jit.def[x] = m_curr_input_number
    <2>1. i \in 1 .. pos - 1
        BY <1>1, <1>3 DEF ReplInv, TypeOK
    <2> QED BY <1>1, <1>3, <2>1 DEF ReplInv, LinkInv
<1>4. CalledFn \in Loadable(m_jit) => ~hadAnyError
    <2>1. Loadable(m_jit) \subseteq DOMAIN m_jit.def
        BY LoadableDefined DEF ReplInv, TypeOK
    <2> QED BY <1>1, <2>1 DEF CalledFn, ReplInv, LineFnInv
<1>5. ~hadAnyError => CalledFn \in Loadable(m_jit)
    <2>1. ~hadAnyError => CalledFn \in m_fn_ptr_map
        BY <1>1 DEF CalledFn, ReplInv, LineFnInv
    <2>2. m_jit.ready \subseteq Loadable(m_jit)
        BY DEF Loadable
    <2> QED BY <1>2, <2>1, <2>2 DEF Linked
<1> QED BY <1>2, <1>3, <1>4, <1>5

\* Only RunLine calls user code.
LEMMA OnlyRunLineRuns == [Next]_vars /\ ran' # ran => RunLine
BY DEF Next, ExitLine, RejectLine, AcceptLine, RejectRedeclaration, DeclareWithErrors,
       DeclareAndLink, DeclareAndFailToLink, LineFunctionMissing, NothingToRun, vars, history

\* User code always runs against the last definition of every function.
THEOREM CurrentDefinitions == Spec => RunsOnCurrentDefinitions
<1>1. ReplInv /\ [Next]_vars => [ran' # ran => Linked]_vars
    BY OnlyRunLineRuns, FoundMeansLinked DEF RunLine
<1> QED BY <1>1, LoopInvariant, PTL DEF Spec, RunsOnCurrentDefinitions

\* No line runs unless all of it has been compiled.
THEOREM WholeLine == Spec => RunsWholeLine
<1>1. ReplInv /\ [Next]_vars =>
        [ran' # ran => \A i \in DOMAIN prog : \A x \in Symbols(prog[i]) :
             x \in DOMAIN m_jit.def /\ m_jit.def[x] = m_curr_input_number]_vars
    BY OnlyRunLineRuns, FoundMeansLinked DEF RunLine
<1> QED BY <1>1, LoopInvariant, PTL DEF Spec, RunsWholeLine

\* A line the compiler accepts does not end the session.
THEOREM ExitCause == Spec => ExitOnlyOnRequestOrError
<1>1. ASSUME ReplInv, [Next]_vars
      PROVE  [phase' = "exited" => phase = "prompt" \/ hadAnyError]_vars
    <2>1. CASE LineFunctionMissing
        BY <1>1, <2>1, FoundMeansLinked DEF LineFunctionMissing
    <2>2. CASE ~LineFunctionMissing
        BY <1>1, <2>2 DEF Next, ExitLine, RejectLine, AcceptLine, RejectRedeclaration, ReadLine,
              DeclareWithErrors, DeclareAndLink, DeclareAndFailToLink, RunLine, NothingToRun,
              AtDecl, ReturnTrue, ReturnFalse
    <2> QED BY <2>1, <2>2
<1> QED BY <1>1, LoopInvariant, PTL DEF Spec, ExitOnlyOnRequestOrError

\* Once a line's own function has failed to link, no line ever runs again.
THEOREM WedgedForEver == Spec => WedgeIsPermanent
<1>1. ASSUME ReplInv, [Next]_vars, Wedged PROVE Wedged' /\ ran' = ran
    <2>1. PICK n \in Lines : LineFn(n) \in m_fn_ptr_map /\ LineFn(n) \notin DOMAIN m_jit.def
        BY <1>1 DEF Wedged
    <2>2. ~Linked
        BY <2>1, <1>1 DEF Linked, ReplInv, TypeOK
    <2>3. ran' = ran
        BY <1>1, <2>2, OnlyRunLineRuns, FoundMeansLinked DEF RunLine
    <2>4. CASE DeclareAndLink \/ DeclareAndFailToLink
        <3>1. AtDecl /\ ~res_fn
            <4>1. AtDecl
                BY <1>1, <2>4, CompileFacts DEF ReplInv
            <4> QED BY <4>1, <1>1 DEF AtDecl, ReplInv, LineFnInv, TypeOK
        <3>2. LineFn(n) \notin Symbols(prog[pos])
            BY <1>1, <2>1, <3>1, LineFnSymbol DEF ReplInv, LineFnInv, AtDecl
        <3>3. LineFn(n) \in m_fn_ptr_map' /\ LineFn(n) \notin DOMAIN m_jit'.def
            BY <1>1, <2>1, <2>4, <3>2, CompileFacts DEF ReplInv
        <3> QED BY <2>3, <3>3 DEF Wedged
    <2>5. CASE RunLine
        BY <1>1, <2>2, <2>5, FoundMeansLinked DEF RunLine
    <2>6. CASE ~(DeclareAndLink \/ DeclareAndFailToLink \/ RunLine)
        <3>1. linkVars' = linkVars
            BY <1>1, <2>6 DEF Next, ExitLine, RejectLine, AcceptLine, RejectRedeclaration,
                  DeclareWithErrors, LineFunctionMissing, NothingToRun, vars
        <3> QED BY <2>1, <2>3, <3>1 DEF Wedged, linkVars
    <2> QED BY <2>4, <2>5, <2>6
<1>2. ReplInv /\ [Next]_vars => [Wedged => Wedged' /\ ran' = ran]_vars
    BY <1>1
<1> QED BY <1>2, LoopInvariant, PTL DEF Spec, WedgeIsPermanent

-----------------------------------------------------------------------------
(* Redeclarations *)

\* Data symbols belong to registered names.
DataRegistered ==
    \A x \in DOMAIN m_jit.def : x = Plain(x[1]) => x \in DOMAIN m_decl_map

\* The JIT goes on holding no data symbol that was never registered.
LEMMA DataRegisteredNext == TypeOK /\ DataRegistered /\ [Next]_vars => DataRegistered'
<1> SUFFICES ASSUME TypeOK, DataRegistered, [Next]_vars PROVE DataRegistered'
    OBVIOUS
<1>1. CASE DeclareAndLink \/ DeclareAndFailToLink
    <2> DEFINE d == prog[pos]
    <2>1. /\ Register(d) /\ d \in Decl
          /\ DOMAIN m_jit'.def \subseteq DOMAIN m_jit.def \cup Symbols(d)
        BY <1>1, CompileFacts DEF AtDecl, TypeOK
    <2>2. DOMAIN m_decl_map \subseteq DOMAIN m_decl_map' /\ Plain(d.id) \in DOMAIN m_decl_map'
        BY <2>1 DEF Register
    <2>3. \A x \in Symbols(d) : x = Plain(x[1]) => x = Plain(d.id)
        BY <2>1, DeclFacts
    <2> QED BY <2>1, <2>2, <2>3 DEF DataRegistered
<1>2. CASE ~(DeclareAndLink \/ DeclareAndFailToLink)
    <2>1. DOMAIN m_jit'.def = DOMAIN m_jit.def
        BY <1>2, MaterialiseReady DEF Next, ExitLine, RejectLine, AcceptLine, RejectRedeclaration,
              DeclareWithErrors, RunLine, LineFunctionMissing, NothingToRun, vars, linkVars, TypeOK
    <2>2. DOMAIN m_decl_map \subseteq DOMAIN m_decl_map'
        BY <1>2 DEF Next, ExitLine, RejectLine, AcceptLine, RejectRedeclaration,
              DeclareWithErrors, Register, RunLine, LineFunctionMissing, NothingToRun, vars, declVars
    <2> QED BY <2>1, <2>2 DEF DataRegistered
<1> QED BY <1>1, <1>2

\* AddModule never meets a symbol that is already defined.
THEOREM NoDuplicateSymbols == Spec => []AddModuleCannotFail
<1>1. Init => DataRegistered
    BY DEF Init, DataRegistered, EmptyJIT
<1>2. TypeOK /\ DataRegistered => AddModuleCannotFail
    <2> SUFFICES ASSUME TypeOK, DataRegistered, AtDecl, ~Redeclared(prog[pos]),
                        NEW x \in Symbols(prog[pos]) \ Fns(prog[pos]), x \in DOMAIN m_jit.def
                 PROVE  FALSE
        BY DEF AddModuleCannotFail
    <2>1. prog[pos].kind # "func" /\ x = Plain(prog[pos].id)
        BY DEF Symbols, Fns
    <2>2. x = Plain(x[1])
        BY <2>1 DEF Plain
    <2> QED BY <2>1, <2>2 DEF DataRegistered, Redeclared
<1> QED BY <1>1, <1>2, DataRegisteredNext, TypeCorrect, PTL DEF Spec

\* The table holds unmangled names and mangled names of functions.
TableNames ==
    \A x \in DOMAIN m_decl_map :
        x[2] # "method" /\ (x[2] # "plain" => m_decl_map[x] = "func")

\* Names with a signature go on standing for functions in the table.
LEMMA TableNamesNext == TypeOK /\ TableNames /\ [Next]_vars => TableNames'
<1> SUFFICES ASSUME TypeOK, TableNames, [Next]_vars PROVE TableNames'
    OBVIOUS
<1>1. CASE DeclareAndLink \/ DeclareAndFailToLink \/ DeclareWithErrors
    <2> DEFINE d == prog[pos]
    <2>1. Register(d) /\ d \in Decl
        BY <1>1 DEF DeclareAndLink, DeclareAndFailToLink, DeclareWithErrors, AtDecl, TypeOK
    <2>2. /\ d.kind = "func" => d.sig # "method"
          /\ Plain(d.id)[2] = "plain"
          /\ Key(d)[2] = "plain" \/ (d.kind = "func" /\ Key(d)[2] = d.sig)
        BY <2>1, NamesAssumption DEF Decl, Plain, Key
    <2>3. /\ DOMAIN m_decl_map' = DOMAIN m_decl_map \cup {Plain(d.id), Key(d)}
          /\ \A x \in DOMAIN m_decl_map' :
                m_decl_map'[x] = IF x \in {Plain(d.id), Key(d)} THEN d.kind ELSE m_decl_map[x]
        BY <2>1 DEF Register
    <2> HIDE DEF d
    <2>4. ASSUME NEW x \in DOMAIN m_decl_map'
          PROVE  x[2] # "method" /\ (x[2] # "plain" => m_decl_map'[x] = "func")
        <3>1. CASE x \in {Plain(d.id), Key(d)}
            BY <2>2, <2>3, <3>1
        <3>2. CASE x \notin {Plain(d.id), Key(d)}
            BY <2>3, <3>2 DEF TableNames
        <3> QED BY <3>1, <3>2
    <2> QED BY <2>4 DEF TableNames
<1>2. CASE ~(DeclareAndLink \/ DeclareAndFailToLink \/ DeclareWithErrors)
    <2>1. m_decl_map' = m_decl_map
        BY <1>2 DEF Next, ExitLine, RejectLine, AcceptLine, RejectRedeclaration, RunLine,
              LineFunctionMissing, NothingToRun, vars, declVars
    <2> QED BY <2>1 DEF TableNames
<1> QED BY <1>1, <1>2

\* A registered name keeps its definition, functions outside playgrounds apart.
THEOREM NoRedefinition == Spec => NeverRedefined
<1>1. ASSUME TypeOK, TableNames, [Next]_vars, NEW x \in DOMAIN m_decl_map \cap DOMAIN m_jit'.def
      PROVE  \/ x \in DOMAIN m_jit.def /\ m_jit'.def[x] = m_jit.def[x]
             \/ ~IsPlayground /\ m_decl_map[x] = "func"
    <2>1. CASE DeclareAndLink \/ DeclareAndFailToLink
        <3> DEFINE d == prog[pos]
        <3>1. /\ AtDecl /\ ~Redeclared(d) /\ d \in Decl
              /\ DOMAIN m_jit'.def \subseteq DOMAIN m_jit.def \cup Symbols(d)
              /\ m_jit'.def[x] = IF x \in Symbols(d) THEN m_curr_input_number ELSE m_jit.def[x]
            BY <1>1, <2>1, CompileFacts DEF AtDecl, TypeOK
        <3>2. CASE x \notin Symbols(d)
            BY <3>1, <3>2
        <3>3. CASE x \in Symbols(d) /\ d.kind = "func"
            <4>1. x = Key(d)
                BY <3>3 DEF Symbols, Fns, Key
            <4>2. ~IsPlayground
                BY <3>1, <3>3, <4>1 DEF Redeclared
            <4>3. x[2] # "plain"
                BY <3>1, <3>3, <4>1, NamesAssumption DEF Decl, Key
            <4> QED BY <1>1, <4>2, <4>3 DEF TableNames
        <3>4. CASE x \in Symbols(d) /\ d.kind # "func"
            <4>1. x # <<d.id, "method">>
                BY <1>1 DEF TableNames
            <4>2. x = Plain(d.id)
                BY <3>4, <4>1 DEF Symbols, Fns
            <4> QED BY <3>1, <3>4, <4>2 DEF Redeclared
        <3> QED BY <3>2, <3>3, <3>4
    <2>2. CASE ~(DeclareAndLink \/ DeclareAndFailToLink)
        BY <1>1, <2>2, MaterialiseReady DEF Next, ExitLine, RejectLine, AcceptLine,
              RejectRedeclaration, DeclareWithErrors, RunLine, LineFunctionMissing, NothingToRun,
              vars, linkVars, TypeOK
    <2> QED BY <2>1, <2>2
<1>2. Init => TableNames
    BY DEF Init, TableNames
<1>3. TypeOK /\ TableNames /\ [Next]_vars =>
        [\A x \in DOMAIN m_decl_map \cap DOMAIN m_jit'.def :
            \/ x \in DOMAIN m_jit.def /\ m_jit'.def[x] = m_jit.def[x]
            \/ ~IsPlayground /\ m_decl_map[x] = "func"]_vars
    BY <1>1
<1> QED BY <1>2, <1>3, TableNamesNext, TypeCorrect, PTL DEF Spec, NeverRedefined

\* The table tells, for every symbol, whether its identifier has functions
\* behind it or one other declaration.
KindsAgree ==
    \A x \in DOMAIN m_jit.def :
        /\ Plain(x[1]) \in DOMAIN m_decl_map
        /\ x[2] \in Sig => m_decl_map[Plain(x[1])] = "func"
        /\ x[2] \in {"plain", "method"} => m_decl_map[Plain(x[1])] # "func"

\* The table and the JIT go on agreeing on what an identifier stands for.
LEMMA KindsAgreeNext == TypeOK /\ KindsAgree /\ [Next]_vars => KindsAgree'
<1> SUFFICES ASSUME TypeOK, KindsAgree, [Next]_vars PROVE KindsAgree'
    OBVIOUS
<1>1. CASE DeclareAndLink \/ DeclareAndFailToLink \/ DeclareWithErrors
    <2> DEFINE d == prog[pos]
    <2>1. Register(d) /\ ~Redeclared(d) /\ d \in Decl
        BY <1>1 DEF DeclareAndLink, DeclareAndFailToLink, DeclareWithErrors, AtDecl, TypeOK
    <2>2. DOMAIN m_jit'.def \subseteq DOMAIN m_jit.def \cup Symbols(d)
        BY <1>1, CompileFacts DEF DeclareWithErrors, linkVars
    <2>3. Key(d) = Plain(d.id) \/ (d.kind = "func" /\ Key(d)[2] # "plain")
        BY <2>1, NamesAssumption DEF Decl, Key
    <2>4. /\ DOMAIN m_decl_map' = DOMAIN m_decl_map \cup {Plain(d.id), Key(d)}
          /\ \A x \in DOMAIN m_decl_map' :
                m_decl_map'[x] = IF x \in {Plain(d.id), Key(d)} THEN d.kind ELSE m_decl_map[x]
        BY <2>1 DEF Register
    <2>5. \A x : Plain(x[1])[2] = "plain" /\ Plain(x[1])[1] = x[1]
        BY DEF Plain
    <2>6. ASSUME NEW x \in Symbols(d)
          PROVE  /\ x[1] = d.id
                 /\ x[2] \in Sig => d.kind = "func"
                 /\ x[2] \in {"plain", "method"} => d.kind # "func"
        <3>1. CASE d.kind = "func"
            <4>1. x = <<d.id, d.sig>> /\ d.sig \in Sig \cup {"()"}
                BY <2>1, <3>1 DEF Symbols, Fns, Decl
            <4> QED BY <3>1, <4>1, NamesAssumption
        <3>2. CASE d.kind # "func"
            <4>1. x = <<d.id, "plain">> \/ x = <<d.id, "method">>
                BY <3>2 DEF Symbols, Fns, Plain
            <4> QED BY <3>2, <4>1, NamesAssumption
        <3> QED BY <3>1, <3>2
    <2>7. ~(Plain(d.id) \in DOMAIN m_decl_map)
             \/ (d.kind = "func" /\ m_decl_map[Plain(d.id)] = "func")
        BY <2>1 DEF Redeclared
    <2> HIDE DEF d
    <2>8. ASSUME NEW x \in DOMAIN m_jit'.def
          PROVE  /\ Plain(x[1]) \in DOMAIN m_decl_map'
                 /\ x[2] \in Sig => m_decl_map'[Plain(x[1])] = "func"
                 /\ x[2] \in {"plain", "method"} => m_decl_map'[Plain(x[1])] # "func"
        <3>1. CASE x \in Symbols(d)
            BY <2>4, <2>6, <3>1
        <3>2. CASE x \notin Symbols(d)
            <4>1. x \in DOMAIN m_jit.def
                BY <2>2, <3>2
            <4>2. CASE Plain(x[1]) = Plain(d.id)
                BY <2>4, <2>7, <4>1, <4>2 DEF KindsAgree
            <4>3. CASE Plain(x[1]) # Plain(d.id)
                <5>1. Plain(x[1]) # Key(d)
                    BY <2>3, <2>5, <4>3
                <5> QED BY <2>4, <4>1, <4>3, <5>1 DEF KindsAgree
            <4> QED BY <4>2, <4>3
        <3> QED BY <3>1, <3>2
    <2> QED BY <2>8 DEF KindsAgree
<1>2. CASE ~(DeclareAndLink \/ DeclareAndFailToLink \/ DeclareWithErrors)
    <2>1. m_decl_map' = m_decl_map
        BY <1>2 DEF Next, ExitLine, RejectLine, AcceptLine, RejectRedeclaration, RunLine,
              LineFunctionMissing, NothingToRun, vars, declVars
    <2>2. DOMAIN m_jit'.def = DOMAIN m_jit.def
        BY <1>2, MaterialiseReady DEF Next, ExitLine, RejectLine, AcceptLine, RejectRedeclaration,
              RunLine, LineFunctionMissing, NothingToRun, vars, linkVars, TypeOK
    <2> QED BY <2>1, <2>2 DEF KindsAgree
<1> QED BY <1>1, <1>2

\* An identifier stands for functions or for one other declaration.
THEOREM NamesNotMixed == Spec => []OnlyFunctionsShareAName
<1>1. Init => KindsAgree
    BY DEF Init, KindsAgree, EmptyJIT
<1>2. KindsAgree => OnlyFunctionsShareAName
    <2> SUFFICES ASSUME KindsAgree, NEW x \in DOMAIN m_jit.def, x[2] \in Sig
                 PROVE  /\ <<x[1], "plain">> \notin DOMAIN m_jit.def
                        /\ <<x[1], "method">> \notin DOMAIN m_jit.def
                        /\ Plain(x[1]) \in DOMAIN m_decl_map
                        /\ m_decl_map[Plain(x[1])] = "func"
        BY DEF OnlyFunctionsShareAName
    <2>1. Plain(x[1]) \in DOMAIN m_decl_map /\ m_decl_map[Plain(x[1])] = "func"
        BY DEF KindsAgree
    <2>2. \A t \in {"plain", "method"} : <<x[1], t>> \in DOMAIN m_jit.def => FALSE
        <3> SUFFICES ASSUME NEW t \in {"plain", "method"}, <<x[1], t>> \in DOMAIN m_jit.def
                     PROVE  FALSE
            OBVIOUS
        <3> DEFINE y == <<x[1], t>>
        <3>1. y \in DOMAIN m_jit.def /\ y[1] = x[1] /\ y[2] = t
            OBVIOUS
        <3> HIDE DEF y
        <3> QED BY <2>1, <3>1 DEF KindsAgree
    <2> QED BY <2>1, <2>2
<1> QED BY <1>1, <1>2, KindsAgreeNext, TypeCorrect, PTL DEF Spec

-----------------------------------------------------------------------------
(* Imports *)

\* Names that the table knows are imported, and stay so.
LEMMA ImportedNext == TypeOK /\ RegisteredIsImported /\ [Next]_vars => RegisteredIsImported'
<1> SUFFICES ASSUME TypeOK, RegisteredIsImported, [Next]_vars PROVE RegisteredIsImported'
    OBVIOUS
<1>1. CASE DeclareAndLink \/ DeclareAndFailToLink \/ DeclareWithErrors
    <2> DEFINE d == prog[pos]
    <2>1. Register(d) /\ ~Redeclared(d) /\ d \in Decl
        BY <1>1 DEF DeclareAndLink, DeclareAndFailToLink, DeclareWithErrors, AtDecl, TypeOK
    <2>2. d.kind = "func" => Key(d)[2] # "plain"
        BY <2>1, NamesAssumption DEF Decl, Key
    <2>3. d.kind # "func" => Key(d) = Plain(d.id) /\ Key(d) \notin DOMAIN m_decl_map
        BY <2>1 DEF Key, Redeclared
    <2>4. /\ DOMAIN m_decl_map' = DOMAIN m_decl_map \cup {Plain(d.id), Key(d)}
          /\ \A x \in DOMAIN m_decl_map' :
                m_decl_map'[x] = IF x \in {Plain(d.id), Key(d)} THEN d.kind ELSE m_decl_map[x]
          /\ DOMAIN m_imports \subseteq DOMAIN m_imports'
          /\ Key(d) \notin DOMAIN m_decl_map => Key(d) \in DOMAIN m_imports'
        BY <2>1 DEF Register, IsNew
    <2>5. Plain(d.id)[2] = "plain"
        BY DEF Plain
    <2> HIDE DEF d
    <2>6. ASSUME NEW x \in DOMAIN m_decl_map', m_decl_map'[x] # "func" \/ x[2] # "plain"
          PROVE  x \in DOMAIN m_imports'
        <3>1. CASE x = Key(d)
            BY <2>2, <2>3, <2>4, <3>1 DEF RegisteredIsImported
        <3>2. CASE x # Key(d) /\ x = Plain(d.id)
            BY <2>3, <2>4, <2>5, <2>6, <3>2
        <3>3. CASE x # Key(d) /\ x # Plain(d.id)
            BY <2>4, <2>6, <3>3 DEF RegisteredIsImported
        <3> QED BY <3>1, <3>2, <3>3
    <2> QED BY <2>6 DEF RegisteredIsImported
<1>2. CASE ~(DeclareAndLink \/ DeclareAndFailToLink \/ DeclareWithErrors)
    <2>1. m_decl_map' = m_decl_map /\ DOMAIN m_imports \subseteq DOMAIN m_imports'
        BY <1>2 DEF Next, ExitLine, RejectLine, AcceptLine, LoadImportedModules, RejectRedeclaration,
              RunLine, LineFunctionMissing, NothingToRun, vars, declVars
    <2> QED BY <2>1 DEF RegisteredIsImported
<1> QED BY <1>1, <1>2

\* Every registered declaration is imported into the lines that follow.
THEOREM ImportsComplete == Spec => []RegisteredIsImported
<1>1. Init => RegisteredIsImported
    BY DEF Init, RegisteredIsImported
<1> QED BY <1>1, ImportedNext, TypeCorrect, PTL DEF Spec

\* Module copies of the lines' functions.  Those of an earlier line outnumber
\* those of a later one two to one, already before the later line runs: the
\* first are doubled by AcceptLine, the second start at one with Register.
DoublingInv ==
    /\ \A n \in Lines : LineFn(n) \in DOMAIN m_imports =>
          /\ n <= m_curr_input_number
          /\ LineFn(n) \in DOMAIN m_decl_map
          /\ m_imports[LineFn(n)] >= 1
          /\ phase = "decls" /\ n < m_curr_input_number => m_imports[LineFn(n)] >= 2
    /\ \A n, m \in Lines :
          n < m /\ LineFn(n) \in DOMAIN m_imports /\ LineFn(m) \in DOMAIN m_imports =>
              m_imports[LineFn(n)] >= 2 * m_imports[LineFn(m)]
    /\ phase = "decls" /\ res_fn => LineFn(m_curr_input_number) \in DOMAIN m_imports
    /\ \A n \in ran : LineFn(n) \in DOMAIN m_imports

\* Which of the names a declaration step registers is a line's function: that
\* of the current line, by the declaration that ends it.
LEMMA RegisteredLineFn ==
    ASSUME TypeOK, ProgInv, AtDecl
    PROVE  LET d == prog[pos]
           IN  /\ \A n \in Lines : LineFn(n) = Key(d) => n = m_curr_input_number
               /\ d.id = LineId(m_curr_input_number) => Key(d) = LineFn(m_curr_input_number)
<1> DEFINE d == prog[pos]
<1>1. ASSUME NEW n \in Lines, LineFn(n) = Key(d)
      PROVE  n = m_curr_input_number
    <2>1. d \in Decl
        BY DEF TypeOK, AtDecl
    <2>2. LineFn(n)[2] # "plain" /\ LineFn(n)[2] = Key(d)[2]
        BY <1>1 DEF LineFn
    <2>3. d.kind = "func"
        BY <2>2 DEF Key, Plain
    <2>4. LineFn(n) \in Symbols(d)
        BY <1>1, <2>3 DEF Key, Symbols, Fns
    <2> QED BY <2>4, LineFnSymbol
<1>2. d.id = LineId(m_curr_input_number) => Key(d) = LineFn(m_curr_input_number)
    BY DEF ProgInv, AtDecl, Key, LineFn
<1> QED BY <1>1, <1>2

\* AcceptLine doubles the copies of the lines before it.
LEMMA DoublingAccept ==
    ASSUME TypeOK, DoublingInv, AcceptLine
    PROVE  DoublingInv'
<1>1. /\ m_curr_input_number' = m_curr_input_number + 1
      /\ ~res_fn' /\ ran' = ran /\ m_decl_map' = m_decl_map
    BY DEF AcceptLine, ReadLine, history
<1>2. PICK libs \in SUBSET Lib : LoadImportedModules(libs)
    BY DEF AcceptLine
<1>3. \A n \in Lines : /\ LineFn(n) \in DOMAIN m_imports' <=> LineFn(n) \in DOMAIN m_imports
                       /\ LineFn(n) \in DOMAIN m_imports =>
                             /\ m_imports[LineFn(n)] \in Nat
                             /\ m_imports'[LineFn(n)] = 2 * m_imports[LineFn(n)]
    <2> SUFFICES ASSUME NEW n \in Lines
                 PROVE  /\ LineFn(n) \in DOMAIN m_imports' <=> LineFn(n) \in DOMAIN m_imports
                        /\ LineFn(n) \in DOMAIN m_imports =>
                              /\ m_imports[LineFn(n)] \in Nat
                              /\ m_imports'[LineFn(n)] = 2 * m_imports[LineFn(n)]
        OBVIOUS
    <2> DEFINE x == LineFn(n)
    <2>1. x \notin libs
        BY <1>2, LibAssumption
    <2> HIDE DEF x
    <2>2. /\ DOMAIN m_imports' = DOMAIN m_imports \cup libs
          /\ x \in DOMAIN m_imports => m_imports'[x] = 2 * m_imports[x] + 0
        BY <1>2, <2>1 DEF LoadImportedModules, CopiesFound, Copies
    <2>3. x \in DOMAIN m_imports => m_imports[x] \in Nat
        BY DEF TypeOK
    <2> QED BY <2>1, <2>2, <2>3 DEF x
<1>4. m_curr_input_number \in Int /\ Lines \subseteq Int
    BY BoundsAssumption DEF TypeOK, Lines
<1>5. ran \subseteq Lines
    BY DEF TypeOK
<1>6. ASSUME NEW n \in Lines, LineFn(n) \in DOMAIN m_imports'
      PROVE  /\ n <= m_curr_input_number'
             /\ LineFn(n) \in DOMAIN m_decl_map'
             /\ m_imports'[LineFn(n)] >= 1
             /\ phase' = "decls" /\ n < m_curr_input_number' => m_imports'[LineFn(n)] >= 2
    <2>1. /\ n <= m_curr_input_number /\ LineFn(n) \in DOMAIN m_decl_map
          /\ m_imports[LineFn(n)] >= 1
        BY <1>3, <1>6 DEF DoublingInv
    <2> QED BY <1>1, <1>3, <1>4, <1>6, <2>1
<1>7. ASSUME NEW n \in Lines, NEW m \in Lines,
             n < m, LineFn(n) \in DOMAIN m_imports', LineFn(m) \in DOMAIN m_imports'
      PROVE  m_imports'[LineFn(n)] >= 2 * m_imports'[LineFn(m)]
    <2>1. m_imports[LineFn(n)] >= 2 * m_imports[LineFn(m)]
        BY <1>3, <1>7 DEF DoublingInv
    <2> QED BY <1>3, <1>7, <2>1
<1>8. \A n \in ran' : LineFn(n) \in DOMAIN m_imports'
    BY <1>1, <1>3, <1>5 DEF DoublingInv
<1> QED BY <1>1, <1>6, <1>7, <1>8 DEF DoublingInv

\* Register adds one copy at most, that of the current line, to lines that
\* have two or more.
LEMMA DoublingRegister ==
    ASSUME TypeOK, ProgInv, RegisteredIsImported, DoublingInv,
           DeclareAndLink \/ DeclareAndFailToLink \/ DeclareWithErrors
    PROVE  DoublingInv'
<1> DEFINE d == prog[pos]
           c == m_curr_input_number
<1>1. /\ AtDecl /\ Register(d) /\ phase = "decls"
      /\ m_curr_input_number' = m_curr_input_number /\ ran' = ran
      /\ res_fn' => res_fn \/ d.id = LineId(c)
    BY DEF DeclareAndLink, DeclareAndFailToLink, DeclareWithErrors, AtDecl, history, ReturnTrue
<1>2. /\ \A n \in Lines : LineFn(n) = Key(d) => n = c
      /\ d.id = LineId(c) => Key(d) = LineFn(c)
    BY <1>1, RegisteredLineFn
<1>3. /\ c \in Lines /\ c \in Int /\ Lines \subseteq Int /\ ran \subseteq Lines
    BY BoundsAssumption DEF TypeOK, Lines
<1>4. DOMAIN m_decl_map \subseteq DOMAIN m_decl_map' /\ Key(d) \in DOMAIN m_decl_map'
    BY <1>1 DEF Register
<1> HIDE DEF d
\* What Register does to the copies of a line's function.
<1>5. ASSUME NEW n \in Lines
      PROVE  /\ LineFn(n) \in DOMAIN m_imports =>
                   /\ LineFn(n) \in DOMAIN m_imports'
                   /\ m_imports[LineFn(n)] \in Nat
                   /\ m_imports'[LineFn(n)] = m_imports[LineFn(n)]
             /\ LineFn(n) \in DOMAIN m_imports' \ DOMAIN m_imports =>
                   n = c /\ LineFn(n) = Key(d) /\ m_imports'[LineFn(n)] = 1
    <2> DEFINE x == LineFn(n)
    <2>1. x = Key(d) => n = c
        BY <1>2
    <2>2. x \in DOMAIN m_imports => x \in DOMAIN m_decl_map /\ m_imports[x] \in Nat
        BY DEF DoublingInv, TypeOK
    <2> HIDE DEF x
    <2>3. CASE IsNew(d)
        <3>1. /\ DOMAIN m_imports' = DOMAIN m_imports \cup {Key(d)}
              /\ Key(d) \notin DOMAIN m_decl_map
              /\ x \in DOMAIN m_imports' => m_imports'[x] = Copies(x) + IF x = Key(d) THEN 1 ELSE 0
            BY <1>1, <2>3 DEF Register, IsNew
        <3>2. CASE x \in DOMAIN m_imports
            <4>1. x # Key(d)
                BY <2>2, <3>1, <3>2
            <4> QED BY <2>2, <3>1, <3>2, <4>1 DEF x, Copies
        <3>3. CASE x \in DOMAIN m_imports' \ DOMAIN m_imports
            BY <2>1, <3>1, <3>3 DEF x, Copies
        <3>4. CASE x \notin DOMAIN m_imports'
            BY <3>1, <3>4 DEF x
        <3> QED BY <3>2, <3>3, <3>4
    <2>4. CASE ~IsNew(d)
        <3>1. m_imports' = m_imports
            BY <1>1, <2>4 DEF Register
        <3> QED BY <2>2, <3>1 DEF x
    <2> QED BY <2>3, <2>4
<1>6. ASSUME NEW n \in Lines, LineFn(n) \in DOMAIN m_imports'
      PROVE  /\ n <= m_curr_input_number'
             /\ LineFn(n) \in DOMAIN m_decl_map'
             /\ m_imports'[LineFn(n)] >= 1
             /\ phase' = "decls" /\ n < m_curr_input_number' => m_imports'[LineFn(n)] >= 2
    <2>1. CASE LineFn(n) \in DOMAIN m_imports
        <3>1. /\ n <= c /\ LineFn(n) \in DOMAIN m_decl_map
              /\ m_imports[LineFn(n)] >= 1 /\ (n < c => m_imports[LineFn(n)] >= 2)
            BY <1>1, <2>1 DEF DoublingInv
        <3> QED BY <1>1, <1>4, <1>5, <2>1, <3>1
    <2>2. CASE LineFn(n) \notin DOMAIN m_imports
        <3>1. n = c /\ LineFn(n) = Key(d) /\ m_imports'[LineFn(n)] = 1
            BY <1>5, <1>6, <2>2
        <3> QED BY <1>1, <1>3, <1>4, <3>1
    <2> QED BY <2>1, <2>2
<1>7. ASSUME NEW n \in Lines, NEW m \in Lines,
             n < m, LineFn(n) \in DOMAIN m_imports', LineFn(m) \in DOMAIN m_imports'
      PROVE  m_imports'[LineFn(n)] >= 2 * m_imports'[LineFn(m)]
    <2>1. n < c
        BY <1>1, <1>3, <1>6, <1>7
    <2>2. LineFn(n) \in DOMAIN m_imports
        BY <1>3, <1>5, <1>7, <2>1
    <2>3. m_imports'[LineFn(n)] >= 2
        BY <1>1, <1>5, <2>1, <2>2 DEF DoublingInv
    <2>4. CASE LineFn(m) \in DOMAIN m_imports
        BY <1>5, <1>7, <2>2, <2>4 DEF DoublingInv
    <2>5. CASE LineFn(m) \notin DOMAIN m_imports
        <3>1. m_imports'[LineFn(m)] = 1
            BY <1>5, <1>7, <2>5
        <3> QED BY <2>3, <3>1
    <2> QED BY <2>4, <2>5
<1>8. res_fn' => LineFn(c) \in DOMAIN m_imports'
    <2> SUFFICES ASSUME res_fn' PROVE LineFn(c) \in DOMAIN m_imports'
        OBVIOUS
    <2>1. CASE res_fn
        BY <1>1, <1>3, <1>5, <2>1 DEF DoublingInv
    <2>2. CASE d.id = LineId(c)
        <3>1. Key(d) = LineFn(c) /\ LineFn(c)[2] # "plain"
            BY <1>2, <2>2 DEF LineFn
        <3>2. CASE IsNew(d)
            BY <1>1, <3>1, <3>2 DEF Register
        <3>3. CASE ~IsNew(d)
            <4>1. LineFn(c) \in DOMAIN m_imports
                BY <3>1, <3>3 DEF IsNew, RegisteredIsImported
            <4> QED BY <1>3, <1>5, <4>1
        <3> QED BY <3>2, <3>3
    <2> QED BY <1>1, <2>1, <2>2
<1>9. \A n \in ran' : LineFn(n) \in DOMAIN m_imports'
    BY <1>1, <1>3, <1>5 DEF DoublingInv
<1> QED BY <1>1, <1>6, <1>7, <1>8, <1>9 DEF DoublingInv

\* The copies of the lines' functions go on doubling.
LEMMA DoublingNext ==
    TypeOK /\ ProgInv /\ RegisteredIsImported /\ DoublingInv /\ [Next]_vars => DoublingInv'
<1> SUFFICES ASSUME TypeOK, ProgInv, RegisteredIsImported, DoublingInv, [Next]_vars
             PROVE  DoublingInv'
    OBVIOUS
<1>1. CASE AcceptLine
    BY <1>1, DoublingAccept
<1>2. CASE DeclareAndLink \/ DeclareAndFailToLink \/ DeclareWithErrors
    BY <1>2, DoublingRegister
<1>3. CASE RunLine
    <2>1. /\ m_imports' = m_imports /\ m_decl_map' = m_decl_map
          /\ m_curr_input_number' = m_curr_input_number
          /\ phase' = "prompt" /\ phase = "decls" /\ res_fn
          /\ ran' = ran \cup {m_curr_input_number}
        BY <1>3 DEF RunLine, AtEnd, ReturnTrue, declVars
    <2> QED BY <2>1 DEF DoublingInv
<1>4. CASE ~(AcceptLine \/ DeclareAndLink \/ DeclareAndFailToLink \/ DeclareWithErrors \/ RunLine)
    <2>1. /\ m_imports' = m_imports /\ m_decl_map' = m_decl_map /\ ran' = ran
          /\ m_curr_input_number' \in {m_curr_input_number, m_curr_input_number + 1}
          /\ \/ phase' # "decls"
             \/ UNCHANGED <<phase, m_curr_input_number, res_fn>>
        BY <1>4 DEF Next, ExitLine, RejectLine, ReadLine, RejectRedeclaration, LineFunctionMissing,
              NothingToRun, ReturnTrue, ReturnFalse, vars, declVars, lineVars, history
    <2>2. m_curr_input_number \in Int /\ Lines \subseteq Int
        BY BoundsAssumption DEF TypeOK, Lines
    <2> QED BY <2>1, <2>2 DEF DoublingInv
<1> QED BY <1>1, <1>2, <1>3, <1>4

\* The module of a line that ran is imported by every line that follows, twice
\* as often, at least, as that of any line that ran after it.
THEOREM CopiesDouble == Spec => []ImportsDouble
<1>1. Init => DoublingInv
    BY DEF Init, DoublingInv
<1>2. TypeOK /\ DoublingInv => ImportsDouble
    BY DEF TypeOK, DoublingInv, ImportsDouble, Copies
<1> QED BY <1>1, <1>2, DoublingNext, LoopInvariant, ImportsComplete, PTL DEF Spec, ReplInv

=============================================================================
