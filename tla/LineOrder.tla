------------------------------ MODULE LineOrder ------------------------------
(***************************************************************************)
(* The order of what a line says, through the passes that rewrite its      *)
(* syntax tree (TransformAST.cpp), and how many declarations the passes    *)
(* meet as imports accumulate from line to line.                           *)
(*                                                                         *)
(* The parser gives a list of declarations; a statement or an expression   *)
(* is one of its own, a TopLevelCodeDecl.  The passes sort them behind the *)
(* others with std::sort and make one function of them.  std::sort keeps   *)
(* the order of equal elements if there are few, the libraries' threshold  *)
(* for insertion sort (32 in the one the program is built with).  For more *)
(* it partitions by swapping what stands on the wrong side, and nothing is *)
(* promised of the order of equal elements, code and code for one.         *)
(***************************************************************************)
EXTENDS Naturals, Sequences, FiniteSets

CONSTANTS
    Threshold,   \* elements std::sort leaves in order
    MaxItems,    \* bound: what one line holds
    MaxLines     \* bound: lines the compiler accepts

ASSUME BoundsAssumption == {Threshold, MaxItems, MaxLines} \subseteq Nat

VARIABLES
    m_imports,  \* REPL::m_imports: how many import declarations it holds
    written,    \* the line: what kind of thing stands where
    decls,      \* the declarations of src_file.Decls, without the combined code
    body,       \* the combined top level code, <<>> if there is none
    pass,       \* the last pass done
    lines       \* history: lines so far

vars == <<m_imports, written, decls, body, pass, lines>>

\* "expr" is an expression of a type other than (), "stmt" all other code.
Code == {"stmt", "expr"}
Items == {"import", "decl"} \cup Code
WrittenLines == UNION {[1 .. n -> Items] : n \in 0 .. MaxItems}

\* Where the declaration stands in the line, 0 for one the program added.
Node(kind, item) == [kind |-> kind, item |-> item]
Element(op, item) == [op |-> op, item |-> item]

IsTop(node) == node.kind \in Code

-----------------------------------------------------------------------------

Init ==
    /\ m_imports = 0
    /\ written = <<>> /\ decls = <<>> /\ body = <<>>
    /\ pass = "none" /\ lines = 0

\* parseIntoSourceFile, AddImportNodes and the type checker.
ReadLine ==
    /\ pass = "none" /\ lines < MaxLines
    /\ lines' = lines + 1
    /\ written' \in WrittenLines
    /\ decls' = [i \in 1 .. m_imports + Len(written') |->
                    IF i <= m_imports THEN Node("import", 0)
                    ELSE Node(written'[i - m_imports], i - m_imports)]
    /\ body' = <<>> /\ pass' = "read"
    /\ UNCHANGED m_imports

\* The results std::sort may have: the place each element is taken from.  The
\* order is kept if there are few elements, or none stands on the wrong side.
Stays ==
    \/ Len(decls) <= Threshold
    \/ \A i, j \in DOMAIN decls : i < j /\ IsTop(decls[i]) => IsTop(decls[j])

Sorts ==
    {from \in [DOMAIN decls -> DOMAIN decls] :
        /\ \A k \in DOMAIN decls : \E i \in DOMAIN decls : from[i] = k
        /\ \A i, j \in DOMAIN decls :
              i < j => /\ IsTop(decls[from[i]]) => IsTop(decls[from[j]])
                       /\ Stays /\ (IsTop(decls[from[i]]) <=> IsTop(decls[from[j]]))
                          => from[i] < from[j]}

\* find_if: the first top level code, past the end if there is none.
FirstTop(from) ==
    CHOOSE f \in 1 .. Len(decls) + 1 :
        /\ \A i \in 1 .. f - 1 : ~IsTop(decls[from[i]])
        /\ f <= Len(decls) => IsTop(decls[from[f]])

CombineTopLevelDeclsAndMoveToBack ==
    /\ pass = "read"
    /\ \E from \in Sorts :
          LET f == FirstTop(from)
          IN  /\ decls' = [i \in 1 .. f - 1 |-> decls[from[i]]]
              /\ body' = [i \in 1 .. Len(decls) + 1 - f |->
                             Element("run", decls[from[f - 1 + i]].item)]
    /\ pass' = "combined"
    /\ UNCHANGED <<m_imports, written, lines>>

\* Slip: the type of the last element is not looked at.
EndsInExpression_OfAnyType == body # <<>>

\* The value of the code's last expression goes to a variable, declared in
\* front, and is printed.
EndsInExpression == body # <<>> /\ written[body[Len(body)].item] = "expr"

TransformFinalExpressionAndAddGlobal_Twice ==  \* slip: the expression stays, too
    /\ pass = "combined" /\ pass' = "final"
    /\ IF EndsInExpression
       THEN LET last == body[Len(body)].item
            IN  /\ decls' = <<Node("decl", 0)>> \o decls
                /\ body' = body \o <<Element("assign", last), Element("print", last)>>
       ELSE UNCHANGED <<decls, body>>
    /\ UNCHANGED <<m_imports, written, lines>>

TransformFinalExpressionAndAddGlobal ==
    /\ pass = "combined" /\ pass' = "final"
    /\ IF EndsInExpression
       THEN LET last == body[Len(body)].item
            IN  /\ decls' = <<Node("decl", 0)>> \o decls
                /\ body' = [i \in 1 .. Len(body) + 1 |->
                               IF i < Len(body) THEN body[i]
                               ELSE Element(IF i = Len(body) THEN "assign" ELSE "print", last)]
       ELSE UNCHANGED <<decls, body>>
    /\ UNCHANGED <<m_imports, written, lines>>

\* WrapInFunction; the wrapped code counts as a declaration from then on.
WrapInFunction ==
    /\ pass = "final" /\ pass' = "wrapped"
    /\ decls' = IF body = <<>> THEN decls ELSE Append(decls, Node("decl", 0))
    /\ UNCHANGED <<m_imports, written, body, lines>>

\* LoadImportedModules keeps every import of the line, those AddImportNodes
\* put there included; each declaration, all new here, adds one of its own.
RegisterLine ==
    /\ pass = "wrapped" /\ pass' = "none"
    /\ m_imports' = m_imports + Len(decls)
    /\ UNCHANGED <<written, decls, body, lines>>

Next ==
    \/ ReadLine \/ CombineTopLevelDeclsAndMoveToBack
    \/ TransformFinalExpressionAndAddGlobal \/ WrapInFunction \/ RegisterLine

Spec == Init /\ [][Next]_vars

-----------------------------------------------------------------------------
(* Properties *)

\* The expression whose value is kept and printed is the last code of the
\* line as it was written, if that is an expression with a value; otherwise
\* there is none (the comment above REPL::ModifyAST: "last expression").
ResultIsLastExpression ==
    pass \in {"final", "wrapped"} =>
        LET code == {k \in DOMAIN written : written[k] \in Code}
        IN  {body[i].item : i \in {i \in DOMAIN body : body[i].op = "assign"}}
            = {k \in code : written[k] = "expr" /\ \A j \in code : j <= k}

\* The line's code runs in the order it was written in.
CodeKeepsItsOrder ==
    \A i, j \in DOMAIN body : i < j => body[i].item <= body[j].item

\* What std::sort is sure to leave in order, with all the imports added.
IsShort == m_imports + Len(written) <= Threshold

ShortLinesKeepTheirOrder ==
    pass # "none" /\ IsShort => ResultIsLastExpression /\ CodeKeepsItsOrder

\* In lines of any length, whatever std::sort makes of their order, nothing gets
\* lost or doubled between the two lists: all code of the line runs, each piece
\* once, and each of its imports and declarations is still there once.
EachOnce ==
    pass \in {"combined", "final", "wrapped"} =>
        \A k \in DOMAIN written :
            IF written[k] \in Code
            THEN \E i \in DOMAIN body :
                    \A j \in DOMAIN body : body[j].item = k /\ body[j].op # "print" <=> j = i
            ELSE \E i \in DOMAIN decls :
                    \A j \in DOMAIN decls : decls[j] = Node(written[k], k) <=> j = i

=============================================================================
