--------------------------- MODULE LineOrderProofs ---------------------------
(***************************************************************************)
(* A line short enough for std::sort to keep its order keeps it through    *)
(* all passes, and a line of any length keeps all it says, for every       *)
(* threshold and every bound.                                              *)
(***************************************************************************)
EXTENDS LineOrder, FiniteSetTheorems, TLAPS

CodeItems == {k \in DOMAIN written : written[k] \in Code}

Elements == [op : {"run", "assign", "print"}, item : Nat]
Nodes == [kind : Items, item : Nat]

TypeInv ==
    /\ m_imports \in Nat
    /\ written \in WrittenLines
    /\ decls \in Seq(Nodes)
    /\ pass \in {"none", "read", "combined", "final", "wrapped"}

\* After the parser and AddImportNodes.
ReadInv ==
    pass = "read" =>
        /\ decls = [i \in 1 .. m_imports + Len(written) |->
                       IF i <= m_imports THEN Node("import", 0)
                       ELSE Node(written[i - m_imports], i - m_imports)]
        /\ body = <<>>

\* The combined code of a short line is all its code, once, in order.
CombinedInv ==
    pass = "combined" /\ IsShort =>
        /\ body \in Seq(Elements)
        /\ \A i \in DOMAIN body : body[i].op = "run" /\ body[i].item \in CodeItems
        /\ \A k \in CodeItems : \E i \in DOMAIN body : body[i].item = k
        /\ \A i, j \in DOMAIN body : i < j => body[i].item < body[j].item

ResultInv ==
    pass \in {"final", "wrapped"} /\ IsShort =>
        /\ ResultIsLastExpression
        /\ CodeKeepsItsOrder

Inv == TypeInv /\ ReadInv /\ CombinedInv /\ ResultInv

\* Until the last expression is split in two, each element of the code runs.
OnceInv ==
    /\ pass = "combined" =>
          body \in Seq(Elements) /\ \A i \in DOMAIN body : body[i].op = "run"
    /\ EachOnce

\* A written line is a function on an initial segment of the numbers.
LEMMA LineShape ==
    ASSUME NEW w \in WrittenLines
    PROVE  Len(w) \in Nat /\ DOMAIN w = 1 .. Len(w) /\ w \in Seq(Items)
BY BoundsAssumption DEF WrittenLines

LEMMA Least ==
    ASSUME NEW S \in SUBSET Nat, S # {}
    PROVE  \E least \in S : \A n \in S : least <= n
<1>1. PICK x \in S : \A y \in S : ~ (<<y, x>> \in OpToRel(<, Nat))
  BY WFMin, NatLessThanWellFounded
<1>2. \A y \in S : <<y, x>> \in OpToRel(<, Nat) <=> y < x
  BY DEF OpToRel
<1>3. \A y \in S : ~ (y < x)
  BY <1>1, <1>2, Zenon
<1> QED BY <1>3

LEMMA ElementType ==
    ASSUME NEW k \in Nat
    PROVE  Element("run", k) \in Elements
BY DEF Element, Elements

LEMMA Finite ==
    ASSUME NEW S, NEW k \in Nat, NEW f \in [1 .. k -> S]
    PROVE  f \in Seq(S) /\ Len(f) = k /\ DOMAIN f = 1 .. k
OBVIOUS

\* Where the code begins in a sorted list.
LEMMA FirstTopSplits ==
    ASSUME Len(decls) \in Nat, DOMAIN decls = 1 .. Len(decls), NEW from \in Sorts
    PROVE  /\ FirstTop(from) \in 1 .. Len(decls) + 1
           /\ \A i \in 1 .. Len(decls) : IsTop(decls[from[i]]) <=> FirstTop(from) <= i
<1> DEFINE n == Len(decls)
           Top(i) == IsTop(decls[from[i]])
           Splits(f) == /\ \A i \in 1 .. f - 1 : ~Top(i)
                        /\ f <= n => Top(f)
           S == {i \in 1 .. n : Top(i)} \cup {n + 1}
<1>1. \A i, j \in 1 .. n : i < j /\ Top(i) => Top(j)
  BY DEF Sorts
<1>2. \E f \in 1 .. n + 1 : Splits(f)
  <2> S \in SUBSET Nat /\ n + 1 \in S
    OBVIOUS
  <2>1. PICK f \in S : \A i \in S : f <= i
    <3> HIDE DEF S
    <3> QED BY Least
  <2>2. \A i \in 1 .. f - 1 : ~Top(i)
    BY <2>1
  <2> QED BY <2>1, <2>2
<1>3. FirstTop(from) = CHOOSE f \in 1 .. n + 1 : Splits(f)
  BY DEF FirstTop
<1>4. FirstTop(from) \in 1 .. n + 1 /\ Splits(FirstTop(from))
  BY <1>2, <1>3
<1> HIDE DEF Top
<1>5. ASSUME NEW i \in 1 .. n
      PROVE  Top(i) <=> FirstTop(from) <= i
  BY <1>1, <1>4
<1> QED BY <1>4, <1>5 DEF Top

\* What the passes find: the imports added, then the line as written.
LEMMA ReadShape ==
    ASSUME TypeInv, ReadInv, pass = "read"
    PROVE  /\ Len(written) \in Nat /\ DOMAIN written = 1 .. Len(written)
           /\ m_imports + Len(written) \in Nat
           /\ Len(decls) = m_imports + Len(written) /\ DOMAIN decls = 1 .. m_imports + Len(written)
           /\ \A i \in 1 .. m_imports + Len(written) :
                 /\ decls[i] = IF i <= m_imports THEN Node("import", 0)
                               ELSE Node(written[i - m_imports], i - m_imports)
                 /\ decls[i].item = IF i <= m_imports THEN 0 ELSE i - m_imports
                 /\ IsTop(decls[i]) <=> i > m_imports /\ written[i - m_imports] \in Code
<1>1. Len(written) \in Nat /\ DOMAIN written = 1 .. Len(written) /\ m_imports + Len(written) \in Nat
  BY LineShape DEF TypeInv
<1>2. /\ Len(decls) = m_imports + Len(written) /\ DOMAIN decls = 1 .. m_imports + Len(written)
      /\ \A i \in 1 .. m_imports + Len(written) :
            decls[i] = IF i <= m_imports THEN Node("import", 0)
                       ELSE Node(written[i - m_imports], i - m_imports)
  BY <1>1 DEF ReadInv
<1>3. \A i \in 1 .. m_imports + Len(written) :
        /\ decls[i].item = IF i <= m_imports THEN 0 ELSE i - m_imports
        /\ IsTop(decls[i]) <=> i > m_imports /\ written[i - m_imports] \in Code
  BY <1>1, <1>2 DEF Node, IsTop, Code, TypeInv
<1> QED BY <1>1, <1>2, <1>3

\* However std::sort orders them, it takes each declaration from its place once:
\* on a finite set, what reaches everything is one to one.
LEMMA SortsOnce ==
    ASSUME Len(decls) \in Nat, DOMAIN decls = 1 .. Len(decls), NEW from \in Sorts
    PROVE  /\ from \in [1 .. Len(decls) -> 1 .. Len(decls)]
           /\ \A k \in 1 .. Len(decls) :
                 \E i \in 1 .. Len(decls) : \A j \in 1 .. Len(decls) : from[j] = k <=> j = i
<1> DEFINE D == 1 .. Len(decls)
<1>1. from \in [D -> D] /\ \A k \in D : \E i \in D : from[i] = k
  BY DEF Sorts
<1>2. IsFiniteSet(D)
  BY FS_Interval
<1> HIDE DEF D
<1>3. from \in Surjection(D, D)
  BY <1>1 DEF Surjection
<1>4. from \in Injection(D, D)
  BY <1>2, <1>3, FS_SurjSameCardinalityImpliesInj
<1>5. \A i, j \in D : from[i] = from[j] => i = j
  BY <1>1, <1>4 DEF Injection, IsInjective
<1> QED BY <1>1, <1>5 DEF D

\* Combining a short line.
LEMMA CombineKeeps ==
    ASSUME TypeInv, ReadInv, pass = "read", IsShort,
           CombineTopLevelDeclsAndMoveToBack
    PROVE  CombinedInv'
<1> DEFINE n == m_imports + Len(written)
<1>1. Len(written) \in Nat /\ DOMAIN written = 1 .. Len(written) /\ n \in Nat
  BY ReadShape
<1>2. /\ Len(decls) = n /\ DOMAIN decls = 1 .. n
      /\ \A i \in 1 .. n :
            /\ decls[i].item = IF i <= m_imports THEN 0 ELSE i - m_imports
            /\ IsTop(decls[i]) <=> i > m_imports /\ written[i - m_imports] \in Code
  BY ReadShape
<1>3. PICK from \in Sorts :
         body' = [i \in 1 .. n + 1 - FirstTop(from) |->
                     Element("run", decls[from[FirstTop(from) - 1 + i]].item)]
  BY <1>2 DEF CombineTopLevelDeclsAndMoveToBack
<1> DEFINE f == FirstTop(from)
<1>4. /\ f \in 1 .. n + 1
      /\ \A i \in 1 .. n : IsTop(decls[from[i]]) <=> f <= i
  BY <1>1, <1>2, FirstTopSplits
<1>5. /\ from \in [1 .. n -> 1 .. n]
      /\ \A k \in 1 .. n : \E i \in 1 .. n : from[i] = k
      /\ \A i, j \in 1 .. n :
            i < j /\ (IsTop(decls[from[i]]) <=> IsTop(decls[from[j]])) => from[i] < from[j]
  BY <1>2 DEF Sorts, Stays, IsShort
<1> HIDE DEF n, f
<1> DEFINE m == n + 1 - f
           at(i) == from[f - 1 + i] - m_imports
<1>6. m \in Nat /\ \A i \in 1 .. m : f - 1 + i \in 1 .. n /\ f <= f - 1 + i
  BY <1>1, <1>4
<1>7. \A i \in 1 .. m : at(i) \in CodeItems /\ decls[from[f - 1 + i]].item = at(i)
  <2> TAKE i \in 1 .. m
  <2>1. from[f - 1 + i] \in 1 .. n /\ IsTop(decls[from[f - 1 + i]])
    BY <1>4, <1>5, <1>6
  <2> DEFINE j == from[f - 1 + i]
  <2>2. j > m_imports /\ written[j - m_imports] \in Code /\ decls[j].item = j - m_imports
    BY <1>1, <1>2, <2>1 DEF TypeInv
  <2>3. j - m_imports \in DOMAIN written
    BY <1>1, <2>1, <2>2 DEF TypeInv, n
  <2> HIDE DEF j
  <2>4. j - m_imports \in CodeItems
    BY <2>2, <2>3 DEF CodeItems
  <2> QED BY <2>2, <2>4 DEF j
<1>8. /\ DOMAIN body' = 1 .. m /\ Len(body') = m
      /\ \A i \in 1 .. m : body'[i] = Element("run", at(i))
  BY <1>3, <1>6, <1>7 DEF f
<1>9. \A i \in 1 .. m : body'[i].item = at(i)
  BY <1>8 DEF Element
<1>10. CodeItems' = CodeItems
  BY DEF CombineTopLevelDeclsAndMoveToBack, CodeItems
<1>11. /\ body' \in Seq(Elements)
       /\ \A i \in 1 .. m : body'[i].op = "run" /\ body'[i].item \in CodeItems
  <2>1. \A i \in 1 .. m : at(i) \in Nat
    BY <1>7, LineShape DEF CodeItems, TypeInv
  <2>2. \A i \in 1 .. m : Element("run", at(i)) \in Elements
    <3> TAKE i \in 1 .. m
    <3>1. at(i) \in Nat
      BY <2>1
    <3> HIDE DEF at
    <3> QED BY <3>1, ElementType
  <2>3. body' \in [1 .. m -> Elements]
    BY <1>3, <1>8, <2>2 DEF f
  <2>4. \A i \in 1 .. m : body'[i].op = "run" /\ body'[i].item \in CodeItems
    BY <1>7, <1>8 DEF Element
  <2> HIDE DEF m
  <2> QED BY <1>6, <2>3, <2>4, Finite
<1>12. ASSUME NEW k \in CodeItems
       PROVE  \E i \in 1 .. m : body'[i].item = k
  <2>1. m_imports + k \in 1 .. n /\ IsTop(decls[m_imports + k])
    BY <1>1, <1>2 DEF CodeItems, TypeInv, n
  <2>2. PICK j \in 1 .. n : from[j] = m_imports + k
    BY <1>5, <2>1
  <2>3. f <= j
    BY <1>4, <2>1, <2>2
  <2>4. j - f + 1 \in 1 .. m /\ f - 1 + (j - f + 1) = j
    BY <1>1, <1>4, <2>3
  <2>5. at(j - f + 1) = k
    BY <2>2, <2>4, <1>1 DEF CodeItems, TypeInv
  <2> HIDE DEF at
  <2> QED BY <1>9, <2>4, <2>5
<1>13. ASSUME NEW i \in 1 .. m, NEW j \in 1 .. m, i < j
       PROVE  body'[i].item < body'[j].item
  <2>1. /\ f - 1 + i \in 1 .. n /\ f - 1 + j \in 1 .. n
        /\ IsTop(decls[from[f - 1 + i]]) /\ IsTop(decls[from[f - 1 + j]])
        /\ f - 1 + i < f - 1 + j
    <3>1. /\ f - 1 + i \in 1 .. n /\ f <= f - 1 + i
          /\ f - 1 + j \in 1 .. n /\ f <= f - 1 + j
      BY <1>6
    <3> QED BY <1>1, <1>4, <1>13, <3>1
  <2>2. from[f - 1 + i] < from[f - 1 + j]
    BY <1>5, <2>1
  <2> QED BY <1>5, <1>9, <2>1, <2>2 DEF TypeInv
<1> QED BY <1>8, <1>10, <1>11, <1>12, <1>13 DEF CombinedInv

\* What becomes of the last expression.
LEMMA FinalKeeps ==
    ASSUME TypeInv, CombinedInv, pass = "combined", IsShort,
           TransformFinalExpressionAndAddGlobal
    PROVE  ResultInv'
<1> DEFINE L == Len(body)
           Assigned == {body'[i].item : i \in {i \in DOMAIN body' : body'[i].op = "assign"}}
           Last == {k \in CodeItems : written[k] = "expr" /\ \A j \in CodeItems : j <= k}
<1>1. CodeItems \subseteq Nat
  BY LineShape DEF TypeInv, CodeItems
<1>2. /\ L \in Nat /\ DOMAIN body = 1 .. L
      /\ \A k \in CodeItems : \E i \in 1 .. L : body[i].item = k
      /\ \A i, j \in 1 .. L : i < j => body[i].item < body[j].item
      /\ \A i \in 1 .. L : body[i].op = "run" /\ body[i].item \in CodeItems
      /\ body = <<>> <=> L = 0
  BY DEF CombinedInv
<1>3. UNCHANGED <<written, m_imports>>
  BY DEF TransformFinalExpressionAndAddGlobal
<1>4. SUFFICES /\ Assigned = Last
               /\ \A i, j \in DOMAIN body' : i < j => body'[i].item <= body'[j].item
  BY <1>3 DEF ResultInv, ResultIsLastExpression, CodeKeepsItsOrder, CodeItems
<1>5. /\ EndsInExpression <=> L # 0 /\ written[body[L].item] = "expr"
      /\ ~EndsInExpression => body' = body
      /\ EndsInExpression =>
            body' = [i \in 1 .. L + 1 |->
                        IF i < L THEN body[i]
                        ELSE Element(IF i = L THEN "assign" ELSE "print", body[L].item)]
  BY <1>2 DEF TransformFinalExpressionAndAddGlobal, EndsInExpression
<1> HIDE DEF L
<1>9. \A i \in 1 .. L : body[i].item \in Nat
  BY <1>1, <1>2
<1>6. \A i, j \in 1 .. L : i < j => body[i].item <= body[j].item
  BY <1>2, <1>9
<1>7. CASE L = 0
  <2>1. body' = <<>> /\ CodeItems = {}
    BY <1>2, <1>5, <1>7
  <2> QED BY <2>1
<1>8. CASE L # 0
  <2>1. L \in 1 .. L /\ body[L].item \in CodeItems
    BY <1>2, <1>8
  <2>2. ASSUME NEW k \in CodeItems
        PROVE  k <= body[L].item
    <3>1. PICK i \in 1 .. L : body[i].item = k
      BY <1>2
    <3>2. i = L \/ i < L
      BY <1>2
    <3> QED BY <1>1, <1>6, <2>1, <3>1, <3>2
  <2>3. Last = IF written[body[L].item] = "expr" THEN {body[L].item} ELSE {}
    BY <1>1, <2>1, <2>2
  <2>4. CASE written[body[L].item] = "expr"
    <3>1. body' = [i \in 1 .. L + 1 |->
                     IF i < L THEN body[i]
                     ELSE Element(IF i = L THEN "assign" ELSE "print", body[L].item)]
      BY <1>5, <1>8, <2>4
    <3> DEFINE at(i) == IF i < L THEN i ELSE L
    <3>2. DOMAIN body' = 1 .. L + 1 /\ L \in 1 .. L + 1
      BY <1>2, <2>1, <3>1
    <3>3. ASSUME NEW i \in 1 .. L + 1
          PROVE  /\ body'[i].op = "assign" <=> i = L
                 /\ body'[i].item = body[at(i)].item
                 /\ at(i) \in 1 .. L
      <4>1. CASE i < L
        <5>1. body'[i] = body[i] /\ i \in 1 .. L
          BY <1>2, <3>1, <4>1
        <5> QED BY <1>2, <4>1, <5>1
      <4>2. CASE i = L
        <5>1. body'[i] = Element("assign", body[L].item)
          BY <1>2, <3>1, <4>2
        <5> QED BY <1>2, <2>1, <4>2, <5>1 DEF Element
      <4>3. CASE i > L
        <5>1. body'[i] = Element("print", body[L].item)
          BY <1>2, <3>1, <4>3
        <5> QED BY <1>2, <2>1, <4>3, <5>1 DEF Element
      <4> QED BY <1>2, <4>1, <4>2, <4>3
    <3>4. Assigned = {body[L].item}
      <4>1. {i \in DOMAIN body' : body'[i].op = "assign"} = {L}
        BY <3>2, <3>3
      <4>2. body'[L].item = body[L].item
        BY <1>2, <3>2, <3>3
      <4>3. Assigned = {body'[i].item : i \in {L}}
        BY <4>1
      <4> QED BY <4>2, <4>3
    <3>5. ASSUME NEW i \in 1 .. L + 1, NEW j \in 1 .. L + 1, i < j
          PROVE  body'[i].item <= body'[j].item
      <4>1. /\ at(i) \in 1 .. L /\ at(j) \in 1 .. L
            /\ at(i) < at(j) \/ at(i) = at(j)
        BY <1>2, <2>1, <3>5
      <4>2. body'[i].item = body[at(i)].item /\ body'[j].item = body[at(j)].item
        BY <3>3
      <4> HIDE DEF at
      <4> QED BY <1>6, <1>9, <4>1, <4>2
    <3> QED BY <2>3, <2>4, <3>2, <3>4, <3>5
  <2>5. CASE written[body[L].item] # "expr"
    <3>1. body' = body /\ Assigned = {}
      BY <1>2, <1>5, <2>5
    <3> QED BY <1>2, <1>6, <2>3, <2>5, <3>1
  <2> QED BY <2>4, <2>5
<1> QED BY <1>2, <1>7, <1>8

LEMMA TypeNext ==
    ASSUME TypeInv, [Next]_vars
    PROVE  TypeInv'
<1> USE DEF TypeInv
<1>1. CASE ReadLine
  <2>1. /\ written' \in WrittenLines /\ m_imports' = m_imports /\ pass' = "read"
        /\ Len(written') \in Nat /\ written' \in [1 .. Len(written') -> Items]
    BY <1>1, LineShape DEF ReadLine
  <2> DEFINE n == m_imports + Len(written')
  <2>2. decls' \in [1 .. n -> Nodes]
    BY <1>1, <2>1 DEF ReadLine, Node, Nodes, Items, Code
  <2>3. n \in Nat
    BY <2>1
  <2> HIDE DEF n
  <2>4. decls' \in Seq(Nodes)
    BY <2>2, <2>3, Finite
  <2> QED BY <2>1, <2>4
<1>2. CASE CombineTopLevelDeclsAndMoveToBack
  <2>1. PICK from \in Sorts : decls' = [i \in 1 .. FirstTop(from) - 1 |-> decls[from[i]]]
    BY <1>2 DEF CombineTopLevelDeclsAndMoveToBack
  <2>2. Len(decls) \in Nat /\ DOMAIN decls = 1 .. Len(decls)
    OBVIOUS
  <2>3. FirstTop(from) \in 1 .. Len(decls) + 1
    BY <2>2, FirstTopSplits
  <2> DEFINE n == FirstTop(from) - 1
  <2>4. n \in Nat /\ \A i \in 1 .. n : decls[from[i]] \in Nodes
    <3>1. n \in Nat /\ 1 .. n \subseteq 1 .. Len(decls)
      BY <2>2, <2>3
    <3>2. \A i \in 1 .. Len(decls) : from[i] \in 1 .. Len(decls)
      BY <2>2 DEF Sorts
    <3>3. \A i \in 1 .. Len(decls) : decls[i] \in Nodes
      BY <2>2
    <3> HIDE DEF n, TypeInv
    <3> QED BY <3>1, <3>2, <3>3
  <2>5. decls' \in [1 .. n -> Nodes]
    BY <2>1, <2>4
  <2> HIDE DEF n
  <2>6. decls' \in Seq(Nodes)
    BY <2>4, <2>5, Finite
  <2> QED BY <1>2, <2>6 DEF CombineTopLevelDeclsAndMoveToBack
<1>3. CASE TransformFinalExpressionAndAddGlobal
  <2>1. Node("decl", 0) \in Nodes
    BY DEF Node, Nodes, Items
  <2>2. <<Node("decl", 0)>> \o decls \in Seq(Nodes)
    <3> HIDE DEF TypeInv
    <3>1. decls \in Seq(Nodes)
      BY DEF TypeInv
    <3> QED BY <2>1, <3>1
  <2>3. decls' = decls \/ decls' = <<Node("decl", 0)>> \o decls
    BY <1>3 DEF TransformFinalExpressionAndAddGlobal
  <2>4. pass' = "final" /\ UNCHANGED <<m_imports, written>>
    BY <1>3 DEF TransformFinalExpressionAndAddGlobal
  <2> QED BY <2>2, <2>3, <2>4
<1>4. CASE WrapInFunction
  <2>1. Node("decl", 0) \in Nodes
    BY DEF Node, Nodes, Items
  <2> QED BY <1>4, <2>1 DEF WrapInFunction
<1>5. CASE RegisterLine
  BY <1>5 DEF RegisterLine
<1>6. CASE UNCHANGED vars
  BY <1>6 DEF vars
<1> QED BY <1>1, <1>2, <1>3, <1>4, <1>5, <1>6 DEF Next

LEMMA InvNext ==
    ASSUME Inv, [Next]_vars
    PROVE  Inv'
<1>1. TypeInv'
  BY TypeNext DEF Inv
<1>2. CASE ReadLine
  BY <1>1, <1>2 DEF Inv, ReadLine, ReadInv, CombinedInv, ResultInv
<1>3. CASE CombineTopLevelDeclsAndMoveToBack
  <2>1. pass = "read" /\ pass' = "combined" /\ (IsShort' <=> IsShort)
    BY <1>3 DEF CombineTopLevelDeclsAndMoveToBack, IsShort
  <2>2. IsShort => CombinedInv'
    BY <1>3, <2>1, CombineKeeps DEF Inv
  <2> QED BY <1>1, <2>1, <2>2 DEF Inv, ReadInv, CombinedInv, ResultInv
<1>4. CASE TransformFinalExpressionAndAddGlobal
  <2>1. pass = "combined" /\ pass' = "final" /\ (IsShort' <=> IsShort)
    BY <1>4 DEF TransformFinalExpressionAndAddGlobal, IsShort
  <2>2. IsShort => ResultInv'
    BY <1>4, <2>1, FinalKeeps DEF Inv
  <2> QED BY <1>1, <2>1, <2>2 DEF Inv, ReadInv, CombinedInv, ResultInv
<1>5. CASE WrapInFunction
  <2>1. /\ pass = "final" /\ pass' = "wrapped" /\ (IsShort' <=> IsShort)
        /\ UNCHANGED <<written, body>>
    BY <1>5 DEF WrapInFunction, IsShort
  <2>2. ResultInv'
    BY <2>1 DEF Inv, ResultInv, ResultIsLastExpression, CodeKeepsItsOrder
  <2> QED BY <1>1, <2>1, <2>2 DEF ReadInv, CombinedInv, Inv
<1>6. CASE RegisterLine
  BY <1>1, <1>6 DEF RegisterLine, Inv, ReadInv, CombinedInv, ResultInv
<1>7. CASE UNCHANGED vars
  <2>1. UNCHANGED <<m_imports, written, decls, body, pass>>
    BY <1>7 DEF vars
  <2>2. ReadInv'
    BY <2>1 DEF Inv, ReadInv
  <2>3. CombinedInv'
    BY <2>1 DEF Inv, CombinedInv, IsShort, CodeItems
  <2>4. ResultInv'
    BY <2>1 DEF Inv, ResultInv, IsShort, ResultIsLastExpression, CodeKeepsItsOrder
  <2> QED BY <1>1, <2>2, <2>3, <2>4 DEF Inv
<1> QED BY <1>2, <1>3, <1>4, <1>5, <1>6, <1>7 DEF Next

LEMMA Invariant == Spec => []Inv
<1>1. Init => Inv
  <2> SUFFICES ASSUME Init PROVE Inv
    OBVIOUS
  <2>1. <<>> \in WrittenLines
    BY BoundsAssumption, 0 \in 0 .. MaxItems DEF WrittenLines
  <2> QED BY <2>1 DEF Init, Inv, TypeInv, ReadInv, CombinedInv, ResultInv
<1>2. Inv /\ [Next]_vars => Inv'
  BY InvNext
<1> QED BY <1>1, <1>2, PTL DEF Spec

\* A line that, with all imports added, has no more declarations than
\* std::sort leaves in order runs its code in the order written, and prints
\* its last expression.
THEOREM ShortLines == Spec => []ShortLinesKeepTheirOrder
<1>1. Inv => ShortLinesKeepTheirOrder
  <2> SUFFICES ASSUME Inv, pass # "none", IsShort
               PROVE  ResultIsLastExpression /\ CodeKeepsItsOrder
    BY DEF ShortLinesKeepTheirOrder
  <2>1. CASE pass = "read"
    BY <2>1 DEF Inv, ReadInv, ResultIsLastExpression, CodeKeepsItsOrder
  <2>2. CASE pass = "combined"
    <3>1. CodeItems \subseteq Nat
      BY LineShape DEF Inv, TypeInv, CodeItems
    <3>2. \A i \in DOMAIN body : body[i].item \in Nat
      BY <2>2, <3>1 DEF Inv, CombinedInv
    <3>3. \A i, j \in DOMAIN body : i < j => body[i].item < body[j].item
      BY <2>2 DEF Inv, CombinedInv
    <3> QED BY <2>2, <3>2, <3>3 DEF ResultIsLastExpression, CodeKeepsItsOrder
  <2>3. CASE pass \in {"final", "wrapped"}
    BY <2>3 DEF Inv, ResultInv
  <2> QED BY <2>1, <2>2, <2>3 DEF Inv, TypeInv
<1> QED BY <1>1, Invariant, PTL

-----------------------------------------------------------------------------
(* Lines of any length *)

\* Something is in a list once.
Once(x, s) == \E i \in DOMAIN s : \A j \in DOMAIN s : s[j] = x <=> j = i

\* It is still there once when something else is put in front or at the end.
LEMMA OnceBesides ==
    ASSUME NEW S, NEW s \in Seq(S), NEW e \in S, NEW x, e # x, Once(x, s)
    PROVE  Once(x, <<e>> \o s) /\ Once(x, Append(s, e))
<1> DEFINE n == Len(s)
           front == <<e>> \o s
           back == Append(s, e)
<1>1. n \in Nat /\ DOMAIN s = 1 .. n
  OBVIOUS
<1>2. PICK i \in 1 .. n : \A j \in 1 .. n : s[j] = x <=> j = i
  BY <1>1 DEF Once
<1>3. /\ DOMAIN front = 1 .. n + 1 /\ front[1] = e
      /\ \A j \in 1 .. n + 1 : j # 1 => front[j] = s[j - 1] /\ j - 1 \in 1 .. n
  OBVIOUS
<1>4. /\ DOMAIN back = 1 .. n + 1 /\ back[n + 1] = e
      /\ \A j \in 1 .. n + 1 : j # n + 1 => back[j] = s[j] /\ j \in 1 .. n
  OBVIOUS
<1> HIDE DEF n, front, back
<1>5. i + 1 \in 1 .. n + 1 /\ \A j \in 1 .. n + 1 : front[j] = x <=> j = i + 1
  BY <1>1, <1>2, <1>3
<1>6. i \in 1 .. n + 1 /\ \A j \in 1 .. n + 1 : back[j] = x <=> j = i
  BY <1>1, <1>2, <1>4
<1>7. Once(x, front)
  BY <1>3, <1>5 DEF Once
<1>8. Once(x, back)
  BY <1>4, <1>6 DEF Once
<1> QED BY <1>7, <1>8 DEF front, back

\* Combining a line, long or short.
LEMMA CombineOnce ==
    ASSUME TypeInv, ReadInv, CombineTopLevelDeclsAndMoveToBack
    PROVE  OnceInv'
<1> DEFINE n == m_imports + Len(written)
<1>0. pass = "read" /\ pass' = "combined" /\ written' = written
  BY DEF CombineTopLevelDeclsAndMoveToBack
<1>1. Len(written) \in Nat /\ DOMAIN written = 1 .. Len(written) /\ n \in Nat /\ m_imports \in Nat
  BY <1>0, ReadShape DEF TypeInv
<1>2. Len(decls) = n /\ DOMAIN decls = 1 .. n
  BY <1>0, ReadShape
<1>3. \A i \in 1 .. n :
        /\ decls[i] = IF i <= m_imports THEN Node("import", 0)
                      ELSE Node(written[i - m_imports], i - m_imports)
        /\ decls[i].item = IF i <= m_imports THEN 0 ELSE i - m_imports
        /\ IsTop(decls[i]) <=> i > m_imports /\ written[i - m_imports] \in Code
  BY <1>0, ReadShape
<1>4. PICK from \in Sorts :
         /\ decls' = [i \in 1 .. FirstTop(from) - 1 |-> decls[from[i]]]
         /\ body' = [i \in 1 .. n + 1 - FirstTop(from) |->
                        Element("run", decls[from[FirstTop(from) - 1 + i]].item)]
  BY <1>2 DEF CombineTopLevelDeclsAndMoveToBack
<1> DEFINE f == FirstTop(from)
           m == n + 1 - f
<1>5. /\ f \in 1 .. n + 1
      /\ \A i \in 1 .. n : IsTop(decls[from[i]]) <=> f <= i
  BY <1>1, <1>2, FirstTopSplits
<1>6. /\ from \in [1 .. n -> 1 .. n]
      /\ \A k \in 1 .. n : \E i \in 1 .. n : \A j \in 1 .. n : from[j] = k <=> j = i
  BY <1>1, <1>2, SortsOnce
<1>7. /\ DOMAIN decls' = 1 .. f - 1 /\ \A i \in 1 .. f - 1 : decls'[i] = decls[from[i]]
      /\ DOMAIN body' = 1 .. m
      /\ \A i \in 1 .. m : body'[i] = Element("run", decls[from[f - 1 + i]].item)
  BY <1>4
<1>8. /\ m \in Nat
      /\ \A i \in 1 .. m : f - 1 + i \in 1 .. n
      /\ \A i \in 1 .. f - 1 : i \in 1 .. n
      /\ \A i \in 1 .. n : f <= i => i - f + 1 \in 1 .. m /\ f - 1 + (i - f + 1) = i
  BY <1>1, <1>5
<1>9. ASSUME NEW k \in 1 .. Len(written)
      PROVE  /\ m_imports + k \in 1 .. n
             /\ IsTop(decls[m_imports + k]) <=> written[k] \in Code
             /\ \A e \in 1 .. n : decls[e].item = k <=> e = m_imports + k
             /\ \A e \in 1 .. n : decls[e] = Node(written[k], k) <=> e = m_imports + k
  <2> DEFINE d == m_imports + k
  <2>1. d \in 1 .. n /\ d - m_imports = k /\ d > m_imports /\ k \in Nat /\ k # 0
    BY <1>1
  <2>2. IsTop(decls[d]) <=> written[k] \in Code
    BY <1>3, <2>1
  <2>3. \A e \in 1 .. n : decls[e].item = k <=> e = d
    BY <1>1, <1>3, <2>1
  <2>4. decls[d] = Node(written[k], k)
    BY <1>1, <1>3, <2>1
  <2>5. Node(written[k], k).item = k
    BY DEF Node
  <2> HIDE DEF n
  <2> QED BY <2>1, <2>2, <2>3, <2>4, <2>5
<1> HIDE DEF n, m, f
<1>10. /\ body' \in Seq(Elements)
       /\ \A i \in DOMAIN body' : body'[i].op = "run"
  <2>1. \A i \in 1 .. m : decls[from[f - 1 + i]].item \in Nat
    <3> TAKE i \in 1 .. m
    <3>1. from[f - 1 + i] \in 1 .. n
      BY <1>6, <1>8
    <3> DEFINE e == from[f - 1 + i]
    <3>2. decls[e].item = IF e <= m_imports THEN 0 ELSE e - m_imports
      BY <1>3, <3>1
    <3>3. e \in Nat
      BY <1>1, <3>1
    <3> HIDE DEF e
    <3>4. decls[e].item \in Nat
      BY <1>1, <3>2, <3>3
    <3> QED BY <3>4 DEF e
  <2>2. \A i \in 1 .. m : body'[i] \in Elements /\ body'[i].op = "run"
    <3> TAKE i \in 1 .. m
    <3>1. body'[i] = Element("run", decls[from[f - 1 + i]].item)
      BY <1>7
    <3> QED BY <2>1, <3>1 DEF Element, Elements
  <2>3. body' \in [1 .. m -> Elements]
    <3>1. body' = [i \in 1 .. m |-> body'[i]]
      BY <1>4 DEF m, f
    <3> QED BY <2>2, <3>1
  <2> QED BY <1>7, <1>8, <2>2, <2>3, Finite
<1>11. ASSUME NEW k \in 1 .. Len(written)
       PROVE  IF written[k] \in Code
              THEN \E i \in DOMAIN body' :
                      \A j \in DOMAIN body' : body'[j].item = k /\ body'[j].op # "print" <=> j = i
              ELSE Once(Node(written[k], k), decls')
  <2> DEFINE d == m_imports + k
  <2>1. PICK i \in 1 .. n : \A j \in 1 .. n : from[j] = d <=> j = i
    BY <1>6, <1>9
  <2>2. f <= i <=> written[k] \in Code
    BY <1>5, <1>9, <2>1
  <2>3. CASE written[k] \in Code
    <3> DEFINE h == i - f + 1
    <3>1. h \in 1 .. m /\ f - 1 + h = i
      BY <1>8, <2>2, <2>3
    <3>2. ASSUME NEW j \in 1 .. m
          PROVE  body'[j].item = k /\ body'[j].op # "print" <=> j = h
      <4>1. body'[j].item = decls[from[f - 1 + j]].item /\ body'[j].op = "run"
        BY <1>7 DEF Element
      <4>2. f - 1 + j \in 1 .. n /\ from[f - 1 + j] \in 1 .. n
        BY <1>6, <1>8
      <4>3. body'[j].item = k <=> from[f - 1 + j] = d
        BY <1>9, <4>1, <4>2
      <4>4. body'[j].item = k <=> f - 1 + j = i
        BY <2>1, <4>2, <4>3
      <4>5. f - 1 + j = i <=> j = h
        BY <1>1, <1>5, <1>8
      <4> QED BY <4>1, <4>4, <4>5
    <3> HIDE DEF h
    <3> QED BY <1>7, <2>3, <3>1, <3>2
  <2>4. CASE written[k] \notin Code
    <3>1. i \in 1 .. f - 1
      BY <1>1, <1>5, <2>2, <2>4
    <3>2. ASSUME NEW j \in 1 .. f - 1
          PROVE  decls'[j] = Node(written[k], k) <=> j = i
      <4>1. j \in 1 .. n /\ from[j] \in 1 .. n /\ decls'[j] = decls[from[j]]
        BY <1>6, <1>7, <1>8
      <4> QED BY <1>9, <2>1, <4>1
    <3> QED BY <1>7, <2>4, <3>1, <3>2 DEF Once
  <2> QED BY <2>3, <2>4
<1>12. EachOnce'
  BY <1>0, <1>1, <1>11 DEF EachOnce, Once
<1> QED BY <1>0, <1>10, <1>12 DEF OnceInv

\* What the passes add is told from all the line holds by its place.
LEMMA AddedNode ==
    ASSUME written \in WrittenLines, NEW k \in DOMAIN written
    PROVE  Node("decl", 0) # Node(written[k], k) /\ Node("decl", 0) \in Nodes
<1>1. k \in Nat /\ k # 0
  BY LineShape
<1> QED BY <1>1 DEF Node, Nodes, Items

\* Splitting the last expression in an assignment and what prints it.
LEMMA FinalOnce ==
    ASSUME TypeInv, OnceInv, TransformFinalExpressionAndAddGlobal
    PROVE  OnceInv'
<1>0. pass = "combined" /\ pass' = "final" /\ written' = written
  BY DEF TransformFinalExpressionAndAddGlobal
<1>1. /\ body \in Seq(Elements) /\ Len(body) \in Nat /\ DOMAIN body = 1 .. Len(body)
      /\ \A i \in 1 .. Len(body) : body[i].op = "run"
  BY <1>0 DEF OnceInv
<1>2. CASE ~EndsInExpression
  BY <1>0, <1>2 DEF TransformFinalExpressionAndAddGlobal, OnceInv, EachOnce
<1>3. CASE EndsInExpression
  <2> DEFINE L == Len(body)
  <2>1. /\ decls' = <<Node("decl", 0)>> \o decls
        /\ body' = [i \in 1 .. L + 1 |->
                       IF i < L THEN body[i]
                       ELSE Element(IF i = L THEN "assign" ELSE "print", body[L].item)]
    BY <1>3 DEF TransformFinalExpressionAndAddGlobal
  <2>2. L \in Nat /\ L # 0
    BY <1>1, <1>3 DEF EndsInExpression
  <2> HIDE DEF L
  <2>3. DOMAIN body' = 1 .. L + 1
    BY <2>1
  <2>4. ASSUME NEW j \in 1 .. L
        PROVE  j \in 1 .. L + 1 /\ body'[j].item = body[j].item /\ body'[j].op # "print"
    <3>1. CASE j < L
      <4>1. body'[j] = body[j]
        BY <2>1, <2>2, <3>1
      <4>2. body[j].op = "run"
        BY <1>1 DEF L
      <4> QED BY <2>2, <4>1, <4>2
    <3>2. CASE j = L
      BY <2>1, <2>2, <3>2 DEF Element
    <3> QED BY <2>2, <3>1, <3>2
  <2>5. body'[L + 1].op = "print"
    BY <2>1, <2>2 DEF Element
  <2>6. ASSUME NEW k \in DOMAIN written
        PROVE  IF written[k] \in Code
               THEN \E i \in DOMAIN body' :
                       \A j \in DOMAIN body' :
                           body'[j].item = k /\ body'[j].op # "print" <=> j = i
               ELSE Once(Node(written[k], k), decls')
    <3>1. CASE written[k] \in Code
      <4>1. PICK i \in 1 .. L :
               \A j \in 1 .. L : body[j].item = k /\ body[j].op # "print" <=> j = i
        BY <1>0, <1>1, <3>1 DEF OnceInv, EachOnce, L
      <4>2. \A j \in 1 .. L : body[j].item = k <=> j = i
        BY <1>1, <4>1 DEF L
      <4>3. ASSUME NEW j \in 1 .. L + 1
            PROVE  body'[j].item = k /\ body'[j].op # "print" <=> j = i
        <5>1. CASE j \in 1 .. L
          BY <2>4, <4>2, <5>1
        <5>2. CASE j = L + 1
          BY <2>2, <2>5, <4>1, <5>2
        <5> QED BY <2>2, <5>1, <5>2
      <4>4. i \in 1 .. L + 1
        BY <2>2
      <4> QED BY <2>3, <3>1, <4>3, <4>4
    <3>2. CASE written[k] \notin Code
      <4>1. Once(Node(written[k], k), decls)
        BY <1>0, <3>2 DEF OnceInv, EachOnce, Once
      <4>2. Node("decl", 0) # Node(written[k], k) /\ Node("decl", 0) \in Nodes
        BY AddedNode DEF TypeInv
      <4>3. Once(Node(written[k], k), <<Node("decl", 0)>> \o decls)
        BY <4>1, <4>2, OnceBesides DEF TypeInv
      <4> QED BY <2>1, <3>2, <4>3
    <3> QED BY <3>1, <3>2
  <2>7. EachOnce'
    BY <1>0, <2>6 DEF EachOnce, Once
  <2> QED BY <1>0, <2>7 DEF OnceInv
<1> QED BY <1>2, <1>3

\* The function the code is wrapped in, a declaration of its own.
LEMMA WrapOnce ==
    ASSUME TypeInv, OnceInv, WrapInFunction
    PROVE  OnceInv'
<1>1. pass = "final" /\ pass' = "wrapped" /\ UNCHANGED <<written, body>>
  BY DEF WrapInFunction
<1>2. decls' = decls \/ decls' = Append(decls, Node("decl", 0))
  BY DEF WrapInFunction
<1>3. ASSUME NEW k \in DOMAIN written, Once(Node(written[k], k), decls)
      PROVE  Once(Node(written[k], k), decls')
  <2>1. Node("decl", 0) # Node(written[k], k) /\ Node("decl", 0) \in Nodes
    BY AddedNode DEF TypeInv
  <2>2. Once(Node(written[k], k), Append(decls, Node("decl", 0)))
    BY <1>3, <2>1, OnceBesides DEF TypeInv
  <2> QED BY <1>2, <1>3, <2>2
<1>4. EachOnce'
  BY <1>1, <1>3 DEF OnceInv, EachOnce, Once
<1> QED BY <1>1, <1>4 DEF OnceInv

\* Whatever std::sort does to a line's order, all of the line's code runs and
\* runs once, and every import and declaration of the line is kept once.
THEOREM NothingLost == Spec => []EachOnce
<1>1. Init => OnceInv
  BY DEF Init, OnceInv, EachOnce
<1>2. ASSUME Inv, OnceInv, [Next]_vars
      PROVE  OnceInv'
  <2>1. CASE CombineTopLevelDeclsAndMoveToBack
    BY <1>2, <2>1, CombineOnce DEF Inv
  <2>2. CASE TransformFinalExpressionAndAddGlobal
    BY <1>2, <2>2, FinalOnce DEF Inv
  <2>3. CASE WrapInFunction
    BY <1>2, <2>3, WrapOnce DEF Inv
  <2>4. CASE ReadLine \/ RegisterLine
    BY <2>4 DEF ReadLine, RegisterLine, OnceInv, EachOnce
  <2>5. CASE UNCHANGED vars
    BY <1>2, <2>5 DEF vars, OnceInv, EachOnce
  <2> QED BY <1>2, <2>1, <2>2, <2>3, <2>4, <2>5 DEF Next
<1>3. Inv /\ OnceInv /\ [Next]_vars => OnceInv'
  BY <1>2
<1>4. OnceInv => EachOnce
  BY DEF OnceInv
<1> QED BY <1>1, <1>3, <1>4, Invariant, PTL DEF Spec

=============================================================================
