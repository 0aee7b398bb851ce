-------------------------- MODULE PlaygroundProofs --------------------------
(***************************************************************************)
(* What was executed stands, and what is skipped, for texts of any length. *)
(*                                                                         *)
(* Lines are found by counting line feeds.  Count(t, i) is how many of the *)
(* first i characters of t are line feeds; the n-th line feed is the one   *)
(* character where the count becomes n.                                    *)
(***************************************************************************)
EXTENDS Playground, FiniteSetTheorems, SequenceTheorems, WellFoundedInduction, TLAPS

A == Char \cup {Nl}
Count(t, i) == Cardinality(Newlines(t) \cap 1 .. i)

-----------------------------------------------------------------------------
(* Counting *)

LEMMA Least ==
    ASSUME NEW S \in SUBSET Nat, S # {}
    PROVE  \E least \in S : \A n \in S : least <= n
<1>1. PICK x \in S : \A y \in S : ~ (<<y, x>> \in OpToRel(<, Nat))
  BY WFMin, NatLessThanWellFounded
<1>2. \A y \in S : <<y, x>> \in OpToRel(<, Nat) <=> y < x
  BY DEF OpToRel
<1>3. \A y \in S : ~ (y < x)
  BY <1>1, <1>2, Zenon
<1> QED BY <1>3

LEMMA CountFinite ==
    ASSUME NEW t, NEW i \in Int
    PROVE  IsFiniteSet(Newlines(t) \cap 1 .. i) /\ Count(t, i) \in Nat
<1>1. IsFiniteSet(1 .. i) /\ Newlines(t) \cap 1 .. i \in SUBSET (1 .. i)
  BY FS_Interval
<1> QED BY <1>1, FS_Subset, FS_CardinalityType DEF Count

LEMMA CountStep ==
    ASSUME NEW t \in Seq(A), NEW i \in 1 .. Len(t)
    PROVE  /\ Count(t, i) \in Nat /\ Count(t, i - 1) \in Nat
           /\ t[i] = Nl => Count(t, i) = Count(t, i - 1) + 1
           /\ t[i] # Nl => Count(t, i) = Count(t, i - 1)
<1> DEFINE before == Newlines(t) \cap 1 .. i - 1
           upto == Newlines(t) \cap 1 .. i
<1>1. DOMAIN t = 1 .. Len(t) /\ Len(t) \in Nat
  BY LenProperties
<1>2. IsFiniteSet(before) /\ i \notin before /\ Count(t, i) \in Nat /\ Count(t, i - 1) \in Nat
  <2>1. i \in Int /\ i - 1 \in Int
    BY <1>1
  <2>2. IsFiniteSet(before) /\ Count(t, i) \in Nat /\ Count(t, i - 1) \in Nat
    BY <2>1, CountFinite
  <2> QED BY <2>1, <2>2
<1>3. CASE t[i] = Nl
  <2>1. upto = before \cup {i}
    BY <1>1, <1>3 DEF Newlines
  <2>2. Cardinality(upto) = Cardinality(before) + 1
    <3> HIDE DEF upto, before
    <3> QED BY <1>2, <2>1, FS_AddElement
  <2> QED BY <1>2, <1>3, <2>2 DEF Count
<1>4. CASE t[i] # Nl
  <2>1. upto = before
    BY <1>1, <1>4 DEF Newlines
  <2> QED BY <1>2, <1>4, <2>1 DEF Count
<1> QED BY <1>3, <1>4

LEMMA CountEnds ==
    ASSUME NEW t \in Seq(A)
    PROVE  /\ Len(t) \in Nat /\ DOMAIN t = 1 .. Len(t)
           /\ Count(t, 0) = 0
           /\ Count(t, Len(t)) = Cardinality(Newlines(t))
           /\ Cardinality(Newlines(t)) \in Nat /\ Cardinality(Newlines(t)) <= Len(t)
           /\ NumLines(t) \in Nat \ {0}
<1>1. Len(t) \in Nat /\ DOMAIN t = 1 .. Len(t)
  BY LenProperties
<1>2. 1 .. 0 = {}
  OBVIOUS
<1>3. Count(t, 0) = 0
  <2>1. Newlines(t) \cap 1 .. 0 = {}
    BY <1>2
  <2> QED BY <2>1, FS_EmptySet DEF Count
<1>4. Newlines(t) \cap 1 .. Len(t) = Newlines(t) /\ Newlines(t) \in SUBSET (1 .. Len(t))
  BY <1>1 DEF Newlines
<1>5. Count(t, Len(t)) = Cardinality(Newlines(t))
  BY <1>4 DEF Count
<1>6. Cardinality(Newlines(t)) \in Nat
  <2>1. Len(t) \in Int
    BY <1>1
  <2> QED BY <1>5, <2>1, CountFinite
<1>7. Cardinality(Newlines(t)) <= Len(t)
  <2>1. IsFiniteSet(1 .. Len(t)) /\ Cardinality(1 .. Len(t)) = Len(t)
    <3>1. 1 \in Int /\ Len(t) \in Int
      BY <1>1
    <3>2. /\ IsFiniteSet(1 .. Len(t))
          /\ Cardinality(1 .. Len(t)) = IF 1 > Len(t) THEN 0 ELSE Len(t) - 1 + 1
      BY <3>1, FS_Interval
    <3> QED BY <1>1, <3>2
  <2>2. Cardinality(Newlines(t)) <= Cardinality(1 .. Len(t))
    BY <1>4, <2>1, FS_Subset
  <2> QED BY <2>1, <2>2
<1> QED BY <1>1, <1>3, <1>5, <1>6, <1>7 DEF NumLines

\* Counts do not fall, and each line feed raises them.
LEMMA CountMonotone ==
    ASSUME NEW t \in Seq(A), NEW i \in 0 .. Len(t), NEW j \in 0 .. Len(t), i <= j
    PROVE  /\ Count(t, i) \in Nat /\ Count(t, j) \in Nat /\ Count(t, i) <= Count(t, j)
           /\ i < j /\ t[j] = Nl => Count(t, i) < Count(t, j)
<1>1. /\ Count(t, i) \in Nat /\ Count(t, j) \in Nat
      /\ IsFiniteSet(Newlines(t) \cap 1 .. j)
  <2>1. i \in Int /\ j \in Int
    BY LenProperties
  <2> QED BY <2>1, CountFinite
<1>2. Count(t, i) <= Count(t, j)
  <2>1. Newlines(t) \cap 1 .. i \in SUBSET (Newlines(t) \cap 1 .. j)
    OBVIOUS
  <2> QED BY <1>1, <2>1, FS_Subset DEF Count
<1>3. ASSUME i < j, t[j] = Nl
      PROVE  Count(t, i) < Count(t, j)
  <2>1. j \in 1 .. Len(t) /\ j - 1 \in 0 .. Len(t) /\ i <= j - 1
    BY <1>3, CountEnds
  <2>2. Newlines(t) \cap 1 .. i \in SUBSET (Newlines(t) \cap 1 .. j - 1)
    BY <2>1
  <2>3. Count(t, i) <= Count(t, j - 1)
    BY <2>1, <2>2, CountFinite, FS_Subset DEF Count
  <2>4. Count(t, j) = Count(t, j - 1) + 1 /\ Count(t, j - 1) \in Nat
    BY <1>3, <2>1, CountStep
  <2> QED BY <1>1, <2>3, <2>4
<1> QED BY <1>1, <1>2, <1>3

\* The n-th line feed, and that there is only one.
LEMMA NewlineAtFinds ==
    ASSUME NEW t \in Seq(A), NEW n \in 1 .. Cardinality(Newlines(t))
    PROVE  /\ NewlineAt(t, n) \in 1 .. Len(t)
           /\ t[NewlineAt(t, n)] = Nl
           /\ Count(t, NewlineAt(t, n)) = n
<1> DEFINE S == {i \in 1 .. Len(t) : Count(t, i) >= n}
<1>1. /\ Len(t) \in Nat /\ DOMAIN t = 1 .. Len(t) /\ Count(t, 0) = 0 /\ n \in Nat \ {0}
      /\ Count(t, Len(t)) >= n
  BY CountEnds
<1>2. Len(t) \in S
  BY <1>1
<1>3. PICK i \in S : \A j \in S : i <= j
  <2> S \in SUBSET Nat
    BY <1>1
  <2> HIDE DEF S
  <2> QED BY <1>2, Least
<1>4. /\ i \in 1 .. Len(t) /\ Count(t, i) \in Nat /\ Count(t, i - 1) \in Nat /\ Count(t, i) >= n
      /\ t[i] = Nl => Count(t, i) = Count(t, i - 1) + 1
      /\ t[i] # Nl => Count(t, i) = Count(t, i - 1)
  BY CountStep
<1>5. Count(t, i - 1) < n
  <2>1. CASE i = 1
    BY <1>1, <2>1
  <2>2. CASE i # 1
    <3>1. i - 1 \in 1 .. Len(t) /\ i - 1 \notin S
      BY <1>3, <1>4, <2>2
    <3> QED BY <1>1, <1>4, <3>1
  <2> QED BY <2>1, <2>2
<1>6. t[i] = Nl /\ Count(t, i) = n
  BY <1>1, <1>4, <1>5
<1>7. i \in Newlines(t) /\ Cardinality(Newlines(t) \cap 1 .. i) = n
  BY <1>1, <1>4, <1>6 DEF Newlines, Count
<1>8. NewlineAt(t, n) = CHOOSE k \in Newlines(t) : Cardinality(Newlines(t) \cap 1 .. k) = n
  <2>1. n # 0 /\ ~(n > Cardinality(Newlines(t)))
    BY <1>1, CountEnds
  <2> QED BY <2>1, Zenon DEF NewlineAt
<1>9. NewlineAt(t, n) \in Newlines(t) /\ Cardinality(Newlines(t) \cap 1 .. NewlineAt(t, n)) = n
  BY <1>7, <1>8
<1> QED BY <1>1, <1>9 DEF Newlines, Count

LEMMA NewlineAtIs ==
    ASSUME NEW t \in Seq(A), NEW i \in 1 .. Len(t), t[i] = Nl
    PROVE  /\ Count(t, i) \in 1 .. Cardinality(Newlines(t))
           /\ NewlineAt(t, Count(t, i)) = i
<1>1. Len(t) \in Nat /\ Count(t, 0) = 0 /\ Count(t, Len(t)) = Cardinality(Newlines(t))
  BY CountEnds
<1>2. Count(t, 0) < Count(t, i) /\ Count(t, i) <= Count(t, Len(t)) /\ Count(t, i) \in Nat
      /\ Count(t, Len(t)) \in Nat
  BY <1>1, CountMonotone
<1> DEFINE n == Count(t, i)
           j == NewlineAt(t, n)
<1>3. n \in 1 .. Cardinality(Newlines(t))
  BY <1>1, <1>2
<1>4. j \in 1 .. Len(t) /\ t[j] = Nl /\ Count(t, j) = n
  <2> HIDE DEF n
  <2> QED BY <1>3, NewlineAtFinds
<1>5. ~(i < j) /\ ~(j < i)
  <2> HIDE DEF j
  <2>1. ~(i < j)
    BY <1>1, <1>2, <1>4, CountMonotone
  <2>2. ~(j < i)
    BY <1>1, <1>2, <1>4, CountMonotone
  <2> QED BY <2>1, <2>2
<1> QED BY <1>1, <1>3, <1>4, <1>5

\* Where line n ends, whether or not it is the last one.
LEMMA NewlineAtBounds ==
    ASSUME NEW t \in Seq(A), NEW n \in 0 .. NumLines(t)
    PROVE  /\ NewlineAt(t, n) \in 0 .. Len(t) + 1
           /\ n = 0 => NewlineAt(t, n) = 0
           /\ n # 0 => NewlineAt(t, n) \in 1 .. Len(t) + 1
           /\ n = NumLines(t) => NewlineAt(t, n) = Len(t) + 1
           /\ n # NumLines(t) => NewlineAt(t, n) <= Len(t)
<1>1. /\ Len(t) \in Nat /\ NumLines(t) \in Nat \ {0} /\ NumLines(t) = Cardinality(Newlines(t)) + 1
      /\ Cardinality(Newlines(t)) \in Nat
  BY CountEnds DEF NumLines
<1>2. CASE n = 0
  <2>1. NewlineAt(t, n) = 0
    BY <1>2, Zenon DEF NewlineAt
  <2> QED BY <1>1, <1>2, <2>1
<1>3. CASE n = NumLines(t)
  <2>1. n # 0 /\ n > Cardinality(Newlines(t))
    BY <1>1, <1>3
  <2>2. NewlineAt(t, n) = Len(t) + 1
    BY <2>1, Zenon DEF NewlineAt
  <2> QED BY <1>1, <1>3, <2>1, <2>2
<1>4. CASE n # 0 /\ n # NumLines(t)
  <2>1. n \in 1 .. Cardinality(Newlines(t))
    BY <1>1, <1>4
  <2>2. NewlineAt(t, n) \in 1 .. Len(t)
    BY <2>1, NewlineAtFinds
  <2> QED BY <1>1, <1>4, <2>2
<1> QED BY <1>2, <1>3, <1>4

-----------------------------------------------------------------------------
(* Prefixes *)

\* Two stretches of text that agree are equal.
LEMMA SameCut ==
    ASSUME NEW s \in Seq(A), NEW t \in Seq(A),
           NEW a \in Nat \ {0}, NEW b \in 0 .. Len(s), NEW c \in Nat \ {0}, NEW d \in 0 .. Len(t),
           b - a = d - c,
           \A i \in a .. b : s[i] = t[i - a + c]
    PROVE  SubSeq(s, a, b) = SubSeq(t, c, d)
<1>1. Len(s) \in Nat /\ Len(t) \in Nat
  BY LenProperties
<1>2. (\A i \in a .. b : s[i] \in A) /\ (\A i \in c .. d : t[i] \in A)
  <2>1. a .. b \subseteq 1 .. Len(s) /\ c .. d \subseteq 1 .. Len(t)
    BY <1>1
  <2>2. (\A i \in 1 .. Len(s) : s[i] \in A) /\ (\A i \in 1 .. Len(t) : t[i] \in A)
    BY ElementOfSeq
  <2> QED BY <2>1, <2>2
<1>3. /\ SubSeq(s, a, b) \in Seq(A) /\ Len(SubSeq(s, a, b)) = IF a <= b THEN b - a + 1 ELSE 0
      /\ \A i \in 1 .. b - a + 1 : SubSeq(s, a, b)[i] = s[a + i - 1]
  BY <1>1, <1>2, SubSeqProperties
<1>4. /\ SubSeq(t, c, d) \in Seq(A) /\ Len(SubSeq(t, c, d)) = IF c <= d THEN d - c + 1 ELSE 0
      /\ \A i \in 1 .. d - c + 1 : SubSeq(t, c, d)[i] = t[c + i - 1]
  BY <1>1, <1>2, SubSeqProperties
<1>5. Len(SubSeq(s, a, b)) = Len(SubSeq(t, c, d))
  BY <1>1, <1>3, <1>4
<1>6. ASSUME NEW i \in 1 .. Len(SubSeq(s, a, b))
      PROVE  SubSeq(s, a, b)[i] = SubSeq(t, c, d)[i]
  <2>1. i \in 1 .. b - a + 1 /\ i \in 1 .. d - c + 1 /\ a + i - 1 \in a .. b
    BY <1>1, <1>3
  <2>2. s[a + i - 1] = t[(a + i - 1) - a + c] /\ (a + i - 1) - a + c = c + i - 1
    BY <1>1, <2>1
  <2>3. SubSeq(s, a, b)[i] = s[a + i - 1] /\ SubSeq(t, c, d)[i] = t[c + i - 1]
    BY <1>3, <1>4, <2>1
  <2> QED BY <2>2, <2>3
<1> QED BY <1>3, <1>4, <1>5, <1>6, SeqEqual

LEMMA StartsWithIs ==
    ASSUME NEW t \in Seq(A), NEW p \in Seq(A)
    PROVE  StartsWith(t, p) <=> Len(p) <= Len(t) /\ \A i \in 1 .. Len(p) : t[i] = p[i]
<1>1. Len(t) \in Nat /\ Len(p) \in Nat
  BY LenProperties
<1>2. SubSeq(p, 1, Len(p)) = p
  BY SubSeqFull
<1>3. ASSUME StartsWith(t, p)
      PROVE  Len(p) <= Len(t) /\ \A i \in 1 .. Len(p) : t[i] = p[i]
  <2>1. Len(p) <= Len(t) /\ SubSeq(t, 1, Len(p)) = p
    BY <1>3 DEF StartsWith
  <2>2. \A i \in 1 .. Len(p) : t[i] \in A
    BY <1>1, <2>1, ElementOfSeq
  <2>3. \A i \in 1 .. Len(p) - 1 + 1 : SubSeq(t, 1, Len(p))[i] = t[1 + i - 1]
    BY <1>1, <2>2, SubSeqProperties
  <2>4. ASSUME NEW i \in 1 .. Len(p)
        PROVE  t[i] = p[i]
    <3>1. i \in 1 .. Len(p) - 1 + 1 /\ 1 + i - 1 = i
      BY <1>1
    <3> QED BY <2>1, <2>3, <3>1
  <2> QED BY <2>1, <2>4
<1>4. ASSUME Len(p) <= Len(t), \A i \in 1 .. Len(p) : t[i] = p[i]
      PROVE  StartsWith(t, p)
  <2>1. SubSeq(t, 1, Len(p)) = SubSeq(p, 1, Len(p))
    <3>1. Len(p) \in 0 .. Len(t) /\ Len(p) \in 0 .. Len(p) /\ 1 \in Nat \ {0}
      BY <1>1, <1>4
    <3>2. \A i \in 1 .. Len(p) : t[i] = p[i - 1 + 1]
      BY <1>1, <1>4
    <3> QED BY <3>1, <3>2, SameCut
  <2> QED BY <1>2, <1>4, <2>1 DEF StartsWith
<1> QED BY <1>3, <1>4

LEMMA StartsWithTrans ==
    ASSUME NEW t \in Seq(A), NEW p \in Seq(A), NEW q \in Seq(A),
           StartsWith(t, p), StartsWith(p, q)
    PROVE  StartsWith(t, q)
<1>1. Len(t) \in Nat /\ Len(p) \in Nat /\ Len(q) \in Nat
  BY LenProperties
<1>2. /\ Len(p) <= Len(t) /\ \A i \in 1 .. Len(p) : t[i] = p[i]
      /\ Len(q) <= Len(p) /\ \A i \in 1 .. Len(q) : p[i] = q[i]
  BY StartsWithIs
<1>3. Len(q) <= Len(t) /\ \A i \in 1 .. Len(q) : t[i] = q[i]
  BY <1>1, <1>2
<1> QED BY <1>3, StartsWithIs

LEMMA StartsWithItself ==
    ASSUME NEW t \in Seq(A)
    PROVE  StartsWith(t, t)
BY StartsWithIs, LenProperties

\* A prefix has the line feeds of the text, as far as it goes.
LEMMA PrefixCount ==
    ASSUME NEW t \in Seq(A), NEW p \in Seq(A), StartsWith(t, p), NEW i \in 0 .. Len(p)
    PROVE  Count(t, i) = Count(p, i)
<1>1. /\ Len(p) <= Len(t) /\ \A k \in 1 .. Len(p) : t[k] = p[k]
      /\ Len(p) \in Nat /\ Len(t) \in Nat /\ DOMAIN t = 1 .. Len(t) /\ DOMAIN p = 1 .. Len(p)
  BY StartsWithIs, LenProperties
<1>2. Newlines(t) \cap 1 .. i = Newlines(p) \cap 1 .. i
  BY <1>1 DEF Newlines
<1> QED BY <1>2 DEF Count

LEMMA PrefixNewlines ==
    ASSUME NEW t \in Seq(A), NEW p \in Seq(A), StartsWith(t, p)
    PROVE  /\ NumLines(p) <= NumLines(t)
           /\ \A n \in 0 .. NumLines(p) - 1 : NewlineAt(t, n) = NewlineAt(p, n)
           /\ NewlineAt(t, NumLines(p)) > Len(p)
<1>1. /\ Len(p) <= Len(t) /\ \A k \in 1 .. Len(p) : t[k] = p[k]
      /\ Len(p) \in Nat /\ Len(t) \in Nat
  BY StartsWithIs, LenProperties
<1>2. /\ NumLines(p) \in Nat \ {0} /\ NumLines(p) = Cardinality(Newlines(p)) + 1
      /\ NumLines(t) \in Nat \ {0} /\ NumLines(t) = Cardinality(Newlines(t)) + 1
      /\ Count(p, Len(p)) = Cardinality(Newlines(p))
      /\ Count(t, Len(t)) = Cardinality(Newlines(t))
      /\ Cardinality(Newlines(p)) \in Nat /\ Cardinality(Newlines(t)) \in Nat
  BY CountEnds DEF NumLines
<1>3. NumLines(p) <= NumLines(t)
  <2>1. Count(t, Len(p)) = Count(p, Len(p))
    BY <1>1, PrefixCount
  <2>2. Count(t, Len(p)) <= Count(t, Len(t))
    BY <1>1, CountMonotone
  <2> QED BY <1>2, <2>1, <2>2
<1>4. ASSUME NEW n \in 0 .. NumLines(p) - 1
      PROVE  NewlineAt(t, n) = NewlineAt(p, n)
  <2>1. CASE n = 0
    BY <2>1, Zenon DEF NewlineAt
  <2>2. CASE n # 0
    <3> DEFINE i == NewlineAt(p, n)
    <3>1. i \in 1 .. Len(p) /\ p[i] = Nl /\ Count(p, i) = n
      <4>1. n \in 1 .. Cardinality(Newlines(p))
        BY <1>2, <2>2
      <4> QED BY <4>1, NewlineAtFinds
    <3> HIDE DEF i
    <3>2. i \in 1 .. Len(t) /\ t[i] = Nl /\ i \in 0 .. Len(p)
      BY <1>1, <3>1
    <3>3. Count(t, i) = n
      BY <3>1, <3>2, PrefixCount
    <3>4. NewlineAt(t, n) = i
      BY <3>2, <3>3, NewlineAtIs
    <3> QED BY <3>4 DEF i
  <2> QED BY <2>1, <2>2
<1>5. NewlineAt(t, NumLines(p)) > Len(p)
  <2>1. CASE NumLines(p) = NumLines(t)
    <3>1. NumLines(p) \in 0 .. NumLines(t)
      BY <1>2, <2>1
    <3>2. NewlineAt(t, NumLines(p)) = Len(t) + 1
      BY <2>1, <3>1, NewlineAtBounds
    <3> QED BY <1>1, <3>2
  <2>2. CASE NumLines(p) # NumLines(t)
    <3> DEFINE i == NewlineAt(t, NumLines(p))
    <3>1. i \in 1 .. Len(t) /\ Count(t, i) = NumLines(p)
      <4>1. NumLines(p) \in 1 .. Cardinality(Newlines(t))
        BY <1>2, <1>3, <2>2
      <4> QED BY <4>1, NewlineAtFinds
    <3> HIDE DEF i
    <3>2. ~(i <= Len(p))
      <4>1. SUFFICES ASSUME i <= Len(p) PROVE FALSE
        OBVIOUS
      <4>2. i \in 0 .. Len(p) /\ Len(p) \in 0 .. Len(p)
        BY <1>1, <3>1, <4>1
      <4>3. Count(p, i) = NumLines(p)
        BY <3>1, <4>2, PrefixCount
      <4>4. Count(p, i) <= Count(p, Len(p))
        BY <4>1, <4>2, CountMonotone
      <4> QED BY <1>2, <4>3, <4>4
    <3> QED BY <1>1, <3>1, <3>2 DEF i
  <2> QED BY <2>1, <2>2
<1> QED BY <1>3, <1>4, <1>5

-----------------------------------------------------------------------------
(* Lines *)

LEMMA LineIsText ==
    ASSUME NEW t \in Seq(A), NEW n \in 1 .. NumLines(t)
    PROVE  /\ n - 1 \in 0 .. NumLines(t) /\ n - 1 # NumLines(t)
           /\ NewlineAt(t, n - 1) + 1 \in Nat \ {0} /\ NewlineAt(t, n - 1) + 1 <= Len(t) + 1
           /\ NewlineAt(t, n) - 1 \in 0 .. Len(t)
           /\ Line(t, n) \in Seq(A)
<1>1. Len(t) \in Nat /\ NumLines(t) \in Nat \ {0}
  BY CountEnds
<1>2. n \in 0 .. NumLines(t) /\ n # 0 /\ n - 1 \in 0 .. NumLines(t) /\ n - 1 # NumLines(t)
  BY <1>1
<1>3. NewlineAt(t, n) \in 1 .. Len(t) + 1
  BY <1>2, NewlineAtBounds
<1>4. NewlineAt(t, n - 1) \in 0 .. Len(t) + 1 /\ NewlineAt(t, n - 1) <= Len(t)
  BY <1>2, NewlineAtBounds
<1>5. NewlineAt(t, n - 1) + 1 \in Nat \ {0} /\ NewlineAt(t, n) - 1 \in 0 .. Len(t)
      /\ NewlineAt(t, n - 1) + 1 <= Len(t) + 1
  BY <1>1, <1>3, <1>4
<1>6. \A i \in NewlineAt(t, n - 1) + 1 .. NewlineAt(t, n) - 1 : t[i] \in A
  BY <1>1, <1>5, ElementOfSeq
<1>7. Line(t, n) \in Seq(A)
  BY <1>5, <1>6, SubSeqProperties DEF Line
<1> QED BY <1>2, <1>5, <1>7

\* The lines of a prefix are lines of the text, but the last one may go on.
LEMMA PrefixLines ==
    ASSUME NEW t \in Seq(A), NEW p \in Seq(A), StartsWith(t, p), NEW n \in 1 .. NumLines(p)
    PROVE  /\ n \in 1 .. NumLines(t)
           /\ n # NumLines(p) => Line(t, n) = Line(p, n)
           /\ StartsWith(Line(t, n), Line(p, n))
<1>1. /\ Len(p) <= Len(t) /\ \A k \in 1 .. Len(p) : t[k] = p[k]
      /\ Len(p) \in Nat /\ Len(t) \in Nat
  BY StartsWithIs, LenProperties
<1>2. /\ NumLines(p) \in Nat \ {0} /\ NumLines(t) \in Nat \ {0} /\ NumLines(p) <= NumLines(t)
      /\ \A k \in 0 .. NumLines(p) - 1 : NewlineAt(t, k) = NewlineAt(p, k)
      /\ NewlineAt(t, NumLines(p)) > Len(p)
  BY CountEnds, PrefixNewlines
<1>3. n \in 1 .. NumLines(t)
  BY <1>2
<1> DEFINE a == NewlineAt(p, n - 1) + 1
           b == NewlineAt(p, n) - 1
           d == NewlineAt(t, n) - 1
<1>4. /\ a \in Nat \ {0} /\ a <= Len(p) + 1 /\ b \in 0 .. Len(p) /\ Line(p, n) \in Seq(A)
      /\ d \in 0 .. Len(t) /\ Line(t, n) \in Seq(A)
  BY <1>3, LineIsText
<1>5. NewlineAt(t, n - 1) = NewlineAt(p, n - 1)
  BY <1>2
<1>6. Line(p, n) = SubSeq(p, a, b) /\ Line(t, n) = SubSeq(t, a, d)
  BY <1>5 DEF Line
<1>7. CASE n # NumLines(p)
  <2>1. d = b
    BY <1>2, <1>7
  <2>2. SubSeq(t, a, d) = SubSeq(p, a, b)
    <3> HIDE DEF a, b, d
    <3>1. d - a = b - a /\ \A i \in a .. d : t[i] = p[i - a + a]
      BY <1>1, <1>4, <2>1
    <3> QED BY <1>4, <3>1, SameCut
  <2>3. Line(t, n) = Line(p, n)
    BY <1>6, <2>2
  <2> QED BY <1>3, <1>4, <2>3, StartsWithItself
<1>8. CASE n = NumLines(p)
  <2>1. b = Len(p) /\ d >= Len(p)
    <3>1. NewlineAt(p, n) = Len(p) + 1
      BY <1>2, <1>8, NewlineAtBounds
    <3>2. NewlineAt(t, n) \in Int
      BY <1>2, <1>3, NewlineAtBounds
    <3> QED BY <1>1, <1>2, <1>8, <3>1, <3>2
  <2>2. /\ Len(Line(p, n)) = IF a <= b THEN b - a + 1 ELSE 0
        /\ \A i \in 1 .. b - a + 1 : Line(p, n)[i] = p[a + i - 1]
    <3> HIDE DEF a, b, d
    <3>1. \A i \in a .. b : p[i] \in A
      BY <1>1, <1>4, ElementOfSeq
    <3> QED BY <1>1, <1>4, <1>6, <3>1, SubSeqProperties
  <2>3. /\ Len(Line(t, n)) = IF a <= d THEN d - a + 1 ELSE 0
        /\ \A i \in 1 .. d - a + 1 : Line(t, n)[i] = t[a + i - 1]
    <3> HIDE DEF a, b, d
    <3>1. \A i \in a .. d : t[i] \in A
      BY <1>1, <1>4, ElementOfSeq
    <3> QED BY <1>1, <1>4, <1>6, <3>1, SubSeqProperties
  <2>4. /\ Len(Line(p, n)) <= Len(Line(t, n))
        /\ \A i \in 1 .. Len(Line(p, n)) : Line(t, n)[i] = Line(p, n)[i]
    <3> HIDE DEF a, b, d
    <3>1. Len(Line(p, n)) <= Len(Line(t, n))
      BY <1>1, <1>4, <2>1, <2>2, <2>3
    <3>2. ASSUME NEW i \in 1 .. Len(Line(p, n))
          PROVE  Line(t, n)[i] = Line(p, n)[i]
      <4>1. i \in 1 .. b - a + 1 /\ i \in 1 .. d - a + 1 /\ a + i - 1 \in 1 .. Len(p)
        BY <1>1, <1>4, <2>1, <2>2
      <4> QED BY <1>1, <2>2, <2>3, <4>1
    <3> QED BY <3>1, <3>2
  <2>5. StartsWith(Line(t, n), Line(p, n))
    BY <1>4, <2>4, StartsWithIs
  <2> QED BY <1>3, <1>8, <2>5
<1> QED BY <1>7, <1>8

-----------------------------------------------------------------------------
(* Continuing *)

Continuation(e, t, q) == e \o SubSeq(t, q, Len(t))

\* A text e continued with the end of a text t, from a line feed of t that is,
\* in t, the one e lacks: the characters of t are shifted, and their line
\* feeds counted as in t.
LEMMA Continued ==
    ASSUME NEW t \in Seq(A), NEW e \in Seq(A), NEW q \in 1 .. Len(t) + 1,
           q <= Len(t) => t[q] = Nl /\ Count(t, q) = Count(e, Len(e)) + 1,
           NEW shift \in Int, shift + q = Len(e) + 1
    PROVE  /\ Continuation(e, t, q) \in Seq(A)
           /\ Len(Continuation(e, t, q)) = Len(t) + shift
           /\ StartsWith(Continuation(e, t, q), e)
           /\ \A i \in q .. Len(t) : /\ Continuation(e, t, q)[i + shift] = t[i]
                                    /\ Count(Continuation(e, t, q), i + shift) = Count(t, i)
<1> DEFINE r == SubSeq(t, q, Len(t))
           x == Continuation(e, t, q)
<1>1. /\ Len(t) \in Nat /\ Len(e) \in Nat /\ q \in Nat /\ 1 <= q /\ q <= Len(t) + 1
      /\ shift \in Int /\ shift = Len(e) - q + 1
  BY LenProperties
<1>2. /\ r \in Seq(A) /\ Len(r) = Len(t) - q + 1
      /\ \A i \in 1 .. Len(t) - q + 1 : r[i] = t[q + i - 1]
  <2>1. q \in Int /\ Len(t) \in Int /\ \A i \in q .. Len(t) : t[i] \in A
    BY <1>1, ElementOfSeq
  <2>2. r \in Seq(A) /\ Len(r) = (IF q <= Len(t) THEN Len(t) - q + 1 ELSE 0)
        /\ \A i \in 1 .. Len(t) - q + 1 : r[i] = t[q + i - 1]
    BY <2>1, SubSeqProperties
  <2> HIDE DEF r
  <2>3. Len(r) = Len(t) - q + 1
    <3>1. q <= Len(t) \/ q = Len(t) + 1
      BY <1>1
    <3> QED BY <1>1, <2>2, <3>1
  <2> QED BY <2>2, <2>3
<1>3. x = e \o r
  BY DEF Continuation
<1> HIDE DEF r, x
<1>4. /\ x \in Seq(A) /\ Len(x) = Len(e) + Len(r)
      /\ \A i \in 1 .. Len(e) + Len(r) : x[i] = IF i <= Len(e) THEN e[i] ELSE r[i - Len(e)]
  <2>1. /\ e \o r \in Seq(A) /\ Len(e \o r) = Len(e) + Len(r)
        /\ \A i \in 1 .. Len(e) + Len(r) :
              (e \o r)[i] = IF i <= Len(e) THEN e[i] ELSE r[i - Len(e)]
    BY <1>2, ConcatProperties
  <2> QED BY <1>3, <2>1, Zenon
<1>5. Len(x) = Len(t) + shift
  <2>1. Len(x) = Len(e) + (Len(t) - q + 1)
    BY <1>2, <1>4, Zenon
  <2> QED BY <1>1, <2>1
<1>6. StartsWith(x, e)
  <2>1. Len(e) <= Len(x) /\ \A i \in 1 .. Len(e) : x[i] = e[i]
    <3>1. Len(r) \in Nat
      BY <1>1, <1>2
    <3> QED BY <1>1, <1>4, <3>1
  <2> QED BY <1>4, <2>1, StartsWithIs
<1>7. ASSUME NEW i \in q .. Len(t)
      PROVE  x[i + shift] = t[i]
  <2>1. i \in Int /\ q <= i /\ i <= Len(t)
    BY <1>1
  <2>2. /\ i + shift \in 1 .. Len(e) + Len(r) /\ ~(i + shift <= Len(e))
        /\ (i + shift) - Len(e) \in 1 .. Len(t) - q + 1
        /\ q + ((i + shift) - Len(e)) - 1 = i
    <3>1. i + shift = Len(e) + (i - q + 1) /\ i - q + 1 \in 1 .. Len(t) - q + 1
      BY <1>1, <2>1
    <3> QED BY <1>1, <1>2, <2>1, <3>1
  <2>3. x[i + shift] = r[(i + shift) - Len(e)]
    BY <1>4, <2>2
  <2>4. r[(i + shift) - Len(e)] = t[q + ((i + shift) - Len(e)) - 1]
    BY <1>2, <2>2
  <2> QED BY <2>2, <2>3, <2>4
<1> DEFINE Wrong == {j \in q .. Len(t) : Count(x, j + shift) # Count(t, j)}
<1>8. ASSUME Wrong # {}
      PROVE  FALSE
  <2>1. PICK k \in Wrong : \A j \in Wrong : k <= j
    <3>1. Wrong \in SUBSET Nat
      BY <1>1
    <3> HIDE DEF Wrong
    <3> QED BY <1>8, <3>1, Least
  <2>2. /\ k \in 1 .. Len(t) /\ k + shift \in 1 .. Len(x)
        /\ (k + shift) - 1 = (k - 1) + shift /\ k \in q .. Len(t)
    BY <1>1, <1>2, <1>5
  <2>3. x[k + shift] = t[k]
    BY <1>7, <2>2
  <2>4. /\ Count(t, k) \in Nat /\ Count(t, k - 1) \in Nat
        /\ t[k] = Nl => Count(t, k) = Count(t, k - 1) + 1
        /\ t[k] # Nl => Count(t, k) = Count(t, k - 1)
    BY <2>2, CountStep
  <2>5. /\ Count(x, k + shift) \in Nat /\ Count(x, (k - 1) + shift) \in Nat
        /\ x[k + shift] = Nl => Count(x, k + shift) = Count(x, (k - 1) + shift) + 1
        /\ x[k + shift] # Nl => Count(x, k + shift) = Count(x, (k - 1) + shift)
    <3> DEFINE c == k + shift
    <3>1. c \in 1 .. Len(x) /\ c - 1 = (k - 1) + shift
      BY <2>2
    <3> HIDE DEF c
    <3>2. /\ Count(x, c) \in Nat /\ Count(x, c - 1) \in Nat
          /\ x[c] = Nl => Count(x, c) = Count(x, c - 1) + 1
          /\ x[c] # Nl => Count(x, c) = Count(x, c - 1)
      BY <1>4, <3>1, CountStep
    <3> QED BY <3>1, <3>2 DEF c
  <2>6. CASE k = q
    <3>1. t[k] = Nl /\ Count(t, k) = Count(e, Len(e)) + 1
      BY <1>1, <2>2, <2>6
    <3>2. Count(x, Len(e)) = Count(e, Len(e)) /\ Count(e, Len(e)) \in Nat
      <4>1. Len(e) \in 0 .. Len(e) /\ Len(e) \in Int
        BY <1>1
      <4> QED BY <1>4, <1>6, <4>1, PrefixCount, CountFinite
    <3>3. (k - 1) + shift = Len(e)
      BY <1>1, <2>6
    <3>4. Count(x, k + shift) = Count(t, k)
      BY <2>3, <2>5, <3>1, <3>2, <3>3
    <3> QED BY <3>4
  <2>7. CASE k # q
    <3>1. k - 1 \in q .. Len(t) /\ ~(k <= k - 1)
      BY <1>1, <2>2, <2>7
    <3>2. k - 1 \notin Wrong
      <4> HIDE DEF Wrong
      <4> QED BY <2>1, <3>1
    <3>3. Count(x, (k - 1) + shift) = Count(t, k - 1)
      BY <3>1, <3>2
    <3>4. Count(x, k + shift) = Count(t, k)
      BY <2>3, <2>4, <2>5, <3>3
    <3> QED BY <3>4
  <2> QED BY <2>6, <2>7
<1>9. \A i \in q .. Len(t) : Count(x, i + shift) = Count(t, i)
  BY <1>8
<1> QED BY <1>4, <1>5, <1>6, <1>7, <1>9 DEF x

LEMMA LineBetween ==
    ASSUME NEW t, NEW n, NEW a, NEW b, NewlineAt(t, n - 1) = a, NewlineAt(t, n) = b
    PROVE  Line(t, n) = SubSeq(t, a + 1, b - 1)
BY Zenon DEF Line

\* Its first lines are those of e, the last one of them included; the others
\* are those of t.
LEMMA ContinuedLines ==
    ASSUME NEW t \in Seq(A), NEW e \in Seq(A), NumLines(e) <= NumLines(t),
           NEW x, x = Continuation(e, t, NewlineAt(t, NumLines(e)))
    PROVE  /\ x \in Seq(A) /\ NumLines(x) = NumLines(t)
           /\ \A n \in 1 .. NumLines(e) : Line(x, n) = Line(e, n)
           /\ \A n \in NumLines(e) + 1 .. NumLines(t) : Line(x, n) = Line(t, n)
<1> DEFINE m == NumLines(e)
           q == NewlineAt(t, m)
           shift == Len(e) - q + 1
<1>1. /\ Len(t) \in Nat /\ Len(e) \in Nat /\ m \in Nat \ {0} /\ NumLines(t) \in Nat \ {0}
      /\ m = Cardinality(Newlines(e)) + 1 /\ Count(e, Len(e)) = Cardinality(Newlines(e))
      /\ NumLines(t) = Cardinality(Newlines(t)) + 1
      /\ Count(t, Len(t)) = Cardinality(Newlines(t))
      /\ Cardinality(Newlines(e)) \in Nat /\ Cardinality(Newlines(t)) \in Nat
      /\ m <= NumLines(t)
  BY CountEnds DEF NumLines
<1>2. q \in 1 .. Len(t) + 1
  <2>1. m \in 0 .. NumLines(t) /\ m # 0
    BY <1>1
  <2> QED BY <2>1, NewlineAtBounds
<1>3. /\ q <= Len(t) => t[q] = Nl /\ Count(t, q) = m
      /\ q > Len(t) => m = NumLines(t)
  <2>1. CASE m = NumLines(t)
    <3>1. q = Len(t) + 1
      <4>1. NumLines(t) \in 0 .. NumLines(t)
        BY <1>1
      <4> QED BY <2>1, <4>1, NewlineAtBounds
    <3> HIDE DEF q
    <3> HIDE DEF m
    <3> QED BY <1>1, <2>1, <3>1
  <2>2. CASE m # NumLines(t)
    <3>1. m \in 1 .. Cardinality(Newlines(t))
      BY <1>1, <2>2
    <3>2. q \in 1 .. Len(t) /\ t[q] = Nl /\ Count(t, q) = m
      <4> HIDE DEF m
      <4> QED BY <3>1, NewlineAtFinds
    <3> HIDE DEF q, m
    <3> QED BY <1>1, <3>2
  <2> QED BY <2>1, <2>2
<1>4. shift \in Int /\ shift + q = Len(e) + 1
  <2> HIDE DEF q, m
  <2> QED BY <1>1, <1>2
<1> HIDE DEF q, shift, m
<1>5. /\ x \in Seq(A) /\ Len(x) = Len(t) + shift
      /\ StartsWith(x, e)
      /\ \A i \in q .. Len(t) : x[i + shift] = t[i] /\ Count(x, i + shift) = Count(t, i)
  <2>1. q <= Len(t) => t[q] = Nl /\ Count(t, q) = Count(e, Len(e)) + 1
    BY <1>1, <1>3
  <2> DEFINE y == Continuation(e, t, q)
  <2>2. x = y
    BY DEF q, m
  <2>3. /\ y \in Seq(A) /\ Len(y) = Len(t) + shift
        /\ StartsWith(y, e)
        /\ \A i \in q .. Len(t) : y[i + shift] = t[i] /\ Count(y, i + shift) = Count(t, i)
    BY <1>2, <1>4, <2>1, Continued
  <2> HIDE DEF y
  <2> QED BY <2>2, <2>3, Zenon
<1>6. NumLines(x) = NumLines(t)
  <2>1. NumLines(x) = Count(x, Len(x)) + 1
    BY <1>5, CountEnds DEF NumLines
  <2>2. CASE q <= Len(t)
    <3>1. Len(t) \in q .. Len(t)
      BY <1>1, <1>2, <2>2
    <3>2. Count(x, Len(x)) = Count(t, Len(t))
      BY <1>5, <3>1
    <3> QED BY <1>1, <2>1, <3>2
  <2>3. CASE q = Len(t) + 1
    <3>1. Len(x) = Len(e) /\ m = NumLines(t)
      <4>1. q > Len(t)
        BY <1>1, <2>3
      <4> QED BY <1>1, <1>3, <1>4, <1>5, <2>3, <4>1
    <3>2. Count(x, Len(e)) = Count(e, Len(e))
      <4>1. Len(e) \in 0 .. Len(e)
        BY <1>1
      <4> QED BY <1>5, <4>1, PrefixCount
    <3> QED BY <1>1, <2>1, <3>1, <3>2
  <2> QED BY <1>1, <1>2, <2>2, <2>3
<1>7. ASSUME NEW n \in m .. NumLines(t)
      PROVE  NewlineAt(t, n) \in q .. Len(t) + 1 /\ NewlineAt(x, n) = NewlineAt(t, n) + shift
  <2>1. CASE n = NumLines(t)
    <3>1. n \in 0 .. NumLines(t) /\ n \in 0 .. NumLines(x)
      BY <1>1, <1>6
    <3>2. NewlineAt(t, n) = Len(t) + 1 /\ NewlineAt(x, n) = Len(x) + 1
      BY <1>5, <1>6, <2>1, <3>1, NewlineAtBounds
    <3> QED BY <1>1, <1>2, <1>4, <1>5, <3>2
  <2>2. CASE n # NumLines(t)
    <3> DEFINE i == NewlineAt(t, n)
    <3>1. i \in 1 .. Len(t) /\ t[i] = Nl /\ Count(t, i) = n
      <4>1. n \in 1 .. Cardinality(Newlines(t))
        BY <1>1, <2>2
      <4> QED BY <4>1, NewlineAtFinds
    <3> HIDE DEF i
    <3>2. q <= Len(t) /\ t[q] = Nl /\ Count(t, q) = m
      BY <1>1, <1>2, <1>3, <2>2
    <3>3. ~(i < q)
      <4>1. i \in 0 .. Len(t) /\ q \in 0 .. Len(t)
        BY <1>1, <1>2, <3>1, <3>2
      <4>2. i < q => Count(t, i) < Count(t, q)
        BY <1>1, <1>2, <3>1, <3>2, <4>1, CountMonotone
      <4> QED BY <1>1, <3>1, <3>2, <4>2
    <3>4. i \in q .. Len(t) /\ i + shift \in 1 .. Len(x)
      BY <1>1, <1>2, <1>4, <1>5, <3>1, <3>3
    <3>5. x[i + shift] = Nl /\ Count(x, i + shift) = n
      BY <1>5, <3>1, <3>4
    <3>6. NewlineAt(x, n) = i + shift
      <4> DEFINE c == i + shift
      <4>1. c \in 1 .. Len(x) /\ x[c] = Nl /\ Count(x, c) = n
        BY <3>4, <3>5
      <4> HIDE DEF c
      <4>2. NewlineAt(x, n) = c
        BY <1>5, <4>1, NewlineAtIs
      <4> QED BY <4>2 DEF c
    <3> QED BY <1>1, <1>2, <3>4, <3>6 DEF i
  <2> QED BY <2>1, <2>2
<1>8. ASSUME NEW n \in 1 .. m
      PROVE  Line(x, n) = Line(e, n)
  <2>1. CASE n # m
    BY <1>5, <2>1, PrefixLines DEF m
  <2>2. CASE n = m
    <3> DEFINE a == NewlineAt(e, m - 1) + 1
    <3>1. /\ NewlineAt(x, m - 1) = NewlineAt(e, m - 1)
          /\ NewlineAt(e, m) = Len(e) + 1
      <4>1. m - 1 \in 0 .. NumLines(e) - 1 /\ m \in 0 .. NumLines(e)
        BY <1>1 DEF m
      <4>2. NewlineAt(x, m - 1) = NewlineAt(e, m - 1)
        BY <1>5, <4>1, PrefixNewlines
      <4> QED BY <4>1, <4>2, NewlineAtBounds DEF m
    <3>2. NewlineAt(x, m) = Len(e) + 1
      <4>1. m \in m .. NumLines(t)
        BY <1>1
      <4>2. NewlineAt(x, m) = NewlineAt(t, m) + shift
        BY <1>7, <4>1
      <4>3. NewlineAt(t, m) = q
        BY DEF q
      <4> QED BY <1>1, <1>2, <1>4, <4>2, <4>3
    <3>3. Line(x, n) = SubSeq(x, a, Len(e)) /\ Line(e, n) = SubSeq(e, a, Len(e))
      <4>1. Line(x, m) = SubSeq(x, NewlineAt(e, m - 1) + 1, (Len(e) + 1) - 1)
        BY <3>1, <3>2, LineBetween, Zenon
      <4>2. Line(e, m) = SubSeq(e, NewlineAt(e, m - 1) + 1, (Len(e) + 1) - 1)
        BY <3>1, LineBetween, Zenon
      <4>3. (Len(e) + 1) - 1 = Len(e)
        BY <1>1
      <4> QED BY <2>2, <4>1, <4>2, <4>3, Zenon
    <3>4. a \in Nat \ {0}
      <4>1. m \in 1 .. NumLines(e)
        BY <1>1 DEF m
      <4> QED BY <4>1, LineIsText
    <3> HIDE DEF a
    <3>5. Len(e) \in 0 .. Len(x) /\ Len(e) \in 0 .. Len(e) /\ \A i \in 1 .. Len(e) : x[i] = e[i]
      BY <1>1, <1>5, StartsWithIs
    <3>6. Len(e) - a = Len(e) - a /\ \A i \in a .. Len(e) : x[i] = e[i - a + a]
      BY <1>1, <3>4, <3>5
    <3>7. SubSeq(x, a, Len(e)) = SubSeq(e, a, Len(e))
      BY <1>5, <3>4, <3>5, <3>6, SameCut
    <3> QED BY <3>3, <3>7
  <2> QED BY <2>1, <2>2
<1>9. ASSUME NEW n \in m + 1 .. NumLines(t)
      PROVE  Line(x, n) = Line(t, n)
  <2> DEFINE a == NewlineAt(t, n - 1)
             b == NewlineAt(t, n)
  <2>1. n \in m .. NumLines(t) /\ n - 1 \in m .. NumLines(t)
    BY <1>1
  <2>2. /\ a \in q .. Len(t) + 1 /\ NewlineAt(x, n - 1) = a + shift
        /\ b \in q .. Len(t) + 1 /\ NewlineAt(x, n) = b + shift
    BY <1>7, <2>1
  <2> HIDE DEF a, b
  <2>3. Line(x, n) = SubSeq(x, a + shift + 1, (b + shift) - 1)
        /\ Line(t, n) = SubSeq(t, a + 1, b - 1)
    <3>1. NewlineAt(t, n - 1) = a /\ NewlineAt(t, n) = b
      BY DEF a, b
    <3>2. Line(t, n) = SubSeq(t, a + 1, b - 1)
      BY <3>1, LineBetween, Zenon
    <3>3. Line(x, n) = SubSeq(x, a + shift + 1, (b + shift) - 1)
      BY <2>2, LineBetween, Zenon
    <3> QED BY <3>2, <3>3
  <2>4. /\ a + shift + 1 \in Nat \ {0} /\ (b + shift) - 1 \in 0 .. Len(x)
        /\ a + 1 \in Nat \ {0} /\ b - 1 \in 0 .. Len(t)
        /\ ((b + shift) - 1) - (a + shift + 1) = (b - 1) - (a + 1)
    <3>1. /\ a \in Int /\ b \in Int /\ q \in Int /\ 1 <= q /\ q <= a /\ q <= b
          /\ b <= Len(t) + 1
      BY <1>1, <1>2, <2>2
    <3>2. Len(x) = Len(t) + shift
      BY <1>5
    <3>3. shift = Len(e) - q + 1 /\ Len(e) \in Nat /\ Len(t) \in Nat /\ shift \in Int
      BY <1>1, <1>4, <3>1
    <3>4. a + shift + 1 \in Nat \ {0} /\ a + 1 \in Nat \ {0} /\ b - 1 \in 0 .. Len(t)
      BY <3>1, <3>3
    <3>5. (b + shift) - 1 \in 0 .. Len(x)
      BY <3>1, <3>2, <3>3
    <3>6. ((b + shift) - 1) - (a + shift + 1) = (b - 1) - (a + 1)
      BY <3>1, <3>3
    <3> QED BY <3>4, <3>5, <3>6
  <2>5. \A i \in a + shift + 1 .. (b + shift) - 1 : x[i] = t[i - (a + shift + 1) + (a + 1)]
    <3>1. SUFFICES ASSUME NEW i \in a + shift + 1 .. (b + shift) - 1
                   PROVE  x[i] = t[i - (a + shift + 1) + (a + 1)]
      OBVIOUS
    <3>2. i - shift \in q .. Len(t) /\ (i - shift) + shift = i
          /\ i - (a + shift + 1) + (a + 1) = i - shift
      <4>1. /\ i \in Int /\ a \in Int /\ b \in Int /\ q \in Int /\ shift \in Int
            /\ Len(t) \in Int /\ q <= a /\ b <= Len(t) + 1
            /\ a + shift + 1 <= i /\ i <= (b + shift) - 1
        BY <1>1, <1>2, <1>4, <2>2
      <4> QED BY <4>1
    <3>3. x[(i - shift) + shift] = t[i - shift]
      BY <1>5, <3>2
    <3> QED BY <3>2, <3>3
  <2>6. SubSeq(x, a + shift + 1, (b + shift) - 1) = SubSeq(t, a + 1, b - 1)
    <3> DEFINE c == a + shift + 1
               d == (b + shift) - 1
               f == a + 1
               g == b - 1
    <3>1. /\ c \in Nat \ {0} /\ d \in 0 .. Len(x) /\ f \in Nat \ {0} /\ g \in 0 .. Len(t)
          /\ d - c = g - f
      BY <2>4, Zenon
    <3>2. \A i \in c .. d : x[i] = t[i - c + f]
      BY <2>5, Zenon
    <3> HIDE DEF c, d, f, g
    <3>3. SubSeq(x, c, d) = SubSeq(t, f, g)
      BY <1>5, <3>1, <3>2, SameCut
    <3> QED BY <3>3 DEF c, d, f, g
  <2> QED BY <2>3, <2>6
<1> QED BY <1>5, <1>6, <1>8, <1>9 DEF m

-----------------------------------------------------------------------------
(* Texts of the box *)

LEMMA TextsAre ==
    ASSUME NEW t
    PROVE  t \in Texts <=> t \in Seq(A) /\ Len(t) <= MaxLen
<1>1. MaxLen \in Nat
  BY TextAssumption
<1>2. ASSUME t \in Texts
      PROVE  t \in Seq(A) /\ Len(t) <= MaxLen
  <2>1. PICK n \in 0 .. MaxLen : t \in [1 .. n -> A]
    BY <1>2 DEF Texts, A
  <2> QED BY <1>1, <2>1
<1>3. ASSUME t \in Seq(A), Len(t) <= MaxLen
      PROVE  t \in Texts
  <2>1. Len(t) \in 0 .. MaxLen /\ t \in [1 .. Len(t) -> A]
    BY <1>1, <1>3, LenProperties
  <2> QED BY <2>1 DEF Texts, A
<1> QED BY <1>2, <1>3

LEMMA TrimIsText ==
    ASSUME NEW t \in Texts
    PROVE  Trim(t) \in Texts /\ Trim(Trim(t)) = Trim(t)
<1> DEFINE ink == {i \in DOMAIN t : t[i] # Nl}
           first == CHOOSE i \in ink : \A j \in ink : i <= j
           last == CHOOSE i \in ink : \A j \in ink : i >= j
           u == SubSeq(t, first, last)
           uink == {i \in DOMAIN u : u[i] # Nl}
<1>1. /\ t \in Seq(A) /\ Len(t) <= MaxLen /\ Len(t) \in Nat /\ DOMAIN t = 1 .. Len(t)
      /\ MaxLen \in Nat
  BY TextsAre, LenProperties, TextAssumption
<1>2. CASE ink = {}
  <2>1. Trim(t) = <<>>
    BY <1>2 DEF Trim
  <2>2. Trim(<<>>) = <<>>
    BY DEF Trim
  <2>3. <<>> \in Seq(A) /\ Len(<<>>) <= MaxLen
    BY <1>1
  <2> QED BY <2>1, <2>2, <2>3, TextsAre
<1>3. CASE ink # {}
  <2>1. Trim(t) = u
    BY <1>3, Zenon DEF Trim
  <2>2. first \in ink /\ \A j \in ink : first <= j
    <3>1. ink \in SUBSET Nat
      BY <1>1
    <3>2. \E i \in ink : \A j \in ink : i <= j
      <4> HIDE DEF ink
      <4> QED BY <1>3, <3>1, Least
    <3> HIDE DEF ink
    <3> QED BY <3>2
  <2>3. last \in ink /\ \A j \in ink : last >= j
    <3> DEFINE fromEnd == {Len(t) - i : i \in ink}
    <3>1. ink \in SUBSET (1 .. Len(t))
      BY <1>1
    <3> HIDE DEF ink
    <3>2. fromEnd \in SUBSET Nat /\ fromEnd # {}
      <4>1. \A i \in ink : Len(t) - i \in Nat
        BY <1>1, <3>1
      <4>2. PICK i \in ink : TRUE
        BY <1>3
      <4>3. Len(t) - i \in fromEnd
        OBVIOUS
      <4> QED BY <4>1, <4>3
    <3>3. PICK k \in fromEnd : \A j \in fromEnd : k <= j
      <4> HIDE DEF fromEnd
      <4> QED BY <3>2, Least
    <3>4. PICK i \in ink : k = Len(t) - i
      BY <3>3
    <3>5. \A j \in ink : i >= j
      <4>1. SUFFICES ASSUME NEW j \in ink PROVE i >= j
        OBVIOUS
      <4>2. Len(t) - j \in fromEnd
        OBVIOUS
      <4>3. Len(t) - i <= Len(t) - j
        BY <3>3, <3>4, <4>2
      <4> QED BY <1>1, <3>1, <4>3
    <3> QED BY <3>5
  <2>4. /\ first \in 1 .. Len(t) /\ t[first] # Nl
        /\ last \in 1 .. Len(t) /\ t[last] # Nl
        /\ first <= last
    <3> HIDE DEF first, last
    <3> QED BY <1>1, <2>2, <2>3
  <2> HIDE DEF first, last, ink
  <2>5. /\ u \in Seq(A) /\ Len(u) = last - first + 1 /\ DOMAIN u = 1 .. Len(u)
        /\ u[1] = t[first] /\ u[Len(u)] = t[last]
    <3>1. \A i \in first .. last : t[i] \in A
      BY <1>1, <2>4, ElementOfSeq
    <3>2. /\ u \in Seq(A) /\ Len(u) = (IF first <= last THEN last - first + 1 ELSE 0)
          /\ \A i \in 1 .. last - first + 1 : u[i] = t[first + i - 1]
      BY <2>4, <3>1, SubSeqProperties
    <3>3. 1 \in 1 .. last - first + 1 /\ last - first + 1 \in 1 .. last - first + 1
          /\ first + 1 - 1 = first /\ first + (last - first + 1) - 1 = last
      BY <1>1, <2>4
    <3> HIDE DEF u
    <3> QED BY <2>4, <3>2, <3>3, LenProperties
  <2>6. /\ Len(u) \in Nat \ {0} /\ Len(u) <= Len(t)
    BY <1>1, <2>4, <2>5
  <2> HIDE DEF u
  <2>7. /\ 1 \in uink /\ Len(u) \in uink /\ uink # {} /\ uink \in SUBSET (1 .. Len(u))
    BY <2>4, <2>5, <2>6
  <2>8. Trim(u) = SubSeq(u, CHOOSE i \in uink : \A j \in uink : i <= j,
                            CHOOSE i \in uink : \A j \in uink : i >= j)
    BY <2>7, Zenon DEF Trim
  <2> HIDE DEF uink
  <2>9. (CHOOSE i \in uink : \A j \in uink : i <= j) = 1
    <3> DEFINE c == CHOOSE i \in uink : \A j \in uink : i <= j
    <3>1. \A j \in uink : 1 <= j
      BY <2>6, <2>7
    <3>2. c \in uink /\ \A j \in uink : c <= j
      BY <2>7, <3>1
    <3> HIDE DEF c
    <3>3. c = 1
      BY <2>6, <2>7, <3>2
    <3> QED BY <3>3 DEF c
  <2>10. (CHOOSE i \in uink : \A j \in uink : i >= j) = Len(u)
    <3> DEFINE c == CHOOSE i \in uink : \A j \in uink : i >= j
    <3>1. \A j \in uink : Len(u) >= j
      BY <2>6, <2>7
    <3>2. c \in uink /\ \A j \in uink : c >= j
      BY <2>7, <3>1
    <3> HIDE DEF c
    <3>3. c = Len(u)
      BY <2>6, <2>7, <3>2
    <3> QED BY <3>3 DEF c
  <2>11. Trim(u) = u
    BY <2>5, <2>8, <2>9, <2>10, SubSeqFull
  <2>12. u \in Texts
    <3>1. Len(u) <= MaxLen
      BY <1>1, <2>6
    <3> QED BY <2>5, <3>1, TextsAre
  <2> QED BY <2>1, <2>11, <2>12
<1> QED BY <1>2, <1>3

-----------------------------------------------------------------------------
(* The invariant *)

\* While a click would continue, the text at the last click is a prefix of the
\* box's, m_min_line is its number of lines, and the REPL was given the same
\* number of lines, each of them the beginning of the line there is, and all
\* of it unless execution stopped there.
ExecutedInv ==
    m_min_line > 0 =>
        /\ m_repl
        /\ StartsWith(m_curr_text, m_prev_text)
        /\ m_min_line = NumLines(m_prev_text)
        /\ NumLines(executed) = m_min_line
        /\ m_min_line \in stops
        /\ \A n \in 1 .. m_min_line :
              /\ StartsWith(Line(m_prev_text, n), Line(executed, n))
              /\ n \notin stops => Line(m_prev_text, n) = Line(executed, n)

Inv == TypeOK /\ ExecutedInv

\* What the typing invariant says of the text in the form the lemmas use.
LEMMA BoxText ==
    ASSUME TypeOK
    PROVE  /\ m_curr_text \in Seq(A) /\ m_prev_text \in Seq(A) /\ executed \in Seq(A)
           /\ m_num_lines \in 1 .. MaxLen + 1 /\ m_num_lines = NumLines(m_curr_text)
<1>1. m_curr_text \in Seq(A) /\ m_prev_text \in Seq(A) /\ Len(m_curr_text) <= MaxLen
  BY TextsAre DEF TypeOK
<1>2. executed \in Seq(A) /\ m_num_lines = NumLines(m_curr_text)
  BY DEF TypeOK, A
<1>3. /\ NumLines(m_curr_text) \in Nat \ {0} /\ Len(m_curr_text) \in Nat
      /\ NumLines(m_curr_text) <= Len(m_curr_text) + 1
  BY <1>1, CountEnds DEF NumLines
<1>4. MaxLen \in Nat
  BY TextAssumption
<1> QED BY <1>1, <1>2, <1>3, <1>4

LEMMA InitInv == Init => Inv
<1> SUFFICES ASSUME Init PROVE Inv
  OBVIOUS
<1>1. MaxLen \in Nat
  BY TextAssumption
<1>2. <<>> \in Texts /\ <<>> \in Seq(A)
  <2>1. <<>> \in Seq(A) /\ Len(<<>>) <= MaxLen
    BY <1>1
  <2> QED BY <2>1, TextsAre
<1>3. Trim(<<>>) = <<>>
  BY DEF Trim
<1>4. NumLines(<<>>) = 1
  <2>1. Newlines(<<>>) = {}
    BY DEF Newlines
  <2> QED BY <2>1, FS_EmptySet DEF NumLines
<1>5. TypeOK
  <2>1. 0 \in 0 .. MaxLen + 1 /\ {} \subseteq 1 .. MaxLen + 1
    BY <1>1
  <2>2. <<>> \in Seq(Char \cup {Nl})
    BY <1>2 DEF A
  <2>3. /\ m_curr_text = <<>> /\ m_num_lines = 1 /\ m_prev_text = <<>> /\ m_min_line = 0
        /\ m_repl = FALSE /\ executed = <<>> /\ stops = {}
    BY DEF Init
  <2>4. m_repl \in BOOLEAN
    BY <2>3
  <2> QED BY <1>2, <1>3, <1>4, <2>1, <2>2, <2>3, <2>4, Zenon DEF TypeOK
<1> QED BY <1>5 DEF Init, Inv, ExecutedInv

LEMMA HandleTextChangeStep ==
    ASSUME Inv, NEW raw \in Texts, HandleTextChange(raw)
    PROVE  Inv'
<1>1. Trim(raw) \in Texts /\ Trim(Trim(raw)) = Trim(raw)
  BY TrimIsText
<1>2. TypeOK'
  <2>1. m_min_line' \in 0 .. MaxLen + 1
    BY TextAssumption DEF HandleTextChange, Inv, TypeOK
  <2> QED BY <1>1, <2>1 DEF HandleTextChange, Inv, TypeOK
<1>3. ExecutedInv'
  <2>1. CASE StartsWith(m_curr_text', m_prev_text)
    BY <2>1 DEF HandleTextChange, Inv, ExecutedInv
  <2>2. CASE ~StartsWith(m_curr_text', m_prev_text)
    <3>1. m_min_line' = 0
      BY <2>2 DEF HandleTextChange
    <3> QED BY <3>1 DEF ExecutedInv
  <2> QED BY <2>1, <2>2
<1> QED BY <1>2, <1>3 DEF Inv

LEMMA RecompileStep ==
    ASSUME Inv, RecompileEverything
    PROVE  Inv'
<1>1. /\ m_curr_text \in Seq(A) /\ m_num_lines \in 1 .. MaxLen + 1
      /\ m_num_lines = NumLines(m_curr_text)
  BY BoxText DEF Inv
<1>2. /\ m_repl' = TRUE /\ executed' = m_curr_text /\ stops' = {m_num_lines}
      /\ m_prev_text' = m_curr_text /\ m_min_line' = m_num_lines
      /\ m_curr_text' = m_curr_text /\ m_num_lines' = m_num_lines
  BY DEF RecompileEverything, Executed
<1>3. MaxLen \in Nat
  BY TextAssumption
<1>4. TypeOK'
  BY <1>1, <1>2, <1>3 DEF Inv, TypeOK, A
<1>5. StartsWith(m_curr_text, m_curr_text)
  BY <1>1, StartsWithItself
<1>6. \A n \in 1 .. m_num_lines : StartsWith(Line(m_curr_text, n), Line(m_curr_text, n))
  BY <1>1, LineIsText, StartsWithItself
<1>7. ExecutedInv'
  BY <1>1, <1>2, <1>5, <1>6 DEF ExecutedInv
<1> QED BY <1>4, <1>7 DEF Inv

LEMMA ContinueStep ==
    ASSUME Inv, ContinueExecution
    PROVE  Inv'
<1> DEFINE t == m_curr_text
           p == m_prev_text
           e == executed
           m == m_min_line
<1>1. /\ t \in Seq(A) /\ p \in Seq(A) /\ e \in Seq(A)
      /\ m_num_lines \in 1 .. MaxLen + 1 /\ m_num_lines = NumLines(t) /\ MaxLen \in Nat
  BY BoxText, TextAssumption DEF Inv
<1>2. /\ m > 0 /\ m_repl' = m_repl /\ executed' = e \o Remaining
      /\ stops' = stops \cup {m_num_lines}
      /\ m_prev_text' = t /\ m_min_line' = m_num_lines
      /\ m_curr_text' = t /\ m_num_lines' = m_num_lines
  BY DEF ContinueExecution, Executed
<1>3. /\ m_repl /\ StartsWith(t, p) /\ m = NumLines(p) /\ NumLines(e) = m /\ m \in stops
      /\ \A n \in 1 .. m : /\ StartsWith(Line(p, n), Line(e, n))
                           /\ n \notin stops => Line(p, n) = Line(e, n)
  BY <1>2 DEF Inv, ExecutedInv
<1>4. m \in Nat \ {0} /\ m <= NumLines(t)
  BY <1>1, <1>3, CountEnds, PrefixNewlines
<1> DEFINE x == executed'
<1>5. x = Continuation(e, t, NewlineAt(t, NumLines(e)))
  BY <1>2, <1>3 DEF Remaining, Continuation
<1>6. /\ x \in Seq(A) /\ NumLines(x) = NumLines(t)
      /\ \A n \in 1 .. m : Line(x, n) = Line(e, n)
      /\ \A n \in m + 1 .. NumLines(t) : Line(x, n) = Line(t, n)
  <2>1. NumLines(e) <= NumLines(t)
    BY <1>3, <1>4
  <2> HIDE DEF x, t, e
  <2>2. /\ x \in Seq(A) /\ NumLines(x) = NumLines(t)
        /\ \A n \in 1 .. NumLines(e) : Line(x, n) = Line(e, n)
        /\ \A n \in NumLines(e) + 1 .. NumLines(t) : Line(x, n) = Line(t, n)
    BY <1>1, <1>5, <2>1, ContinuedLines
  <2> QED BY <1>3, <2>2
<1>7. TypeOK'
  <2>1. executed' \in Seq(Char \cup {Nl})
    BY <1>6 DEF A
  <2>2. m_min_line' \in 0 .. MaxLen + 1 /\ stops' \subseteq 1 .. MaxLen + 1
    <3>1. m_num_lines \in 0 .. MaxLen + 1 /\ stops \subseteq 1 .. MaxLen + 1
      BY <1>1 DEF Inv, TypeOK
    <3>2. m_min_line' = m_num_lines /\ stops' = stops \cup {m_num_lines}
      BY <1>2
    <3>3. m_num_lines \in 1 .. MaxLen + 1
      BY <1>1
    <3> QED BY <3>1, <3>2, <3>3
  <2> QED BY <1>2, <2>1, <2>2 DEF Inv, TypeOK
<1>8. ASSUME NEW n \in 1 .. NumLines(t)
      PROVE  /\ StartsWith(Line(t, n), Line(x, n))
             /\ n \notin stops' => Line(t, n) = Line(x, n)
  <2>1. CASE n \in 1 .. m
    <3>1. /\ Line(t, n) \in Seq(A) /\ Line(p, n) \in Seq(A) /\ Line(e, n) \in Seq(A)
      BY <1>1, <1>3, <2>1, LineIsText
    <3>2. /\ StartsWith(Line(t, n), Line(p, n))
          /\ n # m => Line(t, n) = Line(p, n)
      BY <1>1, <1>3, <2>1, PrefixLines
    <3>3. Line(x, n) = Line(e, n)
      BY <1>6, <2>1
    <3>4. StartsWith(Line(t, n), Line(x, n))
      BY <1>3, <2>1, <3>1, <3>2, <3>3, StartsWithTrans
    <3>5. ASSUME n \notin stops'
          PROVE  Line(t, n) = Line(x, n)
      BY <1>2, <1>3, <2>1, <3>2, <3>3, <3>5
    <3> QED BY <3>4, <3>5
  <2>2. CASE n \notin 1 .. m
    <3>1. n \in m + 1 .. NumLines(t)
      BY <1>4, <2>2
    <3>2. Line(x, n) = Line(t, n)
      BY <1>6, <3>1
    <3> QED BY <1>1, <3>2, LineIsText, StartsWithItself
  <2> QED BY <2>1, <2>2
<1>9. ExecutedInv'
  <2>1. StartsWith(t, t)
    BY <1>1, StartsWithItself
  <2> HIDE DEF x
  <2>2. executed' = x
    BY DEF x
  <2> QED BY <1>1, <1>2, <1>3, <1>6, <1>8, <2>1, <2>2 DEF ExecutedInv
<1> QED BY <1>7, <1>9 DEF Inv

LEMMA Invariant == Spec => []Inv
<1>1. Inv /\ [Next]_vars => Inv'
  <2> SUFFICES ASSUME Inv, [Next]_vars PROVE Inv'
    OBVIOUS
  <2>1. CASE \E raw \in Texts : HandleTextChange(raw)
    BY <2>1, HandleTextChangeStep
  <2>2. CASE RecompileEverything
    BY <2>2, RecompileStep
  <2>3. CASE ContinueExecution
    BY <2>3, ContinueStep
  <2>4. CASE UNCHANGED vars
    BY <2>4 DEF vars, Inv, TypeOK, ExecutedInv
  <2> QED BY <2>1, <2>2, <2>3, <2>4 DEF Next
<1> QED BY <1>1, InitInv, PTL DEF Spec

-----------------------------------------------------------------------------
(* Theorems *)

\* Types; the lines are always counted in the trimmed text.
THEOREM TypeCorrect == Spec => []TypeOK
<1>1. Inv => TypeOK
  BY DEF Inv
<1> QED BY <1>1, Invariant, PTL

\* ContinueExecution never uses a REPL that is not there.
THEOREM ContinueHasREPL == Spec => []ContinuesWithAREPL
<1>1. Inv => ContinuesWithAREPL
  BY DEF Inv, ExecutedInv, ContinuesWithAREPL
<1> QED BY <1>1, Invariant, PTL

\* While a click would continue, no line the REPL was given has been deleted,
\* altered or given to it twice.
THEOREM ExecutedStands == Spec => []ExecutedLinesStand
<1>1. ASSUME Inv
      PROVE  ExecutedLinesStand
  <2> SUFFICES ASSUME m_min_line > 0
               PROVE  /\ NumLines(executed) = m_min_line /\ m_min_line <= m_num_lines
                      /\ \A n \in 1 .. m_min_line :
                            StartsWith(Line(m_curr_text, n), Line(executed, n))
    BY DEF ExecutedLinesStand
  <2>1. /\ StartsWith(m_curr_text, m_prev_text) /\ m_min_line = NumLines(m_prev_text)
        /\ NumLines(executed) = m_min_line
        /\ \A n \in 1 .. m_min_line : StartsWith(Line(m_prev_text, n), Line(executed, n))
    BY <1>1 DEF Inv, ExecutedInv
  <2>2. /\ m_curr_text \in Seq(A) /\ m_prev_text \in Seq(A) /\ executed \in Seq(A)
        /\ m_num_lines = NumLines(m_curr_text)
    BY <1>1, BoxText DEF Inv
  <2>3. m_min_line <= m_num_lines
    BY <2>1, <2>2, PrefixNewlines
  <2>4. ASSUME NEW n \in 1 .. m_min_line
        PROVE  StartsWith(Line(m_curr_text, n), Line(executed, n))
    <3>1. n \in 1 .. NumLines(m_prev_text) /\ n \in 1 .. NumLines(executed)
      BY <2>1
    <3>2. n \in 1 .. NumLines(m_curr_text) /\ StartsWith(Line(m_curr_text, n), Line(m_prev_text, n))
      BY <2>1, <2>2, <3>1, PrefixLines
    <3>3. /\ Line(m_curr_text, n) \in Seq(A) /\ Line(m_prev_text, n) \in Seq(A)
          /\ Line(executed, n) \in Seq(A)
      BY <2>2, <3>1, <3>2, LineIsText
    <3> QED BY <2>1, <3>2, <3>3, StartsWithTrans
  <2> QED BY <2>1, <2>3, <2>4
<1> QED BY <1>1, Invariant, PTL

\* Text above m_min_line that was never executed stands only at the end of a
\* line at which execution once stopped.
THEOREM SkippedOnlyThere == Spec => []SkippedOnlyAtStops
<1>1. ASSUME Inv
      PROVE  SkippedOnlyAtStops
  <2> SUFFICES ASSUME m_min_line > 0, NEW n \in 1 .. m_min_line, n \notin stops
               PROVE  Line(m_curr_text, n) = Line(executed, n)
    BY DEF SkippedOnlyAtStops
  <2>1. /\ StartsWith(m_curr_text, m_prev_text) /\ m_min_line = NumLines(m_prev_text)
        /\ m_min_line \in stops /\ Line(m_prev_text, n) = Line(executed, n)
    BY <1>1 DEF Inv, ExecutedInv
  <2>2. m_curr_text \in Seq(A) /\ m_prev_text \in Seq(A)
    BY <1>1, BoxText DEF Inv
  <2>3. n \in 1 .. NumLines(m_prev_text) /\ n # NumLines(m_prev_text)
    BY <2>1
  <2> QED BY <2>1, <2>2, <2>3, PrefixLines
<1> QED BY <1>1, Invariant, PTL

=============================================================================
