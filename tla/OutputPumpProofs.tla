-------------------------- MODULE OutputPumpProofs --------------------------
(***************************************************************************)
(* Order and completeness of the output, the lock and the box, for buffers *)
(* and a pipe of any size and any number of clicks and units.              *)
(***************************************************************************)
EXTENDS OutputPump, SequenceTheorems, TLAPS

U == 1 .. MaxPrinted

\* Types, and that a sequence is one.
TypeInv ==
    /\ ui \in UIStates
    /\ pump \in {"read", "lock", "settext", "unlock"}
    /\ stdio \in Seq(U) /\ pipe \in Seq(U) /\ buff \in Seq(U)
    /\ g_output_text \in Seq(U) /\ box \in Seq(U)
    /\ printed \in 0 .. MaxPrinted /\ clicks \in 0 .. MaxClicks
    /\ pipeCreated \in BOOLEAN

SizeInv == Len(stdio) <= StdioSize /\ Len(pipe) <= PipeSize /\ Len(buff) <= ReadSize

\* Who holds the lock, and where the one thread may stand when the other waits.
LockInv ==
    /\ g_output_text_lock = IF ui = "clear" THEN "ui"
                            ELSE IF pump \in {"settext", "unlock"} THEN "pump" ELSE "none"
    /\ ui = "clear" => pump \in {"read", "lock"}
    /\ ui = "settext" => pump = "settext"

\* Only while the pump waits for the box to be set may the box be behind.
BoxInv == pump # "settext" \/ ui = "settext" => box = g_output_text

\* What the box shows is the beginning of the text.
Begins(s, t) == Len(s) <= Len(t) /\ \A i \in 1 .. Len(s) : s[i] = t[i]
PrefixInv == Begins(box, g_output_text)

HeldInv ==
    /\ ui \in {"callback", "spill_callback"} => Callbacks
    /\ NothingHeldBack

\* s is a run of units that ends with the unit last.
EndsAt(s, last) == \A i \in DOMAIN s : s[i] = last - Len(s) + i

\* Each place a unit passes through holds a run that ends where the next begins.
RunsInv ==
    /\ EndsAt(stdio, printed)
    /\ EndsAt(pipe, printed - Len(stdio))
    /\ EndsAt(buff, printed - Len(stdio) - Len(pipe))
    /\ EndsAt(g_output_text, printed - Len(stdio) - Len(pipe) - Len(buff))

\* Without a pipe nothing gets past the C runtime.
EmptyInv == pipe = <<>> /\ buff = <<>> /\ g_output_text = <<>> /\ box = <<>>

OrderInv ==
    /\ pump # "lock" => buff = <<>>
    /\ pipeCreated => RunsInv
    /\ ~pipeCreated => EmptyInv

-----------------------------------------------------------------------------
(* Runs of units *)

LEMMA EmptyRun ==
    ASSUME NEW k \in Int
    PROVE  EndsAt(<<>>, k)
BY DEF EndsAt

\* Two runs make one if and only if the first ends where the second begins.
LEMMA ConcatRun ==
    ASSUME NEW s \in Seq(U), NEW t \in Seq(U), NEW k \in Int
    PROVE  EndsAt(s \o t, k) <=> EndsAt(t, k) /\ EndsAt(s, k - Len(t))
<1>1. /\ s \o t \in Seq(U) /\ Len(s \o t) = Len(s) + Len(t)
      /\ DOMAIN (s \o t) = 1 .. Len(s) + Len(t)
      /\ DOMAIN s = 1 .. Len(s) /\ DOMAIN t = 1 .. Len(t)
      /\ Len(s) \in Nat /\ Len(t) \in Nat
  BY ConcatProperties, LenProperties
<1>2. \A i \in 1 .. Len(s) : (s \o t)[i] = s[i]
  BY <1>1, ConcatProperties
<1>3. \A i \in 1 .. Len(t) : (s \o t)[Len(s) + i] = t[i]
  BY <1>1, ConcatProperties
<1> DEFINE n == Len(s)
           m == Len(t)
           c == s \o t
<1> HIDE DEF n, m, c
<1>4. ASSUME EndsAt(c, k)
      PROVE  EndsAt(t, k) /\ EndsAt(s, k - m)
  <2>1. ASSUME NEW i \in 1 .. m
        PROVE  t[i] = k - m + i
    <3>1. n + i \in 1 .. n + m
      BY <1>1 DEF n, m
    <3>2. c[n + i] = k - (n + m) + (n + i)
      BY <1>1, <1>4, <3>1 DEF EndsAt, n, m, c
    <3> QED BY <1>1, <1>3, <3>2 DEF n, m, c
  <2>2. ASSUME NEW i \in 1 .. n
        PROVE  s[i] = (k - m) - n + i
    <3>1. i \in 1 .. n + m
      BY <1>1 DEF n, m
    <3>2. c[i] = k - (n + m) + i
      BY <1>1, <1>4, <3>1 DEF EndsAt, n, m, c
    <3> QED BY <1>1, <1>2, <3>2 DEF n, m, c
  <2> QED BY <1>1, <2>1, <2>2 DEF EndsAt, n, m
<1>5. ASSUME EndsAt(t, k), EndsAt(s, k - m)
      PROVE  EndsAt(c, k)
  <2>1. ASSUME NEW i \in 1 .. n + m
        PROVE  c[i] = k - (n + m) + i
    <3>1. CASE i <= n
      <4>1. i \in 1 .. n /\ c[i] = s[i]
        BY <1>1, <1>2, <3>1 DEF n, m, c
      <4>2. s[i] = (k - m) - n + i
        BY <1>1, <1>5, <4>1 DEF EndsAt, n
      <4> QED BY <1>1, <4>1, <4>2 DEF n, m
    <3>2. CASE i > n
      <4>1. i - n \in 1 .. m /\ n + (i - n) = i
        BY <1>1, <3>2 DEF n, m
      <4>2. c[i] = t[i - n]
        BY <1>3, <4>1 DEF n, m, c
      <4>3. t[i - n] = k - m + (i - n)
        BY <1>1, <1>5, <4>1 DEF EndsAt, m
      <4> QED BY <1>1, <4>1, <4>2, <4>3 DEF n, m
    <3> QED BY <1>1, <3>1, <3>2 DEF n
  <2> QED BY <1>1, <2>1 DEF EndsAt, n, m, c
<1> QED BY <1>4, <1>5 DEF m, c

LEMMA AppendRun ==
    ASSUME NEW s \in Seq(U), NEW e \in U, EndsAt(s, e - 1)
    PROVE  Append(s, e) \in Seq(U) /\ Len(Append(s, e)) = Len(s) + 1 /\ EndsAt(Append(s, e), e)
<1>1. /\ <<e>> \in Seq(U) /\ Len(<<e>>) = 1 /\ e \in Int /\ EndsAt(<<e>>, e)
  BY DEF U, EndsAt
<1>2. EndsAt(s \o <<e>>, e)
  BY <1>1, ConcatRun
<1> QED BY <1>2, AppendProperties, AppendIsConcat

\* The first unit of a run, and the run that remains.
LEMMA TailRun ==
    ASSUME NEW s \in Seq(U), s # <<>>, NEW k \in Int, EndsAt(s, k)
    PROVE  /\ Head(s) \in U /\ Head(s) = k - Len(s) + 1
           /\ Tail(s) \in Seq(U) /\ Len(Tail(s)) = Len(s) - 1
           /\ EndsAt(Tail(s), k)
<1>1. /\ Head(s) \in U /\ Tail(s) \in Seq(U) /\ Len(Tail(s)) = Len(s) - 1
      /\ \A i \in 1 .. Len(Tail(s)) : Tail(s)[i] = s[i + 1]
      /\ DOMAIN Tail(s) = 1 .. Len(Tail(s))
  BY HeadTailProperties, LenProperties
<1>2. Len(s) \in Nat \ {0} /\ DOMAIN s = 1 .. Len(s)
  BY EmptySeq, LenProperties
<1>3. Head(s) = s[1] /\ s[1] = k - Len(s) + 1
  BY <1>2 DEF EndsAt
<1> DEFINE n == Len(s)
           t == Tail(s)
<1> HIDE DEF n, t
<1>4. ASSUME NEW i \in 1 .. n - 1
      PROVE  t[i] = k - (n - 1) + i
  <2>1. i + 1 \in 1 .. n
    BY <1>2 DEF n
  <2>2. s[i + 1] = k - n + (i + 1)
    BY <1>2, <2>1 DEF EndsAt, n
  <2>3. t[i] = s[i + 1]
    BY <1>1 DEF n, t
  <2> QED BY <1>2, <2>2, <2>3 DEF n
<1> QED BY <1>1, <1>3, <1>4 DEF EndsAt, n, t

\* A sequence cut in two after its n-th unit.
LEMMA Cut ==
    ASSUME NEW s \in Seq(U), NEW n \in 0 .. Len(s)
    PROVE  /\ SubSeq(s, 1, n) \in Seq(U) /\ Len(SubSeq(s, 1, n)) = n
           /\ SubSeq(s, n + 1, Len(s)) \in Seq(U) /\ Len(SubSeq(s, n + 1, Len(s))) = Len(s) - n
           /\ SubSeq(s, 1, n) \o SubSeq(s, n + 1, Len(s)) = s
<1> DEFINE front == SubSeq(s, 1, n)
           back == SubSeq(s, n + 1, Len(s))
<1>1. Len(s) \in Nat /\ \A i \in 1 .. Len(s) : s[i] \in U
  BY LenProperties, ElementOfSeq
<1>2. front \in Seq(U) /\ Len(front) = n
  BY <1>1, SubSeqProperties
<1>3. back \in Seq(U) /\ Len(back) = Len(s) - n
  BY <1>1, SubSeqProperties
<1>4. front \o back = s
  <2>1. 1 \in 1 .. Len(s) + 1 /\ n \in 1 - 1 .. Len(s) /\ Len(s) \in n .. Len(s)
    BY <1>1
  <2>2. front \o back = SubSeq(s, 1, Len(s))
    BY <2>1, ConcatAdjacentSubSeq
  <2> QED BY <2>2, SubSeqFull
<1> QED BY <1>2, <1>3, <1>4

-----------------------------------------------------------------------------
(* Types, sizes and the lock *)

\* What one ReadFile takes from the pipe: something, and no more than it can hold.
LEMMA ReadsSome ==
    ASSUME pipe \in Seq(U), PumpRead
    PROVE  \E n \in 0 .. Len(pipe) :
              /\ n <= ReadSize /\ n >= 1
              /\ buff' = SubSeq(pipe, 1, n) /\ pipe' = SubSeq(pipe, n + 1, Len(pipe))
<1> DEFINE n == IF Len(pipe) < ReadSize THEN Len(pipe) ELSE ReadSize
<1>1. Len(pipe) \in Nat
  BY LenProperties
<1>2. n \in 0 .. Len(pipe) /\ n <= ReadSize /\ n >= 1
  <2>1. Len(pipe) # 0
    BY EmptySeq DEF PumpRead
  <2> QED BY <1>1, <2>1, SizesAssumption
<1>3. buff' = SubSeq(pipe, 1, n) /\ pipe' = SubSeq(pipe, n + 1, Len(pipe))
  BY DEF PumpRead
<1> HIDE DEF n
<1> QED BY <1>2, <1>3

LEMMA TypeStep ==
    ASSUME TypeInv, [Next]_vars
    PROVE  TypeInv'
<1> USE SizesAssumption DEF TypeInv, U
<1> USE DEF uiVars, pumpVars, textVars
<1>1. ASSUME NEW next \in {"exec", "reset"}, Click(next)
      PROVE  TypeInv'
  BY <1>1 DEF Click, UIStates, Printing
<1>2. CASE ClickContinue
  BY <1>1, <1>2 DEF ClickContinue
<1>3. CASE ClickRecompile
  BY <1>1, <1>3 DEF ClickRecompile
<1>4. CASE TypeText
  BY <1>4 DEF TypeText, UIStates
<1>5. CASE Callback
  BY <1>5 DEF Callback, UIStates, Printing
<1>6. CASE PrintUnit
  BY <1>6 DEF PrintUnit
<1>7. CASE Spill
  BY <1>7 DEF Spill, UIStates
<1>8. CASE Write
  <2>1. Head(stdio) \in U /\ Tail(stdio) \in Seq(U)
    BY <1>8, HeadTailProperties DEF Write
  <2>2. Append(pipe, Head(stdio)) \in Seq(U)
    BY <2>1, AppendProperties
  <2> QED BY <1>8, <2>1, <2>2 DEF Write
<1>9. CASE Spilt
  BY <1>9 DEF Spilt, UIStates
<1>10. CASE ClearOutputTextBox
  BY <1>10, EmptySeq DEF ClearOutputTextBox, UIStates
<1>11. CASE Cleared
  BY <1>11 DEF Cleared, UIStates, Printing
<1>12. CASE ExecuteSwiftReturns
  BY <1>12 DEF ExecuteSwiftReturns, UIStates
<1>13. CASE CallbackReturns
  BY <1>13 DEF CallbackReturns, UIStates
<1>14. CASE HandlerReturns
  BY <1>14 DEF HandlerReturns, UIStates
<1>15. CASE SetText
  BY <1>15 DEF SetText, UIStates
<1>16. CASE AnswerPump
  BY <1>16 DEF AnswerPump, UIStates
<1>17. CASE PumpRead
  <2>1. PICK n \in 0 .. Len(pipe) :
           buff' = SubSeq(pipe, 1, n) /\ pipe' = SubSeq(pipe, n + 1, Len(pipe))
    <3> pipe \in Seq(U)
      OBVIOUS
    <3> HIDE DEF U, TypeInv
    <3> QED BY <1>17, ReadsSome
  <2>2. buff' \in Seq(U) /\ pipe' \in Seq(U)
    <3> pipe \in Seq(U)
      OBVIOUS
    <3> HIDE DEF U, TypeInv
    <3> QED BY <2>1, Cut
  <2> QED BY <1>17, <2>2 DEF PumpRead
<1>18. CASE PumpInsert
  BY <1>18, ConcatProperties, EmptySeq DEF PumpInsert
<1>19. CASE PumpUnlock
  BY <1>19 DEF PumpUnlock
<1>20. CASE PumpReadFails
  BY <1>20, EmptySeq DEF PumpReadFails
<1>21. CASE UNCHANGED vars
  BY <1>21 DEF vars
<1> QED
  BY <1>2, <1>3, <1>4, <1>5, <1>6, <1>7, <1>8, <1>9, <1>10, <1>11, <1>12, <1>13, <1>14,
     <1>15, <1>16, <1>17, <1>18, <1>19, <1>20, <1>21 DEF Next, UIStep, MovesOn, PumpStep

\* No buffer holds more than its size.
LEMMA SizeStep ==
    ASSUME TypeInv, SizeInv, OrderInv, [Next]_vars
    PROVE  SizeInv'
<1> USE SizesAssumption DEF SizeInv
<1> USE DEF uiVars, pumpVars, textVars
<1>1. Len(stdio) \in Nat /\ Len(pipe) \in Nat /\ Len(buff) \in Nat
  BY LenProperties DEF TypeInv
<1>2. CASE PrintUnit
  <2>1. printed + 1 \in U
    BY <1>2 DEF PrintUnit, TypeInv, U
  <2>2. Len(stdio') = Len(stdio) + 1
    BY <1>2, <2>1, AppendProperties DEF PrintUnit, TypeInv
  <2> QED BY <1>1, <1>2, <2>2 DEF PrintUnit
<1>3. CASE Write
  <2>1. Head(stdio) \in U /\ Len(Tail(stdio)) = Len(stdio) - 1
    BY <1>3, HeadTailProperties DEF Write, TypeInv
  <2>2. Len(Append(pipe, Head(stdio))) = Len(pipe) + 1
    BY <2>1, AppendProperties DEF TypeInv
  <2>3. Len(pipe') \in {Len(pipe), Len(pipe) + 1} /\ Len(pipe) < PipeSize
    BY <1>3, <2>2 DEF Write
  <2>4. Len(stdio') <= StdioSize /\ buff' = buff
    BY <1>1, <1>3, <2>1 DEF Write
  <2> QED BY <1>1, <2>3, <2>4
<1>4. CASE PumpRead
  <2>1. PICK n \in 0 .. Len(pipe) :
           /\ buff' = SubSeq(pipe, 1, n) /\ pipe' = SubSeq(pipe, n + 1, Len(pipe))
           /\ n <= ReadSize
    BY <1>4, ReadsSome DEF TypeInv
  <2>2. Len(buff') = n /\ Len(pipe') = Len(pipe) - n
    <3> pipe \in Seq(U)
      BY DEF TypeInv
    <3> QED BY <2>1, Cut
  <2> QED BY <1>1, <1>4, <2>1, <2>2 DEF PumpRead
<1>5. CASE PumpInsert \/ PumpReadFails
  BY <1>5 DEF PumpInsert, PumpReadFails
<1>6. (\E next \in {"exec", "reset"} : Click(next)) \/ TypeText \/ Callback \/ Spill \/ Spilt
         \/ ClearOutputTextBox \/ Cleared \/ ExecuteSwiftReturns \/ CallbackReturns
         \/ HandlerReturns \/ SetText \/ AnswerPump \/ PumpUnlock \/ UNCHANGED vars
      => SizeInv'
  BY DEF Click, TypeText, Callback, Spill, Spilt, ClearOutputTextBox, Cleared,
         ExecuteSwiftReturns, CallbackReturns, HandlerReturns, SetText, AnswerPump, PumpUnlock, vars
<1> QED
  BY <1>2, <1>3, <1>4, <1>5, <1>6 DEF Next, UIStep, MovesOn, PumpStep, ClickContinue, ClickRecompile

LEMMA LockStep ==
    ASSUME TypeInv, LockInv, [Next]_vars
    PROVE  LockInv'
<1> USE DEF LockInv, uiVars, pumpVars, textVars
<1>1. CASE ClickContinue \/ ClickRecompile
  BY <1>1 DEF ClickContinue, ClickRecompile, Click
<1>2. CASE TypeText \/ Callback \/ PrintUnit \/ Write
  BY <1>2 DEF TypeText, Callback, PrintUnit, Write
<1>3. CASE Spill \/ Spilt
  BY <1>3 DEF Spill, Spilt, Spilling, Printing
<1>4. CASE ClearOutputTextBox
  BY <1>4 DEF ClearOutputTextBox, TypeInv
<1>5. CASE Cleared
  BY <1>5 DEF Cleared
<1>6. CASE ExecuteSwiftReturns \/ CallbackReturns \/ HandlerReturns
  BY <1>6 DEF ExecuteSwiftReturns, CallbackReturns, HandlerReturns
<1>7. CASE SetText
  BY <1>7 DEF SetText
<1>8. CASE AnswerPump
  BY <1>8 DEF AnswerPump
<1>9. CASE PumpRead \/ PumpReadFails
  BY <1>9 DEF PumpRead, PumpReadFails
<1>10. CASE PumpInsert
  BY <1>10 DEF PumpInsert
<1>11. CASE PumpUnlock
  BY <1>11 DEF PumpUnlock
<1>12. CASE UNCHANGED vars
  BY <1>12 DEF vars
<1> QED
  BY <1>1, <1>2, <1>3, <1>4, <1>5, <1>6, <1>7, <1>8, <1>9, <1>10, <1>11, <1>12
  DEF Next, UIStep, MovesOn, PumpStep

LEMMA BoxStep ==
    ASSUME LockInv, BoxInv, [Next]_vars
    PROVE  BoxInv'
<1> USE DEF BoxInv, uiVars, pumpVars, textVars
<1>1. CASE ClickContinue \/ ClickRecompile
  BY <1>1 DEF ClickContinue, ClickRecompile, Click
<1>2. CASE TypeText \/ Callback \/ PrintUnit \/ Write
  BY <1>2 DEF TypeText, Callback, PrintUnit, Write
<1>3. CASE Spill \/ Spilt
  BY <1>3 DEF Spill, Spilt, Spilling, Printing
<1>4. CASE ClearOutputTextBox \/ Cleared
  BY <1>4 DEF ClearOutputTextBox, Cleared
<1>5. CASE ExecuteSwiftReturns \/ CallbackReturns \/ HandlerReturns
  BY <1>5 DEF ExecuteSwiftReturns, CallbackReturns, HandlerReturns
<1>6. CASE SetText \/ AnswerPump
  BY <1>6 DEF SetText, AnswerPump
<1>7. CASE PumpRead \/ PumpReadFails
  BY <1>7 DEF PumpRead, PumpReadFails
<1>8. CASE PumpInsert
  BY <1>8 DEF PumpInsert, LockInv
<1>9. CASE PumpUnlock
  BY <1>9 DEF PumpUnlock
<1>10. CASE UNCHANGED vars
  BY <1>10 DEF vars
<1> QED
  BY <1>1, <1>2, <1>3, <1>4, <1>5, <1>6, <1>7, <1>8, <1>9, <1>10
  DEF Next, UIStep, MovesOn, PumpStep

LEMMA HeldStep ==
    ASSUME HeldInv, [Next]_vars
    PROVE  HeldInv'
<1> USE DEF HeldInv, NothingHeldBack, uiVars, pumpVars, textVars
<1>1. CASE ClickContinue \/ ClickRecompile
  BY <1>1 DEF ClickContinue, ClickRecompile, Click
<1>2. CASE TypeText \/ Callback
  BY <1>2 DEF TypeText, Callback
<1>3. CASE PrintUnit \/ Write
  BY <1>3 DEF PrintUnit, Write, Printing
<1>4. CASE Spill \/ Spilt
  BY <1>4 DEF Spill, Spilt, Spilling, Printing
<1>5. CASE ClearOutputTextBox \/ Cleared
  BY <1>5 DEF ClearOutputTextBox, Cleared
<1>6. CASE ExecuteSwiftReturns \/ CallbackReturns \/ HandlerReturns
  BY <1>6 DEF ExecuteSwiftReturns, CallbackReturns, HandlerReturns
<1>7. CASE SetText \/ AnswerPump
  BY <1>7 DEF SetText, AnswerPump
<1>8. CASE PumpStep
  BY <1>8 DEF PumpStep, PumpRead, PumpReadFails, PumpInsert, PumpUnlock
<1>9. CASE UNCHANGED vars
  BY <1>9 DEF vars
<1> QED
  BY <1>1, <1>2, <1>3, <1>4, <1>5, <1>6, <1>7, <1>8, <1>9
  DEF Next, UIStep, MovesOn, PumpStep
-----------------------------------------------------------------------------
(* Order *)

\* With a pipe the runs stay runs.
LEMMA RunsStep ==
    ASSUME TypeInv, LockInv, OrderInv, pipeCreated, [Next]_vars
    PROVE  RunsInv'
<1> USE DEF uiVars, pumpVars, textVars, OrderInv
<1>1. /\ Len(stdio) \in Nat /\ Len(pipe) \in Nat /\ Len(buff) \in Nat /\ Len(g_output_text) \in Nat
      /\ printed \in Nat
  BY LenProperties DEF TypeInv
<1>2. CASE PrintUnit
  <2>1. printed' = printed + 1 /\ printed' \in U /\ printed = printed' - 1
    BY <1>1, <1>2, SizesAssumption DEF PrintUnit, TypeInv, U
  <2>2. EndsAt(stdio', printed') /\ Len(stdio') = Len(stdio) + 1
    BY <1>2, <2>1, AppendRun DEF PrintUnit, TypeInv, RunsInv
  <2>3. printed' - Len(stdio') = printed - Len(stdio)
    BY <1>1, <2>1, <2>2
  <2> QED BY <1>2, <2>2, <2>3 DEF PrintUnit, RunsInv
<1>3. CASE Write
  <2> DEFINE k == printed - Len(stdio)
             e == Head(stdio)
  <2>1. /\ e \in U /\ e = k + 1
        /\ Len(stdio') = Len(stdio) - 1 /\ EndsAt(stdio', printed)
    BY <1>1, <1>3, TailRun DEF Write, TypeInv, RunsInv
  <2>2. EndsAt(pipe, e - 1)
    BY <1>1, <2>1 DEF RunsInv
  <2>3. pipe' = Append(pipe, e)
    BY <1>3 DEF Write
  <2> HIDE DEF e
  <2>4. EndsAt(pipe', e) /\ Len(pipe') = Len(pipe) + 1
    BY <2>1, <2>2, <2>3, AppendRun DEF TypeInv
  <2>5. /\ printed - Len(stdio') = e
        /\ printed - Len(stdio') - Len(pipe') = printed - Len(stdio) - Len(pipe)
    BY <1>1, <2>1, <2>4
  <2> QED BY <1>3, <2>1, <2>4, <2>5 DEF Write, RunsInv
<1>4. CASE ClearOutputTextBox
  BY <1>1, <1>4, EmptyRun DEF ClearOutputTextBox, RunsInv
<1>5. CASE PumpRead
  <2> DEFINE k == printed - Len(stdio)
  <2>1. PICK n \in 0 .. Len(pipe) :
           buff' = SubSeq(pipe, 1, n) /\ pipe' = SubSeq(pipe, n + 1, Len(pipe))
    BY <1>5, ReadsSome DEF TypeInv
  <2>2. /\ buff' \in Seq(U) /\ Len(buff') = n
        /\ pipe' \in Seq(U) /\ Len(pipe') = Len(pipe) - n
        /\ buff' \o pipe' = pipe
    BY <2>1, Cut DEF TypeInv
  <2>3. k \in Int /\ EndsAt(buff' \o pipe', k)
    BY <1>1, <2>2 DEF RunsInv
  <2> HIDE DEF k
  <2>4. EndsAt(pipe', k) /\ EndsAt(buff', k - Len(pipe'))
    BY <2>2, <2>3, ConcatRun
  <2>5. buff = <<>>
    BY <1>5 DEF PumpRead, RunsInv
  <2>6. k - Len(pipe') - Len(buff') = k - Len(pipe) - Len(buff)
    BY <1>1, <2>2, <2>3, <2>5
  <2> QED BY <1>5, <2>4, <2>6 DEF PumpRead, RunsInv, k
<1>6. CASE PumpInsert
  <2> DEFINE k == printed - Len(stdio) - Len(pipe)
  <2>1. k \in Int /\ EndsAt(buff, k) /\ EndsAt(g_output_text, k - Len(buff))
    BY <1>1 DEF RunsInv
  <2>2. g_output_text' = g_output_text \o buff /\ buff' = <<>> /\ Len(buff') = 0
    BY <1>6 DEF PumpInsert
  <2> HIDE DEF k
  <2>3. EndsAt(g_output_text', k)
    BY <2>1, <2>2, ConcatRun DEF TypeInv
  <2>4. EndsAt(buff', k) /\ k - Len(buff') = k
    BY <2>1, <2>2, EmptyRun
  <2> QED BY <1>6, <2>2, <2>3, <2>4 DEF PumpInsert, RunsInv, k
<1>7. ASSUME UNCHANGED <<stdio, pipe, buff, g_output_text, printed>>
      PROVE  RunsInv'
  BY <1>7 DEF RunsInv, EndsAt
<1>8. CASE ClickContinue \/ ClickRecompile \/ TypeText \/ Callback
  BY <1>7, <1>8 DEF ClickContinue, ClickRecompile, Click, TypeText, Callback
<1>9. CASE Spill \/ Spilt \/ Cleared
  BY <1>7, <1>9 DEF Spill, Spilt, Cleared
<1>10. CASE ExecuteSwiftReturns \/ CallbackReturns \/ HandlerReturns \/ SetText
  BY <1>7, <1>10 DEF ExecuteSwiftReturns, CallbackReturns, HandlerReturns, SetText
<1>11. CASE AnswerPump
  BY <1>7, <1>11 DEF AnswerPump
<1>12. CASE PumpUnlock
  BY <1>7, <1>12 DEF PumpUnlock
<1>13. CASE UNCHANGED vars
  BY <1>7, <1>13 DEF vars
<1>14. ~PumpReadFails
  BY DEF PumpReadFails
<1> QED
  BY <1>2, <1>3, <1>4, <1>5, <1>6, <1>8, <1>9, <1>10, <1>11, <1>12, <1>13, <1>14
  DEF Next, UIStep, MovesOn, PumpStep

\* Without one everything behind the C runtime stays empty.
LEMMA EmptyStep ==
    ASSUME TypeInv, OrderInv, ~pipeCreated, [Next]_vars
    PROVE  EmptyInv'
<1> USE DEF OrderInv, EmptyInv, uiVars, pumpVars, textVars
<1>1. CASE ClickContinue \/ ClickRecompile \/ TypeText \/ Callback \/ PrintUnit \/ Spill
  BY <1>1 DEF ClickContinue, ClickRecompile, Click, TypeText, Callback, PrintUnit, Spill
<1>2. CASE Write \/ Spilt \/ ClearOutputTextBox \/ Cleared \/ ExecuteSwiftReturns
  BY <1>2 DEF Write, Spilt, ClearOutputTextBox, Cleared, ExecuteSwiftReturns
<1>3. CASE CallbackReturns \/ HandlerReturns \/ SetText \/ AnswerPump
  BY <1>3 DEF CallbackReturns, HandlerReturns, SetText, AnswerPump
<1>4. CASE PumpRead \/ PumpReadFails \/ PumpUnlock
  BY <1>4 DEF PumpRead, PumpReadFails, PumpUnlock
<1>5. CASE PumpInsert
  <2>1. g_output_text' = <<>> \o <<>> /\ buff' = <<>> /\ pipe' = <<>> /\ box' = <<>>
    BY <1>5 DEF PumpInsert
  <2>2. <<>> \o <<>> = <<>>
    OBVIOUS
  <2> QED BY <2>1, <2>2
<1>6. CASE UNCHANGED vars
  BY <1>6 DEF vars
<1> QED
  BY <1>1, <1>2, <1>3, <1>4, <1>5, <1>6 DEF Next, UIStep, MovesOn, PumpStep

\* Whether there is a pipe does not change, and the pump has something in hand
\* only on its way to the text.
LEMMA OrderStep ==
    ASSUME TypeInv, LockInv, OrderInv, [Next]_vars
    PROVE  OrderInv'
<1>1. pipeCreated' = pipeCreated /\ (pump' # "lock" => buff' = <<>>)
  <2> USE DEF OrderInv, uiVars, pumpVars, textVars
  <2>1. CASE ClickContinue \/ ClickRecompile \/ TypeText \/ Callback \/ PrintUnit \/ Spill
    BY <2>1 DEF ClickContinue, ClickRecompile, Click, TypeText, Callback, PrintUnit, Spill
  <2>2. CASE Write \/ Spilt \/ ClearOutputTextBox \/ Cleared \/ ExecuteSwiftReturns
    BY <2>2 DEF Write, Spilt, ClearOutputTextBox, Cleared, ExecuteSwiftReturns
  <2>3. CASE CallbackReturns \/ HandlerReturns \/ SetText \/ AnswerPump
    BY <2>3 DEF CallbackReturns, HandlerReturns, SetText, AnswerPump, LockInv
  <2>4. CASE PumpStep
    BY <2>4 DEF PumpStep, PumpRead, PumpReadFails, PumpInsert, PumpUnlock
  <2>5. CASE UNCHANGED vars
    BY <2>5 DEF vars
  <2> QED BY <2>1, <2>2, <2>3, <2>4, <2>5 DEF Next, UIStep, MovesOn
<1>2. pipeCreated => RunsInv'
  BY RunsStep
<1>3. ~pipeCreated => EmptyInv'
  BY EmptyStep
<1> QED BY <1>1, <1>2, <1>3 DEF OrderInv

LEMMA BeginsItself ==
    ASSUME NEW s \in Seq(U)
    PROVE  Begins(s, s)
BY LenProperties DEF Begins

LEMMA PrefixStep ==
    ASSUME TypeInv, BoxInv, PrefixInv, [Next]_vars
    PROVE  PrefixInv'
<1> USE DEF uiVars, pumpVars, textVars
<1>1. CASE ClearOutputTextBox
  BY <1>1 DEF ClearOutputTextBox, PrefixInv, Begins
<1>2. CASE SetText
  BY <1>2, BeginsItself DEF SetText, PrefixInv, TypeInv
<1>3. CASE PumpInsert
  <2>1. box = g_output_text
    BY <1>3 DEF PumpInsert, BoxInv
  <2>2. g_output_text' = g_output_text \o buff /\ box' = g_output_text
    BY <1>3, <2>1 DEF PumpInsert
  <2> QED BY <2>2, ConcatProperties, LenProperties DEF PrefixInv, Begins, TypeInv
<1>4. ASSUME UNCHANGED textVars
      PROVE  PrefixInv'
  BY <1>4 DEF PrefixInv, Begins
<1>5. CASE ClickContinue \/ ClickRecompile \/ TypeText \/ Callback
  BY <1>4, <1>5 DEF ClickContinue, ClickRecompile, Click, TypeText, Callback
<1>6. CASE PrintUnit \/ Spill \/ Write \/ Spilt \/ Cleared
  BY <1>4, <1>6 DEF PrintUnit, Spill, Write, Spilt, Cleared
<1>7. CASE ExecuteSwiftReturns \/ CallbackReturns \/ HandlerReturns \/ AnswerPump
  BY <1>4, <1>7 DEF ExecuteSwiftReturns, CallbackReturns, HandlerReturns, AnswerPump
<1>8. CASE PumpRead \/ PumpReadFails \/ PumpUnlock \/ UNCHANGED vars
  BY <1>4, <1>8 DEF PumpRead, PumpReadFails, PumpUnlock, vars
<1> QED
  BY <1>1, <1>2, <1>3, <1>5, <1>6, <1>7, <1>8 DEF Next, UIStep, MovesOn, PumpStep

-----------------------------------------------------------------------------
(* Theorems *)

Inv == TypeInv /\ SizeInv /\ LockInv /\ BoxInv /\ PrefixInv /\ HeldInv /\ OrderInv

LEMMA InvInit == Init => Inv
<1> SUFFICES ASSUME Init PROVE Inv
  OBVIOUS
<1>1. TypeInv /\ SizeInv
  BY SizesAssumption, EmptySeq DEF Init, TypeInv, SizeInv, UIStates
<1>2. LockInv /\ BoxInv /\ HeldInv /\ PrefixInv
  BY DEF Init, LockInv, BoxInv, HeldInv, NothingHeldBack, PrefixInv, Begins
<1>3. OrderInv
  BY EmptyRun DEF Init, OrderInv, RunsInv, EmptyInv
<1> QED BY <1>1, <1>2, <1>3 DEF Inv

LEMMA InvStep == Inv /\ [Next]_vars => Inv'
BY TypeStep, SizeStep, LockStep, BoxStep, PrefixStep, HeldStep, OrderStep DEF Inv

LEMMA Invariant == Spec => []Inv
BY InvInit, InvStep, PTL DEF Spec

\* The lock is held by the thread that is between taking and releasing it, and
\* no buffer overflows, for buffers of any size.
THEOREM TypeCorrect == Spec => []TypeOK
<1>1. Inv => TypeOK
  <2> SUFFICES ASSUME Inv PROVE TypeOK
    OBVIOUS
  <2>1. ASSUME NEW s \in Seq(U)
        PROVE  Units(s)
    BY <2>1, LenProperties, ElementOfSeq DEF Units, U
  <2> QED BY <2>1 DEF Inv, TypeInv, SizeInv, LockInv, TypeOK
<1> QED BY <1>1, Invariant, PTL

\* Nothing printed is lost, doubled or reordered on its way to the text that
\* is collected for the box, whatever the sizes of buffers and pipe.
THEOREM InOrder == Spec => []OutputInOrder
<1>1. Inv /\ ~pipeCreated => OutputInOrder
  <2>1. <<>> \o <<>> \o <<>> = <<>>
    OBVIOUS
  <2> QED BY <2>1 DEF Inv, OrderInv, EmptyInv, OutputInOrder
<1>2. Inv /\ pipeCreated => OutputInOrder
  <2> SUFFICES ASSUME Inv, pipeCreated PROVE OutputInOrder
    OBVIOUS
  <2> DEFINE front == g_output_text \o buff
             middle == front \o pipe
             all == middle \o stdio
             k == printed - Len(stdio)
             j == k - Len(pipe)
  <2>1. /\ g_output_text \in Seq(U) /\ buff \in Seq(U) /\ pipe \in Seq(U) /\ stdio \in Seq(U)
        /\ front \in Seq(U) /\ middle \in Seq(U)
        /\ Len(stdio) \in Nat /\ Len(pipe) \in Nat /\ printed \in Int
        /\ k \in Int /\ j \in Int
    BY ConcatProperties, LenProperties DEF Inv, TypeInv
  <2>2. /\ EndsAt(stdio, printed) /\ EndsAt(pipe, k) /\ EndsAt(buff, j)
        /\ EndsAt(g_output_text, j - Len(buff))
    BY DEF Inv, OrderInv, RunsInv
  <2>3. OutputInOrder <=> EndsAt(all, printed)
    BY DEF OutputInOrder, EndsAt
  <2> HIDE DEF all
  <2>4. EndsAt(front, j)
    <3> HIDE DEF j
    <3> QED BY <2>1, <2>2, ConcatRun
  <2>5. EndsAt(middle, k)
    <3> HIDE DEF k, front
    <3> QED BY <2>1, <2>2, <2>4, ConcatRun DEF j
  <2>6. EndsAt(all, printed)
    <3> HIDE DEF middle
    <3> QED BY <2>1, <2>2, <2>5, ConcatRun DEF k, all
  <2> QED BY <2>3, <2>6
<1>3. Inv => OutputInOrder
  BY <1>1, <1>2
<1> QED BY <1>3, Invariant, PTL

\* Whenever the lock is free the box shows all that was collected.
THEOREM BoxIsCurrent == Spec => []BoxShowsText
<1>1. Inv => BoxShowsText
  BY DEF Inv, LockInv, BoxInv, BoxShowsText
<1> QED BY <1>1, Invariant, PTL

\* Without a live view nothing printed stays in the C runtime's buffer when
\* the window thread waits for messages.
THEOREM EverythingFlushed == Spec => []NothingHeldBack
<1>1. Inv => NothingHeldBack
  BY DEF Inv, HeldInv
<1> QED BY <1>1, Invariant, PTL

\* Whenever both threads wait, it is in one of the three known cycles, or all
\* that left the C runtime is on view: whatever the sizes of buffers and pipe,
\* the threads have no fourth way to wait for each other for ever.
THEOREM NoOtherCycle == Spec => []OnlyKnownCycles
<1>1. Inv => OnlyKnownCycles
  <2> SUFFICES ASSUME Inv, UIWaits, PumpWaits
               PROVE  \/ LockCycle \/ PipeCycle \/ FlushCycle
                      \/ /\ ui = "idle" /\ pump = "read" /\ pipeCreated
                         /\ pipe = <<>> /\ buff = <<>> /\ box = g_output_text
    BY DEF OnlyKnownCycles, Deadlocked
  <2> USE DEF Inv, LockInv, UIWaits
  <2>1. CASE pump = "read" /\ pipeCreated /\ pipe = <<>>
    <3>1. Len(pipe) = 0 /\ PipeSize # 0
      BY <2>1, SizesAssumption
    <3>2. buff = <<>> /\ box = g_output_text
      BY <2>1 DEF OrderInv, BoxInv
    <3> QED BY <2>1, <3>1, <3>2
  <2>2. CASE pump = "lock" /\ g_output_text_lock # "none"
    <3>1. ui = "clear"
      BY <2>2
    <3> QED BY <2>2, <3>1 DEF FlushCycle
  <2>3. CASE pump = "settext"
    BY <2>3 DEF LockCycle, PipeCycle
  <2> QED BY <2>1, <2>2, <2>3 DEF PumpWaits
<1> QED BY <1>1, Invariant, PTL

\* A deadlock is final: no step of either thread, and nothing the user does,
\* takes it away, and the box does not change any more.
THEOREM CyclesAreFinal == Spec => DeadlocksLast
<1>1. ASSUME Inv, Deadlocked, [Next]_vars
      PROVE  Deadlocked' /\ UNCHANGED <<box, clicks, pump>>
  <2> USE DEF uiVars, pumpVars, textVars
  <2>1. CASE LockCycle
    <3>1. ui \in {"reset", "spill_reset"} /\ pump = "settext" /\ g_output_text_lock = "pump"
      BY <1>1, <2>1 DEF LockCycle, Inv, LockInv
    <3>2. CASE PrintUnit \/ Spill \/ Write \/ Spilt
      BY <3>1, <3>2 DEF PrintUnit, Spill, Write, Spilt, Printing, Spilling, LockCycle, Deadlocked
    <3>3. CASE UNCHANGED vars
      BY <3>1, <3>3 DEF vars, LockCycle, Deadlocked
    <3>4. CASE ~(PrintUnit \/ Spill \/ Write \/ Spilt) /\ Next
      BY <3>1, <3>4 DEF Next, UIStep, MovesOn, PumpStep, ClickContinue, ClickRecompile, Click,
            TypeText, Callback, ClearOutputTextBox, Cleared, ExecuteSwiftReturns, CallbackReturns,
            HandlerReturns, SetText, AnswerPump, PumpRead, PumpReadFails, PumpInsert, PumpUnlock
    <3> QED BY <1>1, <3>2, <3>3, <3>4
  <2>2. CASE PipeCycle \/ FlushCycle
    <3>1. /\ stdio # <<>> /\ Len(pipe) = PipeSize /\ PipeSize \in Nat
          /\ ui \notin Printing \cup {"idle"}
          /\ pump = "settext" \/ (pump = "lock" /\ g_output_text_lock # "none")
      BY <1>1, <2>2, SizesAssumption DEF PipeCycle, FlushCycle, Inv, LockInv, Printing
    <3>2. ~Next
      BY <3>1 DEF Next, UIStep, MovesOn, PumpStep, PrintUnit, Spill, Write, Spilt,
            ClickContinue, ClickRecompile, Click, TypeText, Callback, ClearOutputTextBox, Cleared,
            ExecuteSwiftReturns, CallbackReturns, HandlerReturns, SetText, AnswerPump,
            PumpRead, PumpReadFails, PumpInsert, PumpUnlock, Printing
    <3>3. UNCHANGED vars
      BY <1>1, <3>2
    <3> QED BY <1>1, <3>3 DEF vars, Deadlocked, LockCycle, PipeCycle, FlushCycle
  <2> QED BY <1>1, <2>1, <2>2 DEF Deadlocked
<1>2. Inv /\ [Next]_vars => [Deadlocked => Deadlocked' /\ UNCHANGED <<box, clicks, pump>>]_vars
  BY <1>1
<1> QED BY <1>2, Invariant, PTL DEF Spec, DeadlocksLast

-----------------------------------------------------------------------------
(* Termination *)

\* What is left to do is a number.
LEMMA ToDoNumber ==
    ASSUME TypeInv
    PROVE  /\ Len(pipe) \in Nat /\ Len(stdio) \in Nat
           /\ UISteps[ui] \in Nat /\ PumpSteps[pump] \in Nat
           /\ ToDo \in Nat
<1>1. Len(pipe) \in Nat /\ Len(stdio) \in Nat
  BY LenProperties DEF TypeInv
<1>2. UISteps[ui] \in Nat
  BY DEF TypeInv, UIStates, Printing, Spilling, UISteps
<1>3. PumpSteps[pump] \in Nat
  BY DEF TypeInv, PumpSteps
<1> QED BY <1>1, <1>2, <1>3 DEF ToDo

\* The steps that change only where a thread stands bring it nearer to rest.
LEMMA StandsNearer ==
    ASSUME TypeInv, LockInv,
           Spilt \/ ClearOutputTextBox \/ Cleared \/ ExecuteSwiftReturns \/ CallbackReturns
               \/ HandlerReturns \/ SetText \/ AnswerPump \/ PumpInsert \/ PumpUnlock
    PROVE  /\ stdio' = stdio /\ pipe' = pipe
           /\ UISteps[ui'] + PumpSteps[pump'] < UISteps[ui] + PumpSteps[pump]
<1> USE DEF uiVars, pumpVars, textVars, UISteps, PumpSteps
<1>1. CASE Spilt
  BY <1>1 DEF Spilt, Printing, Spilling, TypeInv
<1>2. CASE ClearOutputTextBox \/ Cleared
  BY <1>2 DEF ClearOutputTextBox, Cleared, TypeInv
<1>3. CASE ExecuteSwiftReturns \/ CallbackReturns \/ HandlerReturns
  BY <1>3 DEF ExecuteSwiftReturns, CallbackReturns, HandlerReturns, TypeInv
<1>4. CASE SetText
  BY <1>4 DEF SetText, TypeInv
<1>5. CASE AnswerPump
  BY <1>5 DEF AnswerPump, LockInv
<1>6. CASE PumpInsert \/ PumpUnlock
  BY <1>6 DEF PumpInsert, PumpUnlock, TypeInv, UIStates, Printing, Spilling
<1> QED BY <1>1, <1>2, <1>3, <1>4, <1>5, <1>6

\* Each step of the window thread or the pump leaves less to do: with a pipe
\* there is no way in which they keep each other busy for ever, and without one
\* the ReadFile that fails is the only step that gives the pump work for nothing.
THEOREM NothingForNothing == Spec => EveryStepHelps
<1>1. TypeInv => /\ Len(pipe) \in Nat /\ Len(stdio) \in Nat
                 /\ UISteps[ui] \in Nat /\ PumpSteps[pump] \in Nat /\ ToDo \in Nat
  BY ToDoNumber
<1>2. TypeInv' => (/\ Len(pipe) \in Nat /\ Len(stdio) \in Nat
                   /\ UISteps[ui] \in Nat /\ PumpSteps[pump] \in Nat /\ ToDo \in Nat)'
  BY <1>1, PTL
<1>3. ASSUME Inv, Inv', MovesOn \/ PumpStep
      PROVE  ToDo' >= 0 /\ (ToDo' < ToDo \/ (~pipeCreated /\ pump = "read"))
  <2>1. TypeInv /\ TypeInv' /\ LockInv
    BY <1>3 DEF Inv
  <2> DEFINE a == UISteps[ui]
             b == PumpSteps[pump]
             p == Len(pipe)
             s == Len(stdio)
             a1 == UISteps[ui']
             b1 == PumpSteps[pump']
             p1 == Len(pipe')
             s1 == Len(stdio')
  <2>2. a \in Nat /\ b \in Nat /\ p \in Nat /\ s \in Nat /\ ToDo = a + b + 5 * p + 6 * s
    BY <1>1, <2>1 DEF ToDo
  <2>3. a1 \in Nat /\ b1 \in Nat /\ p1 \in Nat /\ s1 \in Nat /\ ToDo' = a1 + b1 + 5 * p1 + 6 * s1
    BY <1>2, <2>1 DEF ToDo, UISteps, PumpSteps
  <2>4. CASE Write
    <3>1. Head(stdio) \in U /\ Len(Tail(stdio)) = Len(stdio) - 1
      BY <2>1, <2>4, HeadTailProperties DEF Write, TypeInv
    <3>2. Len(Append(pipe, Head(stdio))) = Len(pipe) + 1
      BY <2>1, <3>1, AppendProperties DEF TypeInv
    <3>3. p1 \in {p, p + 1} /\ s1 = s - 1 /\ a1 = a /\ b1 = b
      BY <2>4, <3>1, <3>2 DEF Write, pumpVars
    <3> HIDE DEF a, b, p, s, a1, b1, p1, s1
    <3> QED BY <2>2, <2>3, <3>3
  <2>5. CASE PumpRead
    <3>1. PICK n \in 0 .. Len(pipe) :
             n >= 1 /\ buff' = SubSeq(pipe, 1, n) /\ pipe' = SubSeq(pipe, n + 1, Len(pipe))
      BY <2>1, <2>5, ReadsSome DEF TypeInv
    <3>2. Len(SubSeq(pipe, n + 1, Len(pipe))) = Len(pipe) - n
      BY <2>1, Cut DEF TypeInv
    <3>3. p1 = p - n /\ n \in Nat
      BY <2>2, <3>1, <3>2
    <3>4. a1 = a /\ s1 = s /\ b = 0 /\ b1 = 4
      BY <2>5 DEF PumpRead, uiVars, PumpSteps
    <3> HIDE DEF a, b, p, s, a1, b1, p1, s1
    <3> QED BY <2>2, <2>3, <3>1, <3>3, <3>4
  <2>6. CASE Spilt \/ ClearOutputTextBox \/ Cleared \/ ExecuteSwiftReturns \/ CallbackReturns
               \/ HandlerReturns \/ SetText \/ AnswerPump \/ PumpInsert \/ PumpUnlock
    <3>1. s1 = s /\ p1 = p /\ a1 + b1 < a + b
      BY <2>1, <2>6, StandsNearer
    <3> HIDE DEF a, b, p, s, a1, b1, p1, s1
    <3> QED BY <2>2, <2>3, <3>1
  <2>7. CASE PumpReadFails
    <3>1. ToDo' \in Nat
      BY <1>2, <2>1
    <3> QED BY <2>7, <3>1 DEF PumpReadFails
  <2> QED BY <1>3, <2>4, <2>5, <2>6, <2>7 DEF MovesOn, PumpStep
<1>4. Inv /\ Inv' /\ [Next]_vars =>
        [MovesOn \/ PumpStep =>
            /\ ToDo' >= 0
            /\ ToDo' < ToDo \/ (~pipeCreated /\ pump = "read")]_vars
  BY <1>3
<1> QED BY <1>4, Invariant, PTL DEF Spec, EveryStepHelps

-----------------------------------------------------------------------------
(* The window as a terminal *)

\* The unit the box has got to, cleared since or not; the last one collected.
reached == printed - (Len(stdio) + Len(pipe) + Len(buff) + (Len(g_output_text) - Len(box)))
shown == IF pipeCreated THEN reached ELSE 0
collected == printed - Len(stdio) - Len(pipe) - Len(buff)

LEMMA Lengths ==
    ASSUME TypeInv, PrefixInv, pipeCreated
    PROVE  /\ Len(stdio) \in Nat /\ Len(pipe) \in Nat /\ Len(buff) \in Nat
           /\ Len(g_output_text) \in Nat /\ Len(box) \in Nat /\ Len(box) <= Len(g_output_text)
           /\ printed \in Nat /\ shown \in Int /\ collected \in Int
           /\ collected = shown + (Len(g_output_text) - Len(box))
<1>1. /\ Len(stdio) \in Nat /\ Len(pipe) \in Nat /\ Len(buff) \in Nat
      /\ Len(g_output_text) \in Nat /\ Len(box) \in Nat
  BY LenProperties DEF TypeInv
<1>2. printed \in Nat /\ Len(box) <= Len(g_output_text)
  BY SizesAssumption DEF TypeInv, PrefixInv, Begins
<1> QED BY <1>1, <1>2 DEF shown, reached, collected

\* What a text has beyond its beginning s is the rest of its run.
LEMMA RestOfRun ==
    ASSUME NEW s \in Seq(U), NEW t \in Seq(U), NEW k \in Int, NEW m \in Int,
           Begins(s, t), EndsAt(t, k), k = m + (Len(t) - Len(s))
    PROVE  t = s \o [i \in 1 .. k - m |-> m + i]
<1> DEFINE d == k - m
           rest == [i \in 1 .. d |-> m + i]
           c == s \o rest
<1>1. /\ Len(s) \in Nat /\ Len(t) \in Nat /\ d \in Nat /\ d = Len(t) - Len(s)
      /\ DOMAIN t = 1 .. Len(t)
  BY LenProperties DEF Begins
<1>2. \A i \in 1 .. Len(t) : t[i] = k - Len(t) + i /\ t[i] \in U
  BY <1>1, ElementOfSeq DEF EndsAt
<1> HIDE DEF d
<1>3. ASSUME NEW i \in 1 .. d
      PROVE  m + i = t[Len(s) + i] /\ m + i \in U
  <2>1. Len(s) + i \in 1 .. Len(t)
    BY <1>1, <1>3
  <2>2. t[Len(s) + i] = k - Len(t) + (Len(s) + i)
    BY <1>2, <2>1
  <2>3. t[Len(s) + i] = m + i
    BY <1>1, <2>2 DEF d
  <2> QED BY <1>2, <2>1, <2>3
<1>4. rest \in Seq(U) /\ Len(rest) = d
  <2>1. rest \in [1 .. d -> U]
    BY <1>3
  <2> HIDE DEF rest
  <2>2. d \in Nat
    BY <1>1
  <2>3. rest \in Seq(U)
    BY <2>1, <2>2
  <2>4. DOMAIN rest = 1 .. d
    BY <2>1
  <2> QED BY <2>2, <2>3, <2>4, LenProperties
<1>5. \A i \in 1 .. d : rest[i] = m + i
  OBVIOUS
<1> HIDE DEF rest
<1>6. c \in Seq(U) /\ Len(c) = Len(t)
  <2>1. c \in Seq(U) /\ Len(c) = Len(s) + Len(rest)
    BY <1>4, ConcatProperties
  <2> QED BY <1>1, <1>4, <2>1
<1>7. ASSUME NEW i \in 1 .. Len(t)
      PROVE  c[i] = t[i]
  <2>1. CASE i <= Len(s)
    BY <1>1, <1>4, <2>1, ConcatProperties DEF Begins
  <2>2. CASE i > Len(s)
    <3> DEFINE j == i - Len(s)
    <3>1. j \in 1 .. d /\ i = Len(s) + j
      BY <1>1, <2>2
    <3>2. c[i] = rest[j]
      BY <1>1, <1>4, <1>6, <2>2, ConcatProperties
    <3> QED BY <1>3, <1>5, <3>1, <3>2
  <2>3. i \in Nat
    BY <1>1, <1>7
  <2> HIDE DEF c
  <2> QED BY <1>1, <2>1, <2>2, <2>3
<1> HIDE DEF c
<1>8. c = t
  BY <1>6, <1>7, SeqEqual
<1> QED BY <1>8 DEF c, rest, d

LEMMA TerminalInit == Init => T!Init
<1> SUFFICES ASSUME Init PROVE T!Init
  OBVIOUS
<1>1. /\ Len(stdio) = 0 /\ Len(pipe) = 0 /\ Len(buff) = 0 /\ Len(g_output_text) = 0
      /\ Len(box) = 0 /\ printed = 0 /\ box = <<>>
  BY EmptySeq DEF Init
<1> QED BY <1>1 DEF T!Init

\* With a pipe.
LEMMA TerminalStepPipe ==
    ASSUME Inv, Inv', [Next]_vars, pipeCreated, pipeCreated'
    PROVE  [T!Next]_<<printed, shown, box>>
<1> USE DEF uiVars, pumpVars, textVars
<1>1. TypeInv /\ LockInv /\ BoxInv /\ PrefixInv /\ OrderInv /\ TypeInv' /\ PrefixInv'
  BY DEF Inv
<1>2. /\ Len(stdio) \in Nat /\ Len(pipe) \in Nat /\ Len(buff) \in Nat
      /\ Len(g_output_text) \in Nat /\ Len(box) \in Nat /\ Len(box) <= Len(g_output_text)
      /\ printed \in Nat /\ shown \in Int /\ collected \in Int
      /\ collected = shown + (Len(g_output_text) - Len(box))
  BY <1>1, Lengths
<1>3. ASSUME UNCHANGED <<printed, stdio, pipe, buff, g_output_text, box>>
      PROVE  UNCHANGED <<printed, shown, box>>
  BY <1>3 DEF shown, reached
<1>4. CASE PrintUnit
  <2>1. printed' = printed + 1 /\ printed + 1 \in U
    BY <1>1, <1>4, SizesAssumption DEF PrintUnit, TypeInv, U
  <2>2. Len(stdio') = Len(stdio) + 1
    BY <1>1, <1>4, <2>1, AppendProperties DEF PrintUnit, TypeInv
  <2>3. shown' = shown /\ box' = box
    BY <1>2, <1>4, <2>1, <2>2 DEF PrintUnit, shown, reached
  <2> QED BY <2>1, <2>3 DEF T!Next, T!PrintUnit, shown, reached
<1>5. CASE Write
  <2>1. Head(stdio) \in U /\ Len(Tail(stdio)) = Len(stdio) - 1
    BY <1>1, <1>5, HeadTailProperties DEF Write, TypeInv
  <2>2. Len(Append(pipe, Head(stdio))) = Len(pipe) + 1
    BY <1>1, <2>1, AppendProperties DEF TypeInv
  <2> QED BY <1>2, <1>5, <2>1, <2>2 DEF Write, shown, reached
<1>6. CASE ClearOutputTextBox
  <2>1. box = g_output_text
    BY <1>1, <1>6 DEF ClearOutputTextBox, LockInv, BoxInv
  <2>2. Len(box') = 0 /\ Len(g_output_text') = 0 /\ box' = <<>> /\ printed' = printed
    BY <1>6 DEF ClearOutputTextBox
  <2>3. shown' = shown
    BY <1>2, <1>6, <2>1, <2>2 DEF ClearOutputTextBox, shown, reached
  <2> QED BY <2>2, <2>3 DEF T!Next, T!Clear, shown, reached
<1>7. CASE SetText
  <2>1. /\ box' = g_output_text /\ printed' = printed
        /\ UNCHANGED <<stdio, pipe, buff, g_output_text>>
    BY <1>7 DEF SetText
  <2>2. shown' = collected
    BY <1>2, <2>1 DEF shown, reached, collected
  <2>3. EndsAt(g_output_text, collected)
    BY <1>1 DEF OrderInv, RunsInv, collected
  <2>4. g_output_text = box \o [i \in 1 .. collected - shown |-> shown + i]
    <3>1. box \in Seq(U) /\ g_output_text \in Seq(U) /\ Begins(box, g_output_text)
      BY <1>1 DEF TypeInv, PrefixInv
    <3> QED BY <1>2, <2>3, <3>1, RestOfRun
  <2>5. CASE collected = shown
    <3>1. Len(box) = Len(g_output_text)
      BY <1>2, <2>5
    <3>2. box = g_output_text
      BY <1>1, <3>1, SeqEqual DEF TypeInv, PrefixInv, Begins
    <3> QED BY <2>1, <2>2, <2>5, <3>2
  <2>6. CASE collected # shown
    <3>1. collected \in shown + 1 .. printed
      BY <1>2, <2>6 DEF collected
    <3>2. /\ box' = box \o [i \in 1 .. collected - shown |-> shown + i]
          /\ shown' = collected /\ printed' = printed
      BY <2>1, <2>2, <2>4
    <3>3. T!Show
      BY <3>1, <3>2 DEF T!Show, shown, reached
    <3> QED BY <3>3 DEF T!Next
  <2> QED BY <2>5, <2>6
<1>8. CASE PumpRead
  <2>1. PICK n \in 0 .. Len(pipe) :
           buff' = SubSeq(pipe, 1, n) /\ pipe' = SubSeq(pipe, n + 1, Len(pipe))
    BY <1>1, <1>8, ReadsSome DEF TypeInv
  <2>2. Len(buff') = n /\ Len(pipe') = Len(pipe) - n
    BY <1>1, <2>1, Cut DEF TypeInv
  <2>3. Len(buff) = 0
    BY <1>1, <1>8 DEF PumpRead, OrderInv
  <2>4. UNCHANGED <<printed, stdio, g_output_text, box>>
    BY <1>8 DEF PumpRead
  <2> QED BY <1>2, <2>2, <2>3, <2>4 DEF shown, reached
<1>9. CASE PumpInsert
  <2>1. Len(g_output_text') = Len(g_output_text) + Len(buff) /\ Len(buff') = 0
    BY <1>1, <1>9, ConcatProperties DEF PumpInsert, TypeInv
  <2> QED BY <1>2, <1>9, <2>1 DEF PumpInsert, shown, reached
<1>10. CASE ClickContinue \/ ClickRecompile \/ TypeText \/ Callback
  BY <1>3, <1>10 DEF ClickContinue, ClickRecompile, Click, TypeText, Callback
<1>11. CASE Spill \/ Spilt \/ Cleared
  BY <1>3, <1>11 DEF Spill, Spilt, Cleared
<1>12. CASE ExecuteSwiftReturns \/ CallbackReturns \/ HandlerReturns \/ AnswerPump
  BY <1>3, <1>12 DEF ExecuteSwiftReturns, CallbackReturns, HandlerReturns, AnswerPump
<1>13. CASE PumpUnlock \/ UNCHANGED vars
  BY <1>3, <1>13 DEF PumpUnlock, vars
<1>14. ~PumpReadFails
  BY DEF PumpReadFails
<1> QED
  BY <1>4, <1>5, <1>6, <1>7, <1>8, <1>9, <1>10, <1>11, <1>12, <1>13, <1>14
  DEF Next, UIStep, MovesOn, PumpStep

\* Without one, what is printed is all that happens to the terminal.
LEMMA TerminalStepNoPipe ==
    ASSUME Inv, Inv', [Next]_vars, ~pipeCreated, ~pipeCreated'
    PROVE  [T!Next]_<<printed, shown, box>>
<1>1. box = <<>> /\ box' = <<>> /\ shown = 0 /\ shown' = 0
  BY DEF Inv, OrderInv, EmptyInv, shown
<1>2. printed' = printed \/ printed' = printed + 1
  BY DEF Next, UIStep, MovesOn, PumpStep, uiVars, pumpVars, vars, PrintUnit, Spill, Write,
         Spilt, ClickContinue, ClickRecompile, Click, TypeText, Callback, ClearOutputTextBox,
         Cleared, ExecuteSwiftReturns, CallbackReturns, HandlerReturns, SetText, AnswerPump,
         PumpRead, PumpReadFails, PumpInsert, PumpUnlock
<1>3. printed' = printed + 1 => T!PrintUnit
  <2> SUFFICES ASSUME printed' = printed + 1 PROVE T!PrintUnit
    OBVIOUS
  <2>1. printed' = printed + 1 /\ UNCHANGED <<shown, box>>
    BY <1>1
  <2> QED BY <2>1 DEF T!PrintUnit, shown, reached
<1> QED BY <1>1, <1>2, <1>3 DEF T!Next

LEMMA TerminalStep ==
    ASSUME Inv, Inv', [Next]_vars
    PROVE  [T!Next]_<<printed, shown, box>>
<1>1. pipeCreated' = pipeCreated
  BY DEF Next, UIStep, MovesOn, PumpStep, uiVars, pumpVars, vars, PrintUnit, Spill, Write,
         Spilt, ClickContinue, ClickRecompile, Click, TypeText, Callback, ClearOutputTextBox,
         Cleared, ExecuteSwiftReturns, CallbackReturns, HandlerReturns, SetText, AnswerPump,
         PumpRead, PumpReadFails, PumpInsert, PumpUnlock
<1> QED BY <1>1, TerminalStepPipe, TerminalStepNoPipe

\* The buffers, the pipe, the lock and the pump implement a terminal: what is
\* printed appears in the box once, in order and without gaps, clearing the
\* box loses nothing that is still on its way, and nothing cleared comes back.
THEOREM ShowsLikeATerminal == Spec => RefinesTerminal
<1>1. Init => T!Init
  BY TerminalInit
<1>2. Inv /\ Inv' /\ [Next]_vars => [T!Next]_<<printed, shown, box>>
  BY TerminalStep
<1> QED BY <1>1, <1>2, Invariant, PTL DEF Spec, RefinesTerminal, T!Spec, shown, reached

\* The threads come to rest only with a pipe; if it is not a deadlock, all output that left
\* the C runtime has been shown; without a live view that is all output.
THEOREM AtRestAllIsShown ==
    Spec => [](UIWaits /\ PumpWaits /\ ~Deadlocked =>
                  /\ pipeCreated /\ shown = printed - Len(stdio)
                  /\ ~Callbacks => shown = printed)
<1>1. Inv /\ OnlyKnownCycles =>
        (UIWaits /\ PumpWaits /\ ~Deadlocked =>
            /\ pipeCreated /\ shown = printed - Len(stdio)
            /\ ~Callbacks => shown = printed)
  <2> SUFFICES ASSUME Inv, OnlyKnownCycles, UIWaits, PumpWaits, ~Deadlocked
               PROVE  /\ pipeCreated /\ shown = printed - Len(stdio)
                      /\ ~Callbacks => shown = printed
    OBVIOUS
  <2>1. ui = "idle" /\ pump = "read" /\ pipeCreated /\ pipe = <<>>
       /\ buff = <<>> /\ box = g_output_text
    BY DEF OnlyKnownCycles
  <2>2. /\ Len(stdio) \in Nat /\ Len(g_output_text) \in Nat /\ printed \in Nat
        /\ Len(pipe) = 0 /\ Len(buff) = 0
    BY <2>1, Lengths, EmptySeq DEF Inv
  <2>3. shown = printed - Len(stdio)
    BY <2>1, <2>2 DEF shown, reached
  <2>4. ~Callbacks => stdio = <<>>
    BY <2>1 DEF Inv, HeldInv, NothingHeldBack
  <2> QED BY <2>1, <2>2, <2>3, <2>4, EmptySeq
<1> QED BY <1>1, Invariant, NoOtherCycle, PTL

=============================================================================
