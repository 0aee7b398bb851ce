----------------------------- MODULE Playground -----------------------------
(***************************************************************************)
(* The playground window's idea of what has been executed.                 *)
(*                                                                         *)
(* The user edits one text box and clicks one of two buttons: "Recompile   *)
(* Everything" starts a new REPL and gives it the whole text, "Continue    *)
(* Execution" gives the REPL there is the lines that follow m_min_line, or *)
(* recompiles if m_min_line is 0.  After every change of the text,         *)
(* HandleTextChange decides whether what was executed still stands.        *)
(*                                                                         *)
(* A click runs user code to its end within the handler; user code is      *)
(* taken not to run a message loop of its own, so no handler interrupts    *)
(* another one.                                                            *)
(***************************************************************************)
EXTENDS Naturals, Sequences, FiniteSets

CONSTANTS
    Char,     \* characters other than white space
    Nl,       \* the line feed, the only white space of the model
    MaxLen    \* bound: characters in the text box

ASSUME TextAssumption == Nl \notin Char /\ MaxLen \in Nat

VARIABLES
    m_curr_text,  \* the trimmed contents of the text box
    m_num_lines,  \* its number of lines
    m_prev_text,  \* the text as it was at the last click
    m_min_line,   \* the last line executed, 0 if a click must start afresh
    m_repl,       \* is there a REPL
    executed,     \* history: all that the REPL there is was given
    stops         \* history: the lines at whose end it stopped, one a click

vars == <<m_curr_text, m_num_lines, m_prev_text, m_min_line, m_repl, executed, stops>>

Texts == UNION {[1 .. n -> Char \cup {Nl}] : n \in 0 .. MaxLen}

-----------------------------------------------------------------------------
(* Text *)

Newlines(t) == {i \in DOMAIN t : t[i] = Nl}
NumLines(t) == Cardinality(Newlines(t)) + 1

\* Where the n-th line feed of t stands, one past the end if there is none,
\* and 0, where line 1 begins, for n = 0.
NewlineAt(t, n) ==
    IF n = 0 THEN 0
    ELSE IF n > Cardinality(Newlines(t)) THEN Len(t) + 1
    ELSE CHOOSE i \in Newlines(t) : Cardinality(Newlines(t) \cap 1 .. i) = n

\* Strings.h
Trim(t) ==
    LET ink == {i \in DOMAIN t : t[i] # Nl}
    IN  IF ink = {} THEN <<>>
        ELSE SubSeq(t, CHOOSE i \in ink : \A j \in ink : i <= j,
                       CHOOSE i \in ink : \A j \in ink : i >= j)

StartsWith(str, start) == Len(start) <= Len(str) /\ SubSeq(str, 1, Len(start)) = start

-----------------------------------------------------------------------------
(* Actions *)

\* Slip: m_min_line starts at the line the button's first label names.
Init_Line1 ==
    /\ m_curr_text = <<>> /\ m_num_lines = 1
    /\ m_prev_text = <<>> /\ m_min_line = 1
    /\ m_repl = FALSE /\ executed = <<>> /\ stops = {}

\* WinMain; setting the box's default text is a change of text like any other.
Init ==
    /\ m_curr_text = <<>> /\ m_num_lines = 1
    /\ m_prev_text = <<>> /\ m_min_line = 0
    /\ m_repl = FALSE /\ executed = <<>> /\ stops = {}

\* Slips: the lines are counted before the text is trimmed; a change in the
\* last line executed, being one in the line to continue from, is let pass.
HandleTextChange_CountRaw(raw) ==
    /\ m_curr_text' = Trim(raw)
    /\ m_num_lines' = NumLines(raw)
    /\ m_min_line' = IF StartsWith(m_curr_text', m_prev_text) THEN m_min_line ELSE 0
    /\ UNCHANGED <<m_prev_text, m_repl, executed, stops>>
HandleTextChange_LastLineFree(raw) ==
    /\ m_curr_text' = Trim(raw)
    /\ m_num_lines' = NumLines(m_curr_text')
    /\ m_min_line' =
         IF StartsWith(m_curr_text',
               SubSeq(m_prev_text, 1, NewlineAt(m_prev_text, NumLines(m_prev_text) - 1) - 1))
         THEN m_min_line ELSE 0
    /\ UNCHANGED <<m_prev_text, m_repl, executed, stops>>

HandleTextChange(raw) ==
    /\ m_curr_text' = Trim(raw)
    /\ m_num_lines' = NumLines(m_curr_text')
    /\ m_min_line' = IF StartsWith(m_curr_text', m_prev_text) THEN m_min_line ELSE 0
    /\ UNCHANGED <<m_prev_text, m_repl, executed, stops>>

\* After ExecuteSwift, whose result is ignored.
Executed ==
    /\ m_prev_text' = m_curr_text
    /\ m_min_line' = m_num_lines
    /\ UNCHANGED <<m_curr_text, m_num_lines>>

\* ResetREPL; "Recompile Everything", and what ContinueExecution does when
\* m_min_line is 0.
RecompileEverything ==
    /\ m_repl' = TRUE
    /\ executed' = m_curr_text
    /\ stops' = {m_num_lines}
    /\ Executed

\* Slip: from the start of the last line executed.
Remaining_FromMinLine ==
    SubSeq(m_curr_text, NewlineAt(m_curr_text, m_min_line - 1) + 1, Len(m_curr_text))

\* The text from the line feed that ends line m_min_line.
Remaining == SubSeq(m_curr_text, NewlineAt(m_curr_text, m_min_line), Len(m_curr_text))

ContinueExecution ==
    /\ m_min_line > 0
    /\ executed' = executed \o Remaining
    /\ stops' = stops \cup {m_num_lines}
    /\ UNCHANGED m_repl
    /\ Executed

Next ==
    \/ \E raw \in Texts : HandleTextChange(raw)
    \/ RecompileEverything
    \/ ContinueExecution

Spec == Init /\ [][Next]_vars

-----------------------------------------------------------------------------
(* Properties *)

\* Types; the line count is that of the trimmed text, which the executed
\* lines are counted in, and there is a REPL to continue with.
TypeOK ==
    /\ m_curr_text \in Texts /\ Trim(m_curr_text) = m_curr_text
    /\ m_num_lines = NumLines(m_curr_text)
    /\ m_prev_text \in Texts
    /\ m_min_line \in 0 .. MaxLen + 1
    /\ m_repl \in BOOLEAN
    /\ executed \in Seq(Char \cup {Nl})
    /\ stops \subseteq 1 .. MaxLen + 1

\* ContinueExecution uses m_repl unchecked: there is one when it may.
ContinuesWithAREPL == m_min_line > 0 => m_repl

Line(t, n) == SubSeq(t, NewlineAt(t, n - 1) + 1, NewlineAt(t, n) - 1)

\* As long as a click would continue, nothing the REPL was given has been
\* deleted, altered, or given to it twice: the REPL was given m_min_line
\* lines, and each of them is still there, with at most something added to it.
ExecutedLinesStand ==
    m_min_line > 0 =>
        /\ NumLines(executed) = m_min_line /\ m_min_line <= m_num_lines
        /\ \A n \in 1 .. m_min_line : StartsWith(Line(m_curr_text, n), Line(executed, n))

\* Text above m_min_line that the REPL was never given, and never will be
\* until everything is recompiled, stands only at the end of a line that was
\* the last one when it was executed.
SkippedOnlyAtStops ==
    m_min_line > 0 =>
        \A n \in 1 .. m_min_line :
            n \notin stops => Line(m_curr_text, n) = Line(executed, n)

=============================================================================
