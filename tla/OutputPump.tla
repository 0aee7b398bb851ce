----------------------------- MODULE OutputPump -----------------------------
(***************************************************************************)
(* How what a playground prints reaches its output box.                    *)
(*                                                                         *)
(* The program's one window thread (UI) runs user code inside the handler  *)
(* of a button click; a live view may also have it run user code from the  *)
(* message loop.  What the code prints goes through the C runtime's   *)
(* buffer into an anonymous pipe, because RedirectStdoutRAII has made the  *)
(* pipe the process's standard output.  A second thread (the pump, running *)
(* UpdateOutputTextbox) reads the pipe and, holding g_output_text_lock,    *)
(* appends to g_output_text and sets the box's text.  The box belongs to   *)
(* the UI thread, so setting its text from the pump is a message that the  *)
(* pump waits for and the UI thread answers only from its message loop.    *)
(*                                                                         *)
(* If the pipe cannot be created, the failure is logged and the pump is    *)
(* started all the same: what is printed then goes elsewhere, and each     *)
(* ReadFile of the pump returns at once with an error and without data.    *)
(*                                                                         *)
(* Output is counted in units, numbered in the order they are printed.     *)
(***************************************************************************)
EXTENDS Naturals, Sequences

CONSTANTS
    ReadSize,    \* units the pump's buffer holds (buff[128])
    StdioSize,   \* units the C runtime buffers
    PipeSize,    \* units the pipe holds (0xFFFF bytes)
    MaxPrinted,  \* bound: units printed in all
    MaxClicks,   \* bound: button clicks
    Recompiles,  \* is "Recompile Everything" among the clicks
    Callbacks    \* is there a live view that runs user code

ASSUME SizesAssumption ==
    /\ ReadSize \in Nat \ {0} /\ StdioSize \in Nat \ {0} /\ PipeSize \in Nat \ {0}
    /\ MaxPrinted \in Nat /\ MaxClicks \in Nat
    /\ Recompiles \in BOOLEAN /\ Callbacks \in BOOLEAN

VARIABLES
    ui,             \* where the UI thread stands, see UIStates
    pipeCreated,    \* did CreatePipe succeed; chosen once
    pump,           \* where the pump stands: "read", "lock", "settext", "unlock"
    g_output_text_lock,  \* its owner: "none", "ui", "pump"
    stdio,          \* units in the C runtime's buffer
    pipe,           \* units in the pipe
    buff,           \* units the pump has read and not yet appended
    g_output_text,  \* units collected for the output box
    box,            \* units the output box shows
    printed,        \* number of the last unit printed
    clicks          \* clicks so far

uiVars   == <<ui, stdio, printed, clicks>>
pumpVars == <<pipeCreated, pump, buff>>
textVars == <<g_output_text, box>>
vars == <<uiVars, pumpVars, g_output_text_lock, pipe, textVars>>

\* idle: in GetMessage; reset: RecompileEverything before it clears the box;
\* clear: it has cleared it and still holds the lock; exec: ExecuteSwift;
\* callback: user code of a live view; flush: fflush(stdout) at the end of the
\* handler; settext: the same while the pump waits for the box.  In reset, exec
\* and callback the runtime's buffer may first be written out.
Printing == {"reset", "exec", "callback"}
Spilling == [reset |-> "spill_reset", exec |-> "spill_exec", callback |-> "spill_callback"]
UIStates ==
    Printing \cup {Spilling[s] : s \in Printing} \cup {"idle", "clear", "flush", "settext"}

\* RedirectStdoutRAII: it goes on whether or not there is a pipe.
Init ==
    /\ pipeCreated \in BOOLEAN
    /\ ui = "idle" /\ pump = "read" /\ g_output_text_lock = "none"
    /\ stdio = <<>> /\ pipe = <<>> /\ buff = <<>>
    /\ g_output_text = <<>> /\ box = <<>>
    /\ printed = 0 /\ clicks = 0

-----------------------------------------------------------------------------
(* The UI thread *)

Click(next) ==
    /\ ui = "idle" /\ clicks < MaxClicks
    /\ ui' = next /\ clicks' = clicks + 1
    /\ UNCHANGED <<stdio, printed, pumpVars, g_output_text_lock, pipe, textVars>>

\* ContinueExecution, when there is something to continue from.
ClickContinue == Click("exec")

\* RecompileEverything; also ContinueExecution when m_min_line is 0.
ClickRecompile == Recompiles /\ Click("reset")

\* The user types: the change of the line numbers' box, which is not m_text,
\* ends up in the branch for clicks, and so in fflush(stdout).
TypeText ==
    /\ ui = "idle" /\ ui' = "flush"
    /\ UNCHANGED <<stdio, printed, clicks, pumpVars, g_output_text_lock, pipe, textVars>>

\* A message to the live view makes user code run, outside any handler here.
Callback ==
    /\ ui = "idle" /\ Callbacks /\ ui' = "callback"
    /\ UNCHANGED <<stdio, printed, clicks, pumpVars, g_output_text_lock, pipe, textVars>>

CallbackReturns ==
    /\ ui = "callback" /\ ui' = "idle"
    /\ UNCHANGED <<stdio, printed, clicks, pumpVars, g_output_text_lock, pipe, textVars>>

\* User code, the destruction of its windows, the log and the REPL's own
\* messages print.
PrintUnit ==
    /\ ui \in Printing /\ printed < MaxPrinted
    /\ Len(stdio) < StdioSize
    /\ stdio' = Append(stdio, printed + 1) /\ printed' = printed + 1
    /\ UNCHANGED <<ui, clicks, pumpVars, g_output_text_lock, pipe, textVars>>

\* The C runtime writes its buffer out when it is full, and whenever the code
\* flushes it (std::endl, fflush), be it in the middle of an execution.
Spill ==
    /\ ui \in Printing /\ stdio # <<>>
    /\ ui' = Spilling[ui]
    /\ UNCHANGED <<stdio, printed, clicks, pumpVars, g_output_text_lock, pipe, textVars>>

\* Writing to the pipe blocks while it is full; without a pipe it is not the
\* pipe that stdout writes to, and the pipe stays empty.
Write ==
    /\ ui \notin Printing \cup {"idle"}
    /\ stdio # <<>> /\ Len(pipe) < PipeSize
    /\ pipe' = IF pipeCreated THEN Append(pipe, Head(stdio)) ELSE pipe
    /\ stdio' = Tail(stdio)
    /\ UNCHANGED <<ui, printed, clicks, pumpVars, g_output_text_lock, textVars>>

Spilt ==
    /\ stdio = <<>>
    /\ \E s \in Printing : ui = Spilling[s] /\ ui' = s
    /\ UNCHANGED <<stdio, printed, clicks, pumpVars, g_output_text_lock, pipe, textVars>>

\* ClearOutputTextBox takes the lock and empties text and box.  The box tells
\* its parent with EN_CHANGE, and the window procedure, which expects a click
\* here, answers with fflush(stdout): still under the lock.
ClearOutputTextBox_NoLock ==  \* slip: it does not wait for the lock
    /\ ui = "reset"
    /\ g_output_text_lock' = "ui"
    /\ g_output_text' = <<>> /\ box' = <<>>
    /\ ui' = "clear"
    /\ UNCHANGED <<stdio, printed, clicks, pumpVars, pipe>>

ClearOutputTextBox ==
    /\ ui = "reset" /\ g_output_text_lock = "none"
    /\ g_output_text_lock' = "ui"
    /\ g_output_text' = <<>> /\ box' = <<>>
    /\ ui' = "clear"
    /\ UNCHANGED <<stdio, printed, clicks, pumpVars, pipe>>

Cleared ==
    /\ ui = "clear" /\ stdio = <<>>
    /\ g_output_text_lock' = "none"
    /\ ui' = "exec"
    /\ UNCHANGED <<stdio, printed, clicks, pumpVars, pipe, textVars>>

\* Slip: the handler returns without fflush(stdout).
ExecuteSwiftReturns_NoFlush ==
    /\ ui = "exec" /\ ui' = "idle"
    /\ UNCHANGED <<stdio, printed, clicks, pumpVars, g_output_text_lock, pipe, textVars>>

ExecuteSwiftReturns ==
    /\ ui = "exec" /\ ui' = "flush"
    /\ UNCHANGED <<stdio, printed, clicks, pumpVars, g_output_text_lock, pipe, textVars>>

HandlerReturns ==
    /\ ui = "flush" /\ stdio = <<>> /\ ui' = "idle"
    /\ UNCHANGED <<stdio, printed, clicks, pumpVars, g_output_text_lock, pipe, textVars>>

\* The pump has sent WM_SETTEXT (Edit_SetText), which this thread answers in
\* GetMessage only.  The box sends EN_CHANGE, whose handler is fflush(stdout),
\* before the pump gets its answer.
SetText ==
    /\ pump = "settext" /\ ui = "idle"
    /\ box' = g_output_text
    /\ ui' = "settext"
    /\ UNCHANGED <<stdio, printed, clicks, pumpVars, g_output_text_lock, pipe, g_output_text>>

AnswerPump ==
    /\ ui = "settext" /\ stdio = <<>>
    /\ ui' = "idle" /\ pump' = "unlock"
    /\ UNCHANGED <<stdio, printed, clicks, pipeCreated, buff, g_output_text_lock, pipe, textVars>>

\* The steps that get the thread on; user code may also go on printing.
MovesOn ==
    \/ Write \/ Spilt \/ ClearOutputTextBox \/ Cleared \/ ExecuteSwiftReturns
    \/ CallbackReturns \/ HandlerReturns \/ SetText \/ AnswerPump

UIStep == PrintUnit \/ Spill \/ MovesOn

-----------------------------------------------------------------------------
(* The pump: UpdateOutputTextbox *)

\* Slip: it looks at what is in the pipe and leaves it there.
PumpRead_Peek ==
    /\ pump = "read" /\ pipeCreated /\ pipe # <<>>
    /\ buff' = SubSeq(pipe, 1, IF Len(pipe) < ReadSize THEN Len(pipe) ELSE ReadSize)
    /\ pump' = "lock"
    /\ UNCHANGED <<uiVars, pipeCreated, g_output_text_lock, pipe, textVars>>

\* ReadFile waits for data and returns what there is, up to the buffer's size.
PumpRead ==
    /\ pump = "read" /\ pipeCreated /\ pipe # <<>>
    /\ LET n == IF Len(pipe) < ReadSize THEN Len(pipe) ELSE ReadSize
       IN  buff' = SubSeq(pipe, 1, n) /\ pipe' = SubSeq(pipe, n + 1, Len(pipe))
    /\ pump' = "lock"
    /\ UNCHANGED <<uiVars, pipeCreated, g_output_text_lock, textVars>>

\* Without a pipe it fails at once and sets bytes_read to 0.  Neither is looked
\* at: the pump goes on to set the box's text to what it is, and comes back.
PumpReadFails ==
    /\ pump = "read" /\ ~pipeCreated
    /\ buff' = <<>> /\ pump' = "lock"
    /\ UNCHANGED <<uiVars, pipeCreated, g_output_text_lock, pipe, textVars>>

\* Slips: new output goes in front; the lock covers the insertion only.
PumpInsert_Front ==
    /\ pump = "lock" /\ g_output_text_lock = "none"
    /\ g_output_text_lock' = "pump"
    /\ g_output_text' = buff \o g_output_text /\ buff' = <<>>
    /\ pump' = "settext"
    /\ UNCHANGED <<uiVars, pipeCreated, pipe, box>>
PumpInsert_ShortLock ==
    /\ pump = "lock" /\ g_output_text_lock = "none"
    /\ g_output_text' = g_output_text \o buff /\ buff' = <<>>
    /\ pump' = "settext"
    /\ UNCHANGED <<uiVars, pipeCreated, g_output_text_lock, pipe, box>>

PumpInsert ==
    /\ pump = "lock" /\ g_output_text_lock = "none"
    /\ g_output_text_lock' = "pump"
    /\ g_output_text' = g_output_text \o buff /\ buff' = <<>>
    /\ pump' = "settext"
    /\ UNCHANGED <<uiVars, pipeCreated, pipe, box>>

\* Slip: the lock is not released.
PumpUnlock_Keep ==
    /\ pump = "unlock" /\ pump' = "read"
    /\ UNCHANGED <<uiVars, pipeCreated, buff, g_output_text_lock, pipe, textVars>>

PumpUnlock ==
    /\ pump = "unlock" /\ pump' = "read"
    /\ g_output_text_lock' = "none"
    /\ UNCHANGED <<uiVars, pipeCreated, buff, pipe, textVars>>

PumpStep == PumpRead \/ PumpReadFails \/ PumpInsert \/ PumpUnlock

Next == ClickContinue \/ ClickRecompile \/ TypeText \/ Callback \/ UIStep \/ PumpStep

Spec == Init /\ [][Next]_vars

\* Both threads keep running as long as they can; the user need not click,
\* and user code that prints also returns.  GetMessage handles messages sent
\* from other threads before it fetches input, so that a user who keeps typing
\* does not keep the pump from its answer.
FairSpec == Spec /\ WF_vars(UIStep) /\ SF_vars(SetText) /\ WF_vars(PumpStep)

-----------------------------------------------------------------------------
(* Properties *)

Units(s) == \A i \in DOMAIN s : s[i] \in 1 .. MaxPrinted

\* Types, and who holds the lock when.
TypeOK ==
    /\ ui \in UIStates
    /\ pump \in {"read", "lock", "settext", "unlock"}
    /\ g_output_text_lock = IF ui = "clear" THEN "ui"
                            ELSE IF pump \in {"settext", "unlock"} THEN "pump" ELSE "none"
    /\ Len(stdio) <= StdioSize /\ Len(pipe) <= PipeSize /\ Len(buff) <= ReadSize
    /\ Units(stdio) /\ Units(pipe) /\ Units(buff) /\ Units(g_output_text) /\ Units(box)
    /\ printed \in 0 .. MaxPrinted /\ clicks \in 0 .. MaxClicks
    /\ pipeCreated \in BOOLEAN

\* Nothing that is printed is lost, doubled or reordered on its way through
\* the buffer, the pipe and the pump, whatever is cleared meanwhile: what is
\* collected and what is on its way are one run of units, the last printed last.
\* Without a pipe none of it gets that far, and the box stays empty.
OutputInOrder ==
    LET collected == g_output_text \o buff \o pipe
        all == collected \o stdio
    IN  IF pipeCreated
        THEN \A i \in DOMAIN all : all[i] = printed - Len(all) + i
        ELSE collected = <<>> /\ box = <<>>

\* Whenever neither thread holds the lock, the box shows what was collected.
BoxShowsText == g_output_text_lock = "none" => box = g_output_text

\* Between two clicks nothing waits in the C runtime's buffer, where the
\* pump could not see it: the handler's fflush(stdout) has run.  What a live
\* view's user code prints may wait there: nothing flushes it.
NothingHeldBack == ui = "idle" /\ ~Callbacks => stdio = <<>>

\* The three ways the threads can wait for each other for ever.
\* The pump holds the lock and waits for the UI thread, which wants the lock
\* once it has printed what it prints before.
LockCycle == pump = "settext" /\ ui \in {"reset", "spill_reset"}
\* The pump waits for the UI thread, which waits for room in the pipe.
PipeCycle == pump = "settext" /\ stdio # <<>> /\ Len(pipe) = PipeSize
                 /\ ui \notin Printing \cup {"idle", "clear"}
\* The UI thread waits for room in the pipe with the lock the pump wants.
FlushCycle == pump = "lock" /\ stdio # <<>> /\ Len(pipe) = PipeSize /\ ui = "clear"

Deadlocked == LockCycle \/ PipeCycle \/ FlushCycle

\* They are for ever: whatever the user does and the code prints from then on,
\* no click is taken and the box stays as it is.
DeadlocksLast ==
    [][Deadlocked => Deadlocked' /\ UNCHANGED <<box, clicks, pump>>]_vars

\* What each thread waits for: the UI thread for a message, for the lock or for
\* room in the pipe; the pump for output, for the lock or for its answer.
UIWaits ==
    \/ ui = "idle" /\ pump # "settext"
    \/ ui = "reset" /\ g_output_text_lock # "none"
    \/ ui \notin Printing \cup {"idle"} /\ stdio # <<>> /\ Len(pipe) = PipeSize
PumpWaits ==
    \/ pump = "read" /\ pipeCreated /\ pipe = <<>>
    \/ pump = "lock" /\ g_output_text_lock # "none"
    \/ pump = "settext"

\* Those cycles are all: if both threads wait, it is in one of them, or the
\* handlers have returned and the pump has shown all it can see.
OnlyKnownCycles ==
    UIWaits /\ PumpWaits =>
        \/ Deadlocked
        \/ /\ ui = "idle" /\ pump = "read" /\ pipeCreated
           /\ pipe = <<>> /\ buff = <<>> /\ box = g_output_text

\* The steps the threads have before them if no one clicks, types or prints: a
\* handler its way back to GetMessage, the pump its way back to ReadFile, and
\* for each unit at most one write and one round of the pump.
UISteps ==
    [settext |-> 0, idle |-> 1, flush |-> 2, callback |-> 2, exec |-> 3, clear |-> 4,
     reset |-> 5, spill_callback |-> 3, spill_exec |-> 4, spill_reset |-> 6]
PumpSteps == [read |-> 0, unlock |-> 1, settext |-> 3, lock |-> 4]
ToDo == UISteps[ui] + PumpSteps[pump] + 5 * Len(pipe) + 6 * Len(stdio)

\* With a pipe the threads never keep each other busy for nothing: each step
\* brings them nearer to the end.  Left alone, they come to rest, and
\* OnlyKnownCycles says where: all is shown, or they are in a deadlock.  Without
\* a pipe the failing ReadFile is the one step that does not, and it starts the
\* pump on its next round, for ever; all other steps still do.
EveryStepHelps ==
    [][MovesOn \/ PumpStep =>
          /\ ToDo' >= 0
          /\ ToDo' < ToDo \/ (~pipeCreated /\ pump = "read")]_vars

\* Everything that is printed reaches the box, unless it is cleared first or
\* there is no pipe.
\* The comment on CreatePipe in RedirectStdoutRAII speaks of "performance
\* issues if pipe buffer size is too small", so a small pipe may be slow,
\* but loses nothing.
AllOutputShown ==
    \A n \in 1 .. MaxPrinted :
        pipeCreated /\ printed = n ~> \E i \in DOMAIN box : box[i] = n

\* The window is a terminal that shows what was printed in the order it was
\* printed: what is in none of the buffers on the way has been shown; without a
\* pipe, nothing has.
T == INSTANCE Terminal
     WITH shown <- IF pipeCreated
                   THEN printed - (Len(stdio) + Len(pipe) + Len(buff)
                                     + (Len(g_output_text) - Len(box)))
                   ELSE 0
RefinesTerminal == T!Spec

=============================================================================
