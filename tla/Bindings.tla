------------------------------ MODULE Bindings ------------------------------
(***************************************************************************)
(* What a session promises about the functions a user defines, without a   *)
(* JIT, pointers or modules: a function is bound to the line that defined  *)
(* it last, and the code of a line sees exactly the bindings there are     *)
(* when it runs, in the functions it calls as well as in its own           *)
(* statements.  Repl implements this (RefinesBindings).                    *)
(***************************************************************************)
EXTENDS Naturals

CONSTANT Func   \* the functions a user may define

VARIABLES
    number,   \* the number of the current line
    open,     \* the line may still define functions and run
    binding,  \* function -> the line that defined it
    ran,      \* the lines whose code ran
    saw       \* the bindings the code of the last such line saw

vars == <<number, open, binding, ran, saw>>

Empty == [f \in {} |-> 0]

Init == number = 1 /\ open = FALSE /\ binding = Empty /\ ran = {} /\ saw = Empty

\* The user enters a line: it is carried out, or refused or empty at once.
Enter ==
    /\ ~open
    /\ number' = number + 1
    /\ open' \in BOOLEAN
    /\ UNCHANGED <<binding, ran, saw>>

\* A declaration defines at most one function.
Declared == {{}} \cup {{f} : f \in Func}

\* The bindings when the functions F are defined by the current line.
Bind(F) == [f \in DOMAIN binding \cup F |-> IF f \in F THEN number ELSE binding[f]]

\* A declaration of the line defines the functions F, or redefines them.
Define(F) ==
    /\ open
    /\ binding' = Bind(F)
    /\ UNCHANGED <<number, open, ran, saw>>

\* A binding is safe once code has run that saw it.
Safe(f) == f \in DOMAIN binding \cap DOMAIN saw /\ saw[f] = binding[f]

\* A declaration of functions F cannot be linked: the line ends, and functions
\* may be lost, though no safe one unless it is among F.
Fail(F) ==
    /\ open
    /\ \E lost \in SUBSET (DOMAIN binding \cup F) :
         /\ \A f \in lost \ F : ~Safe(f)
         /\ binding' = [f \in (DOMAIN binding \cup F) \ lost |-> Bind(F)[f]]
    /\ open' = FALSE
    /\ UNCHANGED <<number, ran, saw>>

\* The line ends without running code: it has none, or has an error.
GiveUp ==
    /\ open
    /\ open' = FALSE
    /\ UNCHANGED <<number, binding, ran, saw>>

\* The code of the line runs.
Run ==
    /\ open
    /\ open' = FALSE
    /\ ran' = ran \cup {number}
    /\ saw' = binding
    /\ UNCHANGED <<number, binding>>

Next == Enter \/ (\E F \in Declared : Define(F) \/ Fail(F)) \/ GiveUp \/ Run

Spec == Init /\ [][Next]_vars
=============================================================================
