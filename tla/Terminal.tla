------------------------------ MODULE Terminal ------------------------------
(***************************************************************************)
(* What the output box of a playground promises, without the buffers, the  *)
(* pipe, the lock and the thread that make it: it shows what is printed,   *)
(* each unit once and in order, some time after it is printed, and can be  *)
(* cleared.  What was shown and cleared does not come back, and what was   *)
(* not yet shown is not lost by clearing.                                  *)
(***************************************************************************)
EXTENDS Naturals, Sequences

VARIABLES
    printed,  \* number of the last unit printed
    shown,    \* number of the last unit shown, cleared since or not
    box       \* the units on view

Init == printed = 0 /\ shown = 0 /\ box = <<>>

PrintUnit == printed' = printed + 1 /\ UNCHANGED <<shown, box>>

Show ==
    \E n \in shown + 1 .. printed :
        /\ box' = box \o [i \in 1 .. n - shown |-> shown + i]
        /\ shown' = n
        /\ UNCHANGED printed

Clear == box' = <<>> /\ UNCHANGED <<printed, shown>>

Next == PrintUnit \/ Show \/ Clear

Spec == Init /\ [][Next]_<<printed, shown, box>>

=============================================================================
