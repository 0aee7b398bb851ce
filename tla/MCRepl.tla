------------------------------- MODULE MCRepl -------------------------------
(* Instances of Repl for TLC. *)
EXTENDS Repl, TLC

Symmetry == Permutations(User) \cup Permutations(Sig)
=============================================================================
