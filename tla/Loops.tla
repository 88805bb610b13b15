------------------------------- MODULE Loops -------------------------------
(***************************************************************************)
(* Loops of the pure routines.  A loop is a function on the states it can  *)
(* be in: one round of its body where its condition holds, and nothing     *)
(* where it does not.  A routine gives it more rounds than it can use.     *)
(***************************************************************************)
EXTENDS Naturals

\* What n rounds make of s.
Rounds(round, s, n) ==
  LET run[i \in Nat] == IF i = 0 THEN s ELSE round[run[i - 1]]
  IN  run[n]
=============================================================================
