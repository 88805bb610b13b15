----------------------------- MODULE MCMemory -----------------------------
(***************************************************************************)
(* Two regions for TLC, the second preferred: one that holds blocks of     *)
(* several lengths, and one that a few blocks exhaust.                     *)
(***************************************************************************)
EXTENDS Memory

CONSTANTS big, small

Bases == (big :> 0) @@ (small :> 40)
Sizes == (big :> 18) @@ (small :> 9)
Pris  == (big :> 0) @@ (small :> 5)
===========================================================================
