------------------------------ MODULE MCPorts ------------------------------
(***************************************************************************)
(* Three ports for TLC, two of them of one name and one priority, and one  *)
(* signal bit less than ports.                                             *)
(***************************************************************************)
EXTENDS Ports

CONSTANTS p1, p2, p3, a, b

Names == (p1 :> a) @@ (p2 :> b) @@ (p3 :> b)
Pris  == (p1 :> 1) @@ (p2 :> 0) @@ (p3 :> 0)
Swap  == Permutations({p2, p3})
============================================================================
