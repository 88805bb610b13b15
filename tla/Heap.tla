------------------------------- MODULE Heap -------------------------------
(***************************************************************************)
(* What a memory allocator promises: the blocks it has handed out lie in   *)
(* the memory it was given and do not overlap.  Memory is counted in the   *)
(* units of the allocator.                                                 *)
(***************************************************************************)
EXTENDS Integers

VARIABLES
  pool,    \* the units the allocator was given
  blocks   \* the blocks it has handed out, each a record of its place and length

Cells(b) == b.at .. (b.at + b.units - 1)

Used == UNION {Cells(b) : b \in blocks}

Init == pool = {} /\ blocks = {}

Grow(cells) ==
  /\ cells \cap pool = {}
  /\ pool' = pool \cup cells
  /\ UNCHANGED blocks

\* Any free stretch of the pool may be handed out.
Alloc(b) ==
  /\ Cells(b) \subseteq pool \ Used
  /\ blocks' = blocks \cup {b}
  /\ UNCHANGED pool

Free(b) ==
  /\ blocks' = blocks \ {b}
  /\ UNCHANGED pool

Next ==
  \/ Grow(pool' \ pool)
  \/ \E b \in blocks' \ blocks : Alloc(b)
  \/ \E b \in blocks : Free(b)

Spec == Init /\ [][Next]_<<pool, blocks>>
===========================================================================
