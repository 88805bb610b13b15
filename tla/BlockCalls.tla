----------------------------- MODULE BlockCalls -----------------------------
(***************************************************************************)
(* The copies and fills, called one at a time on a memory in which each    *)
(* byte tells where it was, and what has to be there afterwards.           *)
(***************************************************************************)
EXTENDS Blocks, Calls

CONSTANTS Arena, Dests, Srcs, Sizes    \* addresses; where copies go to and come from

\* CopyMem is for blocks that do not overlap.  From 32 bytes on they may, where the
\* destination is the lower one.
ASSUME BlocksAssumption ==
  /\ Arena \subseteq Nat /\ Dests \subseteq Nat /\ Srcs \subseteq Nat /\ Sizes \subseteq Nat
  /\ \A n \in Sizes :
       /\ \A b \in Dests \cup Srcs : b..b + n - 1 \subseteq Arena
       /\ \A d \in Dests, s \in Srcs : 
            d + n <= s \/ s + n <= d \/ (n >= 32 /\ d <= s)

\* Each byte is its address.
Numbered == [a \in Arena |-> a]

Copy(d, s, n) == call' = [op |-> "copy", d |-> d, s |-> s, n |-> n, mem |-> CopyMem(Numbered, s, d, n)]
CopyWords(d, s, n) ==
  call' = [op |-> "copy", d |-> d, s |-> s, n |-> 4 * n, mem |-> CopyMemQuick(Numbered, s, d, n)]
Set(d, n) == call' = [op |-> "set", d |-> d, n |-> n, mem |-> MemSet(Numbered, d, 257, n)]

BlockCall ==
  \/ \E d \in Dests, s \in Srcs, n \in Sizes : Copy(d, s, n)
  \/ \E d \in Dests, s \in Srcs, n \in Sizes :
       d % 4 = 0 /\ s % 4 = 0 /\ n % 4 = 0 /\ CopyWords(d, s, n \div 4)
  \/ \E d \in Dests, n \in Sizes : Set(d, n)

BlockSpec == SupInit /\ [][(call = Idle /\ BlockCall) \/ Return]_call
----------------------------------------------------------------------------
\* Every byte in the range is the source's, or the filling, and no other byte changes, for
\* every alignment and size (_memory.s:17-427, util.c:32-61).
BlocksExact ==
  /\ call.op = "copy" =>
       \A a \in Arena : call.mem[a] = IF a \in call.d..call.d + call.n - 1
                                      THEN call.s + (a - call.d) ELSE a
  /\ call.op = "set" =>
       \A a \in Arena : call.mem[a] = IF a \in call.d..call.d + call.n - 1 THEN 1 ELSE a
=============================================================================
