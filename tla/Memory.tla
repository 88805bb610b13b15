------------------------------ MODULE Memory ------------------------------
(***************************************************************************)
(* The memory lists of exec.library: AddMemList, AllocVec and FreeVec over *)
(* Allocate and Deallocate (lib.exec/memory.c).  AllocVec and FreeVec do   *)
(* their work inside Forbid, and no interrupt server allocates, so each is *)
(* one step.                                                               *)
(*                                                                         *)
(* Addresses and lengths are in units of 8 bytes, the size of a MemChunk;  *)
(* only requests, and the counters AllocVec compares them with, are bytes. *)
(* A chunk is a record of its place and of mc_Bytes, which despite its     *)
(* name counts units; the free list of a region is the sequence of its     *)
(* chunks in the order of the links, without the empty chunk at mh_Start   *)
(* that closes the circle.                                                 *)
(***************************************************************************)
EXTENDS ExecLists

CONSTANTS
  Region,   \* the memory regions AddMemList is called with
  Base,     \* the address of each
  Size,     \* the length of each
  Pri,      \* the ln_Pri of each
  Request   \* the byteSize arguments of AllocVec

\* MemHeader and the chunk at mh_Start take six units, a chunk header one.
HeaderUnits == 6

\* mh_First, which is also mh_Lower, and mh_Upper.
Lower(r) == Base[r] + HeaderUnits
Upper(r) == Base[r] + Size[r]

\* The first chunk is given the whole region but one unit, although it starts six
\* units into it.
FirstUnits(r) == Size[r] - 1
End(r)        == Lower(r) + FirstUnits(r)

\* Regions are far enough apart for that.
ASSUME MemAssumption ==
  /\ Base \in [Region -> Nat]
  /\ Size \in [Region -> Nat \ 0..HeaderUnits]
  /\ Pri \in [Region -> Int]
  /\ Request \subseteq Nat
  /\ \A r, s \in Region : r # s => End(r) <= Base[s] \/ End(s) <= Base[r]

Chunk == [at : Nat, units : Nat \ {0}]

VARIABLES
  memList,  \* SysBase->MemList
  free,     \* the free list of each region
  mhFree,   \* mh_Free
  blocks,   \* the blocks handed out and not given back to FreeVec
  lost,     \* the blocks given back that FreeVec has not found a region for
  vectors   \* the bytes from address 0 on, where the exception vectors are

vars == <<memList, free, mhFree, blocks, lost, vectors>>

Init ==
  /\ memList = <<>>
  /\ free = [r \in Region |-> <<>>]
  /\ mhFree = [r \in Region |-> 0]
  /\ blocks = {}
  /\ lost = {}
  /\ vectors = "intact"
---------------------------------------------------------------------------
AddMemList(r) ==
  /\ r \notin ToSet(memList)
  /\ memList' = Enqueue(memList, r, Pri)
  /\ free' = [free EXCEPT ![r] = <<[at |-> Lower(r), units |-> FirstUnits(r)]>>]
  /\ mhFree' = [mhFree EXCEPT ![r] = FirstUnits(r)]
  /\ UNCHANGED <<blocks, lost, vectors>>

\* The units Allocate takes for n bytes: eight bytes more, rounded up, and a unit
\* for the chunk header, which stays in front of the block.
Units(n) == (n + 8 + 7) \div 8 + 1

Fits(q, k) == {i \in 1..Len(q) : q[i].units >= k}

Allocatable(r, n) ==
  n > 0 /\ mhFree[r] >= Units(n) /\ Fits(free[r], Units(n)) # {}

\* Seeded fault: a split hands out the front.
Bug_AllocateFront(r, n) ==
  LET k == Units(n)
      i == Min(Fits(free[r], k))
      c == free[r][i]
  IN  /\ free' = IF c.units = k THEN [free EXCEPT ![r] = RemoveAt(@, i)]
                                ELSE [free EXCEPT ![r][i].units = @ - k]
      /\ blocks' = blocks \cup {[at |-> c.at, units |-> k]}
      /\ mhFree' = [mhFree EXCEPT ![r] = @ - k]

\* First fit.  An exact fit is unlinked; a larger chunk is split and its tail
\* handed out.
Allocate(r, n) ==
  LET k == Units(n)
      i == Min(Fits(free[r], k))
      c == free[r][i]
  IN  /\ free' = IF c.units = k THEN [free EXCEPT ![r] = RemoveAt(@, i)]
                                ELSE [free EXCEPT ![r][i].units = @ - k]
      /\ blocks' = blocks \cup {[at |-> c.at + c.units - k, units |-> k]}
      /\ mhFree' = [mhFree EXCEPT ![r] = @ - k]

\* Join the chunk at i and the one behind it, if they touch.
JoinNext(q, i) ==
  IF i \in 1..(Len(q) - 1) /\ q[i].at + q[i].units = q[i + 1].at
  THEN RemoveAt([q EXCEPT ![i].units = @ + q[i + 1].units], i + 1)
  ELSE q

\* Seeded fault: only the chunk behind is joined.
Bug_DeallocateJoinsNext(r, b) ==
  LET q == free[r]
      i == Min({j \in 1..Len(q) : q[j].at > b.at} \cup {Len(q) + 1})
  IN  /\ free' = [free EXCEPT ![r] = JoinNext(InsertAt(q, i, b), i)]
      /\ mhFree' = [mhFree EXCEPT ![r] = @ + b.units]

\* Link the block in front of the first chunk of a higher address, then join it
\* with the chunk behind, then the chunk in front with it.
Deallocate(r, b) ==
  LET q == free[r]
      i == Min({j \in 1..Len(q) : q[j].at > b.at} \cup {Len(q) + 1})
  IN  /\ free' = [free EXCEPT ![r] = JoinNext(JoinNext(InsertAt(q, i, b), i), i - 1)]
      /\ mhFree' = [mhFree EXCEPT ![r] = @ + b.units]

\* Seeded fault: the first region is used whatever it has.
Bug_AllocVecFirst(n, clear) ==
  /\ memList # <<>>
  /\ LET r == Head(memList)
     IN  IF Allocatable(r, n)
         THEN Allocate(r, n) /\ UNCHANGED <<memList, lost, vectors>>
         ELSE /\ vectors' = IF clear /\ n > 0 THEN "zeroed" ELSE vectors
              /\ UNCHANGED <<memList, free, mhFree, blocks, lost>>

\* The first region with mh_Free, in units, at least the request, in bytes, is the
\* only one tried.  With MEMF_CLEAR the result is cleared even when it is NULL.
AllocVec(n, clear) ==
  LET enough == {i \in 1..Len(memList) : mhFree[memList[i]] >= n}
      r      == memList[Min(enough)]
  IN  \/ enough = {} /\ UNCHANGED vars
      \/ /\ enough # {} /\ Allocatable(r, n)
         /\ Allocate(r, n)
         /\ UNCHANGED <<memList, lost, vectors>>
      \/ /\ enough # {} /\ ~Allocatable(r, n)
         /\ vectors' = IF clear /\ n > 0 THEN "zeroed" ELSE vectors
         /\ UNCHANGED <<memList, free, mhFree, blocks, lost>>

\* The region FreeVec takes the block to belong to; its address is that of the
\* memory behind the chunk header.
Found(b) == {i \in 1..Len(memList) :
               LET r == memList[i] IN Lower(r) <= b.at + 1 /\ b.at + 1 < Upper(r)}

FreeVec(b) ==
  /\ b \in blocks
  /\ blocks' = blocks \ {b}
  /\ IF Found(b) # {}
     THEN Deallocate(memList[Min(Found(b))], b) /\ UNCHANGED lost
     ELSE lost' = lost \cup {b} /\ UNCHANGED <<free, mhFree>>
  /\ UNCHANGED <<memList, vectors>>

Next ==
  \/ \E r \in Region : AddMemList(r)
  \/ \E n \in Request, clear \in BOOLEAN : AllocVec(n, clear)
  \/ \E b \in blocks : FreeVec(b)

Spec == Init /\ [][Next]_vars
---------------------------------------------------------------------------
TypeOK ==
  /\ memList \in Seq(Region)
  /\ free \in [Region -> Seq(Chunk)]
  /\ mhFree \in [Region -> Nat]
  /\ blocks \subseteq Chunk
  /\ lost \subseteq Chunk
  /\ vectors \in {"intact", "zeroed"}

Cells(c) == c.at .. (c.at + c.units - 1)

Extent(r) == Lower(r) .. (End(r) - 1)

\* The blocks that lie in a region.
In(r) == {b \in blocks \cup lost : b.at \in Extent(r)}

\* Whatever the order blocks were allocated and freed in, the chunks of a free list
\* stand in the order of their addresses, and no two of them touch: what can be joined
\* has been.  Nothing is lost or handed out twice: the free chunks and the blocks of a
\* region are disjoint and cover it, and mh_Free is the number of units that are free
\* (memory.c Allocate, Deallocate).
FreeListExact ==
  /\ TypeOK
  /\ \A r \in Region : \A i \in 1..(Len(free[r]) - 1) :
       free[r][i].at + free[r][i].units < free[r][i + 1].at
  /\ \A r \in ToSet(memList) :
       LET parts == ToSet(free[r]) \cup In(r)
       IN  /\ \A c, d \in parts : c # d => Cells(c) \cap Cells(d) = {}
           /\ UNION {Cells(c) : c \in parts} = Extent(r)
           /\ mhFree[r] = Cardinality(UNION {Cells(c) : c \in ToSet(free[r])})

\* The blocks are those of an allocator that hands out disjoint parts of the
\* regions it was given; a lost block stays handed out.
H == INSTANCE Heap WITH
       pool   <- UNION {Extent(r) : r \in ToSet(memList)},
       blocks <- blocks \cup lost

HeapSpec == H!Spec

\* AllocVec compares free units with bytes.  As a request never needs more units
\* than it has bytes, from three bytes on, that keeps a request for cleared memory
\* from clearing address 0, unless the free memory of a region is in pieces or all
\* but used up (memory.c:143-149).
OnlyFragmentsClearVectors ==
  [][vectors' # vectors =>
       \E r \in ToSet(memList) : Len(free[r]) > 1 \/ mhFree[r] < 3]_vars
===========================================================================
