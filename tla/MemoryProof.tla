---------------------------- MODULE MemoryProof ----------------------------
(***************************************************************************)
(* Theorems about Memory, for any regions, priorities and requests: the    *)
(* free lists are exact, and the allocator implements Heap.  And about     *)
(* Blocks, for any sizes and alignments: copies and fills do what they     *)
(* should.                                                                 *)
(*                                                                         *)
(* The first part is about lists of chunks in the order of their           *)
(* addresses: what unlinking, splitting, linking and joining do to the     *)
(* order and to the cells the chunks cover.  The invariant then speaks of  *)
(* sets of cells only.                                                     *)
(*                                                                         *)
(* BlocksCorrect follows the phases of a routine: each has an invariant,   *)
(* Moved, Down, Ahead or Filled, which says how far the block has come.    *)
(* The last phase leaves none of it.                                       *)
(***************************************************************************)
EXTENDS Memory, BlockCalls, ExecListTheorems, FiniteSetTheorems, TLAPS

Top(c) == c.at + c.units

\* Chunks in the order of their addresses, of which only those at a place in S may
\* touch the next one.
Ordered(q, S) ==
  \A i, j \in 1..Len(q) :
    i < j => /\ Top(q[i]) <= q[j].at
             /\ Top(q[i]) = q[j].at => j = i + 1 /\ i \in S

\* The cells the chunks of a list cover.
Covered(q) == UNION {Cells(q[i]) : i \in 1..Len(q)}
----------------------------------------------------------------------------
(***************************************************************************)
(* Chunks.                                                                 *)
(***************************************************************************)
\* A chunk has as many cells as it has units, and at least one.
LEMMA ChunkCells ==
  ASSUME NEW c \in Chunk
  PROVE  /\ c.at \in Nat /\ c.units \in Nat \ {0}
         /\ IsFiniteSet(Cells(c)) /\ Cardinality(Cells(c)) = c.units
         /\ c.at \in Cells(c) /\ Top(c) - 1 \in Cells(c)
         /\ \A x : x \in Cells(c) <=> x \in Int /\ c.at <= x /\ x < Top(c)
<1>1. c.at \in Nat /\ c.units \in Nat \ {0}
  BY DEF Chunk
<1>2. c.at \in Int /\ c.at + c.units - 1 \in Int /\ ~ (c.at > c.at + c.units - 1)
  BY <1>1
<1>3. IsFiniteSet(Cells(c)) /\ Cardinality(Cells(c)) = (c.at + c.units - 1) - c.at + 1
  BY <1>2, FS_Interval DEF Cells
<1>4. \A x : x \in Cells(c) <=> x \in Int /\ c.at <= x /\ x < Top(c)
  BY <1>1 DEF Cells, Top
<1> QED
  BY <1>1, <1>3, <1>4 DEF Top

\* Chunks have no cell in common if and only if one ends before the other begins.
LEMMA DisjointCells ==
  ASSUME NEW c \in Chunk, NEW d \in Chunk
  PROVE  Cells(c) \cap Cells(d) = {} <=> Top(c) <= d.at \/ Top(d) <= c.at
<1>1. /\ c.at \in Nat /\ c.units \in Nat \ {0} /\ d.at \in Nat /\ d.units \in Nat \ {0}
      /\ \A x : x \in Cells(c) <=> x \in Int /\ c.at <= x /\ x < Top(c)
      /\ \A x : x \in Cells(d) <=> x \in Int /\ d.at <= x /\ x < Top(d)
  BY ChunkCells
<1>2. ASSUME Top(c) <= d.at \/ Top(d) <= c.at PROVE Cells(c) \cap Cells(d) = {}
  <2> SUFFICES ASSUME NEW x \in Cells(c) \cap Cells(d) PROVE FALSE
    OBVIOUS
  <2>1. x \in Int /\ c.at <= x /\ x < Top(c) /\ d.at <= x /\ x < Top(d)
    BY <1>1
  <2> QED
    BY <1>1, <1>2, <2>1 DEF Top
<1>3. ASSUME ~ (Top(c) <= d.at \/ Top(d) <= c.at) PROVE Cells(c) \cap Cells(d) # {}
  <2>1. d.at < Top(c) /\ c.at < Top(d)
    BY <1>1, <1>3 DEF Top
  <2>2. CASE c.at <= d.at
    <3>1. d.at \in Cells(c) /\ d.at \in Cells(d)
      BY <1>1, <2>1, <2>2 DEF Top
    <3> QED
      BY <3>1
  <2>3. CASE d.at <= c.at
    <3>1. c.at \in Cells(c) /\ c.at \in Cells(d)
      BY <1>1, <2>1, <2>3 DEF Top
    <3> QED
      BY <3>1
  <2> QED
    BY <1>1, <2>2, <2>3
<1> QED
  BY <1>2, <1>3

\* The chunks of a list.
LEMMA ListChunks ==
  ASSUME NEW q \in Seq(Chunk)
  PROVE  /\ Len(q) \in Nat /\ DOMAIN q = 1..Len(q)
         /\ \A i \in 1..Len(q) : /\ q[i] \in Chunk
                                 /\ q[i].at \in Nat /\ q[i].units \in Nat \ {0}
                                 /\ Top(q[i]) \in Nat /\ q[i].at < Top(q[i])
         /\ \A x : x \in Covered(q) <=> \E i \in 1..Len(q) : x \in Cells(q[i])
<1>1. Len(q) \in Nat /\ DOMAIN q = 1..Len(q) /\ \A i \in 1..Len(q) : q[i] \in Chunk
  BY LenProperties, ElementOfSeq
<1>2. ASSUME NEW i \in 1..Len(q)
      PROVE  /\ q[i].at \in Nat /\ q[i].units \in Nat \ {0}
             /\ Top(q[i]) \in Nat /\ q[i].at < Top(q[i])
  <2>1. q[i].at \in Nat /\ q[i].units \in Nat \ {0}
    BY <1>1, ChunkCells
  <2> QED
    BY <2>1 DEF Top
<1>3. \A x : x \in Covered(q) <=> \E i \in 1..Len(q) : x \in Cells(q[i])
  BY DEF Covered
<1> QED
  BY <1>1, <1>2, <1>3

\* In an ordered list no two chunks share a cell.
LEMMA OrderedDisjoint ==
  ASSUME NEW q \in Seq(Chunk), NEW S, Ordered(q, S),
         NEW i \in 1..Len(q), NEW j \in 1..Len(q), i # j
  PROVE  Cells(q[i]) \cap Cells(q[j]) = {}
<1>1. q[i] \in Chunk /\ q[j] \in Chunk /\ (i < j \/ j < i)
  BY ListChunks
<1>2. Top(q[i]) <= q[j].at \/ Top(q[j]) <= q[i].at
  BY <1>1 DEF Ordered
<1> QED
  BY <1>1, <1>2, DisjointCells

\* An exact fit is unlinked.
LEMMA RemoveChunk ==
  ASSUME NEW q \in Seq(Chunk), Ordered(q, {}), NEW k \in 1..Len(q)
  PROVE  /\ RemoveAt(q, k) \in Seq(Chunk) /\ Ordered(RemoveAt(q, k), {})
         /\ Covered(RemoveAt(q, k)) = Covered(q) \ Cells(q[k])
<1> DEFINE e == RemoveAt(q, k)
<1>1. e \in Seq(Chunk) /\ Len(e) = Len(q) - 1
  BY RemoveAtPlace
<1>2. \A i \in 1..(Len(q) - 1) : e[i] = IF i < k THEN q[i] ELSE q[i + 1]
  BY RemoveAtPlace
<1> HIDE DEF e
<1>3. Len(q) \in Nat /\ k \in Nat /\ 1 <= k /\ k <= Len(q)
  BY ListChunks
<1>4. ASSUME NEW i \in 1..(Len(q) - 1)
      PROVE  \E j \in 1..Len(q) : j # k /\ j = (IF i < k THEN i ELSE i + 1) /\ e[i] = q[j]
  <2>1. (IF i < k THEN i ELSE i + 1) \in 1..Len(q) /\ (IF i < k THEN i ELSE i + 1) # k
    BY <1>3
  <2> QED
    BY <1>2, <2>1
<1>5. Ordered(e, {})
  <2>1. ASSUME NEW i \in 1..(Len(q) - 1), NEW j \in 1..(Len(q) - 1), i < j
        PROVE  Top(e[i]) <= e[j].at /\ Top(e[i]) # e[j].at
    <3>1. PICK a \in 1..Len(q) : a = (IF i < k THEN i ELSE i + 1) /\ e[i] = q[a]
      BY <1>4
    <3>2. PICK b \in 1..Len(q) : b = (IF j < k THEN j ELSE j + 1) /\ e[j] = q[b]
      BY <1>4
    <3>3. a < b
      BY <1>3, <2>1, <3>1, <3>2
    <3> QED
      BY <3>1, <3>2, <3>3 DEF Ordered
  <2> QED
    BY <1>1, <2>1 DEF Ordered
<1>6. Covered(e) = Covered(q) \ Cells(q[k])
  <2>1. ASSUME NEW x \in Covered(e) PROVE x \in Covered(q) \ Cells(q[k])
    <3>1. PICK i \in 1..(Len(q) - 1) : x \in Cells(e[i])
      BY <1>1, <2>1 DEF Covered
    <3>2. PICK j \in 1..Len(q) : j # k /\ x \in Cells(q[j])
      BY <1>4, <3>1
    <3>3. Cells(q[j]) \cap Cells(q[k]) = {}
      BY <3>2, OrderedDisjoint
    <3> QED
      BY <3>2, <3>3 DEF Covered
  <2>2. ASSUME NEW x \in Covered(q) \ Cells(q[k]) PROVE x \in Covered(e)
    <3>1. PICK j \in 1..Len(q) : x \in Cells(q[j])
      BY <2>2 DEF Covered
    <3>2. j # k
      BY <2>2, <3>1
    <3>3. \E i \in 1..(Len(q) - 1) : e[i] = q[j]
      <4>1. CASE j < k
        <5>1. j \in 1..(Len(q) - 1)
          BY <1>3, <4>1
        <5> QED
          BY <1>2, <4>1, <5>1
      <4>2. CASE j > k
        <5>1. j - 1 \in 1..(Len(q) - 1) /\ ~ (j - 1 < k) /\ (j - 1) + 1 = j
          BY <1>3, <4>2
        <5>2. e[j - 1] = q[j]
          BY <1>2, <5>1
        <5> QED
          BY <5>1, <5>2
      <4> QED
        BY <1>3, <3>2, <4>1, <4>2
    <3> QED
      BY <1>1, <3>1, <3>3 DEF Covered
  <2> QED
    BY <2>1, <2>2
<1> QED
  BY <1>1, <1>5, <1>6 DEF e

\* What Allocate leaves of a larger chunk, and what it hands out.
Split(q, k, u) == [q EXCEPT ![k].units = @ - u]
Back(c, u)     == [at |-> c.at + c.units - u, units |-> u]

\* A larger chunk is split, and its tail handed out.
LEMMA SplitChunk ==
  ASSUME NEW q \in Seq(Chunk), Ordered(q, {}), NEW k \in 1..Len(q),
         NEW u \in Nat \ {0}, u < q[k].units
  PROVE  /\ Split(q, k, u) \in Seq(Chunk) /\ Ordered(Split(q, k, u), {})
         /\ Back(q[k], u) \in Chunk /\ Cells(Back(q[k], u)) \subseteq Cells(q[k])
         /\ Covered(Split(q, k, u)) = Covered(q) \ Cells(Back(q[k], u))
<1> DEFINE e == Split(q, k, u)
           b == Back(q[k], u)
<1>1. Len(q) \in Nat /\ DOMAIN q = 1..Len(q) /\ q[k] \in Chunk
      /\ q[k].at \in Nat /\ q[k].units \in Nat \ {0}
  BY ListChunks
<1> DEFINE c == [q[k] EXCEPT !.units = @ - u]
<1>2. c \in Chunk /\ c.at = q[k].at /\ c.units = q[k].units - u
  BY <1>1 DEF Chunk
<1>3. e = [q EXCEPT ![k] = c]
  BY DEF Split
<1>4. b \in Chunk /\ b.at = q[k].at + q[k].units - u /\ b.units = u
  BY <1>1 DEF Chunk, Back
<1> HIDE DEF b, c, e
<1>5. /\ e \in Seq(Chunk) /\ Len(e) = Len(q)
      /\ \A i \in 1..Len(q) : e[i] = IF i = k THEN c ELSE q[i]
  <2>1. [q EXCEPT ![k] = c] \in Seq(Chunk) /\ Len([q EXCEPT ![k] = c]) = Len(q)
    BY <1>2, ExceptSeq
  <2>2. \A i \in 1..Len(q) : [q EXCEPT ![k] = c][i] = IF i = k THEN c ELSE q[i]
    BY <1>1
  <2> QED
    BY <1>3, <2>1, <2>2
<1>6. Top(c) = b.at /\ Top(b) = Top(q[k]) /\ Top(c) < Top(q[k])
  <2>1. Top(c) = q[k].at + (q[k].units - u) /\ Top(b) = (q[k].at + q[k].units - u) + u
    BY <1>2, <1>4 DEF Top
  <2>2. Top(q[k]) = q[k].at + q[k].units
    BY DEF Top
  <2> QED
    BY <1>1, <1>4, <2>1, <2>2
<1>7. /\ \A x : x \in Cells(q[k]) <=> x \in Cells(c) \/ x \in Cells(b)
      /\ Cells(c) \cap Cells(b) = {}
  <2>1. /\ \A x : x \in Cells(q[k]) <=> x \in Int /\ q[k].at <= x /\ x < Top(q[k])
        /\ \A x : x \in Cells(c) <=> x \in Int /\ c.at <= x /\ x < Top(c)
        /\ \A x : x \in Cells(b) <=> x \in Int /\ b.at <= x /\ x < Top(b)
    BY <1>1, <1>2, <1>4, ChunkCells
  <2>2. \A x \in Int : (q[k].at <= x /\ x < Top(q[k])) <=>
                         (c.at <= x /\ x < Top(c)) \/ (b.at <= x /\ x < Top(b))
    BY <1>1, <1>2, <1>4 DEF Top
  <2>3. Cells(c) \cap Cells(b) = {}
    BY <1>2, <1>4, <1>6, DisjointCells, ChunkCells DEF Top
  <2> QED
    BY <2>1, <2>2, <2>3
<1>8. Ordered(e, {})
  <2>1. ASSUME NEW i \in 1..Len(q), NEW j \in 1..Len(q), i < j
        PROVE  Top(e[i]) <= e[j].at /\ Top(e[i]) # e[j].at
    <3>1. Top(q[i]) \in Nat /\ q[j].at \in Nat /\ Top(q[i]) <= q[j].at /\ Top(q[i]) # q[j].at
      BY <2>1, ListChunks DEF Ordered
    <3>2. e[j].at = q[j].at
      BY <1>2, <1>5
    <3>3. Top(e[i]) = Top(q[i]) \/ (i = k /\ Top(e[i]) = Top(c))
      BY <1>5
    <3>4. Top(c) \in Int /\ Top(q[k]) \in Int
      BY <1>1, <1>2 DEF Top
    <3> QED
      BY <1>6, <3>1, <3>2, <3>3, <3>4
  <2> QED
    BY <1>5, <2>1 DEF Ordered
<1>9. Covered(e) = Covered(q) \ Cells(b)
  <2>1. ASSUME NEW x \in Covered(e) PROVE x \in Covered(q) \ Cells(b)
    <3>1. PICK i \in 1..Len(q) : x \in Cells(e[i])
      BY <1>5, <2>1 DEF Covered
    <3>2. CASE i = k
      BY <1>5, <1>7, <3>1, <3>2 DEF Covered
    <3>3. CASE i # k
      <4>1. x \in Cells(q[i]) /\ Cells(q[i]) \cap Cells(q[k]) = {}
        BY <1>5, <3>1, <3>3, OrderedDisjoint
      <4> QED
        BY <1>7, <4>1 DEF Covered
    <3> QED
      BY <3>2, <3>3
  <2>2. ASSUME NEW x \in Covered(q) \ Cells(b) PROVE x \in Covered(e)
    <3>1. PICK i \in 1..Len(q) : x \in Cells(q[i])
      BY <2>2 DEF Covered
    <3>2. x \in Cells(e[i])
      BY <1>5, <1>7, <2>2, <3>1
    <3> QED
      BY <1>5, <3>2 DEF Covered
  <2> QED
    BY <2>1, <2>2
<1> QED
  BY <1>4, <1>5, <1>7, <1>8, <1>9 DEF b, e

\* A block is linked in front of the first chunk of a higher address.
LEMMA InsertChunk ==
  ASSUME NEW q \in Seq(Chunk), Ordered(q, {}), NEW b \in Chunk,
         Cells(b) \cap Covered(q) = {},
         NEW k, k = Min({j \in 1..Len(q) : q[j].at > b.at} \cup {Len(q) + 1})
  PROVE  /\ k \in 1..(Len(q) + 1)
         /\ InsertAt(q, k, b) \in Seq(Chunk) /\ Ordered(InsertAt(q, k, b), {k - 1, k})
         /\ Covered(InsertAt(q, k, b)) = Covered(q) \cup Cells(b)
<1> DEFINE P == {j \in 1..Len(q) : q[j].at > b.at} \cup {Len(q) + 1}
           e == InsertAt(q, k, b)
<1>1. Len(q) \in Nat
  BY ListChunks
<1>2. k \in P /\ \A y \in P : k <= y
  <2>1. P \in SUBSET Nat /\ P # {}
    BY <1>1
  <2> QED
    BY <2>1, MinIsLeast
<1>3. k \in Nat /\ 1 <= k /\ k <= Len(q) + 1
  BY <1>1, <1>2
<1>4. b.at \in Nat /\ b.units \in Nat \ {0} /\ Top(b) \in Nat /\ b.at < Top(b)
  BY ChunkCells DEF Top
<1>5. ASSUME NEW j \in 1..Len(q)
      PROVE  IF j < k THEN Top(q[j]) <= b.at ELSE Top(b) <= q[j].at
  <2>1. q[j] \in Chunk /\ q[j].at \in Nat /\ Top(q[j]) \in Nat /\ q[j].at < Top(q[j])
    BY ListChunks
  <2>2. Cells(q[j]) \cap Cells(b) = {}
    BY DEF Covered
  <2>3. Top(q[j]) <= b.at \/ Top(b) <= q[j].at
    BY <2>1, <2>2, DisjointCells
  <2>4. CASE j < k
    <3>1. ~ (q[j].at > b.at)
      <4> SUFFICES ASSUME q[j].at > b.at PROVE FALSE
        OBVIOUS
      <4>1. j \in P
        OBVIOUS
      <4> HIDE DEF P
      <4>2. k <= j
        BY <1>2, <4>1
      <4> QED
        BY <1>1, <1>3, <2>4, <4>2
    <3> QED
      BY <1>4, <2>1, <2>3, <2>4, <3>1
  <2>5. CASE ~ (j < k)
    <3>1. k \in 1..Len(q) /\ q[k].at > b.at
      BY <1>1, <1>2, <1>3, <2>5
    <3>2. q[k].at \in Nat /\ Top(q[k]) \in Nat /\ q[k].at < Top(q[k])
      BY <3>1, ListChunks
    <3>3. j = k \/ Top(q[k]) <= q[j].at
      BY <1>3, <2>5, <3>1 DEF Ordered
    <3> QED
      BY <1>4, <2>1, <2>3, <2>5, <3>1, <3>2, <3>3
  <2> QED
    BY <2>4, <2>5
<1> HIDE DEF P
<1>6. e \in Seq(Chunk) /\ Len(e) = Len(q) + 1
  BY <1>1, <1>3, InsertAtPlace
<1>7. \A i \in 1..(Len(q) + 1) : e[i] = IF i < k THEN q[i] ELSE IF i = k THEN b ELSE q[i - 1]
  <2>1. k \in 1..(Len(q) + 1)
    BY <1>1, <1>3
  <2> QED
    BY <2>1, InsertAtPlace
<1> HIDE DEF e
<1>8. Ordered(e, {k - 1, k})
  <2>1. ASSUME NEW i \in 1..(Len(q) + 1), NEW j \in 1..(Len(q) + 1), i < j
        PROVE  /\ Top(e[i]) <= e[j].at
               /\ Top(e[i]) = e[j].at => j = i + 1 /\ i \in {k - 1, k}
    <3>1. CASE i = k
      <4>1. j - 1 \in 1..Len(q) /\ ~ (j - 1 < k) /\ e[i] = b /\ e[j] = q[j - 1]
        BY <1>1, <1>3, <1>7, <2>1, <3>1
      <4>2. Top(b) <= q[j - 1].at /\ q[j - 1].at \in Nat
        BY <1>5, <4>1, ListChunks
      <4>3. ASSUME Top(b) = q[j - 1].at PROVE j = i + 1
        <5>1. CASE j - 1 = k
          BY <1>1, <1>3, <3>1, <5>1
        <5>2. CASE j - 1 > k
          <6>1. k \in 1..Len(q) /\ k < j - 1
            BY <1>1, <1>3, <4>1, <5>2
          <6>2. Top(b) <= q[k].at /\ Top(q[k]) <= q[j - 1].at
            BY <1>3, <1>5, <4>1, <6>1 DEF Ordered
          <6>3. q[k].at \in Nat /\ Top(q[k]) \in Nat /\ q[k].at < Top(q[k])
            BY <6>1, ListChunks
          <6> QED
            BY <1>4, <4>2, <4>3, <6>2, <6>3
        <5> QED
          BY <1>1, <1>3, <4>1, <5>1, <5>2
      <4> QED
        BY <3>1, <4>1, <4>2, <4>3
    <3>2. CASE j = k
      <4>1. i \in 1..Len(q) /\ i < k /\ e[i] = q[i] /\ e[j] = b
        BY <1>1, <1>3, <1>7, <2>1, <3>2
      <4>2. Top(q[i]) <= b.at /\ Top(q[i]) \in Nat
        BY <1>5, <4>1, ListChunks
      <4>3. ASSUME Top(q[i]) = b.at PROVE i = k - 1
        <5>1. CASE i < k - 1
          <6>1. k - 1 \in 1..Len(q) /\ i < k - 1 /\ k - 1 < k
            BY <1>1, <1>3, <4>1, <5>1
          <6>2. Top(q[i]) <= q[k - 1].at /\ Top(q[k - 1]) <= b.at
            BY <1>5, <4>1, <6>1 DEF Ordered
          <6>3. q[k - 1].at \in Nat /\ Top(q[k - 1]) \in Nat /\ q[k - 1].at < Top(q[k - 1])
            BY <6>1, ListChunks
          <6> QED
            BY <1>4, <4>2, <4>3, <6>2, <6>3
        <5> QED
          BY <1>1, <1>3, <4>1, <5>1
      <4> QED
        BY <1>3, <3>2, <4>1, <4>2, <4>3
    <3>3. CASE i # k /\ j # k
      <4> DEFINE a == IF i < k THEN i ELSE i - 1
                 d == IF j < k THEN j ELSE j - 1
      <4>1. e[i] = q[a] /\ e[j] = q[d]
        BY <1>1, <1>3, <1>7, <2>1, <3>3
      <4>2. a \in 1..Len(q) /\ d \in 1..Len(q)
        BY <1>1, <1>3, <2>1, <3>3
      <4>3. CASE a < d
        BY <4>1, <4>2, <4>3 DEF Ordered
      <4> QED
        BY <1>1, <1>3, <2>1, <3>3, <4>3
    <3> QED
      BY <3>1, <3>2, <3>3
  <2> QED
    BY <1>6, <2>1 DEF Ordered
<1>9. Covered(e) = Covered(q) \cup Cells(b)
  <2>1. ASSUME NEW x \in Covered(e) PROVE x \in Covered(q) \cup Cells(b)
    <3>1. PICK i \in 1..(Len(q) + 1) : x \in Cells(e[i])
      BY <1>6, <2>1 DEF Covered
    <3>2. CASE i = k
      BY <1>7, <3>1, <3>2
    <3>3. CASE i < k
      <4>1. i \in 1..Len(q) /\ e[i] = q[i]
        BY <1>1, <1>3, <1>7, <3>3
      <4> QED
        BY <3>1, <4>1 DEF Covered
    <3>4. CASE i > k
      <4>1. i - 1 \in 1..Len(q) /\ e[i] = q[i - 1]
        BY <1>1, <1>3, <1>7, <3>4
      <4> QED
        BY <3>1, <4>1 DEF Covered
    <3> QED
      BY <1>1, <1>3, <3>2, <3>3, <3>4
  <2>2. Cells(b) \subseteq Covered(e)
    <3>1. k \in 1..(Len(q) + 1) /\ e[k] = b
      BY <1>1, <1>3, <1>7
    <3> QED
      BY <1>6, <3>1 DEF Covered
  <2>3. ASSUME NEW x \in Covered(q) PROVE x \in Covered(e)
    <3>1. PICK i \in 1..Len(q) : x \in Cells(q[i])
      BY <2>3 DEF Covered
    <3>2. CASE i < k
      <4>1. i \in 1..(Len(q) + 1) /\ e[i] = q[i]
        BY <1>1, <1>3, <1>7, <3>2
      <4> QED
        BY <1>6, <3>1, <4>1 DEF Covered
    <3>3. CASE ~ (i < k)
      <4>1. i + 1 \in 1..(Len(q) + 1) /\ ~ (i + 1 < k) /\ i + 1 # k /\ (i + 1) - 1 = i
        BY <1>1, <1>3, <3>3
      <4>2. e[i + 1] = q[i]
        BY <1>7, <4>1
      <4> QED
        BY <1>6, <3>1, <4>1, <4>2 DEF Covered
    <3> QED
      BY <3>2, <3>3
  <2> QED
    BY <2>1, <2>2, <2>3
<1> QED
  BY <1>1, <1>3, <1>6, <1>8, <1>9 DEF e

\* Two chunks that touch, made one, cover what they covered.
LEMMA Joined ==
  ASSUME NEW c \in Chunk, NEW d \in Chunk, Top(c) = d.at,
         NEW j, j = [c EXCEPT !.units = @ + d.units]
  PROVE  /\ j \in Chunk /\ j.at = c.at /\ Top(j) = Top(d)
         /\ \A x : x \in Cells(j) <=> x \in Cells(c) \/ x \in Cells(d)
<1>1. /\ c.at \in Nat /\ c.units \in Nat \ {0} /\ d.at \in Nat /\ d.units \in Nat \ {0}
      /\ c.at + c.units = d.at
  BY ChunkCells DEF Top
<1>2. j \in Chunk /\ j.at = c.at /\ j.units = c.units + d.units
  BY <1>1 DEF Chunk
<1>3. Top(j) = Top(d)
  BY <1>1, <1>2 DEF Top
<1>4. /\ \A x : x \in Cells(j) <=> x \in Int /\ j.at <= x /\ x < Top(j)
      /\ \A x : x \in Cells(c) <=> x \in Int /\ c.at <= x /\ x < Top(c)
      /\ \A x : x \in Cells(d) <=> x \in Int /\ d.at <= x /\ x < Top(d)
  BY <1>2, ChunkCells
<1>5. \A x \in Int : (j.at <= x /\ x < Top(j)) <=>
                       (c.at <= x /\ x < Top(c)) \/ (d.at <= x /\ x < Top(d))
  <2>1. Top(c) = d.at /\ Top(d) = d.at + d.units
    BY DEF Top
  <2> QED
    BY <1>1, <1>2, <1>3, <2>1
<1> QED
  BY <1>2, <1>3, <1>4, <1>5

\* If the chunk at a touches the next one they become one.
LEMMA JoinChunks ==
  ASSUME NEW e \in Seq(Chunk), NEW S \in SUBSET Int, Ordered(e, S),
         NEW a \in Int, \A i \in S : i <= a
  PROVE  /\ JoinNext(e, a) \in Seq(Chunk) /\ Ordered(JoinNext(e, a), S \ {a})
         /\ Covered(JoinNext(e, a)) = Covered(e)
<1>1. Len(e) \in Nat
  BY ListChunks
<1>2. CASE ~ (a \in 1..(Len(e) - 1) /\ Top(e[a]) = e[a + 1].at)
  <2>1. JoinNext(e, a) = e
    BY <1>2 DEF JoinNext, Top
  <2>2. Ordered(e, S \ {a})
    <3>1. ASSUME NEW i \in 1..Len(e), NEW j \in 1..Len(e), i < j
          PROVE  /\ Top(e[i]) <= e[j].at
                 /\ Top(e[i]) = e[j].at => j = i + 1 /\ i \in S \ {a}
      <4>1. Top(e[i]) <= e[j].at /\ (Top(e[i]) = e[j].at => j = i + 1 /\ i \in S)
        BY <3>1 DEF Ordered
      <4>2. Top(e[i]) = e[j].at => i # a
        BY <1>1, <1>2, <3>1, <4>1
      <4> QED
        BY <4>1, <4>2
    <3> QED
      BY <3>1 DEF Ordered
  <2> QED
    BY <2>1, <2>2
<1>3. CASE a \in 1..(Len(e) - 1) /\ Top(e[a]) = e[a + 1].at
  <2> DEFINE c == [e[a] EXCEPT !.units = @ + e[a + 1].units]
             m == [e EXCEPT ![a] = c]
             f == RemoveAt(m, a + 1)
  <2>1. JoinNext(e, a) = f
    BY <1>3 DEF JoinNext, Top
  <2>2. a \in 1..Len(e) /\ a + 1 \in 1..Len(e) /\ a < a + 1
    BY <1>1, <1>3
  <2>3. /\ e[a] \in Chunk /\ e[a].at \in Nat /\ e[a].units \in Nat \ {0}
        /\ e[a + 1] \in Chunk /\ e[a + 1].at \in Nat /\ e[a + 1].units \in Nat \ {0}
    BY <2>2, ListChunks
  <2>4. /\ c \in Chunk /\ c.at = e[a].at /\ Top(c) = Top(e[a + 1])
        /\ \A x : x \in Cells(c) <=> x \in Cells(e[a]) \/ x \in Cells(e[a + 1])
    BY <1>3, <2>3, Joined
  <2> HIDE DEF c
  <2>5. m \in Seq(Chunk) /\ Len(m) = Len(e)
    BY <2>2, <2>4, ExceptSeq
  <2>6. \A i \in 1..Len(e) : m[i] = IF i = a THEN c ELSE e[i]
    BY ListChunks
  <2> HIDE DEF m
  <2>7. f \in Seq(Chunk) /\ Len(f) = Len(e) - 1
    BY <2>2, <2>5, RemoveAtPlace
  <2>8. \A i \in 1..(Len(e) - 1) : f[i] = IF i < a + 1 THEN m[i] ELSE m[i + 1]
    BY <2>2, <2>5, RemoveAtPlace
  <2> HIDE DEF f
  <2>9. /\ f[a] = c
        /\ \A i \in 1..(Len(e) - 1) : /\ i < a => f[i] = e[i]
                                      /\ i > a => f[i] = e[i + 1]
    <3>1. a \in 1..(Len(e) - 1) /\ f[a] = m[a] /\ m[a] = c
      BY <1>1, <1>3, <2>2, <2>6, <2>8
    <3>2. ASSUME NEW i \in 1..(Len(e) - 1), i < a PROVE f[i] = e[i]
      BY <1>1, <2>2, <2>6, <2>8, <3>2
    <3>3. ASSUME NEW i \in 1..(Len(e) - 1), i > a PROVE f[i] = e[i + 1]
      BY <1>1, <2>2, <2>6, <2>8, <3>3
    <3> QED
      BY <3>1, <3>2, <3>3
  <2>10. Ordered(f, S \ {a})
    <3>1. ASSUME NEW i \in 1..(Len(e) - 1), NEW j \in 1..(Len(e) - 1), i < j
          PROVE  /\ Top(f[i]) <= f[j].at
                 /\ Top(f[i]) = f[j].at => j = i + 1 /\ i \in S \ {a}
      <4>1. /\ i \in 1..Len(e) /\ j \in 1..Len(e)
            /\ i + 1 \in 1..Len(e) /\ j + 1 \in 1..Len(e)
            /\ i + 1 < j + 1 /\ i < j + 1 /\ j + 1 # i + 1
        BY <1>1, <3>1
      <4>2. CASE j <= a
        <5>1. f[i] = e[i] /\ f[j].at = e[j].at /\ i # a
          BY <2>2, <2>4, <2>9, <3>1, <4>2
        <5> QED
          BY <3>1, <4>1, <5>1 DEF Ordered
      <4>3. CASE i < a /\ a < j
        <5>1. f[i] = e[i] /\ f[j] = e[j + 1]
          BY <2>9, <4>3
        <5>2. Top(e[i]) <= e[j + 1].at /\ Top(e[i]) # e[j + 1].at
          BY <3>1, <4>1 DEF Ordered
        <5> QED
          BY <5>1, <5>2
      <4>4. CASE i = a
        <5>1. Top(f[i]) = Top(e[i + 1]) /\ f[j] = e[j + 1]
          BY <2>9, <2>4, <3>1, <4>4
        <5>2. i + 1 \notin S
          BY <4>4
        <5>3. Top(e[i + 1]) <= e[j + 1].at /\ Top(e[i + 1]) # e[j + 1].at
          BY <4>1, <5>2 DEF Ordered
        <5> QED
          BY <5>1, <5>3
      <4>5. CASE i > a
        <5>1. f[i] = e[i + 1] /\ f[j] = e[j + 1]
          BY <2>9, <3>1, <4>5
        <5>2. i + 1 \notin S
          BY <4>5
        <5>3. Top(e[i + 1]) <= e[j + 1].at /\ Top(e[i + 1]) # e[j + 1].at
          BY <4>1, <5>2 DEF Ordered
        <5> QED
          BY <5>1, <5>3
      <4> QED
        BY <3>1, <4>2, <4>3, <4>4, <4>5
    <3> QED
      BY <2>7, <3>1 DEF Ordered
  <2>11. Covered(f) = Covered(e)
    <3>1. ASSUME NEW x \in Covered(f) PROVE x \in Covered(e)
      <4>1. PICK i \in 1..(Len(e) - 1) : x \in Cells(f[i])
        BY <2>7, <3>1 DEF Covered
      <4>2. i \in 1..Len(e) /\ i + 1 \in 1..Len(e)
        BY <1>1
      <4>3. CASE i = a
        BY <2>2, <2>9, <2>4, <4>1, <4>3 DEF Covered
      <4>4. CASE i # a
        <5>1. f[i] = e[i] \/ f[i] = e[i + 1]
          BY <2>9, <4>4
        <5> QED
          BY <4>1, <4>2, <5>1 DEF Covered
      <4> QED
        BY <4>3, <4>4
    <3>2. ASSUME NEW x \in Covered(e) PROVE x \in Covered(f)
      <4>1. PICK i \in 1..Len(e) : x \in Cells(e[i])
        BY <3>2 DEF Covered
      <4>2. CASE i = a \/ i = a + 1
        <5>1. x \in Cells(f[a]) /\ a \in 1..(Len(e) - 1)
          BY <1>3, <2>9, <2>4, <4>1, <4>2
        <5> QED
          BY <2>7, <5>1 DEF Covered
      <4>3. CASE i < a
        <5>1. i \in 1..(Len(e) - 1)
          BY <1>1, <2>2, <4>3
        <5>2. f[i] = e[i]
          BY <2>9, <4>3, <5>1
        <5> QED
          BY <2>7, <4>1, <5>1, <5>2 DEF Covered
      <4>4. CASE i > a + 1
        <5>1. i - 1 \in 1..(Len(e) - 1) /\ i - 1 > a /\ (i - 1) + 1 = i
          BY <1>1, <2>2, <4>4
        <5>2. f[i - 1] = e[i]
          BY <2>9, <5>1
        <5> QED
          BY <2>7, <4>1, <5>1, <5>2 DEF Covered
      <4> QED
        BY <1>1, <4>2, <4>3, <4>4
    <3> QED
      BY <3>1, <3>2
  <2> QED
    BY <2>1, <2>7, <2>10, <2>11
<1> QED
  BY <1>2, <1>3

\* Deallocate adds the cells of the block, and joins what can be joined.
LEMMA FreeChunk ==
  ASSUME NEW q \in Seq(Chunk), Ordered(q, {}), NEW b \in Chunk,
         Cells(b) \cap Covered(q) = {},
         NEW k, k = Min({j \in 1..Len(q) : q[j].at > b.at} \cup {Len(q) + 1}),
         NEW e, e = JoinNext(JoinNext(InsertAt(q, k, b), k), k - 1)
  PROVE  /\ e \in Seq(Chunk) /\ Ordered(e, {})
         /\ Covered(e) = Covered(q) \cup Cells(b)
<1> DEFINE m == InsertAt(q, k, b)
           n == JoinNext(m, k)
<1>1. k \in 1..(Len(q) + 1) /\ m \in Seq(Chunk)
  BY InsertChunk
<1>2. Ordered(m, {k - 1, k})
  BY InsertChunk
<1>3. Covered(m) = Covered(q) \cup Cells(b)
  BY InsertChunk
<1>4. k \in Int /\ k - 1 \in Int
  BY <1>1, ListChunks
<1> HIDE DEF m
<1>5. n \in Seq(Chunk) /\ Ordered(n, {k - 1}) /\ Covered(n) = Covered(m)
  <2>1. {k - 1, k} \in SUBSET Int /\ \A i \in {k - 1, k} : i <= k
    BY <1>4
  <2>2. n \in Seq(Chunk) /\ Ordered(n, {k - 1, k} \ {k}) /\ Covered(n) = Covered(m)
    BY <1>1, <1>2, <1>4, <2>1, JoinChunks
  <2>3. {k - 1, k} \ {k} = {k - 1}
    <3>1. k - 1 # k
      BY <1>4
    <3> QED
      BY <3>1, Zenon
  <2> HIDE DEF n
  <2> QED
    BY <2>2, <2>3, Zenon
<1> HIDE DEF n
<1>6. /\ JoinNext(n, k - 1) \in Seq(Chunk) /\ Ordered(JoinNext(n, k - 1), {})
      /\ Covered(JoinNext(n, k - 1)) = Covered(n)
  <2>1. {k - 1} \in SUBSET Int /\ \A i \in {k - 1} : i <= k - 1
    BY <1>4
  <2>2. /\ JoinNext(n, k - 1) \in Seq(Chunk)
        /\ Ordered(JoinNext(n, k - 1), {k - 1} \ {k - 1})
        /\ Covered(JoinNext(n, k - 1)) = Covered(n)
    BY <1>4, <1>5, <2>1, JoinChunks
  <2>3. {k - 1} \ {k - 1} = {}
    OBVIOUS
  <2> QED
    BY <2>2, <2>3, Zenon
<1> QED
  BY <1>3, <1>5, <1>6 DEF m, n
----------------------------------------------------------------------------
(***************************************************************************)
(* The invariant.                                                          *)
(***************************************************************************)
\* The blocks that are not free: FreeVec loses those it finds no region for.
Handed == blocks \cup lost

UsedIn(r) == UNION {Cells(b) : b \in In(r)}

\* The free list of a region covers what its blocks do not.
Sound(r) ==
  /\ Covered(free[r]) \cap UsedIn(r) = {}
  /\ Covered(free[r]) \cup UsedIn(r) = Extent(r)
  /\ mhFree[r] = Cardinality(Covered(free[r]))

\* Each block lies in one region, and no two overlap.
Apart ==
  /\ blocks \cap lost = {}
  /\ \A b, d \in Handed : b # d => Cells(b) \cap Cells(d) = {}
  /\ \A b \in Handed : \E r \in ToSet(memList) : Cells(b) \subseteq Extent(r)

MemInv ==
  /\ TypeOK
  /\ Apart
  /\ \A r \in Region : Ordered(free[r], {})
  /\ \A r \in ToSet(memList) : Sound(r)

\* Regions do not overlap, their headers included.
LEMMA Regions ==
  ASSUME NEW r \in Region
  PROVE  /\ Lower(r) \in Nat /\ FirstUnits(r) \in Nat \ {0} /\ End(r) \in Nat
         /\ IsFiniteSet(Extent(r))
         /\ \A x : x \in Extent(r) <=> x \in Int /\ Lower(r) <= x /\ x < End(r)
         /\ \A s \in Region, x \in Int :
              /\ Base[r] <= x /\ x < End(r) /\ Base[s] <= x /\ x < End(s)
              => r = s
         /\ Base[r] \in Nat /\ Lower(r) = Base[r] + HeaderUnits
<1>1. Base[r] \in Nat /\ Size[r] \in Nat \ 0..HeaderUnits /\ HeaderUnits = 6
  BY MemAssumption DEF HeaderUnits
<1>2. Size[r] \in Nat /\ Size[r] > 6
  BY <1>1
<1>3. Lower(r) = Base[r] + 6 /\ FirstUnits(r) = Size[r] - 1
  BY <1>1 DEF Lower, FirstUnits
<1>4. /\ Lower(r) \in Nat /\ FirstUnits(r) \in Nat \ {0}
      /\ End(r) = Lower(r) + FirstUnits(r) /\ End(r) \in Nat
  BY <1>1, <1>2, <1>3 DEF End
<1>5. IsFiniteSet(Extent(r))
  <2>1. Lower(r) \in Int /\ End(r) - 1 \in Int
    BY <1>4
  <2> QED
    BY <2>1, FS_Interval DEF Extent
<1>6. \A x : x \in Extent(r) <=> x \in Int /\ Lower(r) <= x /\ x < End(r)
  BY <1>4 DEF Extent
<1>7. ASSUME NEW s \in Region, NEW x \in Int,
             Base[r] <= x, x < End(r), Base[s] <= x, x < End(s), r # s
      PROVE  FALSE
  <2>1. Base[s] \in Nat /\ Size[s] \in Nat
    BY MemAssumption
  <2>2. End(s) \in Int
    BY <2>1 DEF End, Lower, FirstUnits, HeaderUnits
  <2>3. End(r) <= Base[s] \/ End(s) <= Base[r]
    BY <1>7, MemAssumption
  <2> QED
    BY <1>1, <1>4, <1>7, <2>1, <2>2, <2>3
<1> QED
  BY <1>1, <1>3, <1>4, <1>5, <1>6, <1>7

LEMMA ExtentsDisjoint ==
  ASSUME NEW r \in Region, NEW s \in Region, NEW x, x \in Extent(r), x \in Extent(s)
  PROVE  r = s
<1>1. /\ x \in Int /\ Lower(r) <= x /\ x < End(r) /\ Lower(s) <= x /\ x < End(s)
      /\ Base[r] \in Nat /\ Base[s] \in Nat
      /\ Lower(r) = Base[r] + HeaderUnits /\ Lower(s) = Base[s] + HeaderUnits
  BY Regions
<1>2. Base[r] <= x /\ Base[s] <= x
  BY <1>1 DEF HeaderUnits
<1> QED
  BY <1>1, <1>2, Regions

\* The region of a block is the one its first cell is in.
LEMMA BlockRegion ==
  ASSUME MemInv, NEW b \in Handed
  PROVE  /\ b \in Chunk /\ b.at \in Cells(b)
         /\ \E r \in ToSet(memList) : b \in In(r)
         /\ \A r \in Region :
              IF b.at \in Extent(r) THEN r \in ToSet(memList) /\ Cells(b) \subseteq Extent(r)
                                   ELSE Cells(b) \cap Extent(r) = {}
<1>1. b \in Chunk /\ b.at \in Cells(b)
  BY ChunkCells DEF MemInv, TypeOK, Handed
<1>2. PICK s \in ToSet(memList) : Cells(b) \subseteq Extent(s)
  BY DEF MemInv, Apart
<1>3. s \in Region
  BY LenProperties, ElementOfSeq DEF MemInv, TypeOK, ToSet
<1>4. ASSUME NEW r \in Region, b.at \in Extent(r) PROVE r = s
  BY <1>1, <1>2, <1>3, <1>4, ExtentsDisjoint
<1>5. ASSUME NEW r \in Region, r # s PROVE Cells(b) \cap Extent(r) = {}
  BY <1>2, <1>3, <1>5, ExtentsDisjoint
<1>6. b \in In(s)
  BY <1>1, <1>2 DEF In, Handed
<1> QED
  BY <1>1, <1>2, <1>3, <1>4, <1>5, <1>6

\* At the beginning there is no memory.
LEMMA MemInit == Init => MemInv
<1> SUFFICES ASSUME Init PROVE MemInv
  OBVIOUS
<1>1. <<>> \in Seq(Region) /\ <<>> \in Seq(Chunk) /\ Len(<<>>) = 0 /\ ToSet(<<>>) = {}
  BY DEF ToSet
<1>2. Ordered(<<>>, {})
  BY <1>1 DEF Ordered
<1>3. TypeOK
  BY <1>1 DEF Init, TypeOK
<1>4. Apart
  BY DEF Init, Apart, Handed
<1>5. \A r \in Region : Ordered(free[r], {})
  BY <1>2 DEF Init
<1>6. ToSet(memList) = {}
  BY <1>1 DEF Init
<1> QED
  BY <1>3, <1>4, <1>5, <1>6 DEF MemInv

\* A new region is one free chunk.
LEMMA AddMemListKeeps ==
  ASSUME MemInv, NEW r \in Region, AddMemList(r)
  PROVE  MemInv' /\ ToSet(memList') = ToSet(memList) \cup {r}
<1> DEFINE c == [at |-> Lower(r), units |-> FirstUnits(r)]
           q == <<c>>
<1>1. c \in Chunk /\ c.at = Lower(r) /\ c.units = FirstUnits(r)
  <2>1. Lower(r) \in Nat /\ FirstUnits(r) \in Nat \ {0}
    BY Regions
  <2> QED
    BY <2>1 DEF Chunk
<1> HIDE DEF c
<1>2. Cells(c) = Extent(r)
  <2>1. Top(c) = End(r)
    BY <1>1 DEF Top, End
  <2>2. \A x : x \in Cells(c) <=> x \in Int /\ Lower(r) <= x /\ x < End(r)
    BY <1>1, <2>1, ChunkCells
  <2> QED
    BY <2>2, Regions
<1>3. q \in Seq(Chunk) /\ Len(q) = 1 /\ q[1] = c
  BY <1>1
<1> HIDE DEF q
<1>4. Ordered(q, {}) /\ Covered(q) = Extent(r) /\ Cardinality(Covered(q)) = FirstUnits(r)
  <2>1. Ordered(q, {})
    BY <1>3 DEF Ordered
  <2>2. Covered(q) = Cells(c)
    BY <1>3 DEF Covered
  <2> QED
    BY <1>1, <1>2, <2>1, <2>2, ChunkCells
<1>5. /\ memList' \in Seq(Region) /\ ToSet(memList') = ToSet(memList) \cup {r}
      /\ r \notin ToSet(memList)
  BY EnqueueMembers DEF AddMemList, MemInv, TypeOK
<1>6. /\ free' = [free EXCEPT ![r] = q] /\ mhFree' = [mhFree EXCEPT ![r] = FirstUnits(r)]
      /\ UNCHANGED <<blocks, lost, vectors>>
  BY DEF AddMemList, q, c
<1>7. TypeOK'
  <2>1. FirstUnits(r) \in Nat
    BY Regions
  <2> QED
    BY <1>3, <1>5, <1>6, <2>1 DEF MemInv, TypeOK
<1>8. Apart'
  BY <1>5, <1>6 DEF MemInv, Apart, Handed
<1>9. \A s \in Region : Ordered(free[s], {})'
  BY <1>4, <1>6 DEF MemInv, TypeOK
<1>10. ASSUME NEW s \in ToSet(memList') PROVE Sound(s)'
  <2>1. In(s)' = In(s)
    BY <1>6 DEF In
  <2>2. CASE s = r
    <3>1. ASSUME NEW b \in In(r) PROVE FALSE
      <4>1. b \in Handed /\ b.at \in Extent(r)
        BY DEF In, Handed
      <4> QED
        BY <1>5, <4>1, BlockRegion
    <3>2. UsedIn(r)' = {}
      BY <2>1, <2>2, <3>1 DEF UsedIn
    <3>3. free'[r] = q /\ mhFree'[r] = FirstUnits(r)
      BY <1>6 DEF MemInv, TypeOK
    <3> QED
      BY <1>4, <2>2, <3>2, <3>3 DEF Sound
  <2>3. CASE s # r
    <3>1. s \in ToSet(memList) /\ s \in Region
      BY <1>5, <2>3, LenProperties, ElementOfSeq DEF MemInv, TypeOK, ToSet
    <3>2. free'[s] = free[s] /\ mhFree'[s] = mhFree[s]
      BY <1>6, <2>3, <3>1 DEF MemInv, TypeOK
    <3>3. UsedIn(s)' = UsedIn(s)
      BY <2>1 DEF UsedIn
    <3> QED
      BY <3>1, <3>2, <3>3 DEF Sound, MemInv
  <2> QED
    BY <2>2, <2>3
<1> QED
  BY <1>5, <1>7, <1>8, <1>9, <1>10 DEF MemInv

\* Allocate takes a block out of one free chunk, whether it fits or is split.
LEMMA AllocateBlock ==
  ASSUME MemInv, NEW r \in Region, NEW n \in Nat, Allocatable(r, n), Allocate(r, n)
  PROVE  \E b \in Chunk, e \in Seq(Chunk) :
           /\ Cells(b) \subseteq Covered(free[r])
           /\ Ordered(e, {}) /\ Covered(e) = Covered(free[r]) \ Cells(b)
           /\ blocks' = blocks \cup {b} /\ free' = [free EXCEPT ![r] = e]
           /\ mhFree' = [mhFree EXCEPT ![r] = @ - b.units] /\ mhFree[r] >= b.units
<1> DEFINE k == Units(n)
           q == free[r]
           i == Min(Fits(q, k))
           b == Back(q[i], k)
<1>1. k \in Nat \ {0}
  BY DEF Units
<1>2. q \in Seq(Chunk) /\ Ordered(q, {})
  BY DEF MemInv, TypeOK
<1>3. mhFree[r] >= k /\ Fits(q, k) # {}
  BY DEF Allocatable
<1>4. i \in 1..Len(q) /\ q[i].units >= k
  <2>1. Fits(q, k) \in SUBSET Nat
    BY DEF Fits
  <2>2. i \in Fits(q, k)
    BY <1>3, <2>1, MinIsLeast
  <2> QED
    BY <2>2 DEF Fits
<1>5. /\ free' = IF q[i].units = k THEN [free EXCEPT ![r] = RemoveAt(@, i)]
                                   ELSE [free EXCEPT ![r][i].units = @ - k]
      /\ blocks' = blocks \cup {b}
      /\ mhFree' = [mhFree EXCEPT ![r] = @ - k]
  BY DEF Allocate, Back
<1>6. b.units = k
  BY DEF Back
<1> HIDE DEF k, i
<1>7. q[i] \in Chunk /\ q[i].at \in Nat /\ q[i].units \in Nat \ {0}
  BY <1>2, <1>4, ListChunks
<1>8. Cells(q[i]) \subseteq Covered(q)
  BY <1>4 DEF Covered
<1>9. CASE q[i].units = k
  <2>1. b = q[i]
    <3>1. q[i].at + q[i].units - k = q[i].at
      BY <1>1, <1>7, <1>9
    <3> QED
      BY <1>7, <1>9, <3>1 DEF Chunk, Back
  <2> DEFINE e == RemoveAt(q, i)
  <2>2. e \in Seq(Chunk) /\ Ordered(e, {}) /\ Covered(e) = Covered(q) \ Cells(q[i])
    BY <1>2, <1>4, RemoveChunk
  <2>3. free' = [free EXCEPT ![r] = e]
    BY <1>5, <1>9
  <2> HIDE DEF b, e
  <2> QED
    BY <1>3, <1>5, <1>6, <1>7, <1>8, <2>1, <2>2, <2>3
<1>10. CASE q[i].units # k
  <2>1. k < q[i].units
    BY <1>1, <1>4, <1>7, <1>10
  <2> DEFINE e == Split(q, i, k)
  <2>2. /\ e \in Seq(Chunk) /\ Ordered(e, {})
        /\ b \in Chunk /\ Cells(b) \subseteq Cells(q[i])
        /\ Covered(e) = Covered(q) \ Cells(b)
    BY <1>1, <1>2, <1>4, <2>1, SplitChunk
  <2>3. free' = [free EXCEPT ![r] = e]
    BY <1>5, <1>10 DEF Split
  <2> HIDE DEF b, e
  <2> QED
    BY <1>3, <1>5, <1>6, <1>8, <2>2, <2>3
<1> QED
  BY <1>9, <1>10

\* What is in a region's free list is in no block.
LEMMA FreeIsFree ==
  ASSUME MemInv, NEW r \in ToSet(memList), NEW x \in Covered(free[r])
  PROVE  /\ x \in Extent(r)
         /\ \A d \in Handed : x \notin Cells(d)
<1>1. r \in Region
  BY LenProperties, ElementOfSeq DEF MemInv, TypeOK, ToSet
<1>2. x \in Extent(r) /\ x \notin UsedIn(r)
  BY DEF MemInv, Sound
<1>3. ASSUME NEW d \in Handed, x \in Cells(d) PROVE FALSE
  <2>1. d.at \in Extent(r)
    BY <1>1, <1>2, <1>3, BlockRegion
  <2>2. d \in In(r)
    BY <2>1 DEF In, Handed
  <2> QED
    BY <1>2, <1>3, <2>2 DEF UsedIn
<1> QED
  BY <1>2, <1>3

\* The new block is apart from the others, and the free list is sound without it.
LEMMA AllocateKeeps ==
  ASSUME MemInv, NEW r \in ToSet(memList), NEW n \in Nat, Allocatable(r, n), Allocate(r, n),
         UNCHANGED <<memList, lost>>, vectors' = vectors
  PROVE  /\ MemInv'
         /\ \E b : /\ Cells(b) \subseteq Extent(r) /\ b \notin Handed
                   /\ \A d \in Handed : Cells(b) \cap Cells(d) = {}
                   /\ Handed' = Handed \cup {b}
<1>1. r \in Region
  BY LenProperties, ElementOfSeq DEF MemInv, TypeOK, ToSet
<1>2. PICK b \in Chunk, e \in Seq(Chunk) :
        /\ Cells(b) \subseteq Covered(free[r])
        /\ Ordered(e, {}) /\ Covered(e) = Covered(free[r]) \ Cells(b)
        /\ blocks' = blocks \cup {b} /\ free' = [free EXCEPT ![r] = e]
        /\ mhFree' = [mhFree EXCEPT ![r] = @ - b.units] /\ mhFree[r] >= b.units
  BY <1>1, AllocateBlock
<1>3. /\ b.units \in Nat /\ b.at \in Cells(b)
      /\ IsFiniteSet(Cells(b)) /\ Cardinality(Cells(b)) = b.units
  BY ChunkCells
<1>4. Cells(b) \subseteq Extent(r) /\ \A d \in Handed : Cells(b) \cap Cells(d) = {}
  BY <1>2, FreeIsFree
<1>5. b \notin Handed
  BY <1>3, <1>4
<1>6. Handed' = Handed \cup {b}
  BY <1>2 DEF Handed
<1>7. TypeOK'
  <2>1. mhFree[r] \in Nat /\ mhFree[r] - b.units \in Nat
    BY <1>1, <1>2, <1>3 DEF MemInv, TypeOK
  <2> QED
    BY <1>1, <1>2, <2>1 DEF MemInv, TypeOK
<1>8. Apart'
  <2>1. blocks' \cap lost' = {}
    BY <1>2, <1>5 DEF MemInv, Apart, Handed
  <2>2. ASSUME NEW d \in Handed', NEW f \in Handed', d # f PROVE Cells(d) \cap Cells(f) = {}
    BY <1>4, <1>6, <2>2 DEF MemInv, Apart
  <2>3. \A d \in Handed' : \E s \in ToSet(memList) : Cells(d) \subseteq Extent(s)
    BY <1>4, <1>6 DEF MemInv, Apart
  <2> QED
    BY <2>1, <2>2, <2>3 DEF Apart
<1>9. \A s \in Region : Ordered(free[s], {})'
  BY <1>1, <1>2 DEF MemInv, TypeOK
<1>10. ASSUME NEW s \in ToSet(memList) PROVE Sound(s)'
  <2>1. s \in Region
    BY LenProperties, ElementOfSeq DEF MemInv, TypeOK, ToSet
  <2>2. Sound(s)
    BY DEF MemInv
  <2>3. CASE s = r
    <3>1. In(r)' = In(r) \cup {b}
      BY <1>3, <1>4, <1>6 DEF In, Handed
    <3>2. UsedIn(r)' = UsedIn(r) \cup Cells(b)
      BY <3>1 DEF UsedIn
    <3>3. free'[r] = e /\ mhFree'[r] = mhFree[r] - b.units
      BY <1>1, <1>2 DEF MemInv, TypeOK
    <3>4. Covered(free[r]) \subseteq Extent(r) /\ IsFiniteSet(Covered(free[r]))
      BY <1>1, <2>2, <2>3, Regions, FS_Subset DEF Sound
    <3>5. Cardinality(Covered(e)) = Cardinality(Covered(free[r])) - b.units
      <4>1. Covered(free[r]) \cap Cells(b) = Cells(b)
        BY <1>2
      <4>2. Cardinality(Covered(free[r]) \ Cells(b)) =
              Cardinality(Covered(free[r])) - Cardinality(Covered(free[r]) \cap Cells(b))
        BY <3>4, FS_Difference
      <4> QED
        BY <1>2, <1>3, <4>1, <4>2
    <3>6. Covered(e) \cap (UsedIn(r) \cup Cells(b)) = {}
      BY <1>2, <2>2, <2>3 DEF Sound
    <3>7. Covered(e) \cup (UsedIn(r) \cup Cells(b)) = Extent(r)
      BY <1>2, <2>2, <2>3 DEF Sound
    <3> QED
      BY <2>2, <2>3, <3>2, <3>3, <3>5, <3>6, <3>7 DEF Sound
  <2>4. CASE s # r
    <3>1. b.at \notin Extent(s)
      BY <1>1, <1>3, <1>4, <2>1, <2>4, ExtentsDisjoint
    <3>2. In(s)' = In(s)
      BY <1>6, <3>1 DEF In, Handed
    <3>3. UsedIn(s)' = UsedIn(s)
      BY <3>2 DEF UsedIn
    <3>4. free'[s] = free[s] /\ mhFree'[s] = mhFree[s]
      BY <1>1, <1>2, <2>1, <2>4 DEF MemInv, TypeOK
    <3> QED
      BY <2>2, <3>3, <3>4 DEF Sound
  <2> QED
    BY <2>3, <2>4
<1> QED
  BY <1>4, <1>5, <1>6, <1>7, <1>8, <1>9, <1>10 DEF MemInv

\* The region FreeVec finds is the one the block lies in.
LEMMA FoundRegion ==
  ASSUME MemInv, NEW b \in blocks, Found(b) # {},
         NEW r, r = memList[Min(Found(b))]
  PROVE  r \in Region /\ r \in ToSet(memList) /\ b \in In(r) /\ Cells(b) \subseteq Extent(r)
<1>1. Len(memList) \in Nat /\ \A i \in 1..Len(memList) : memList[i] \in Region
  BY LenProperties, ElementOfSeq DEF MemInv, TypeOK
<1>2. Min(Found(b)) \in Found(b)
  <2>1. Found(b) \in SUBSET Nat
    BY DEF Found
  <2> QED
    BY <2>1, MinIsLeast
<1>3. Min(Found(b)) \in 1..Len(memList) /\ Lower(r) <= b.at + 1 /\ b.at + 1 < Upper(r)
  BY <1>2 DEF Found
<1>4. r \in Region /\ r \in ToSet(memList)
  BY <1>1, <1>3 DEF ToSet
<1>5. b \in Handed
  BY DEF Handed
<1>6. PICK s \in ToSet(memList) : b \in In(s)
  BY <1>5, BlockRegion
<1>7. s \in Region /\ b.at \in Extent(s)
  BY <1>6, LenProperties, ElementOfSeq DEF MemInv, TypeOK, ToSet, In
<1>8. /\ Base[r] \in Nat /\ Lower(r) = Base[r] + 6 /\ FirstUnits(r) \in Nat
      /\ Base[s] \in Nat /\ Lower(s) = Base[s] + 6
      /\ b.at \in Int /\ Lower(s) <= b.at /\ b.at < End(s)
  BY <1>4, <1>7, Regions DEF HeaderUnits
<1>9. Upper(r) <= End(r) /\ Upper(r) \in Int /\ End(r) \in Int
  <2>1. Size[r] \in Nat
    BY <1>4, MemAssumption
  <2> QED
    BY <1>8, <2>1 DEF Upper, End, FirstUnits
<1>10. Base[r] <= b.at /\ b.at < End(r) /\ Base[s] <= b.at
  BY <1>3, <1>8, <1>9
<1>11. r = s
  BY <1>4, <1>7, <1>8, <1>10, Regions
<1> QED
  BY <1>4, <1>5, <1>6, <1>7, <1>11, BlockRegion

\* A block given back is free, or lost and so still handed out.
LEMMA FreeVecKeeps ==
  ASSUME MemInv, NEW b \in blocks, FreeVec(b)
  PROVE  /\ MemInv' /\ memList' = memList
         /\ Handed' = Handed \/ Handed' = Handed \ {b}
<1>1. /\ blocks' = blocks \ {b} /\ memList' = memList /\ vectors' = vectors
      /\ b \in Handed /\ b \notin lost /\ b \in Chunk
  BY DEF FreeVec, MemInv, TypeOK, Apart, Handed
<1>2. CASE Found(b) = {}
  <2>1. lost' = lost \cup {b} /\ free' = free /\ mhFree' = mhFree
    BY <1>2 DEF FreeVec
  <2>2. Handed' = Handed
    BY <1>1, <2>1 DEF Handed
  <2>3. TypeOK'
    BY <1>1, <2>1 DEF MemInv, TypeOK
  <2>4. blocks' \cap lost' = {}
    BY <1>1, <2>1 DEF MemInv, Apart
  <2>5. Apart'
    BY <1>1, <2>2, <2>4 DEF MemInv, Apart
  <2>6. \A s : In(s)' = In(s)
    BY <2>2 DEF In, Handed
  <2>7. \A s \in ToSet(memList) : Sound(s)'
    BY <2>1, <2>6 DEF MemInv, Sound, UsedIn
  <2>8. \A s \in Region : Ordered(free[s], {})'
    BY <2>1 DEF MemInv
  <2> QED
    BY <1>1, <2>2, <2>3, <2>5, <2>7, <2>8 DEF MemInv
<1>3. CASE Found(b) # {}
  <2>0. PICK r : r = memList[Min(Found(b))]
    OBVIOUS
  <2> DEFINE q == free[r]
             k == Min({j \in 1..Len(q) : q[j].at > b.at} \cup {Len(q) + 1})
             e == JoinNext(JoinNext(InsertAt(q, k, b), k), k - 1)
  <2>1. /\ free' = [free EXCEPT ![r] = e] /\ mhFree' = [mhFree EXCEPT ![r] = @ + b.units]
        /\ lost' = lost
    BY <1>3, <2>0 DEF FreeVec, Deallocate
  <2>2. r \in Region /\ r \in ToSet(memList) /\ b \in In(r) /\ Cells(b) \subseteq Extent(r)
    BY <1>3, <2>0, FoundRegion
  <2>3. q \in Seq(Chunk) /\ Ordered(q, {}) /\ Cells(b) \cap Covered(q) = {}
    BY <1>1, <2>2, FreeIsFree DEF MemInv, TypeOK
  <2> HIDE DEF q
  <2>4. e \in Seq(Chunk) /\ Ordered(e, {}) /\ Covered(e) = Covered(q) \cup Cells(b)
    <3> HIDE DEF k
    <3>1. k = Min({j \in 1..Len(q) : q[j].at > b.at} \cup {Len(q) + 1})
      BY DEF k
    <3>2. e = JoinNext(JoinNext(InsertAt(q, k, b), k), k - 1)
      OBVIOUS
    <3> HIDE DEF e
    <3> QED
      BY <1>1, <2>3, <3>1, <3>2, FreeChunk
  <2> HIDE DEF k, e
  <2>5. b.units \in Nat /\ IsFiniteSet(Cells(b)) /\ Cardinality(Cells(b)) = b.units
    BY <1>1, ChunkCells
  <2>6. Handed' = Handed \ {b}
    BY <1>1, <2>1 DEF Handed
  <2>7. TypeOK'
    BY <1>1, <2>1, <2>2, <2>4, <2>5 DEF MemInv, TypeOK
  <2>8. Apart'
    <3>1. blocks' \cap lost' = {}
      BY <1>1, <2>1 DEF MemInv, Apart
    <3> QED
      BY <1>1, <2>6, <3>1 DEF MemInv, Apart
  <2>9. \A s \in Region : Ordered(free[s], {})'
    BY <2>1, <2>2, <2>4 DEF MemInv, TypeOK
  <2>10. ASSUME NEW s \in ToSet(memList) PROVE Sound(s)'
    <3>1. s \in Region /\ Sound(s)
      BY LenProperties, ElementOfSeq DEF MemInv, TypeOK, ToSet
    <3>2. In(s)' = In(s) \ {b}
      BY <2>6 DEF In, Handed
    <3>3. CASE s = r
      <4>1. UsedIn(r)' = UsedIn(r) \ Cells(b)
        <5>1. ASSUME NEW d \in In(r) \ {b} PROVE Cells(d) \cap Cells(b) = {}
          BY <1>1, <5>1 DEF In, Handed, MemInv, Apart
        <5>2. In(r)' = In(r) \ {b}
          BY <3>2, <3>3
        <5>3. ASSUME NEW x \in UsedIn(r)' PROVE x \in UsedIn(r) \ Cells(b)
          BY <5>1, <5>2 DEF UsedIn
        <5>4. ASSUME NEW x \in UsedIn(r) \ Cells(b) PROVE x \in UsedIn(r)'
          BY <5>2 DEF UsedIn
        <5> QED
          BY <5>3, <5>4
      <4>2. Cells(b) \subseteq UsedIn(r)
        BY <2>2 DEF UsedIn
      <4>3. free'[r] = e /\ mhFree'[r] = mhFree[r] + b.units
        BY <2>1, <2>2 DEF MemInv, TypeOK
      <4>4. /\ Covered(q) \cap UsedIn(r) = {} /\ Covered(q) \cup UsedIn(r) = Extent(r)
            /\ mhFree[r] = Cardinality(Covered(q))
        BY <3>1, <3>3 DEF Sound, q
      <4>5. Cardinality(Covered(e)) = Cardinality(Covered(q)) + b.units
        <5>1. IsFiniteSet(Covered(q))
          <6>1. IsFiniteSet(Extent(r)) /\ Covered(q) \subseteq Extent(r)
            BY <2>2, <4>4, Regions
          <6> QED
            BY <6>1, FS_Subset
        <5>2. Cardinality(Covered(q) \cup Cells(b)) =
                Cardinality(Covered(q)) + Cardinality(Cells(b))
                - Cardinality(Covered(q) \cap Cells(b))
          BY <2>5, <5>1, FS_Union
        <5>3. Cardinality(Covered(q) \cap Cells(b)) = 0
          <6>1. Covered(q) \cap Cells(b) = {}
            BY <2>3
          <6> QED
            BY <6>1, FS_EmptySet
        <5>4. Cardinality(Covered(q)) \in Nat
          BY <5>1, FS_CardinalityType
        <5> QED
          BY <2>4, <2>5, <5>2, <5>3, <5>4
      <4>6. Covered(e) \cap (UsedIn(r) \ Cells(b)) = {}
        BY <2>4, <4>4
      <4>7. Covered(e) \cup (UsedIn(r) \ Cells(b)) = Extent(r)
        BY <2>4, <4>2, <4>4
      <4>8. Sound(r)'
        BY <4>1, <4>3, <4>4, <4>5, <4>6, <4>7 DEF Sound
      <4> QED
        BY <3>3, <4>8
    <3>4. CASE s # r
      <4>1. b \notin In(s)
        BY <2>2, <3>1, <3>4, ExtentsDisjoint DEF In
      <4>2. UsedIn(s)' = UsedIn(s)
        BY <3>2, <4>1 DEF UsedIn
      <4>3. free'[s] = free[s] /\ mhFree'[s] = mhFree[s]
        BY <2>1, <2>2, <3>1, <3>4 DEF MemInv, TypeOK
      <4> QED
        BY <3>1, <4>2, <4>3 DEF Sound
    <3> QED
      BY <3>3, <3>4
  <2> QED
    BY <1>1, <2>6, <2>7, <2>8, <2>9, <2>10 DEF MemInv
<1> QED
  BY <1>2, <1>3

\* The memory the allocator was given.
Pool == UNION {Extent(r) : r \in ToSet(memList)}

\* AddMemList is a Grow of Heap.
LEMMA GrowStep ==
  ASSUME MemInv, NEW r \in Region, AddMemList(r)
  PROVE  MemInv' /\ H!Grow(Pool' \ Pool)
<1>1. MemInv' /\ ToSet(memList') = ToSet(memList) \cup {r}
  BY AddMemListKeeps
<1>2. Pool \subseteq Pool'
  BY <1>1 DEF Pool
<1>3. Pool' = Pool \cup (Pool' \ Pool)
  BY <1>2
<1>4. (blocks \cup lost)' = blocks \cup lost
  BY DEF AddMemList
<1> QED
  BY <1>1, <1>3, <1>4 DEF H!Grow, Pool

\* AllocVec hands out a free part of the pool, or nothing.
LEMMA AllocStep ==
  ASSUME MemInv, NEW n \in Request, NEW clear \in BOOLEAN, AllocVec(n, clear)
  PROVE  /\ MemInv'
         /\ \/ \E b \in (blocks \cup lost)' \ (blocks \cup lost) : H!Alloc(b)
            \/ UNCHANGED <<Pool, blocks \cup lost>>
<1> DEFINE enough == {i \in 1..Len(memList) : mhFree[memList[i]] >= n}
           r == memList[Min(enough)]
<1>1. n \in Nat
  BY MemAssumption
<1>2. CASE UNCHANGED <<memList, free, mhFree, blocks, lost>> /\ vectors' \in {"intact", "zeroed"}
  <2>1. TypeOK'
    BY <1>2 DEF MemInv, TypeOK
  <2>2. Apart'
    BY <1>2 DEF MemInv, Apart, Handed
  <2>3. \A s : Ordered(free[s], {})' <=> Ordered(free[s], {})
    BY <1>2
  <2>4. \A s : Sound(s)' <=> Sound(s)
    BY <1>2 DEF Sound, UsedIn, In
  <2> QED
    BY <1>2, <2>1, <2>2, <2>3, <2>4 DEF MemInv, Pool
<1>3. CASE /\ enough # {} /\ Allocatable(r, n) /\ Allocate(r, n)
           /\ UNCHANGED <<memList, lost, vectors>>
  <2>1. Min(enough) \in 1..Len(memList)
    <3>1. enough \in SUBSET Nat
      BY LenProperties DEF MemInv, TypeOK
    <3>2. Min(enough) \in enough
      BY <1>3, <3>1, MinIsLeast
    <3> QED
      BY <3>2
  <2>2. PICK t \in ToSet(memList) : t = r
    <3>1. DOMAIN memList = 1..Len(memList)
      BY LenProperties DEF MemInv, TypeOK
    <3> HIDE DEF enough
    <3> QED
      BY <2>1, <3>1 DEF ToSet
  <2>3. Allocatable(t, n) /\ Allocate(t, n) /\ UNCHANGED <<memList, lost>> /\ vectors' = vectors
    BY <1>3, <2>2
  <2> HIDE DEF enough, r
  <2>4. /\ MemInv'
        /\ \E b : /\ Cells(b) \subseteq Extent(t) /\ b \notin Handed
                  /\ \A d \in Handed : Cells(b) \cap Cells(d) = {}
                  /\ Handed' = Handed \cup {b}
    BY <1>1, <2>3, AllocateKeeps
  <2>5. PICK b : /\ Cells(b) \subseteq Extent(t) /\ b \notin Handed
                 /\ \A d \in Handed : Cells(b) \cap Cells(d) = {}
                 /\ Handed' = Handed \cup {b}
    BY <2>4
  <2>6. Cells(b) \subseteq Pool /\ Pool' = Pool
    BY <2>3, <2>5 DEF Pool
  <2>7. \A d : H!Cells(d) = Cells(d)
    BY DEF H!Cells, Cells
  <2>8. H!Cells(b) \subseteq Pool \ H!Used
    BY <2>5, <2>6, <2>7 DEF H!Used, Handed
  <2>9. H!Alloc(b)
    BY <2>5, <2>6, <2>8 DEF H!Alloc, Handed, Pool
  <2> QED
    BY <2>4, <2>5, <2>9 DEF Handed
<1>4. CASE UNCHANGED vars
  BY <1>2, <1>4 DEF vars, MemInv, TypeOK
<1>5. CASE /\ vectors' = (IF clear /\ n > 0 THEN "zeroed" ELSE vectors)
           /\ UNCHANGED <<memList, free, mhFree, blocks, lost>>
  BY <1>2, <1>5 DEF MemInv, TypeOK
<1> QED
  BY <1>3, <1>4, <1>5 DEF AllocVec

\* FreeVec takes a block back, or loses it.
LEMMA FreeStep ==
  ASSUME MemInv, NEW b \in blocks, FreeVec(b)
  PROVE  /\ MemInv'
         /\ H!Free(b) \/ UNCHANGED <<Pool, blocks \cup lost>>
<1>1. MemInv' /\ memList' = memList /\ (Handed' = Handed \/ Handed' = Handed \ {b})
  BY FreeVecKeeps
<1>2. Pool' = Pool
  BY <1>1 DEF Pool
<1> QED
  BY <1>1, <1>2 DEF H!Free, Handed, Pool

LEMMA MemStep ==
  ASSUME MemInv, [Next]_vars
  PROVE  MemInv' /\ [H!Next]_<<Pool, blocks \cup lost>>
<1>1. ASSUME NEW r \in Region, AddMemList(r)
      PROVE  MemInv' /\ H!Next
  BY <1>1, GrowStep DEF H!Next, Pool
<1>2. ASSUME NEW n \in Request, NEW clear \in BOOLEAN, AllocVec(n, clear)
      PROVE  MemInv' /\ [H!Next]_<<Pool, blocks \cup lost>>
  <2>1. CASE \E b \in (blocks \cup lost)' \ (blocks \cup lost) : H!Alloc(b)
    BY <1>2, <2>1, AllocStep DEF H!Next
  <2>2. CASE UNCHANGED <<Pool, blocks \cup lost>>
    BY <1>2, <2>2, AllocStep
  <2> QED
    BY <1>2, <2>1, <2>2, AllocStep
<1>3. ASSUME NEW b \in blocks, FreeVec(b)
      PROVE  MemInv' /\ [H!Next]_<<Pool, blocks \cup lost>>
  <2>1. b \in blocks \cup lost
    OBVIOUS
  <2>2. H!Free(b) => H!Next
    BY <2>1 DEF H!Next
  <2> QED
    BY <1>3, <2>2, FreeStep
<1>4. CASE UNCHANGED vars
  <2>1. UNCHANGED <<memList, free, mhFree, blocks, lost, vectors>>
    BY <1>4 DEF vars
  <2>2. TypeOK' /\ Apart'
    BY <2>1 DEF MemInv, TypeOK, Apart, Handed
  <2>3. \A s : (Ordered(free[s], {})' <=> Ordered(free[s], {})) /\ (Sound(s)' <=> Sound(s))
    BY <2>1 DEF Sound, UsedIn, In
  <2> QED
    BY <2>1, <2>2, <2>3 DEF MemInv, Pool
<1> QED
  BY <1>1, <1>2, <1>3, <1>4 DEF Next

\* The invariant says what FreeListExact says of the lists, with indices for chunks.
LEMMA MemInvExact == MemInv => FreeListExact
<1> SUFFICES ASSUME MemInv PROVE FreeListExact
  OBVIOUS
<1>1. ASSUME NEW r \in Region, NEW i \in 1..(Len(free[r]) - 1)
      PROVE  free[r][i].at + free[r][i].units < free[r][i + 1].at
  <2>1. free[r] \in Seq(Chunk) /\ Ordered(free[r], {})
    BY DEF MemInv, TypeOK
  <2>2. Len(free[r]) \in Nat
    BY <2>1, ListChunks
  <2>3. i \in 1..Len(free[r]) /\ i + 1 \in 1..Len(free[r]) /\ i < i + 1
    BY <2>2
  <2>4. Top(free[r][i]) \in Nat /\ free[r][i + 1].at \in Nat
    BY <2>1, <2>3, ListChunks
  <2>5. Top(free[r][i]) <= free[r][i + 1].at /\ Top(free[r][i]) # free[r][i + 1].at
    BY <2>1, <2>3 DEF Ordered
  <2>6. Top(free[r][i]) < free[r][i + 1].at
    BY <2>4, <2>5
  <2> QED
    BY <2>6 DEF Top
<1>2. ASSUME NEW r \in ToSet(memList)
      PROVE  LET parts == ToSet(free[r]) \cup In(r)
             IN  /\ \A c, d \in parts : c # d => Cells(c) \cap Cells(d) = {}
                 /\ UNION {Cells(c) : c \in parts} = Extent(r)
                 /\ mhFree[r] = Cardinality(UNION {Cells(c) : c \in ToSet(free[r])})
  <2> DEFINE q == free[r]
             parts == ToSet(q) \cup In(r)
  <2>1. r \in Region
    BY LenProperties, ElementOfSeq DEF MemInv, TypeOK, ToSet
  <2>2. q \in Seq(Chunk) /\ Ordered(q, {}) /\ Sound(r)
    BY <2>1 DEF MemInv, TypeOK
  <2>3. \A c : c \in ToSet(q) <=> \E i \in 1..Len(q) : c = q[i]
    BY DEF ToSet
  <2>4. UNION {Cells(c) : c \in ToSet(q)} = Covered(q)
    BY <2>3 DEF Covered
  <2>5. UNION {Cells(c) : c \in parts} = Covered(q) \cup UsedIn(r)
    BY <2>4 DEF UsedIn
  <2>6. \A c \in ToSet(q) : Cells(c) \subseteq Covered(q)
    BY <2>4
  <2>7. \A c \in In(r) : Cells(c) \subseteq UsedIn(r) /\ c \in Handed
    BY DEF UsedIn, In, Handed
  <2>8. ASSUME NEW c \in parts, NEW d \in parts, c # d PROVE Cells(c) \cap Cells(d) = {}
    <3>1. CASE c \in ToSet(q) /\ d \in ToSet(q)
      <4>1. PICK i \in 1..Len(q) : c = q[i]
        BY <2>3, <3>1
      <4>2. PICK j \in 1..Len(q) : d = q[j]
        BY <2>3, <3>1
      <4>3. i # j
        BY <2>8, <4>1, <4>2
      <4> QED
        BY <2>2, <4>1, <4>2, <4>3, OrderedDisjoint
    <3>2. CASE c \in In(r) /\ d \in In(r)
      BY <2>7, <2>8, <3>2 DEF MemInv, Apart
    <3>3. CASE ~ (c \in ToSet(q) <=> d \in ToSet(q))
      BY <2>2, <2>6, <2>7, <3>3 DEF Sound
    <3> QED
      BY <3>1, <3>2, <3>3
  <2> QED
    BY <2>2, <2>4, <2>5, <2>8 DEF Sound
<1> QED
  BY <1>1, <1>2 DEF FreeListExact, MemInv

\* Whatever the order blocks were allocated and freed in, free lists are in order with
\* all that touches joined, free chunks and blocks are disjoint and cover their region,
\* and mh_Free counts the free units (memory.c Allocate, Deallocate).
THEOREM FreeListExactAlways == Spec => []FreeListExact
<1>1. MemInv /\ [Next]_vars => MemInv'
  BY MemStep
<1> QED
  BY <1>1, MemInit, MemInvExact, PTL DEF Spec

\* AddMemList, AllocVec and FreeVec implement an allocator: what is handed out lies in
\* the regions and overlaps nothing that is handed out, the blocks FreeVec cannot place
\* included (memory.c).
THEOREM MemoryImplementsHeap == Spec => HeapSpec
<1>1. Init => H!Init
  BY DEF Init, H!Init, ToSet
<1>2. MemInv /\ [Next]_vars => MemInv'
  BY MemStep
<1>3. MemInv /\ [Next]_vars =>
        [H!Next]_<<UNION {Extent(r) : r \in ToSet(memList)}, blocks \cup lost>>
  BY MemStep DEF Pool
<1> QED
  BY <1>1, <1>2, <1>3, MemInit, PTL DEF Spec, HeapSpec, H!Spec

\* A request never needs more units than it has bytes, from three bytes on.
LEMMA UnitsBound ==
  ASSUME NEW n \in Nat \ {0}
  PROVE  Units(n) \in Nat /\ (Units(n) <= n \/ Units(n) <= 3)
<1> DEFINE d == (n + 8 + 7) \div 8
<1>1. d \in Nat /\ 8 * d <= n + 15
  OBVIOUS
<1>2. Units(n) = d + 1
  BY DEF Units
<1> HIDE DEF d
<1> QED
  BY <1>1, <1>2

\* A region whose free memory is one chunk serves every request it is asked for.
LEMMA WholeServes ==
  ASSUME MemInv, NEW r \in ToSet(memList), NEW n \in Nat \ {0},
         mhFree[r] >= n, mhFree[r] >= 3, ~ (Len(free[r]) > 1)
  PROVE  Allocatable(r, n)
<1> DEFINE q == free[r]
<1>1. r \in Region
  BY LenProperties, ElementOfSeq DEF MemInv, TypeOK, ToSet
<1>2. q \in Seq(Chunk) /\ Len(q) \in Nat /\ mhFree[r] \in Nat /\ mhFree[r] = Cardinality(Covered(q))
  BY <1>1, LenProperties DEF MemInv, TypeOK, Sound
<1>3. Units(n) \in Nat /\ Units(n) <= mhFree[r]
  BY <1>2, UnitsBound
<1>4. Len(q) = 1
  <2>1. ASSUME Len(q) = 0 PROVE FALSE
    <3>1. Covered(q) = {}
      BY <2>1 DEF Covered
    <3>2. Cardinality({}) = 0
      BY FS_EmptySet
    <3> QED
      BY <1>2, <3>1, <3>2
  <2>2. Len(q) \in Nat /\ ~ (Len(q) > 1)
    BY <1>2
  <2>3. \A l \in Nat : l # 0 /\ ~ (l > 1) => l = 1
    OBVIOUS
  <2>4. Len(q) # 0
    BY <2>1
  <2> HIDE DEF q
  <2> QED
    BY <2>2, <2>3, <2>4
<1>5. q[1] \in Chunk /\ Covered(q) = Cells(q[1])
  BY <1>2, <1>4, ListChunks DEF Covered
<1>6. q[1].units = mhFree[r]
  BY <1>2, <1>5, ChunkCells
<1>7. 1 \in Fits(q, Units(n))
  BY <1>3, <1>4, <1>6 DEF Fits
<1> QED
  BY <1>3, <1>7 DEF Allocatable

\* Whatever the regions and requests are, MEMF_CLEAR clears address 0 only when the
\* free memory of a region is in pieces or all but used up (memory.c:143-149).
THEOREM OnlyFragmentsClearVectorsAlways == Spec => OnlyFragmentsClearVectors
<1> DEFINE Broken == \E r \in ToSet(memList) : Len(free[r]) > 1 \/ mhFree[r] < 3
<1>1. ASSUME MemInv, Next, vectors' # vectors PROVE Broken
  <2>1. PICK n \in Request, clear \in BOOLEAN : AllocVec(n, clear)
    BY <1>1 DEF Next, AddMemList, FreeVec
  <2> DEFINE enough == {i \in 1..Len(memList) : mhFree[memList[i]] >= n}
  <2>2. enough # {} /\ ~ Allocatable(memList[Min(enough)], n) /\ n > 0
    BY <1>1, <2>1 DEF AllocVec, vars
  <2>3. n \in Nat \ {0}
    <3>1. n \in Nat
      BY MemAssumption
    <3> QED
      BY <2>2, <3>1
  <2>4. Min(enough) \in 1..Len(memList) /\ mhFree[memList[Min(enough)]] >= n
    <3>1. enough \in SUBSET Nat
      BY <1>1, LenProperties DEF MemInv, TypeOK
    <3>2. Min(enough) \in enough
      BY <2>2, <3>1, MinIsLeast
    <3> QED
      BY <3>2
  <2> HIDE DEF enough
  <2>5. PICK r \in ToSet(memList) : r = memList[Min(enough)]
    <3>1. DOMAIN memList = 1..Len(memList)
      BY <1>1, LenProperties DEF MemInv, TypeOK
    <3> QED
      BY <2>4, <3>1 DEF ToSet
  <2>6. mhFree[r] \in Nat
    BY <1>1, <2>5, LenProperties, ElementOfSeq DEF MemInv, TypeOK, ToSet
  <2> QED
    BY <1>1, <2>2, <2>3, <2>4, <2>5, <2>6, WholeServes
<1>2. MemInv /\ [Next]_vars => [vectors' # vectors => Broken]_vars
  BY <1>1 DEF vars
<1>3. MemInv /\ [Next]_vars => MemInv'
  BY MemStep
<1> QED
  BY <1>2, <1>3, MemInit, PTL DEF Spec, OnlyFragmentsClearVectors
----------------------------------------------------------------------------
(***************************************************************************)
(* Copies.  Whatever a phase does, it has copied the first j bytes of the  *)
(* block before it and more of them after it.                              *)
(***************************************************************************)
\* The first j bytes of the block have been copied, and nothing else has changed.
Copied(m, mem, d, s, j) ==
  \A a \in DOMAIN mem : m[a] = IF a \in d..d + j - 1 THEN mem[s + (a - d)] ELSE mem[a]

\* Both blocks are in the memory, and a copy from the first byte on does not write over what
\* it still has to read.
Room(mem, d, s, n) ==
  /\ mem \in [DOMAIN mem -> Int] /\ DOMAIN mem \subseteq Int
  /\ d \in Int /\ s \in Int /\ n \in Nat
  /\ d..d + n - 1 \subseteq DOMAIN mem /\ s..s + n - 1 \subseteq DOMAIN mem
  /\ d <= s \/ s + n <= d

Moved(x, mem, d, s, n, j) ==
  /\ x \in Runs(mem) /\ j \in 0..n
  /\ x.d = d + j /\ x.s = s + j /\ x.n = n - j
  /\ Copied(x.mem, mem, d, s, j)

\* What is still to be copied is as it was.
LEMMA SourceKept ==
  ASSUME NEW mem, NEW d, NEW s, NEW n, Room(mem, d, s, n),
         NEW j \in 0..n, NEW m, Copied(m, mem, d, s, j), NEW a \in s + j..s + n - 1
  PROVE  a \in DOMAIN mem /\ m[a] = mem[a]
<1>1. a \in s..s + n - 1 /\ a \notin d..d + j - 1
  BY DEF Room
<1>2. a \in DOMAIN mem
  BY <1>1 DEF Room
<1> QED
  BY <1>1, <1>2 DEF Copied

Put(x, m, d, s, n) == [x EXCEPT !.mem = m, !.d = d, !.s = s, !.n = n]
IsPut(y, mem, m, d, s, n) == y \in Runs(mem) /\ y.mem = m /\ y.d = d /\ y.s = s /\ y.n = n

LEMMA PutIs ==
  ASSUME NEW mem, NEW x \in Runs(mem), NEW m \in [DOMAIN mem -> Int], NEW d \in Int, NEW s \in Int, NEW n \in Int
  PROVE  IsPut(Put(x, m, d, s, n), mem, m, d, s, n)
<1> DEFINE M == [DOMAIN mem -> Int]
           Words == [1..4 -> Int]
<1> m \in M
  OBVIOUS
<1>1. x \in [mem : M, d : Int, s : Int, n : Int, w : Words, left : 0..4]
  BY DEF Runs
<1> HIDE DEF M, Words
<1>2. Put(x, m, d, s, n) \in [mem : M, d : Int, s : Int, n : Int, w : Words, left : 0..4]
  BY <1>1 DEF Put
<1>3. /\ Put(x, m, d, s, n).mem = m /\ Put(x, m, d, s, n).d = d /\ Put(x, m, d, s, n).s = s
      /\ Put(x, m, d, s, n).n = n
  BY <1>1 DEF Put
<1> QED
  BY <1>2, <1>3 DEF IsPut, Runs, M, Words

\* k more bytes.
LEMMA MoveOnce ==
  ASSUME NEW mem, NEW d, NEW s, NEW n, Room(mem, d, s, n),
         NEW x, NEW j, Moved(x, mem, d, s, n, j), NEW k \in Nat, j + k <= n
  PROVE  Moved(Move(x, k), mem, d, s, n, j + k)
<1> DEFINE m == [a \in DOMAIN x.mem |-> IF a \in x.d..x.d + k - 1 THEN x.mem[x.s + (a - x.d)] ELSE x.mem[a]]
<1>1. /\ x \in Runs(mem) /\ x.mem \in [DOMAIN mem -> Int] /\ DOMAIN x.mem = DOMAIN mem
      /\ x.d = d + j /\ x.s = s + j /\ x.n = n - j /\ j \in 0..n /\ Copied(x.mem, mem, d, s, j)
      /\ d \in Int /\ s \in Int /\ n \in Nat
  BY DEF Moved, Runs, Room
<1>2. ASSUME NEW a \in DOMAIN mem
      PROVE  m[a] = IF a \in d..d + (j + k) - 1 THEN mem[s + (a - d)] ELSE mem[a]
  <2>1. CASE a \in x.d..x.d + k - 1
    <3>1. x.s + (a - x.d) = s + (a - d) /\ s + (a - d) \in s + j..s + n - 1 /\ a \in d..d + (j + k) - 1
      BY <1>1, <2>1
    <3>2. x.mem[s + (a - d)] = mem[s + (a - d)]
      BY <1>1, <3>1, SourceKept
    <3> QED
      BY <1>1, <2>1, <3>1, <3>2
  <2>2. CASE a \notin x.d..x.d + k - 1
    <3>1. a \in Int
      BY DEF Room
    <3>2. a \in d..d + (j + k) - 1 <=> a \in d..d + j - 1
      BY <1>1, <2>2, <3>1
    <3> QED
      BY <1>1, <2>2, <3>2 DEF Copied
  <2> QED
    BY <2>1, <2>2
<1>3. ASSUME NEW a \in DOMAIN mem PROVE m[a] \in Int
  <2>1. CASE a \in d..d + (j + k) - 1
    <3>1. s + (a - d) \in s..s + n - 1
      BY <1>1, <2>1
    <3>2. s + (a - d) \in DOMAIN mem
      BY <3>1 DEF Room
    <3> QED
      BY <1>2, <2>1, <3>2 DEF Room
  <2>2. CASE a \notin d..d + (j + k) - 1
    BY <1>2, <2>2 DEF Room
  <2> QED
    BY <2>1, <2>2
<1>4. m \in [DOMAIN mem -> Int]
  BY <1>1, <1>3
<1>5. Move(x, k) = Put(x, m, x.d + k, x.s + k, x.n - k)
  BY DEF Move, Put
<1> HIDE DEF m
<1>6. IsPut(Move(x, k), mem, m, x.d + k, x.s + k, x.n - k)
  <2>1. x.d + k \in Int /\ x.s + k \in Int /\ x.n - k \in Int
    BY <1>1
  <2> QED
    BY <1>1, <1>4, <1>5, <2>1, PutIs, Zenon
<1>7. Copied(m, mem, d, s, j + k)
  BY <1>2 DEF Copied
<1> QED
  BY <1>1, <1>6, <1>7 DEF Moved, IsPut

\* A run on a memory is one on all memories with its addresses.
LEMMA SameRuns ==
  ASSUME NEW mem, NEW x \in Runs(mem)
  PROVE  DOMAIN x.mem = DOMAIN mem /\ Runs(x.mem) = Runs(mem)
<1>1. x.mem \in [DOMAIN mem -> Int]
  BY DEF Runs
<1> QED
  BY <1>1 DEF Runs

\* And again.
LEMMA MoveTimesIs ==
  ASSUME NEW mem, NEW d, NEW s, NEW n, Room(mem, d, s, n),
         NEW x, NEW j, Moved(x, mem, d, s, n, j), NEW k \in Nat, NEW times \in Nat, j + k * times <= n
  PROVE  Moved(MoveTimes(x, k, times), mem, d, s, n, j + k * times)
<1> DEFINE round == [y \in Runs(x.mem) |-> Move(y, k)]
           S == {t \in Nat : j + k * t <= n => Moved(Rounds(round, x, t), mem, d, s, n, j + k * t)}
<1>1. Runs(x.mem) = Runs(mem) /\ j \in Nat /\ n \in Nat
  BY SameRuns DEF Moved, Room
<1>2. 0 \in S
  <2>1. j + k * 0 = j /\ Rounds(round, x, 0) = x
    BY <1>1, RoundsStep
  <2> QED
    BY <2>1
<1>3. ASSUME NEW t \in Nat, t \in S PROVE t + 1 \in S
  <2> SUFFICES ASSUME j + k * (t + 1) <= n
               PROVE  Moved(Rounds(round, x, t + 1), mem, d, s, n, j + k * (t + 1))
    OBVIOUS
  <2> DEFINE y == Rounds(round, x, t)
  <2>1. k * (t + 1) = k * t + k /\ k * t \in Nat
    OBVIOUS
  <2>2. j + k * t <= n /\ j + k * t \in Nat /\ (j + k * t) + k = j + k * (t + 1) /\ (j + k * t) + k <= n
    BY <1>1, <2>1
  <2>3. Moved(y, mem, d, s, n, j + k * t)
    BY <1>3, <2>2
  <2>4. Rounds(round, x, t + 1) = round[y]
    BY RoundsStep
  <2> HIDE DEF y
  <2>5. round[y] = Move(y, k)
    BY <1>1, <2>3 DEF Moved
  <2>6. Moved(Move(y, k), mem, d, s, n, (j + k * t) + k)
    BY <2>2, <2>3, MoveOnce
  <2> QED
    BY <2>2, <2>4, <2>5, <2>6
<1> HIDE DEF S
<1>4. times \in S
  BY <1>2, <1>3, AllNats
<1>5. Moved(Rounds(round, x, times), mem, d, s, n, j + k * times)
  BY <1>4 DEF S
<1> HIDE DEF round
<1>6. CASE times = 0
  <2>1. k * 0 = 0 /\ j + 0 = j
    BY <1>1
  <2> QED
    BY <1>6, <2>1 DEF MoveTimes
<1>7. CASE times # 0
  <2>1. ~(times <= 0)
    BY <1>7
  <2> QED
    BY <1>5, <2>1 DEF MoveTimes, round
<1> QED
  BY <1>6, <1>7

\* At first nothing has been copied.
LEMMA RunIs ==
  ASSUME NEW mem, NEW d, NEW s, NEW n, Room(mem, d, s, n)
  PROVE  Moved(Run(mem, d, s, n), mem, d, s, n, 0)
<1>1. Run(mem, d, s, n) \in Runs(mem)
  BY DEF Run, Runs, Room
<1>2. Copied(mem, mem, d, s, 0)
  BY DEF Copied, Room
<1> QED
  BY <1>1, <1>2 DEF Moved, Run, Room

\* Words, bulk, words and bytes are all there is, if there is enough to align the
\* destination.
LEMMA AlignedIs ==
  ASSUME NEW mem, NEW d, NEW s, NEW n, Room(mem, d, s, n),
         NEW x, NEW j, Moved(x, mem, d, s, n, j), n - j >= 28
  PROVE  Copied(Aligned(x).mem, mem, d, s, n)
<1> DEFINE t1 == ((32 - (x.d % 32)) % 32) \div 4
           up == AlignUp(x)
           j1 == j + 4 * t1
           bulk == MoveTimes(up, 32, up.n \div 32)
           j2 == j1 + 32 * ((n - j1) \div 32)
           words == MoveTimes(bulk, 4, bulk.n \div 4)
           j3 == j2 + 4 * ((n - j2) \div 4)
           end == MoveTimes(words, 1, words.n)
<1>1. j \in 0..n /\ n \in Nat /\ d \in Int /\ x.d \in Int
  BY DEF Moved, Room
<1>2. t1 \in Nat /\ 4 * t1 <= 28 /\ j1 \in 0..n
  BY <1>1
<1>3. Moved(up, mem, d, s, n, j1)
  BY <1>1, <1>2, MoveTimesIs DEF AlignUp
<1> HIDE DEF t1, up
<1>4. up.n = n - j1
  BY <1>3 DEF Moved
<1> HIDE DEF j1
<1>5. (n - j1) \div 32 \in Nat /\ j2 \in 0..n
  BY <1>1, <1>2
<1>6. Moved(bulk, mem, d, s, n, j2)
  BY <1>2, <1>3, <1>4, <1>5, MoveTimesIs
<1> HIDE DEF bulk
<1>7. bulk.n = n - j2
  BY <1>6 DEF Moved
<1> HIDE DEF j2
<1>8. (n - j2) \div 4 \in Nat /\ j3 \in 0..n
  BY <1>1, <1>5
<1>9. Moved(words, mem, d, s, n, j3)
  BY <1>5, <1>6, <1>7, <1>8, MoveTimesIs
<1> HIDE DEF words
<1>10. words.n = n - j3
  BY <1>9 DEF Moved
<1> HIDE DEF j3
<1>11. n - j3 \in Nat /\ j3 + 1 * (n - j3) = n
  BY <1>1, <1>8
<1>12. Moved(end, mem, d, s, n, n)
  <2>1. 1 \in Nat /\ j3 + 1 * (n - j3) <= n
    BY <1>1, <1>11
  <2>2. Moved(MoveTimes(words, 1, n - j3), mem, d, s, n, j3 + 1 * (n - j3))
    BY <1>9, <1>11, <2>1, MoveTimesIs
  <2> QED
    BY <1>10, <1>11, <2>2
<1> QED
  BY <1>12 DEF Aligned, Moved, end, words, bulk, up
----------------------------------------------------------------------------
(***************************************************************************)
(* Short blocks, from the last byte to the first.                          *)
(***************************************************************************)
\* From the last byte to the first: the first x.n bytes are still to be copied.
Down(x, mem, d, s, n) ==
  /\ x \in Runs(mem) /\ x.d = d /\ x.s = s /\ x.n \in 0..n
  /\ \A a \in DOMAIN mem : x.mem[a] = IF a \in d + x.n..d + n - 1 THEN mem[s + (a - d)] ELSE mem[a]

\* One round of it.
LEMMA DownOnce ==
  ASSUME NEW mem, NEW d, NEW s, NEW n, Room(mem, d, s, n), d + n <= s \/ s + n <= d,
         NEW x, Down(x, mem, d, s, n), x.n # 0
  PROVE  Down(MoveLast(x), mem, d, s, n) /\ MoveLast(x).n = x.n - 1
<1> DEFINE i == x.n - 1
           m == [x.mem EXCEPT ![d + i] = x.mem[s + i]]
<1>1. /\ x \in Runs(mem) /\ x.mem \in [DOMAIN mem -> Int] /\ x.d = d /\ x.s = s /\ x.n \in 0..n
      /\ i \in 0..n - 1 /\ x.n = i + 1 /\ d \in Int /\ s \in Int /\ n \in Nat /\ DOMAIN mem \subseteq Int
  BY DEF Down, Runs, Room
<1>2. x.d + x.n - 1 = d + i /\ x.s + x.n - 1 = s + i
  BY <1>1
<1>3. d + i \in DOMAIN mem /\ s + i \in DOMAIN mem
  <2>1. d + i \in d..d + n - 1 /\ s + i \in s..s + n - 1
    BY <1>1
  <2> QED
    BY <2>1 DEF Room
<1>4. x.mem[s + i] = mem[s + i]
  <2>1. s + i \notin d + x.n..d + n - 1
    BY <1>1
  <2> QED
    BY <1>3, <2>1 DEF Down
<1>5. MoveLast(x) = Put(x, m, x.d, x.s, i)
  <2>1. MoveLast(x) = [x EXCEPT !.n = i, !.mem = m]
    BY <1>2 DEF MoveLast
  <2> HIDE DEF m, i
  <2> QED
    BY <1>1, <2>1 DEF Put, Runs
<1>6. m \in [DOMAIN mem -> Int]
  BY <1>1, <1>3
<1>7. ASSUME NEW a \in DOMAIN mem
      PROVE  m[a] = IF a \in d + i..d + n - 1 THEN mem[s + (a - d)] ELSE mem[a]
  <2>1. CASE a = d + i
    <3>1. a \in d + i..d + n - 1 /\ s + (a - d) = s + i
      BY <1>1, <2>1
    <3> QED
      BY <1>1, <1>3, <1>4, <2>1, <3>1
  <2>2. CASE a # d + i
    <3>1. m[a] = x.mem[a]
      BY <1>1, <2>2
    <3>2. a \in d + i..d + n - 1 <=> a \in d + x.n..d + n - 1
      <4>1. a \in Int
        BY <1>1
      <4>2. d + x.n = (d + i) + 1
        BY <1>1
      <4> HIDE DEF i
      <4> QED
        BY <1>1, <2>2, <4>1, <4>2
    <3> QED
      BY <3>1, <3>2 DEF Down
  <2> QED
    BY <2>1, <2>2
<1> HIDE DEF m
<1>8. IsPut(MoveLast(x), mem, m, x.d, x.s, i)
  BY <1>1, <1>5, <1>6, PutIs
<1> QED
  BY <1>1, <1>7, <1>8 DEF Down, IsPut

LEMMA MoveDownIs ==
  ASSUME NEW mem, NEW d, NEW s, NEW n, Room(mem, d, s, n), d + n <= s \/ s + n <= d
  PROVE  Copied(MoveDown(Run(mem, d, s, n)).mem, mem, d, s, n)
<1> DEFINE r == Run(mem, d, s, n)
           I == {x \in Runs(mem) : Down(x, mem, d, s, n)}
           v == [x \in I |-> x.n]
           round == [x \in Runs(r.mem) |-> IF x.n = 0 THEN x ELSE MoveLast(x)]
           end == Rounds(round, r, r.n)
<1>1. r \in Runs(mem) /\ r.n = n /\ r.d = d /\ r.s = s /\ r.mem = mem /\ n \in Nat /\ d \in Int
  BY RunIs DEF Moved, Run, Room
<1>2. r \in I
  <2>1. DOMAIN mem \subseteq Int
    BY DEF Room
  <2>2. Down(r, mem, d, s, n)
    BY <1>1, <2>1 DEF Down
  <2> QED
    BY <1>1, <2>2
<1> HIDE DEF r
<1>3. ASSUME NEW x \in I PROVE /\ x.n \in Nat /\ (x.n = 0 => round[x] = x)
                              /\ (x.n # 0 => round[x] \in I /\ round[x].n = x.n - 1)
  <2>1. x \in Runs(mem) /\ Down(x, mem, d, s, n) /\ x.n \in Nat
    BY DEF Down
  <2>2. round[x] = IF x.n = 0 THEN x ELSE MoveLast(x)
    BY <1>1, <2>1
  <2>3. ASSUME x.n # 0 PROVE Down(MoveLast(x), mem, d, s, n) /\ MoveLast(x).n = x.n - 1
    BY <2>1, <2>3, DownOnce
  <2> HIDE DEF round
  <2>4. MoveLast(x) \in Runs(mem) \/ x.n = 0
    BY <2>3 DEF Down
  <2> QED
    BY <2>1, <2>2, <2>3, <2>4
<1> HIDE DEF round, I
<1>4. v \in [I -> Nat] /\ v[r] = n
  BY <1>1, <1>2, <1>3
<1>5. \A x \in I : round[x] \in I /\ (round[x] = x \/ v[round[x]] < v[x])
  <2> TAKE x \in I
  <2>1. CASE x.n = 0
    BY <1>3, <2>1
  <2>2. CASE x.n # 0
    <3>1. round[x] \in I /\ round[x].n = x.n - 1 /\ x.n \in Nat
      BY <1>3, <2>2
    <3>2. v[round[x]] = round[x].n /\ v[x] = x.n
      BY <3>1
    <3> QED
      BY <3>1, <3>2
  <2> QED
    BY <2>1, <2>2
<1> HIDE DEF v
<1>6. end \in I /\ round[end] = end
  BY <1>1, <1>2, <1>4, <1>5, LoopEnds
<1>7. end.n = 0 /\ Down(end, mem, d, s, n)
  <2> HIDE DEF end
  <2>1. end.n \in Nat /\ (end.n # 0 => end.n = end.n - 1)
    BY <1>3, <1>6
  <2> QED
    BY <1>6, <2>1 DEF I
<1>8. MoveDown(r) = end
  BY DEF MoveDown, round
<1>9. d + 0 = d
  BY <1>1
<1> QED
  BY <1>7, <1>8, <1>9 DEF Down, Copied, r
----------------------------------------------------------------------------
(***************************************************************************)
(* The misaligned copy.                                                    *)
(***************************************************************************)
\* The misaligned copy: j bytes have been stored, and x.left bytes of the last word come next.
Held(x, mem, s, n, j) ==
  \A i \in 0..x.left - 1 : j + i < n => x.w[5 - x.left + i] = mem[s + (j + i)]

Ahead(x, mem, d, s, n, j) ==
  /\ x \in Runs(mem) /\ j \in 0..n
  /\ x.d = d + j /\ x.s = (s + j) + x.left /\ x.n = n - j
  /\ Copied(x.mem, mem, d, s, j)
  /\ Held(x, mem, s, n, j)

\* A byte of the source, while it has not been copied.
LEMMA ByteIs ==
  ASSUME NEW mem, NEW d, NEW s, NEW n, Room(mem, d, s, n),
         NEW x \in Runs(mem), NEW j \in 0..n, Copied(x.mem, mem, d, s, j), NEW i \in j..n - 1
  PROVE  Byte(x.mem, s + i) = mem[s + i] /\ s + i \in DOMAIN mem
<1>1. j \in Int /\ n \in Int /\ i \in Int /\ s \in Int /\ s + i \in s + j..s + n - 1
  BY DEF Room
<1>2. s + i \in DOMAIN mem /\ x.mem[s + i] = mem[s + i]
  BY <1>1, SourceKept
<1>3. DOMAIN x.mem = DOMAIN mem
  BY SameRuns
<1> QED
  BY <1>2, <1>3 DEF Byte

LEMMA Word4Is ==
  ASSUME NEW mem, NEW x \in Runs(mem), NEW a \in Int
  PROVE  /\ Word4(x.mem, a) \in [1..4 -> Int]
         /\ \A i \in 1..4 : Word4(x.mem, a)[i] = Byte(x.mem, a + i - 1)
<1>1. x.mem \in [DOMAIN mem -> Int]
  BY DEF Runs
<1>2. \A b : Byte(x.mem, b) \in Int
  BY <1>1 DEF Byte
<1> QED
  BY <1>2 DEF Word4

\* The record with another word held.
Put6(x, m, d, s, n, w, l) == [x EXCEPT !.mem = m, !.d = d, !.s = s, !.n = n, !.w = w, !.left = l]
IsPut6(y, mem, m, d, s, n, w, l) == IsPut(y, mem, m, d, s, n) /\ y.w = w /\ y.left = l

LEMMA Put6Is ==
  ASSUME NEW mem, NEW x \in Runs(mem), NEW m \in [DOMAIN mem -> Int], NEW d \in Int, NEW s \in Int, NEW n \in Int,
         NEW w \in [1..4 -> Int], NEW l \in 0..4
  PROVE  IsPut6(Put6(x, m, d, s, n, w, l), mem, m, d, s, n, w, l)
<1> DEFINE M == [DOMAIN mem -> Int]
           Words == [1..4 -> Int]
           Left == 0..4
<1> m \in M /\ w \in Words /\ l \in Left
  OBVIOUS
<1>1. x \in [mem : M, d : Int, s : Int, n : Int, w : Words, left : Left]
  BY DEF Runs
<1> HIDE DEF M, Words, Left
<1> DEFINE y == Put6(x, m, d, s, n, w, l)
<1>2. y \in [mem : M, d : Int, s : Int, n : Int, w : Words, left : Left]
  BY <1>1 DEF Put6
<1>3. /\ y.mem = m /\ y.d = d /\ y.s = s /\ y.n = n /\ y.w = w /\ y.left = l
  BY <1>1 DEF Put6
<1> HIDE DEF y
<1>4. y \in Runs(mem)
  BY <1>2 DEF Runs, M, Words, Left
<1> QED
  BY <1>3, <1>4 DEF IsPut, IsPut6, y

\* A fresh word is the next four bytes.
LEMMA RefilledIs ==
  ASSUME NEW mem, NEW d, NEW s, NEW n, Room(mem, d, s, n),
         NEW x, NEW j, Ahead(x, mem, d, s, n, j)
  PROVE  Ahead(Refilled(x), mem, d, s, n, j) /\ Refilled(x).left # 0
<1>0. /\ x \in Runs(mem) /\ j \in 0..n /\ Copied(x.mem, mem, d, s, j)
      /\ \A k \in j..n - 1 : Byte(x.mem, s + k) = mem[s + k]
  <2>1. x \in Runs(mem) /\ j \in 0..n /\ Copied(x.mem, mem, d, s, j)
    BY DEF Ahead
  <2> QED
    BY <2>1, ByteIs
<1>1. /\ x \in Runs(mem) /\ x.mem \in [DOMAIN mem -> Int] /\ x.d \in Int /\ x.s \in Int /\ x.n \in Int
      /\ x.w \in [1..4 -> Int] /\ x.left \in 0..4 /\ j \in 0..n /\ n \in Nat /\ s \in Int /\ d \in Int
      /\ x.d = d + j /\ x.s = (s + j) + x.left /\ x.n = n - j /\ Copied(x.mem, mem, d, s, j)
  BY DEF Ahead, Runs, Room
<1>2. CASE x.left # 0
  BY <1>2 DEF Refilled
<1>3. CASE x.left = 0
  <2> DEFINE w == Word4(x.mem, x.s)
             y == Refilled(x)
  <2>1. y = Put6(x, x.mem, x.d, x.s + 4, x.n, w, 4)
    <3>1. y = [x EXCEPT !.w = w, !.s = x.s + 4, !.left = 4]
      BY <1>3 DEF Refilled
    <3> HIDE DEF w
    <3> QED
      BY <1>1, <3>1 DEF Put6, Runs
  <2>2. w \in [1..4 -> Int] /\ \A i \in 1..4 : w[i] = Byte(x.mem, x.s + i - 1)
    BY <1>1, Word4Is
  <2> HIDE DEF w, y
  <2>3. IsPut6(y, mem, x.mem, x.d, x.s + 4, x.n, w, 4)
    <3>1. x.s + 4 \in Int /\ 4 \in 0..4
      BY <1>1
    <3> QED
      BY <1>1, <2>1, <2>2, <3>1, Put6Is, Zenon
  <2>4. /\ y \in Runs(mem) /\ y.mem = x.mem /\ y.d = x.d /\ y.s = x.s + 4 /\ y.n = x.n /\ y.w = w /\ y.left = 4
    BY <2>3 DEF IsPut6, IsPut
  <2>5. ASSUME NEW i \in 0..3, j + i < n PROVE w[1 + i] = mem[s + (j + i)]
    <3>1. 1 + i \in 1..4 /\ x.s + (1 + i) - 1 = s + (j + i) /\ j + i \in j..n - 1
      BY <1>1, <1>3, <2>5
    <3>2. Byte(x.mem, s + (j + i)) = mem[s + (j + i)]
      BY <1>0, <3>1
    <3> QED
      BY <2>2, <3>1, <3>2
  <2>6. Held(y, mem, s, n, j)
    <3>1. y.left - 1 = 3 /\ 5 - y.left = 1
      BY <2>4
    <3> QED
      BY <2>4, <2>5, <3>1 DEF Held
  <2> QED
    BY <1>1, <1>3, <2>4, <2>6 DEF Ahead, y
<1> QED
  BY <1>2, <1>3

\* One byte of the word is stored.
LEMMA StoreByteIs ==
  ASSUME NEW mem, NEW d, NEW s, NEW n, Room(mem, d, s, n),
         NEW x, NEW j, Ahead(x, mem, d, s, n, j), x.left # 0, j < n
  PROVE  Ahead(StoreByte(x), mem, d, s, n, j + 1)
<1> DEFINE c == x.w[5 - x.left]
           m == [x.mem EXCEPT ![x.d] = c]
           y == StoreByte(x)
<1>1. /\ x \in Runs(mem) /\ x.mem \in [DOMAIN mem -> Int] /\ x.d \in Int /\ x.s \in Int /\ x.n \in Int
      /\ x.w \in [1..4 -> Int] /\ x.left \in 0..4 /\ j \in 0..n /\ n \in Nat /\ s \in Int /\ d \in Int
      /\ x.d = d + j /\ x.s = (s + j) + x.left /\ x.n = n - j /\ Copied(x.mem, mem, d, s, j)
      /\ DOMAIN mem \subseteq Int
  BY DEF Ahead, Runs, Room
<1>2. 5 - x.left \in 1..4 /\ c \in Int
  BY <1>1
<1>3. c = mem[s + j]
  <2>1. 0 \in 0..x.left - 1 /\ j + 0 < n /\ j + 0 = j /\ 5 - x.left + 0 = 5 - x.left
    BY <1>1
  <2> HIDE DEF c
  <2>2. x.w[5 - x.left + 0] = mem[s + (j + 0)]
    BY <2>1 DEF Ahead, Held
  <2> QED
    BY <2>1, <2>2 DEF c
<1> HIDE DEF c
<1>4. m \in [DOMAIN mem -> Int]
  BY <1>1, <1>2
<1>5. y = Put6(x, m, x.d + 1, x.s, x.n - 1, x.w, x.left - 1)
  <2>1. y = [x EXCEPT !.mem = m, !.d = x.d + 1, !.n = x.n - 1, !.left = x.left - 1]
    BY DEF StoreByte, c
  <2> HIDE DEF m
  <2> QED
    BY <1>1, <2>1 DEF Put6, Runs
<1>6. d + j \in DOMAIN mem
  <2>1. d + j \in d..d + n - 1
    BY <1>1
  <2> QED
    BY <2>1 DEF Room
<1>7. Copied(m, mem, d, s, j + 1)
  <2> SUFFICES ASSUME NEW a \in DOMAIN mem
               PROVE  m[a] = IF a \in d..d + (j + 1) - 1 THEN mem[s + (a - d)] ELSE mem[a]
    BY DEF Copied
  <2>1. CASE a = d + j
    <3>1. a \in d..d + (j + 1) - 1 /\ s + (a - d) = s + j
      BY <1>1, <2>1
    <3> QED
      BY <1>1, <1>3, <1>6, <2>1, <3>1
  <2>2. CASE a # d + j
    <3>1. m[a] = x.mem[a] /\ a \in Int
      BY <1>1, <2>2
    <3>2. a \in d..d + (j + 1) - 1 <=> a \in d..d + j - 1
      BY <1>1, <2>2, <3>1
    <3> QED
      BY <1>1, <3>1, <3>2 DEF Copied
  <2> QED
    BY <2>1, <2>2
<1> HIDE DEF m, y
<1>8. IsPut6(y, mem, m, x.d + 1, x.s, x.n - 1, x.w, x.left - 1)
  <2>1. x.d + 1 \in Int /\ x.n - 1 \in Int /\ x.left - 1 \in 0..4
    BY <1>1
  <2> QED
    BY <1>1, <1>4, <1>5, <2>1, Put6Is, Zenon
<1>9. /\ y \in Runs(mem) /\ y.mem = m /\ y.d = x.d + 1 /\ y.s = x.s /\ y.n = x.n - 1 /\ y.w = x.w
      /\ y.left = x.left - 1
  BY <1>8 DEF IsPut6, IsPut
<1>10. Held(y, mem, s, n, j + 1)
  <2> SUFFICES ASSUME NEW i \in 0..y.left - 1, (j + 1) + i < n
               PROVE  y.w[5 - y.left + i] = mem[s + ((j + 1) + i)]
    BY DEF Held
  <2>1. i + 1 \in 0..x.left - 1 /\ j + (i + 1) < n /\ j + (i + 1) = (j + 1) + i
        /\ 5 - x.left + (i + 1) = 5 - y.left + i
    BY <1>1, <1>9
  <2>2. x.w[5 - x.left + (i + 1)] = mem[s + (j + (i + 1))]
    BY <2>1 DEF Ahead, Held
  <2> QED
    BY <1>9, <2>1, <2>2
<1>11. j + 1 \in 0..n /\ x.d + 1 = d + (j + 1) /\ x.n - 1 = n - (j + 1)
       /\ x.s = (s + (j + 1)) + (x.left - 1)
  BY <1>1
<1> QED
  BY <1>7, <1>9, <1>10, <1>11 DEF Ahead, y

\* Eight words are stored.
LEMMA StoreEightIs ==
  ASSUME NEW mem, NEW d, NEW s, NEW n, Room(mem, d, s, n),
         NEW x, NEW j, Ahead(x, mem, d, s, n, j), n - j >= 32
  PROVE  Ahead(StoreEight(x), mem, d, s, n, j + 32)
<1>0. /\ x \in Runs(mem) /\ j \in 0..n /\ Copied(x.mem, mem, d, s, j)
      /\ \A k \in j..n - 1 : Byte(x.mem, s + k) = mem[s + k]
  <2>1. x \in Runs(mem) /\ j \in 0..n /\ Copied(x.mem, mem, d, s, j)
    BY DEF Ahead
  <2> QED
    BY <2>1, ByteIs
<1> DEFINE m == [a \in DOMAIN x.mem |-> IF a \in x.d..x.d + 31 THEN Eight(x)[a - x.d] ELSE x.mem[a]]
           w == Word4(x.mem, x.s + 28)
           y == StoreEight(x)
<1>1. /\ x \in Runs(mem) /\ x.mem \in [DOMAIN mem -> Int] /\ x.d \in Int /\ x.s \in Int /\ x.n \in Int
      /\ x.w \in [1..4 -> Int] /\ x.left \in 0..4 /\ j \in 0..n /\ n \in Nat /\ s \in Int /\ d \in Int
      /\ x.d = d + j /\ x.s = (s + j) + x.left /\ x.n = n - j /\ Copied(x.mem, mem, d, s, j)
      /\ DOMAIN mem \subseteq Int /\ DOMAIN x.mem = DOMAIN mem
  BY SameRuns DEF Ahead, Runs, Room
<1>2. ASSUME NEW i \in 0..31 PROVE Eight(x)[i] = mem[s + (j + i)]
  <2>1. j + i < n /\ j + i \in j..n - 1
    BY <1>1
  <2>2. CASE i < x.left
    <3>1. i \in 0..x.left - 1
      BY <1>1, <2>2
    <3>2. x.w[5 - x.left + i] = mem[s + (j + i)]
      BY <2>1, <3>1 DEF Ahead, Held
    <3> QED
      BY <2>2, <3>2 DEF Eight
  <2>3. CASE ~(i < x.left)
    <3>1. x.s + i - x.left = s + (j + i)
      BY <1>1
    <3>2. Byte(x.mem, s + (j + i)) = mem[s + (j + i)]
      BY <1>0, <2>1
    <3> QED
      BY <2>3, <3>1, <3>2 DEF Eight
  <2> QED
    BY <2>2, <2>3
<1>3. Copied(m, mem, d, s, j + 32)
  <2> SUFFICES ASSUME NEW a \in DOMAIN mem
               PROVE  m[a] = IF a \in d..d + (j + 32) - 1 THEN mem[s + (a - d)] ELSE mem[a]
    BY DEF Copied
  <2>1. a \in Int
    BY <1>1
  <2>2. CASE a \in x.d..x.d + 31
    <3>1. a - x.d \in 0..31 /\ s + (j + (a - x.d)) = s + (a - d) /\ a \in d..d + (j + 32) - 1
      BY <1>1, <2>1, <2>2
    <3>2. m[a] = Eight(x)[a - x.d]
      BY <1>1, <2>2
    <3> QED
      BY <1>2, <3>1, <3>2
  <2>3. CASE a \notin x.d..x.d + 31
    <3>1. m[a] = x.mem[a]
      BY <1>1, <2>3
    <3>2. a \in d..d + (j + 32) - 1 <=> a \in d..d + j - 1
      BY <1>1, <2>1, <2>3
    <3> QED
      BY <1>1, <3>1, <3>2 DEF Copied
  <2> QED
    BY <2>2, <2>3
<1>4. m \in [DOMAIN mem -> Int]
  <2> SUFFICES ASSUME NEW a \in DOMAIN mem PROVE m[a] \in Int
    BY <1>1
  <2>1. CASE a \in d..d + (j + 32) - 1
    <3>1. s + (a - d) \in s..s + n - 1
      BY <1>1, <2>1
    <3>2. s + (a - d) \in DOMAIN mem
      BY <3>1 DEF Room
    <3>3. m[a] = mem[s + (a - d)]
      BY <1>3, <2>1 DEF Copied
    <3> HIDE DEF m
    <3> QED
      BY <3>2, <3>3 DEF Room
  <2>2. CASE a \notin d..d + (j + 32) - 1
    <3>1. m[a] = mem[a]
      BY <1>3, <2>2 DEF Copied
    <3> HIDE DEF m
    <3> QED
      BY <3>1 DEF Room
  <2> QED
    BY <2>1, <2>2
<1>5. x.s + 28 \in Int
  BY <1>1
<1>6. w \in [1..4 -> Int] /\ \A i \in 1..4 : w[i] = Byte(x.mem, (x.s + 28) + i - 1)
  BY <1>1, <1>5, Word4Is
<1>7. y = Put6(x, m, x.d + 32, x.s + 32, x.n - 32, w, x.left)
  <2>1. y = [x EXCEPT !.mem = m, !.d = x.d + 32, !.s = x.s + 32, !.n = x.n - 32, !.w = w]
    BY DEF StoreEight
  <2> HIDE DEF m, w
  <2> QED
    BY <1>1, <2>1 DEF Put6, Runs
<1> HIDE DEF m, y, w
<1>8. IsPut6(y, mem, m, x.d + 32, x.s + 32, x.n - 32, w, x.left)
  <2>1. x.d + 32 \in Int /\ x.s + 32 \in Int /\ x.n - 32 \in Int
    BY <1>1
  <2> QED
    BY <1>1, <1>4, <1>6, <1>7, <2>1, Put6Is, Zenon
<1>9. /\ y \in Runs(mem) /\ y.mem = m /\ y.d = x.d + 32 /\ y.s = x.s + 32 /\ y.n = x.n - 32 /\ y.w = w
      /\ y.left = x.left
  BY <1>8 DEF IsPut6, IsPut
<1>10. Held(y, mem, s, n, j + 32)
  <2> SUFFICES ASSUME NEW i \in 0..y.left - 1, (j + 32) + i < n
               PROVE  y.w[5 - y.left + i] = mem[s + ((j + 32) + i)]
    BY DEF Held
  <2>1. /\ 5 - x.left + i \in 1..4
        /\ (x.s + 28) + (5 - x.left + i) - 1 = s + ((j + 32) + i)
        /\ (j + 32) + i \in j..n - 1
    BY <1>1, <1>9
  <2>2. Byte(x.mem, s + ((j + 32) + i)) = mem[s + ((j + 32) + i)]
    BY <1>0, <2>1
  <2> QED
    BY <1>6, <1>9, <2>1, <2>2
<1>11. j + 32 \in 0..n /\ x.d + 32 = d + (j + 32) /\ x.n - 32 = n - (j + 32)
       /\ x.s + 32 = (s + (j + 32)) + x.left
  BY <1>1
<1> QED
  BY <1>3, <1>9, <1>10, <1>11 DEF Ahead, y

\* The first word is loaded.
LEMMA AlignDownIs ==
  ASSUME NEW mem, NEW d, NEW s, NEW n, Room(mem, d, s, n),
         NEW x, NEW j, Moved(x, mem, d, s, n, j)
  PROVE  Ahead(AlignDown(x), mem, d, s, n, j)
<1>0. /\ x \in Runs(mem) /\ j \in 0..n /\ Copied(x.mem, mem, d, s, j)
      /\ \A l \in j..n - 1 : Byte(x.mem, s + l) = mem[s + l]
  <2>1. x \in Runs(mem) /\ j \in 0..n /\ Copied(x.mem, mem, d, s, j)
    BY DEF Moved
  <2> QED
    BY <2>1, ByteIs
<1> DEFINE k == x.s % 4
           w == Word4(x.mem, x.s - k)
           y == AlignDown(x)
<1>1. /\ x \in Runs(mem) /\ x.mem \in [DOMAIN mem -> Int] /\ x.d \in Int /\ x.s \in Int /\ x.n \in Int
      /\ j \in 0..n /\ n \in Nat /\ s \in Int /\ d \in Int
      /\ x.d = d + j /\ x.s = s + j /\ x.n = n - j /\ Copied(x.mem, mem, d, s, j)
  BY DEF Moved, Runs, Room
<1>2. k \in 0..3 /\ x.s - k \in Int
  BY <1>1
<1>3. w \in [1..4 -> Int] /\ \A i \in 1..4 : w[i] = Byte(x.mem, (x.s - k) + i - 1)
  BY <1>1, <1>2, Word4Is
<1>4. y = Put6(x, x.mem, x.d, x.s - k + 4, x.n, w, 4 - k)
  <2>1. y = [x EXCEPT !.s = x.s - k + 4, !.w = w, !.left = 4 - k]
    BY DEF AlignDown
  <2> HIDE DEF k, w
  <2> QED
    BY <1>1, <2>1 DEF Put6, Runs
<1> HIDE DEF k, w, y
<1>5. IsPut6(y, mem, x.mem, x.d, x.s - k + 4, x.n, w, 4 - k)
  <2>1. x.s - k + 4 \in Int /\ 4 - k \in 0..4
    BY <1>1, <1>2
  <2> QED
    BY <1>1, <1>3, <1>4, <2>1, Put6Is, Zenon
<1>6. /\ y \in Runs(mem) /\ y.mem = x.mem /\ y.d = x.d /\ y.s = x.s - k + 4 /\ y.n = x.n /\ y.w = w
      /\ y.left = 4 - k
  BY <1>5 DEF IsPut6, IsPut
<1>7. Held(y, mem, s, n, j)
  <2> SUFFICES ASSUME NEW i \in 0..y.left - 1, j + i < n
               PROVE  y.w[5 - y.left + i] = mem[s + (j + i)]
    BY DEF Held
  <2>1. /\ 5 - y.left + i \in 1..4 /\ (x.s - k) + (5 - y.left + i) - 1 = s + (j + i)
        /\ j + i \in j..n - 1
    BY <1>1, <1>2, <1>6
  <2>2. Byte(x.mem, s + (j + i)) = mem[s + (j + i)]
    BY <1>0, <2>1
  <2> QED
    BY <1>3, <1>6, <2>1, <2>2
<1>8. x.s - k + 4 = (s + j) + (4 - k)
  BY <1>1, <1>2
<1> QED
  BY <1>1, <1>6, <1>7, <1>8 DEF Ahead, y

\* The misaligned copy somewhere on its way.
OnItsWay(mem, d, s, n) == {x \in Runs(mem) : \E j \in 0..n : Ahead(x, mem, d, s, n, j)}

\* Eight words at a time it stays on its way.
LEMMA MisLoopIs ==
  ASSUME NEW mem, NEW d, NEW s, NEW n, Room(mem, d, s, n), NEW r \in OnItsWay(mem, d, s, n)
  PROVE  MisLoop(r) \in OnItsWay(mem, d, s, n)
<1> DEFINE I == OnItsWay(mem, d, s, n)
           round == [x \in Runs(r.mem) |-> IF x.n < 32 THEN x ELSE StoreEight(x)]
<1>1. r \in Runs(mem) /\ Runs(r.mem) = Runs(mem) /\ r.n \in Nat
  <2>1. r \in Runs(mem) /\ r.n \in Nat
    BY DEF OnItsWay, Ahead, Room
  <2> QED
    BY <2>1, SameRuns
<1>2. \A x \in I : round[x] \in I
  <2> TAKE x \in I
  <2>1. PICK j \in 0..n : Ahead(x, mem, d, s, n, j)
    BY DEF OnItsWay
  <2>2. x \in Runs(mem) /\ x.n = n - j /\ n \in Nat
    BY <2>1 DEF Ahead, Room
  <2>3. round[x] = IF x.n < 32 THEN x ELSE StoreEight(x)
    BY <1>1, <2>2
  <2> HIDE DEF round
  <2>4. CASE x.n < 32
    BY <2>3, <2>4
  <2>5. CASE ~(x.n < 32)
    <3>1. n - j >= 32 /\ j + 32 \in 0..n
      BY <2>2, <2>5
    <3>2. Ahead(StoreEight(x), mem, d, s, n, j + 32)
      BY <2>1, <3>1, StoreEightIs
    <3>3. StoreEight(x) \in Runs(mem)
      BY <3>2 DEF Ahead
    <3> QED
      BY <2>3, <2>5, <3>1, <3>2, <3>3 DEF OnItsWay
  <2> QED
    BY <2>4, <2>5
<1>3. MisLoop(r) = Rounds(round, r, r.n)
  BY DEF MisLoop
<1> HIDE DEF I, round
<1>4. r \in I
  BY DEF I
<1>5. Rounds(round, r, r.n) \in I
  BY <1>1, <1>2, <1>4, LoopKeeps
<1> QED
  BY <1>3, <1>5 DEF I

\* Byte by byte it arrives.
LEMMA MisTailIs ==
  ASSUME NEW mem, NEW d, NEW s, NEW n, Room(mem, d, s, n), NEW r \in OnItsWay(mem, d, s, n)
  PROVE  Copied(MisTail(r).mem, mem, d, s, n)
<1> DEFINE I == OnItsWay(mem, d, s, n)
           v == [x \in I |-> x.n]
           round == [x \in Runs(r.mem) |-> IF x.n = 0 THEN x ELSE StoreByte(Refilled(x))]
           end == Rounds(round, r, r.n)
<1>1. r \in Runs(mem) /\ Runs(r.mem) = Runs(mem)
  <2>1. r \in Runs(mem)
    BY DEF OnItsWay
  <2> QED
    BY <2>1, SameRuns
<1>2. ASSUME NEW x \in I PROVE /\ x.n \in Nat /\ (x.n = 0 => round[x] = x)
                              /\ (x.n # 0 => round[x] \in I /\ round[x].n = x.n - 1)
  <2>1. PICK j \in 0..n : Ahead(x, mem, d, s, n, j)
    BY DEF OnItsWay
  <2>2. x \in Runs(mem) /\ x.n = n - j /\ n \in Nat /\ x.n \in Nat
    BY <2>1 DEF Ahead, Room
  <2>3. round[x] = IF x.n = 0 THEN x ELSE StoreByte(Refilled(x))
    BY <1>1, <2>2
  <2> HIDE DEF round
  <2>4. ASSUME x.n # 0 PROVE round[x] \in I /\ round[x].n = x.n - 1
    <3> DEFINE y == Refilled(x)
    <3>1. j < n /\ j + 1 \in 0..n /\ n - (j + 1) = x.n - 1
      BY <2>2, <2>4
    <3>2. Ahead(y, mem, d, s, n, j) /\ y.left # 0
      BY <2>1, RefilledIs
    <3> HIDE DEF y
    <3>3. Ahead(StoreByte(y), mem, d, s, n, j + 1)
      BY <3>1, <3>2, StoreByteIs
    <3>4. StoreByte(y) \in Runs(mem) /\ StoreByte(y).n = n - (j + 1)
      BY <3>3 DEF Ahead
    <3>5. round[x] = StoreByte(y)
      BY <2>3, <2>4 DEF y
    <3> QED
      BY <3>1, <3>3, <3>4, <3>5 DEF OnItsWay
  <2> QED
    BY <2>2, <2>3, <2>4
<1>3. MisTail(r) = end
  BY DEF MisTail
<1> HIDE DEF round
<1>4. r \in I
  OBVIOUS
<1> HIDE DEF I
<1>5. v \in [I -> Nat] /\ v[r] = r.n /\ r.n \in Nat
  BY <1>2, <1>4
<1>6. \A x \in I : round[x] \in I /\ (round[x] = x \/ v[round[x]] < v[x])
  <2> TAKE x \in I
  <2>1. CASE x.n = 0
    BY <1>2, <2>1
  <2>2. CASE x.n # 0
    <3>1. round[x] \in I /\ round[x].n = x.n - 1 /\ x.n \in Nat
      BY <1>2, <2>2
    <3>2. v[round[x]] = round[x].n /\ v[x] = x.n
      BY <3>1
    <3> QED
      BY <3>1, <3>2
  <2> QED
    BY <2>1, <2>2
<1> HIDE DEF v
<1>7. end \in I /\ round[end] = end
  <2>1. v[r] <= r.n
    BY <1>5
  <2> QED
    BY <1>4, <1>5, <1>6, <2>1, LoopEnds
<1> HIDE DEF end
<1>8. end.n = 0
  <2>1. end.n \in Nat /\ (end.n # 0 => end.n = end.n - 1)
    BY <1>2, <1>7
  <2> QED
    BY <2>1
<1>9. PICK j \in 0..n : Ahead(end, mem, d, s, n, j)
  BY <1>7 DEF I, OnItsWay
<1>10. j = n /\ Copied(end.mem, mem, d, s, j)
  <2>1. end.n = n - j /\ n \in Nat /\ Copied(end.mem, mem, d, s, j)
    BY <1>9 DEF Ahead, Room
  <2> QED
    BY <1>8, <2>1
<1> QED
  BY <1>3, <1>10

\* From a misaligned source the copy is the same.
LEMMA MisalignedIs ==
  ASSUME NEW mem, NEW d, NEW s, NEW n, Room(mem, d, s, n),
         NEW x, NEW j, Moved(x, mem, d, s, n, j)
  PROVE  Copied(Misaligned(x).mem, mem, d, s, n)
<1> DEFINE y == AlignDown(x)
           z == MisLoop(y)
<1>1. Ahead(y, mem, d, s, n, j)
  BY AlignDownIs
<1> HIDE DEF y
<1>2. y \in OnItsWay(mem, d, s, n)
  <2>1. j \in 0..n /\ y \in Runs(mem)
    BY <1>1 DEF Ahead
  <2> QED
    BY <1>1, <2>1 DEF OnItsWay
<1>3. z \in OnItsWay(mem, d, s, n)
  BY <1>2, MisLoopIs
<1> HIDE DEF z
<1>4. Copied(MisTail(z).mem, mem, d, s, n)
  BY <1>3, MisTailIs
<1> QED
  BY <1>4 DEF Misaligned, y, z
----------------------------------------------------------------------------
(***************************************************************************)
(* All of a copy.                                                          *)
(***************************************************************************)
\* memcpy copies, of any size and at any alignment.  Blocks of fewer than 32 bytes must not
\* overlap; others may, where the destination is the lower one.
LEMMA MemCpyIs ==
  ASSUME NEW mem, NEW d, NEW s, NEW n, Room(mem, d, s, n), n >= 32 \/ d + n <= s \/ s + n <= d
  PROVE  Copied(MemCpy(mem, d, s, n), mem, d, s, n)
<1> DEFINE r == Run(mem, d, s, n)
           t == (4 - (d % 4)) % 4
           head == MoveTimes(r, 1, t)
<1>1. d \in Int /\ s \in Int /\ n \in Nat /\ DOMAIN mem \subseteq Int /\ t \in 0..3
  BY DEF Room
<1>2. Moved(r, mem, d, s, n, 0)
  BY RunIs
<1> HIDE DEF r, t
<1>3. CASE n = 0
  <2>1. Copied(mem, mem, d, s, n)
    <3>1. \A a \in DOMAIN mem : a \notin d..d + n - 1
      BY <1>1, <1>3
    <3> QED
      BY <3>1 DEF Copied
  <2>2. MemCpy(mem, d, s, n) = mem
    BY <1>3 DEF MemCpy
  <2> QED
    BY <2>1, <2>2
<1>4. CASE n \in {4, 8}
  <2>1. n \div 4 \in Nat /\ 0 + 4 * (n \div 4) = n /\ n # 0
    BY <1>4
  <2>2. Moved(MoveTimes(r, 4, n \div 4), mem, d, s, n, n)
    <3>1. 0 + 4 * (n \div 4) <= n
      BY <1>1, <2>1
    <3>2. Moved(MoveTimes(r, 4, n \div 4), mem, d, s, n, 0 + 4 * (n \div 4))
      BY <1>2, <2>1, <3>1, MoveTimesIs
    <3> QED
      BY <2>1, <3>2
  <2>3. MemCpy(mem, d, s, n) = MoveTimes(r, 4, n \div 4).mem
    BY <1>4, <2>1 DEF MemCpy, r
  <2> QED
    BY <2>2, <2>3 DEF Moved
<1>5. CASE n # 0 /\ n \notin {4, 8} /\ n < 32
  <2>1. d + n <= s \/ s + n <= d
    BY <1>1, <1>5
  <2>2. MemCpy(mem, d, s, n) = MoveDown(r).mem
    BY <1>5 DEF MemCpy, r
  <2> QED
    BY <2>1, <2>2, MoveDownIs DEF r
<1>6. CASE n >= 32
  <2>1. t \in Nat /\ 0 + 1 * t = t /\ t <= n /\ n - t >= 28
    BY <1>1, <1>6
  <2>2. Moved(head, mem, d, s, n, t)
    <3>1. Moved(head, mem, d, s, n, 0 + 1 * t)
      BY <1>2, <2>1, MoveTimesIs
    <3> QED
      BY <2>1, <3>1
  <2>3. n # 0 /\ n \notin {4, 8} /\ ~(n < 32)
    BY <1>1, <1>6
  <2>4. MemCpy(mem, d, s, n) = IF head.s % 4 # 0 THEN Misaligned(head).mem ELSE Aligned(head).mem
    BY <2>3 DEF MemCpy, r, t
  <2> HIDE DEF head
  <2>5. Copied(Misaligned(head).mem, mem, d, s, n)
    BY <2>2, MisalignedIs
  <2>6. Copied(Aligned(head).mem, mem, d, s, n)
    BY <2>1, <2>2, AlignedIs
  <2> QED
    BY <2>4, <2>5, <2>6
<1> QED
  BY <1>1, <1>3, <1>4, <1>5, <1>6

\* CopyMemQuick copies n words.
LEMMA CopyMemQuickIs ==
  ASSUME NEW mem, NEW d, NEW s, NEW n \in Nat, Room(mem, d, s, 4 * n)
  PROVE  Copied(CopyMemQuick(mem, s, d, n), mem, d, s, 4 * n)
<1> DEFINE r == Run(mem, d, s, 4 * n)
<1>1. Moved(r, mem, d, s, 4 * n, 0)
  BY RunIs
<1> HIDE DEF r
<1>2. 0 + 4 * n = 4 * n /\ 0 + 4 * n <= 4 * n
  OBVIOUS
<1>3. Moved(MoveTimes(r, 4, n), mem, d, s, 4 * n, 0 + 4 * n)
  BY <1>1, <1>2, MoveTimesIs
<1> QED
  BY <1>2, <1>3 DEF CopyMemQuick, Moved, r
----------------------------------------------------------------------------
(***************************************************************************)
(* Fills.                                                                  *)
(***************************************************************************)
\* The first j bytes of the block have been filled, and nothing else has changed.
Filled(x, mem, d, n, c, j) ==
  /\ x \in Runs(mem) /\ j \in 0..n /\ x.d = d + j /\ x.n = n - j
  /\ \A a \in DOMAIN mem : x.mem[a] = IF a \in d..d + j - 1 THEN c ELSE mem[a]

\* The block is in the memory.
Space(mem, d, n) ==
  /\ mem \in [DOMAIN mem -> Int] /\ DOMAIN mem \subseteq Int
  /\ d \in Int /\ n \in Nat /\ d..d + n - 1 \subseteq DOMAIN mem

Filling(mem, d, n, c) == {x \in Runs(mem) : \E j \in 0..n : Filled(x, mem, d, n, c, j)}

\* k more bytes.
LEMMA FillOnce ==
  ASSUME NEW mem, NEW d, NEW n, NEW c \in Int, Space(mem, d, n),
         NEW x \in Filling(mem, d, n, c), NEW k \in Nat, k <= x.n
  PROVE  Fill(x, k, c) \in Filling(mem, d, n, c) /\ Fill(x, k, c).n = x.n - k /\ x.n \in Nat
<1> DEFINE m == [a \in DOMAIN x.mem |-> IF a \in x.d..x.d + k - 1 THEN c ELSE x.mem[a]]
           y == Fill(x, k, c)
<1>1. PICK j \in 0..n : Filled(x, mem, d, n, c, j)
  BY DEF Filling
<1>2. /\ x \in Runs(mem) /\ x.mem \in [DOMAIN mem -> Int] /\ DOMAIN x.mem = DOMAIN mem /\ DOMAIN mem \subseteq Int
      /\ x.d = d + j /\ x.n = n - j /\ x.s \in Int /\ d \in Int /\ n \in Nat /\ j + k \in 0..n
  BY <1>1 DEF Filled, Runs, Space
<1>3. ASSUME NEW a \in DOMAIN mem PROVE m[a] = IF a \in d..d + (j + k) - 1 THEN c ELSE mem[a]
  <2>1. a \in Int
    BY <1>2
  <2>2. a \in x.d..x.d + k - 1 \/ a \in d..d + j - 1 <=> a \in d..d + (j + k) - 1
    BY <1>2, <2>1
  <2> QED
    BY <1>1, <1>2, <2>2 DEF Filled
<1>4. m \in [DOMAIN mem -> Int]
  BY <1>2
<1>5. y = Put(x, m, x.d + k, x.s, x.n - k)
  <2>1. y = [x EXCEPT !.mem = m, !.d = x.d + k, !.n = x.n - k]
    BY DEF Fill
  <2> HIDE DEF m
  <2> QED
    BY <1>2, <2>1 DEF Put, Runs
<1> HIDE DEF m, y
<1>6. IsPut(y, mem, m, x.d + k, x.s, x.n - k)
  <2>1. x.d + k \in Int /\ x.n - k \in Int
    BY <1>2
  <2> QED
    BY <1>2, <1>4, <1>5, <2>1, PutIs, Zenon
<1>7. y \in Runs(mem) /\ y.mem = m /\ y.d = x.d + k /\ y.n = x.n - k
  BY <1>6 DEF IsPut
<1>8. x.d + k = d + (j + k) /\ x.n - k = n - (j + k) /\ x.n \in Nat
  BY <1>2
<1>9. Filled(y, mem, d, n, c, j + k)
  BY <1>2, <1>3, <1>7, <1>8 DEF Filled
<1> QED
  BY <1>2, <1>7, <1>8, <1>9 DEF Filling, y

\* The loops that align the destination.
LEMMA FillLoopsIs ==
  ASSUME NEW mem, NEW d, NEW n, NEW c \in Int, Space(mem, d, n), NEW r \in Filling(mem, d, n, c)
  PROVE  FillBytes(r, c) \in Filling(mem, d, n, c) /\ FillWords(r, c) \in Filling(mem, d, n, c)
<1> DEFINE I == Filling(mem, d, n, c)
           bytes == [x \in Runs(r.mem) |-> IF x.n = 0 \/ x.d % 4 = 0 THEN x ELSE Fill(x, 1, c)]
           words == [x \in Runs(r.mem) |-> IF x.n < 4 \/ x.d % 32 = 0 THEN x ELSE Fill(x, 4, c)]
<1>1. \A x \in I : x \in Runs(mem) /\ x.n \in Nat
  BY DEF Filling, Filled, Space
<1>2. Runs(r.mem) = Runs(mem)
  BY <1>1, SameRuns
<1>3. \A x \in I : bytes[x] \in I
  <2> TAKE x \in I
  <2>1. x \in Runs(r.mem) /\ x.n \in Nat
    BY <1>1, <1>2
  <2>2. bytes[x] = IF x.n = 0 \/ x.d % 4 = 0 THEN x ELSE Fill(x, 1, c)
    BY <2>1
  <2> HIDE DEF bytes
  <2>3. ASSUME x.n # 0 PROVE Fill(x, 1, c) \in I
    <3>1. 1 \in Nat /\ 1 <= x.n
      BY <2>1, <2>3
    <3> QED
      BY <3>1, FillOnce
  <2> QED
    BY <2>2, <2>3
<1>4. \A x \in I : words[x] \in I
  <2> TAKE x \in I
  <2>1. x \in Runs(r.mem) /\ x.n \in Nat
    BY <1>1, <1>2
  <2>2. words[x] = IF x.n < 4 \/ x.d % 32 = 0 THEN x ELSE Fill(x, 4, c)
    BY <2>1
  <2> HIDE DEF words
  <2>3. ASSUME ~(x.n < 4) PROVE Fill(x, 4, c) \in I
    <3>1. 4 \in Nat /\ 4 <= x.n
      BY <2>1, <2>3
    <3> QED
      BY <3>1, FillOnce
  <2> QED
    BY <2>2, <2>3
<1>5. FillBytes(r, c) = Rounds(bytes, r, r.n) /\ FillWords(r, c) = Rounds(words, r, r.n)
  BY DEF FillBytes, FillWords
<1>6. r \in I /\ r.n \in Nat
  BY <1>1
<1> HIDE DEF I, bytes, words
<1>7. Rounds(bytes, r, r.n) \in I
  BY <1>3, <1>6, LoopKeeps
<1>8. Rounds(words, r, r.n) \in I
  BY <1>4, <1>6, LoopKeeps
<1> QED
  BY <1>5, <1>7, <1>8 DEF I

\* memset fills with the low byte.
LEMMA MemSetIs ==
  ASSUME NEW mem, NEW d, NEW n, NEW byte \in Int, Space(mem, d, n), NEW a \in DOMAIN mem
  PROVE  MemSet(mem, d, byte, n)[a] = IF a \in d..d + n - 1 THEN byte % 256 ELSE mem[a]
<1> DEFINE c == byte % 256
           I == Filling(mem, d, n, c)
           first == Run(mem, d, d, n)
           bytes == FillBytes(first, c)
           r == FillWords(bytes, c)
           bulk == Fill(r, 32 * (r.n \div 32), c)
           words == Fill(bulk, 4 * (bulk.n \div 4), c)
           end == Fill(words, words.n, c)
<1>1. c \in Int
  OBVIOUS
<1>2. MemSet(mem, d, byte, n) = end.mem
  BY DEF MemSet
<1> HIDE DEF c
<1>3. first \in I
  <2>1. first \in Runs(mem) /\ first.mem = mem /\ first.d = d /\ first.n = n
    BY DEF Run, Runs, Space
  <2> HIDE DEF first
  <2>2. 0 \in 0..n /\ d = d + 0 /\ n = n - 0 /\ \A b \in DOMAIN mem : b \notin d..d + 0 - 1
    BY DEF Space
  <2>3. Filled(first, mem, d, n, c, 0)
    BY <2>1, <2>2 DEF Filled
  <2> QED
    BY <2>1, <2>2, <2>3 DEF Filling
<1> HIDE DEF first, I
<1>4. bytes \in I
  BY <1>1, <1>3, FillLoopsIs DEF I
<1> HIDE DEF bytes
<1>5. r \in I
  BY <1>1, <1>4, FillLoopsIs DEF I
<1> HIDE DEF r
<1>6. \A x \in I : x.n \in Nat
  BY DEF I, Filling, Filled, Space
<1>7. bulk \in I
  <2>1. r.n \in Nat
    BY <1>5, <1>6
  <2>2. 32 * (r.n \div 32) \in Nat /\ 32 * (r.n \div 32) <= r.n
    BY <2>1
  <2> QED
    BY <1>1, <1>5, <2>2, FillOnce DEF I
<1> HIDE DEF bulk
<1>8. words \in I
  <2>1. bulk.n \in Nat
    BY <1>6, <1>7
  <2>2. 4 * (bulk.n \div 4) \in Nat /\ 4 * (bulk.n \div 4) <= bulk.n
    BY <2>1
  <2> QED
    BY <1>1, <1>7, <2>2, FillOnce DEF I
<1> HIDE DEF words
<1>9. end \in I /\ end.n = 0
  <2>1. words.n \in Nat /\ words.n <= words.n /\ words.n - words.n = 0
    BY <1>6, <1>8
  <2> QED
    BY <1>1, <1>8, <2>1, FillOnce DEF I
<1> HIDE DEF end
<1>10. PICK j \in 0..n : Filled(end, mem, d, n, c, j)
  BY <1>9 DEF I, Filling
<1>11. j = n
  <2>1. end.n = n - j /\ n \in Nat
    BY <1>10 DEF Filled, Space
  <2> QED
    BY <1>9, <2>1
<1> QED
  BY <1>2, <1>10, <1>11 DEF Filled, c
----------------------------------------------------------------------------
(***************************************************************************)
(* The calls.                                                              *)
(***************************************************************************)
\* A call is on blocks of the arena that leave room for what it does.
LEMMA ArenaHasRoom ==
  ASSUME NEW d \in Dests, NEW n \in Sizes
  PROVE  /\ Space(Numbered, d, n)
         /\ \A s \in Srcs : Room(Numbered, d, s, n) /\ (n >= 32 \/ d + n <= s \/ s + n <= d)
<1>1. Arena \subseteq Nat /\ d \in Nat /\ n \in Nat /\ d..d + n - 1 \subseteq Arena
  BY BlocksAssumption
<1>2. Numbered \in [Arena -> Int] /\ DOMAIN Numbered = Arena
  BY <1>1 DEF Numbered
<1>3. ASSUME NEW s \in Srcs
      PROVE  /\ s \in Nat /\ s..s + n - 1 \subseteq Arena
             /\ d + n <= s \/ s + n <= d \/ (n >= 32 /\ d <= s)
  BY BlocksAssumption
<1>4. ASSUME NEW s \in Srcs PROVE d <= s \/ s + n <= d
  BY <1>1, <1>3
<1> HIDE DEF Numbered
<1> QED
  BY <1>1, <1>2, <1>3, <1>4 DEF Space, Room

\* In a memory in which each byte tells where it was.
LEMMA CopiedArena ==
  ASSUME NEW d, NEW s, NEW n, Room(Numbered, d, s, n), NEW m, Copied(m, Numbered, d, s, n), NEW a \in Arena
  PROVE  m[a] = IF a \in d..d + n - 1 THEN s + (a - d) ELSE a
<1>1. DOMAIN Numbered = Arena /\ \A b \in Arena : Numbered[b] = b
  BY DEF Numbered
<1>2. m[a] = IF a \in d..d + n - 1 THEN Numbered[s + (a - d)] ELSE Numbered[a]
  BY <1>1 DEF Copied
<1>3. CASE a \in d..d + n - 1
  <2>1. s + (a - d) \in s..s + n - 1
    BY <1>3 DEF Room
  <2>2. s + (a - d) \in Arena
    BY <1>1, <2>1 DEF Room
  <2> QED
    BY <1>1, <1>2, <1>3, <2>2
<1>4. CASE a \notin d..d + n - 1
  BY <1>1, <1>2, <1>4
<1> QED
  BY <1>3, <1>4

\* Copies and fills, of any size and at any alignment, change the bytes of the destination as
\* they should and no others (_memory.s:17-427, util.c:32-61).
THEOREM BlocksCorrect == BlockSpec => []BlocksExact
<1>1. SupInit => BlocksExact
  BY DEF SupInit, Idle, BlocksExact
<1>2. ASSUME BlocksExact, [(call = Idle /\ BlockCall) \/ Return]_call
      PROVE  BlocksExact'
  <2>1. ASSUME NEW d \in Dests, NEW s \in Srcs, NEW n \in Sizes, Copy(d, s, n)
        PROVE  BlocksExact'
    <3> DEFINE m == CopyMem(Numbered, s, d, n)
    <3>1. Room(Numbered, d, s, n) /\ (n >= 32 \/ d + n <= s \/ s + n <= d)
      BY ArenaHasRoom
    <3>2. Copied(m, Numbered, d, s, n)
      BY <3>1, MemCpyIs DEF CopyMem
    <3> HIDE DEF m
    <3>3. \A a \in Arena : m[a] = IF a \in d..d + n - 1 THEN s + (a - d) ELSE a
      BY <3>1, <3>2, CopiedArena
    <3>4. call' = [op |-> "copy", d |-> d, s |-> s, n |-> n, mem |-> m]
      BY <2>1 DEF Copy, m
    <3> QED
      BY <3>3, <3>4 DEF BlocksExact
  <2>2. ASSUME NEW d \in Dests, NEW s \in Srcs, NEW n \in Sizes, n % 4 = 0, CopyWords(d, s, n \div 4)
        PROVE  BlocksExact'
    <3> DEFINE m == CopyMemQuick(Numbered, s, d, n \div 4)
    <3>1. n \div 4 \in Nat /\ 4 * (n \div 4) = n
      <4>1. n \in Nat
        BY BlocksAssumption
      <4> QED
        BY <2>2, <4>1
    <3>2. Room(Numbered, d, s, n)
      BY ArenaHasRoom
    <3>3. Copied(m, Numbered, d, s, n)
      <4>1. Copied(m, Numbered, d, s, 4 * (n \div 4))
        BY <3>1, <3>2, CopyMemQuickIs
      <4> QED
        BY <3>1, <4>1
    <3>4. call' = [op |-> "copy", d |-> d, s |-> s, n |-> n, mem |-> m]
      BY <2>2, <3>1 DEF CopyWords
    <3> HIDE DEF m
    <3>5. \A a \in Arena : m[a] = IF a \in d..d + n - 1 THEN s + (a - d) ELSE a
      BY <3>2, <3>3, CopiedArena
    <3> QED
      BY <3>4, <3>5 DEF BlocksExact
  <2>3. ASSUME NEW d \in Dests, NEW n \in Sizes, Set(d, n)
        PROVE  BlocksExact'
    <3> DEFINE m == MemSet(Numbered, d, 257, n)
    <3>1. DOMAIN Numbered = Arena /\ \A a \in Arena : Numbered[a] = a
      BY DEF Numbered
    <3>2. 257 \in Int /\ 257 % 256 = 1
      OBVIOUS
    <3>3. Space(Numbered, d, n)
      BY ArenaHasRoom
    <3>4. \A a \in Arena : m[a] = IF a \in d..d + n - 1 THEN 257 % 256 ELSE Numbered[a]
      BY <3>1, <3>2, <3>3, MemSetIs
    <3>5. call' = [op |-> "set", d |-> d, n |-> n, mem |-> m]
      BY <2>3 DEF Set
    <3> HIDE DEF m
    <3> QED
      BY <3>1, <3>2, <3>4, <3>5 DEF BlocksExact
  <2>4. CASE Return
    BY <2>4 DEF Return, Idle, BlocksExact
  <2>5. CASE UNCHANGED call
    BY <1>2, <2>5 DEF BlocksExact
  <2> QED
    BY <1>2, <2>1, <2>2, <2>3, <2>4, <2>5 DEF BlockCall
<1> QED
  BY <1>1, <1>2, PTL DEF BlockSpec
=============================================================================
