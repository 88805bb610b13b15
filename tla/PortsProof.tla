----------------------------- MODULE PortsProof -----------------------------
(***************************************************************************)
(* Theorems about Ports, for any servers, clients, ports, priorities and   *)
(* numbers of signal bits and messages.                                    *)
(*                                                                         *)
(* The first part is about the lists of LinkedLists: what the links of a   *)
(* list are after linking and removing a node, for a list of any length,   *)
(* and where a walk of them ends.  The second is the invariant: Placed and *)
(* BitsApart say whose ports there are, where, and with which bits, Roused *)
(* what a server that is about to sleep has missed, and Walks where a      *)
(* search may still get to.                                                *)
(***************************************************************************)
EXTENDS Ports, ExecListTheorems, FiniteSetTheorems, TLAPS

(***************************************************************************)
(* Lists of links.                                                         *)
(***************************************************************************)
Memory == [succ : [Cell -> Cell \cup {NULL}], pred : [Cell -> Cell \cup {NULL}]]

\* The cells of the list that holds q, from its head to its tail.
Place(q, i) == IF i = 0 THEN LHead ELSE IF i = Len(q) + 1 THEN LTail ELSE q[i]

Chain(m, q) ==
  /\ \A i \in 0..Len(q) : /\ m.succ[Place(q, i)] = Place(q, i + 1)
                         /\ m.pred[Place(q, i + 1)] = Place(q, i)
  /\ m.succ[LTail] = NULL
  /\ m.pred[LHead] = NULL

LEMMA ChainIsList ==
  ASSUME NEW q \in Seq(Port), NEW m
  PROVE  Represents(m, PortList, q) <=> Chain(m, q)
<1> DEFINE chain == <<LHead>> \o q \o <<LTail>>
<1>1. \A i \in 0..Len(q) + 1 : chain[i + 1] = Place(q, i)
  <2>1. /\ Len(q) \in Nat /\ q \in Seq(Cell)
        /\ <<LHead>> \in Seq(Cell) /\ <<LTail>> \in Seq(Cell)
    BY LenProperties, ElementOfSeq DEF Cell
  <2>2. /\ <<LHead>> \o q \in Seq(Cell) /\ Len(<<LHead>> \o q) = Len(q) + 1
        /\ \A i \in 1..Len(q) + 1 : (<<LHead>> \o q)[i] = IF i = 1 THEN LHead ELSE q[i - 1]
    BY <2>1, ConcatProperties
  <2>3. \A i \in 1..Len(q) + 2 :
          chain[i] = IF i <= Len(q) + 1 THEN (<<LHead>> \o q)[i] ELSE LTail
    BY <2>1, <2>2, ConcatProperties
  <2> HIDE DEF chain
  <2>4. ASSUME NEW i \in 0..Len(q) + 1 PROVE chain[i + 1] = Place(q, i)
    BY <2>1, <2>2, <2>3 DEF Place
  <2> QED
    BY <2>4
<1>2. Len(q) \in Nat
  BY LenProperties
<1>3. PortList.head = LHead /\ PortList.tail = LTail
  BY DEF PortList, Header
<1>4. Represents(m, PortList, q) <=>
        /\ \A i \in 1..Len(q) + 1 : m.succ[chain[i]] = chain[i + 1] /\ m.pred[chain[i + 1]] = chain[i]
        /\ m.succ[LTail] = NULL /\ m.pred[LHead] = NULL
  BY <1>3 DEF Represents
<1> HIDE DEF chain
<1>5. (\A i \in 1..Len(q) + 1 : m.succ[chain[i]] = chain[i + 1] /\ m.pred[chain[i + 1]] = chain[i])
      <=> \A i \in 0..Len(q) : m.succ[chain[i + 1]] = chain[i + 2] /\ m.pred[chain[i + 2]] = chain[i + 1]
  <2>1. ASSUME \A i \in 1..Len(q) + 1 : m.succ[chain[i]] = chain[i + 1] /\ m.pred[chain[i + 1]] = chain[i],
               NEW j \in 0..Len(q)
        PROVE  m.succ[chain[j + 1]] = chain[j + 2] /\ m.pred[chain[j + 2]] = chain[j + 1]
    <3>1. j + 1 \in 1..Len(q) + 1 /\ (j + 1) + 1 = j + 2
      BY <1>2
    <3> QED
      BY <2>1, <3>1
  <2>2. ASSUME \A i \in 0..Len(q) : m.succ[chain[i + 1]] = chain[i + 2] /\ m.pred[chain[i + 2]] = chain[i + 1],
               NEW j \in 1..Len(q) + 1
        PROVE  m.succ[chain[j]] = chain[j + 1] /\ m.pred[chain[j + 1]] = chain[j]
    <3>1. j - 1 \in 0..Len(q) /\ (j - 1) + 1 = j /\ (j - 1) + 2 = j + 1
      BY <1>2
    <3> QED
      BY <2>2, <3>1
  <2> QED
    BY <2>1, <2>2
<1>6. \A i \in 0..Len(q) : chain[i + 1] = Place(q, i) /\ chain[i + 2] = Place(q, i + 1)
  <2>1. ASSUME NEW i \in 0..Len(q) PROVE chain[i + 1] = Place(q, i) /\ chain[i + 2] = Place(q, i + 1)
    <3>1. i \in 0..Len(q) + 1 /\ i + 1 \in 0..Len(q) + 1 /\ (i + 1) + 1 = i + 2
      BY <1>2
    <3> QED
      BY <1>1, <3>1
  <2> QED
    BY <2>1
<1> QED
  BY <1>4, <1>5, <1>6 DEF Chain

\* No cell is in a list twice, and NULL is none.
LEMMA Places ==
  ASSUME NEW q \in Seq(Port), Distinct(q)
  PROVE  /\ Len(q) \in Nat
         /\ \A i \in 0..Len(q) + 1 : Place(q, i) \in Cell /\ Place(q, i) # NULL
         /\ \A i \in 1..Len(q) : Place(q, i) = q[i] /\ q[i] \in Port
         /\ Place(q, 0) = LHead /\ Place(q, Len(q) + 1) = LTail
         /\ \A i, j \in 0..Len(q) + 1 : Place(q, i) = Place(q, j) => i = j
<1>1. Len(q) \in Nat /\ \A i \in 1..Len(q) : q[i] \in Port
  BY LenProperties, ElementOfSeq
<1>2. NULL \notin Cell /\ LHead \notin Port /\ LTail \notin Port /\ LHead # LTail
  BY PortsAssumption
<1> QED
  BY <1>1, <1>2 DEF Place, Cell, Distinct

\* A distinct sequence of ports is no longer than there are ports.
LEMMA ShortEnough ==
  ASSUME NEW q \in Seq(Port), Distinct(q)
  PROVE  Bound \in Nat /\ Len(q) <= Bound
<1>1. IsFiniteSet(Port) /\ Len(q) \in Nat
  BY PortsAssumption, LenProperties
<1>2. IsFiniteSet(1..Len(q)) /\ Cardinality(1..Len(q)) = Len(q)
  BY <1>1, FS_Interval
<1>3. q \in Injection(1..Len(q), Port)
  BY LenProperties, ElementOfSeq DEF Injection, IsInjective, Distinct
<1>4. Cardinality(1..Len(q)) <= Cardinality(Port)
  BY <1>1, <1>3, FS_Injection
<1> QED
  BY <1>1, <1>2, <1>4, FS_CardinalityType DEF Bound

\* The four stores of Enqueue put a node between its neighbours.
LEMMA LinkIsInsert ==
  ASSUME NEW m \in Memory, NEW q \in Seq(Port), Distinct(q), Represents(m, PortList, q),
         NEW n \in Port \ ToSet(q), NEW k \in 1..Len(q) + 1
  PROVE  /\ Link(m, Place(q, k - 1), n, Place(q, k)) \in Memory
         /\ Represents(Link(m, Place(q, k - 1), n, Place(q, k)), PortList, InsertAt(q, k, n))
<1> DEFINE a == Place(q, k - 1)
           b == Place(q, k)
           r == InsertAt(q, k, n)
           z == Link(m, a, n, b)
<1>1. /\ Len(q) \in Nat /\ k \in Nat /\ k - 1 \in 0..Len(q) + 1 /\ k \in 0..Len(q) + 1
      /\ k - 1 \in 0..Len(q) /\ n \in Cell
  BY LenProperties DEF Cell
<1>2. \A i \in 0..Len(q) + 1 : Place(q, i) \in Cell /\ Place(q, i) # n
  <2>1. \A i \in 1..Len(q) : q[i] # n
    BY LenProperties DEF ToSet
  <2>2. n # LHead /\ n # LTail
    BY PortsAssumption
  <2> QED
    BY <1>1, <2>1, <2>2, Places DEF Place
<1>3. \A i, j \in 0..Len(q) + 1 : Place(q, i) = Place(q, j) => i = j
  BY Places
<1>4. a \in Cell /\ b \in Cell /\ a # n /\ b # n
  BY <1>1, <1>2
<1>5. m.succ \in [Cell -> Cell \cup {NULL}] /\ m.pred \in [Cell -> Cell \cup {NULL}]
  BY DEF Memory
<1> HIDE DEF a, b
<1>6. /\ z.succ \in [Cell -> Cell \cup {NULL}] /\ z.pred \in [Cell -> Cell \cup {NULL}]
      /\ \A c \in Cell : /\ z.succ[c] = IF c = a THEN n ELSE IF c = n THEN b ELSE m.succ[c]
                         /\ z.pred[c] = IF c = b THEN n ELSE IF c = n THEN a ELSE m.pred[c]
      /\ z \in Memory
  BY <1>1, <1>4, <1>5 DEF Link, Memory
<1>7. /\ r \in Seq(Port) /\ Len(r) = Len(q) + 1
      /\ \A i \in 1..(Len(q) + 1) : r[i] = IF i < k THEN q[i] ELSE IF i = k THEN n ELSE q[i - 1]
  <2> HIDE DEF z
  <2>1. Inserted(Port, InsertAt(q, k, n), q, n, k)
    BY InsertAtInserts
  <2> QED
    BY <2>1, Zenon DEF Inserted
<1> HIDE DEF r
<1>8. \A i \in 0..Len(q) + 2 :
        Place(r, i) = IF i < k THEN Place(q, i) ELSE IF i = k THEN n ELSE Place(q, i - 1)
  BY <1>1, <1>7 DEF Place
<1>9. Chain(m, q)
  BY ChainIsList
<1> HIDE DEF z
<1>10. ASSUME NEW i \in 0..Len(q) + 1
       PROVE  z.succ[Place(r, i)] = Place(r, i + 1) /\ z.pred[Place(r, i + 1)] = Place(r, i)
  <2>1. i \in 0..Len(q) + 2 /\ i + 1 \in 0..Len(q) + 2
    BY <1>1
  <2>2. CASE i < k - 1
    <3>1. Place(r, i) = Place(q, i) /\ Place(r, i + 1) = Place(q, i + 1)
      BY <1>1, <1>8, <2>1, <2>2
    <3>2. i \in 0..Len(q) /\ i + 1 \in 0..Len(q) + 1
      BY <1>1, <2>2
    <3>3. Place(q, i) # a /\ Place(q, i + 1) # b
      BY <1>1, <1>3, <2>2, <3>2 DEF a, b
    <3> QED
      BY <1>2, <1>6, <1>9, <3>1, <3>2, <3>3 DEF Chain
  <2>3. CASE i = k - 1
    <3>1. Place(r, i) = a /\ Place(r, i + 1) = n
      BY <1>1, <1>8, <2>1, <2>3 DEF a
    <3> QED
      BY <1>1, <1>4, <1>6, <3>1
  <2>4. CASE i = k
    <3>1. Place(r, i) = n /\ Place(r, i + 1) = b
      BY <1>1, <1>8, <2>1, <2>4 DEF b
    <3> QED
      BY <1>1, <1>4, <1>6, <3>1
  <2>5. CASE i > k
    <3>0. /\ i - 1 \in 0..Len(q) /\ i \in 0..Len(q) + 1 /\ i - 1 \in 0..Len(q) + 1
          /\ (i - 1) + 1 = i /\ (i + 1) - 1 = i /\ i - 1 # k - 1 /\ i # k
          /\ ~(i < k) /\ ~(i + 1 < k) /\ i + 1 # k
      BY <1>1, <2>5
    <3>1. Place(r, i) = Place(q, i - 1) /\ Place(r, i + 1) = Place(q, i)
      BY <1>8, <2>1, <3>0
    <3>2. Place(q, i - 1) # a /\ Place(q, i) # b
      BY <1>1, <1>3, <3>0 DEF a, b
    <3> QED
      BY <1>2, <1>6, <1>9, <3>0, <3>1, <3>2 DEF Chain
  <2> QED
    BY <1>1, <2>2, <2>3, <2>4, <2>5
<1>11. z.succ[LTail] = NULL /\ z.pred[LHead] = NULL
  <2>1. LTail # n /\ LHead # n /\ LTail \in Cell /\ LHead \in Cell
    BY PortsAssumption DEF Cell
  <2>2. LTail # a /\ LHead # b
    BY <1>1, <1>3, Places DEF a, b
  <2> QED
    BY <1>6, <1>9, <2>1, <2>2 DEF Chain
<1>12. Chain(z, r)
  BY <1>7, <1>10, <1>11 DEF Chain
<1>13. Represents(z, PortList, r)
  BY <1>7, <1>12, ChainIsList
<1> QED
  BY <1>6, <1>13 DEF z, r, a, b

\* The two stores of Remove close the gap that a node leaves, whose own links stay.
LEMMA RemoveIsUnlink ==
  ASSUME NEW m \in Memory, NEW q \in Seq(Port), Distinct(q), Represents(m, PortList, q),
         NEW k \in 1..Len(q)
  PROVE  /\ RemoveNode(m, q[k]) \in Memory
         /\ RemoveNode(m, q[k]).succ = [m.succ EXCEPT ![Place(q, k - 1)] = m.succ[q[k]]]
         /\ Represents(RemoveNode(m, q[k]), PortList, RemoveAt(q, k))
<1> DEFINE a == Place(q, k - 1)
           n == q[k]
           b == Place(q, k + 1)
           r == RemoveAt(q, k)
           z == RemoveNode(m, n)
<1>1. /\ Len(q) \in Nat /\ k \in Nat /\ k - 1 \in 0..Len(q) /\ k \in 0..Len(q)
      /\ k + 1 \in 0..Len(q) + 1 /\ (k - 1) + 1 = k
      /\ k - 1 \in 0..Len(q) + 1 /\ k \in 0..Len(q) + 1
  BY LenProperties
<1>2. \A i \in 0..Len(q) + 1 : Place(q, i) \in Cell
  BY Places
<1>3. \A i, j \in 0..Len(q) + 1 : Place(q, i) = Place(q, j) => i = j
  BY Places
<1>4. n = Place(q, k) /\ n \in Cell
  BY <1>1, <1>2, Places
<1>5. a \in Cell /\ b \in Cell /\ a # n /\ b # n
  BY <1>1, <1>2, <1>3, <1>4
<1>6. m.succ \in [Cell -> Cell \cup {NULL}] /\ m.pred \in [Cell -> Cell \cup {NULL}]
  BY DEF Memory
<1>7. Chain(m, q)
  BY ChainIsList
<1>8. m.succ[n] = b /\ m.pred[n] = a
  BY <1>1, <1>4, <1>7 DEF Chain
<1> HIDE DEF a, b, n
<1>9. /\ z.succ = [m.succ EXCEPT ![a] = b] /\ z.pred = [m.pred EXCEPT ![b] = a]
      /\ z = [succ |-> z.succ, pred |-> z.pred]
  <2> DEFINE y == RemoveStore1(m, n)
  <2>1. m = [succ |-> m.succ, pred |-> m.pred]
    BY DEF Memory
  <2>2. y = [succ |-> m.succ, pred |-> [m.pred EXCEPT ![b] = a]]
    BY <1>8, <2>1 DEF RemoveStore1, SetPred
  <2>3. y.pred[n] = a
    BY <1>4, <1>5, <1>6, <1>8, <2>2
  <2>4. z = SetSucc(y, y.pred[n], y.succ[n])
    BY DEF RemoveNode, RemoveStore2
  <2> HIDE DEF y, z
  <2>5. y.succ[n] = b
    BY <1>8, <2>2
  <2>6. z = [y EXCEPT !.succ[a] = b]
    BY <2>3, <2>4, <2>5 DEF SetSucc
  <2> QED
    BY <2>2, <2>6
<1> HIDE DEF z
<1>10. z \in Memory
  BY <1>5, <1>6, <1>9 DEF Memory
<1>11. \A c \in Cell : /\ z.succ[c] = IF c = a THEN b ELSE m.succ[c]
                       /\ z.pred[c] = IF c = b THEN a ELSE m.pred[c]
  BY <1>5, <1>6, <1>9
<1>12. r \in Seq(Port) /\ Len(r) = Len(q) - 1
  BY RemoveAtPlace
<1>13. \A i \in 0..Len(q) : Place(r, i) = IF i < k THEN Place(q, i) ELSE Place(q, i + 1)
  <2>1. \A i \in 1..Len(q) - 1 : r[i] = IF i < k THEN q[i] ELSE q[i + 1]
    BY RemoveAtPlace
  <2> HIDE DEF r
  <2>2. ASSUME NEW i \in 0..Len(q)
        PROVE  Place(r, i) = IF i < k THEN Place(q, i) ELSE Place(q, i + 1)
    <3>1. CASE i = 0
      BY <1>1, <3>1 DEF Place
    <3>2. CASE i = Len(q)
      BY <1>1, <1>12, <3>2 DEF Place
    <3>3. CASE i \in 1..Len(q) - 1
      BY <1>1, <1>12, <2>1, <3>3 DEF Place
    <3> QED
      BY <1>1, <3>1, <3>2, <3>3
  <2> QED
    BY <2>2
<1> HIDE DEF r
<1>14. ASSUME NEW i \in 0..Len(q) - 1
       PROVE  z.succ[Place(r, i)] = Place(r, i + 1) /\ z.pred[Place(r, i + 1)] = Place(r, i)
  <2>1. /\ i \in 0..Len(q) /\ i + 1 \in 0..Len(q) /\ i \in 0..Len(q) + 1
        /\ i + 1 \in 0..Len(q) + 1 /\ (i + 1) + 1 \in 0..Len(q) + 1
    BY <1>1
  <2>2. CASE i < k - 1
    <3>1. Place(r, i) = Place(q, i) /\ Place(r, i + 1) = Place(q, i + 1)
      BY <1>1, <1>13, <2>1, <2>2
    <3>2. Place(q, i) # a /\ Place(q, i + 1) # b
      BY <1>1, <1>3, <2>1, <2>2 DEF a, b
    <3> QED
      BY <1>2, <1>7, <1>11, <2>1, <3>1, <3>2 DEF Chain
  <2>3. CASE i = k - 1
    <3>1. Place(r, i) = a /\ Place(r, i + 1) = b
      BY <1>1, <1>13, <2>1, <2>3 DEF a, b
    <3> QED
      BY <1>5, <1>11, <3>1
  <2>4. CASE i >= k
    <3>1. Place(r, i) = Place(q, i + 1) /\ Place(r, i + 1) = Place(q, (i + 1) + 1)
      BY <1>1, <1>13, <2>1, <2>4
    <3>2. Place(q, i + 1) # a /\ Place(q, (i + 1) + 1) # b
      BY <1>1, <1>3, <2>1, <2>4 DEF a, b
    <3> QED
      BY <1>2, <1>7, <1>11, <2>1, <3>1, <3>2 DEF Chain
  <2> QED
    BY <1>1, <2>2, <2>3, <2>4
<1>15. z.succ[LTail] = NULL /\ z.pred[LHead] = NULL
  <2>1. LTail \in Cell /\ LHead \in Cell
    BY DEF Cell
  <2>2. LTail # a /\ LHead # b
    BY <1>1, <1>3, Places DEF a, b
  <2> QED
    BY <1>7, <1>11, <2>1, <2>2 DEF Chain
<1>16. Chain(z, r)
  BY <1>1, <1>12, <1>14, <1>15 DEF Chain
<1>17. Represents(z, PortList, r)
  BY <1>12, <1>16, ChainIsList
<1> QED
  BY <1>8, <1>9, <1>10, <1>17 DEF z, r, a, n

\* The links of a port that is not in the list are not the list's.
LEMMA ElsewhereIsNothing ==
  ASSUME NEW m \in Memory, NEW q \in Seq(Port), Distinct(q), Represents(m, PortList, q),
         NEW n \in Port \ ToSet(q), NEW z, z = SetPred(SetSucc(m, n, NULL), n, NULL)
  PROVE  /\ z \in Memory /\ Represents(z, PortList, q)
         /\ \A c \in Cell \ {n} : z.succ[c] = m.succ[c]
<1>1. n \in Cell /\ n # LHead /\ n # LTail /\ LHead \in Cell /\ LTail \in Cell
  BY PortsAssumption DEF Cell
<1>2. m.succ \in [Cell -> Cell \cup {NULL}] /\ m.pred \in [Cell -> Cell \cup {NULL}]
  BY DEF Memory
<1>3. /\ z.succ = [m.succ EXCEPT ![n] = NULL] /\ z.pred = [m.pred EXCEPT ![n] = NULL]
      /\ z = [succ |-> z.succ, pred |-> z.pred]
  BY <1>1, <1>2 DEF SetSucc, SetPred, Memory
<1>4. z \in Memory /\ \A c \in Cell \ {n} : z.succ[c] = m.succ[c] /\ z.pred[c] = m.pred[c]
  BY <1>1, <1>2, <1>3 DEF Memory
<1>5. \A i \in 0..Len(q) + 1 : Place(q, i) \in Cell \ {n}
  <2>1. \A i \in 1..Len(q) : q[i] # n
    BY LenProperties DEF ToSet
  <2> QED
    BY <1>1, <2>1, Places DEF Place
<1>6. Chain(m, q)
  BY ChainIsList
<1>7. \A i \in 0..Len(q) : i \in 0..Len(q) + 1 /\ i + 1 \in 0..Len(q) + 1
  BY LenProperties
<1>8. Chain(z, q)
  BY <1>1, <1>4, <1>5, <1>6, <1>7 DEF Chain
<1> QED
  BY <1>4, <1>8, ChainIsList

\* Link by link, a walk comes by the nodes of the list, its tail, and nothing.
LEMMA WalkIsList ==
  ASSUME NEW m \in Memory, NEW q \in Seq(Port), Distinct(q), Represents(m, PortList, q)
  PROVE  \A k \in Nat : Behind(m, m.succ[LHead])[k] = IF k <= Len(q) THEN Place(q, k + 1) ELSE NULL
<1> DEFINE c == m.succ[LHead]
           F(f) == [k \in Nat |-> IF k = 0 THEN c
                                  ELSE IF f[k - 1] = NULL THEN NULL
                                  ELSE m.succ[f[k - 1]]]
           list == [k \in Nat |-> IF k <= Len(q) THEN Place(q, k + 1) ELSE NULL]
           cell == CHOOSE f : f = F(f)
           off  == {k \in Nat : cell[k] # list[k]}
<1>1. Behind(m, c) = cell
  BY DEF Behind
<1>2. Chain(m, q) /\ Len(q) \in Nat
  BY ChainIsList, LenProperties
<1>3. ASSUME NEW k \in Nat
      PROVE  list[k] = IF k = 0 THEN c ELSE IF list[k - 1] = NULL THEN NULL ELSE m.succ[list[k - 1]]
  <2>1. CASE k = 0
    <3>1. 0 \in 0..Len(q) /\ Place(q, 0) = LHead
      BY <1>2, Places
    <3>2. m.succ[LHead] = Place(q, 0 + 1)
      BY <1>2, <3>1 DEF Chain
    <3> QED
      BY <1>2, <2>1, <3>2
  <2>2. CASE k \in 1..Len(q)
    <3>1. /\ k \in 0..Len(q) /\ k \in 0..Len(q) + 1 /\ k - 1 \in Nat /\ k - 1 <= Len(q)
          /\ (k - 1) + 1 = k /\ k # 0 /\ k <= Len(q)
      BY <1>2, <2>2
    <3>2. list[k - 1] = Place(q, k) /\ Place(q, k) # NULL
      BY <3>1, Places
    <3>3. m.succ[Place(q, k)] = Place(q, k + 1)
      BY <1>2, <3>1 DEF Chain
    <3> QED
      BY <3>1, <3>2, <3>3
  <2>3. CASE k = Len(q) + 1
    <3>1. k - 1 \in Nat /\ k - 1 <= Len(q) /\ (k - 1) + 1 = Len(q) + 1 /\ k # 0 /\ ~(k <= Len(q))
      BY <1>2, <2>3
    <3>2. list[k - 1] = LTail /\ LTail # NULL
      BY <3>1, Places, PortsAssumption DEF Cell
    <3>3. m.succ[LTail] = NULL
      BY <1>2 DEF Chain
    <3> QED
      BY <3>1, <3>2, <3>3
  <2>4. CASE k > Len(q) + 1
    <3>1. k - 1 \in Nat /\ ~(k - 1 <= Len(q)) /\ k # 0 /\ ~(k <= Len(q))
      BY <1>2, <2>4
    <3> QED
      BY <3>1
  <2> QED
    BY <1>2, <2>1, <2>2, <2>3, <2>4
<1>4. list = F(list)
  <2>1. list = [k \in Nat |-> list[k]]
    OBVIOUS
  <2> HIDE DEF c, list
  <2>2. F(list) = [k \in Nat |-> list[k]]
    BY <1>3
  <2> QED
    BY <2>1, <2>2, Zenon
<1>5. cell = F(cell)
  <2> HIDE DEF F, list
  <2> QED
    BY <1>4
<1>6. \A k \in Nat : cell[k] = IF k = 0 THEN c ELSE IF cell[k - 1] = NULL THEN NULL ELSE m.succ[cell[k - 1]]
  <2> HIDE DEF cell, c
  <2> DEFINE g == F(cell)
  <2>1. \A k \in Nat : g[k] = IF k = 0 THEN c ELSE IF cell[k - 1] = NULL THEN NULL ELSE m.succ[cell[k - 1]]
    BY Zenon
  <2>2. cell = g
    BY <1>5
  <2> HIDE DEF g
  <2> QED
    BY <2>1, <2>2
<1> HIDE DEF cell, list, c
<1>7. off = {}
  <2> SUFFICES ASSUME off # {} PROVE FALSE
    OBVIOUS
  <2> DEFINE k == Min(off)
  <2>1. k \in off /\ \A j \in off : k <= j
    BY MinIsLeast
  <2>2. k \in Nat /\ cell[k] # list[k]
    BY <2>1
  <2> HIDE DEF k, off
  <2>3. k # 0
    BY <1>3, <1>6, <2>2
  <2>4. k - 1 \in Nat /\ ~(k <= k - 1)
    BY <2>2, <2>3
  <2>5. cell[k - 1] = list[k - 1]
    BY <2>1, <2>4 DEF off
  <2> QED
    BY <1>3, <1>6, <2>2, <2>3, <2>5
<1> QED
  BY <1>1, <1>7 DEF list, c

\* It ends at the first node that is to stop it, or at the tail.
LEMMA WalkEnds ==
  ASSUME NEW m \in Memory, NEW q \in Seq(Port), Distinct(q), Represents(m, PortList, q),
         NEW stops,
         NEW P, P = {i \in 1..Len(q) : q[i] \in stops} \cup {Len(q) + 1}
  PROVE  /\ Min(P) \in 1..Len(q) + 1
         /\ WalkEnd(m, PortList, stops, Bound) = Place(q, Min(P))
<1> DEFINE cell == Behind(m, m.succ[LHead])
           ends == {k \in 0..Bound : /\ cell[k] # NULL
                                     /\ (m.succ[cell[k]] = NULL \/ cell[k] \in stops)}
<1>1. Len(q) \in Nat /\ Bound \in Nat /\ Len(q) <= Bound
  BY ShortEnough, LenProperties
<1>2. WalkEnd(m, PortList, stops, Bound) = cell[Min(ends)]
  BY DEF WalkEnd, PortList, Header
<1>3. \A k \in Nat : cell[k] = IF k <= Len(q) THEN Place(q, k + 1) ELSE NULL
  BY WalkIsList
<1> HIDE DEF cell
<1>4. \A k \in 0..Bound : k \in ends <=> k + 1 \in P
  <2> SUFFICES ASSUME NEW k \in 0..Bound PROVE k \in ends <=> k + 1 \in P
    OBVIOUS
  <2>1. k \in Nat /\ Chain(m, q)
    BY <1>1, ChainIsList
  <2>2. CASE k < Len(q)
    <3>1. /\ k + 1 \in 1..Len(q) /\ k + 1 \in 0..Len(q) + 1 /\ k + 1 \in 0..Len(q)
          /\ (k + 1) + 1 \in 0..Len(q) + 1 /\ k <= Len(q) /\ k + 1 # Len(q) + 1
      BY <1>1, <2>2
    <3>2. cell[k] = q[k + 1] /\ cell[k] = Place(q, k + 1) /\ cell[k] # NULL
      BY <1>3, <3>1, Places
    <3>3. m.succ[cell[k]] # NULL
      BY <2>1, <3>1, <3>2, Places DEF Chain
    <3> QED
      BY <3>1, <3>2, <3>3
  <2>3. CASE k = Len(q)
    <3>1. cell[k] = LTail /\ LTail # NULL
      BY <1>1, <1>3, <2>3, Places, PortsAssumption DEF Cell
    <3>2. m.succ[cell[k]] = NULL
      BY <2>1, <3>1 DEF Chain
    <3> QED
      BY <2>3, <3>1, <3>2
  <2>4. CASE k > Len(q)
    <3>1. cell[k] = NULL
      BY <1>1, <1>3, <2>1, <2>4
    <3> QED
      BY <1>1, <2>1, <2>4, <3>1
  <2> QED
    BY <1>1, <2>2, <2>3, <2>4
<1>5. P \in SUBSET Nat /\ P # {} /\ P \subseteq 1..Len(q) + 1
  BY <1>1
<1>6. Min(P) \in P /\ \A i \in P : Min(P) <= i
  BY <1>5, MinIsLeast
<1>7. ends \in SUBSET Nat /\ ends # {}
  <2>1. Len(q) \in 0..Bound
    BY <1>1
  <2> QED
    BY <1>4, <2>1
<1>8. Min(ends) \in ends /\ \A k \in ends : Min(ends) <= k
  BY <1>7, MinIsLeast
<1>9. Min(P) \in 1..Len(q) + 1
  BY <1>5, <1>6
<1>10. Min(ends) = Min(P) - 1
  <2>1. Min(ends) \in 0..Bound /\ Min(ends) + 1 \in P
    BY <1>4, <1>8
  <2>2. Min(P) - 1 \in 0..Bound /\ (Min(P) - 1) + 1 = Min(P)
    BY <1>1, <1>9
  <2>3. Min(P) - 1 \in ends
    BY <1>4, <1>6, <2>2
  <2>4. Min(ends) <= Min(P) - 1 /\ Min(P) <= Min(ends) + 1
    BY <1>6, <1>8, <2>1, <2>3
  <2> QED
    BY <2>1, <2>2, <2>4
<1>11. cell[Min(P) - 1] = Place(q, Min(P))
  <2>1. Min(P) - 1 \in Nat /\ Min(P) - 1 <= Len(q) /\ (Min(P) - 1) + 1 = Min(P)
    BY <1>1, <1>9
  <2> QED
    BY <1>3, <2>1
<1> QED
  BY <1>2, <1>9, <1>10, <1>11

\* So Enqueue's links are those of the list that Enqueue makes of the sequence.
LEMMA LinkIsEnqueue ==
  ASSUME NEW m \in Memory, NEW q \in Seq(Port), Distinct(q), Represents(m, PortList, q),
         NEW n \in Port \ ToSet(q)
  PROVE  \E k \in 1..Len(q) + 1 :
           /\ LinkByPri(m, PortList, n, Pri, Bound) = Link(m, Place(q, k - 1), n, Place(q, k))
           /\ Enqueue(q, n, Pri) = InsertAt(q, k, n)
<1> DEFINE P == EnqueuePlaces(q, Pri[n], Pri)
           stops == {c \in DOMAIN Pri : Pri[n] > Pri[c]}
           k == Min(P)
           end == WalkEnd(m, PortList, stops, Bound)
<1>1. P = {i \in 1..Len(q) : q[i] \in stops} \cup {Len(q) + 1}
  <2>1. DOMAIN Pri = Port /\ \A i \in 1..Len(q) : q[i] \in Port
    BY PortsAssumption, Places
  <2> QED
    BY <2>1 DEF EnqueuePlaces
<1> HIDE DEF P, stops
<1>2. k \in 1..Len(q) + 1 /\ end = Place(q, k)
  BY <1>1, WalkEnds
<1>3. Enqueue(q, n, Pri) = InsertAt(q, k, n)
  BY DEF Enqueue, P
<1>4. Chain(m, q) /\ Len(q) \in Nat
  BY ChainIsList, LenProperties
<1>5. k - 1 \in 0..Len(q) /\ (k - 1) + 1 = k
  BY <1>2, <1>4
<1>6. m.pred[end] = Place(q, k - 1)
  BY <1>2, <1>4, <1>5 DEF Chain
<1>7. m.succ[LHead] = Place(q, 1)
  <2>1. 0 \in 0..Len(q) /\ 0 + 1 = 1 /\ Place(q, 0) = LHead
    BY <1>4, Places
  <2> QED
    BY <1>4, <2>1 DEF Chain
<1>8. LinkByPri(m, PortList, n, Pri, Bound)
        = IF m.succ[m.succ[LHead]] = NULL THEN Link(m, LHead, n, m.succ[LHead])
          ELSE Link(m, m.pred[end], n, end)
  BY DEF LinkByPri, LinkHead, PortList, Header, stops
<1> HIDE DEF end, k
<1>9. CASE m.succ[m.succ[LHead]] = NULL
  <2>1. Len(q) = 0
    <3> SUFFICES ASSUME Len(q) # 0 PROVE FALSE
      OBVIOUS
    <3>1. 1 \in 0..Len(q) /\ 1 + 1 \in 0..Len(q) + 1
      BY <1>4
    <3> QED
      BY <1>4, <1>7, <1>9, <3>1, Places DEF Chain
  <2>2. k = 1 /\ k - 1 = 0
    BY <1>2, <2>1
  <2>3. Place(q, k - 1) = LHead /\ Place(q, k) = m.succ[LHead]
    BY <1>7, <2>2, Places
  <2> QED
    BY <1>2, <1>3, <1>8, <1>9, <2>3
<1>10. CASE m.succ[m.succ[LHead]] # NULL
  BY <1>2, <1>3, <1>6, <1>8, <1>10
<1> QED
  BY <1>9, <1>10

(***************************************************************************)
(* The invariant.                                                          *)
(***************************************************************************)
Making(s) == pc[s] \in {"alloc", "load", "store"}
ServerPC == {"user", "alloc", "load", "store",
             "waitport", "test", "sleep", "asleep", "collect", "clear"}
ClientPC == {"user", "look", "next", "found", "none", "signal"}

\* A port in the list, or that somebody sends to, is one whose making is over.
Made(p) == owner[p] \in Server /\ (Making(owner[p]) => at[owner[p]] # p)

Placed ==
  /\ \A s \in Server : /\ pc[s] \in ServerPC
                       /\ pc[s] # "user" => at[s] \in Port /\ owner[at[s]] = s
  /\ \A c \in Client : /\ pc[c] \in ClientPC
                       /\ pc[c] = "signal" => at[c] \in Port /\ Made(at[c])
                       /\ pc[c] = "next" => at[c] # NULL
  /\ \A p \in ToSet(public) : Made(p)

\* The bits of a server's ports are allocated, and no two ports have one bit.
BitsApart ==
  \A s \in Server :
    /\ sigAlloc[s] = {sigBit[p] : p \in Mine(s)}
    /\ \A p, q \in Mine(s) : sigBit[p] = sigBit[q] => p = q

\* What a server that found its port empty knows of what was sent since.
Sent(s) == sigBit[at[s]] \in sigRecvd[s] \/ \E c \in Client : pc[c] = "signal" /\ at[c] = at[s]

Roused ==
  \A s \in Server :
    /\ pc[s] \in {"test", "sleep", "asleep"} /\ mail[at[s]] > 0 => Sent(s)
    /\ pc[s] \in {"sleep", "asleep"} /\ sigBit[at[s]] \in sigRecvd[s] => missed[s]

Listed == Represents(mem, PortList, public) /\ Distinct(public) /\ SortedBy(public, Pri)

\* Where a search may stand: links lead from nowhere in it out of it.
Ground(c) == unlinked[c] \cup ToSet(public) \cup {LTail}

Closed(S) == \A x \in S \ {LTail} : mem.succ[x] \in S
Reach(c, x, p) == \A S \in SUBSET Ground(c) : x \in S /\ Closed(S) => p \in S

Walking(c) ==
  /\ unlinked[c] \cap ToSet(public) = {}
  /\ \A u \in unlinked[c] : mem.succ[u] \in Ground(c)
  /\ at[c] \in Ground(c)
  /\ pc[c] \in {"next", "found"} => at[c] # LTail
  /\ pc[c] = "next" => NameOf[at[c]] # name[c]
  /\ steady[c] \subseteq ToSet(public)
  /\ \A p \in steady[c] : NameOf[p] = name[c] =>
       /\ pc[c] # "none"
       /\ pc[c] \in {"look", "next"} => Reach(c, at[c], p)

Walks == \A c \in Client : Searching(c) /\ ~confused[c] => Walking(c)

PortsInv == TypeOK /\ Placed /\ BitsApart /\ Roused /\ Listed /\ Walks
---------------------------------------------------------------------------
(***************************************************************************)
(* What steps leave alone.                                                 *)
(***************************************************************************)
LEMMA Constants ==
  /\ LHead \in Cell /\ LTail \in Cell /\ LHead # LTail /\ Port \subseteq Cell
  /\ LHead \notin Port /\ LTail \notin Port /\ NULL \notin Port
  /\ NULL \notin Server /\ NULL # LTail
  /\ \A s \in Server, c \in Client : s # c
  /\ MaxMail \in Nat /\ Bits \in Nat
BY PortsAssumption DEF Cell

\* The port a server has made or is waiting at is its own, and has a bit.
LEMMA MadeHasBit ==
  ASSUME PortsInv, NEW p \in Port, Made(p)
  PROVE  /\ owner[p] \in Server /\ p \in Mine(owner[p])
         /\ sigBit[p] \in 0..Bits - 1 /\ sigBit[p] \in sigAlloc[owner[p]]
<1>1. owner[p] \in Server /\ p \in Mine(owner[p])
  BY DEF Made, Making, Mine
<1>2. sigAlloc[owner[p]] = {sigBit[r] : r \in Mine(owner[p])}
  BY <1>1 DEF PortsInv, BitsApart
<1>3. sigAlloc[owner[p]] \in SUBSET (0..Bits - 1)
  BY <1>1 DEF PortsInv, TypeOK, SignalType
<1>4. sigBit[p] \in sigAlloc[owner[p]]
  BY <1>1, <1>2
<1> QED
  BY <1>1, <1>3, <1>4

\* Each server's bits stay as they are while it neither gets nor gives one back.
LEMMA BitsStay ==
  ASSUME BitsApart, UNCHANGED <<sigBit, sigAlloc>>,
         \A s \in Server, p \in Port : p \in Mine(s)' <=> p \in Mine(s)
  PROVE  BitsApart'
<1>1. \A s \in Server : Mine(s)' = Mine(s)
  BY DEF Mine
<1>2. ASSUME NEW s \in Server
      PROVE  /\ sigAlloc'[s] = {sigBit'[p] : p \in Mine(s)'}
             /\ \A p, q \in Mine(s)' : sigBit'[p] = sigBit'[q] => p = q
  BY <1>1 DEF BitsApart
<1> QED
  BY <1>2, Zenon DEF BitsApart

\* A search goes on where the links it can come to are the same.
LEMMA WalkingStays ==
  ASSUME NEW c \in Client, Walking(c), public' = public,
         name'[c] = name[c], unlinked'[c] = unlinked[c], steady'[c] = steady[c],
         pc'[c] = pc[c], at'[c] = at[c],
         \A x \in Ground(c) : mem'.succ[x] = mem.succ[x]
  PROVE  Walking(c)'
<1>1. Ground(c)' = Ground(c)
  BY DEF Ground
<1>2. \A S \in SUBSET Ground(c) : Closed(S)' <=> Closed(S)
  BY DEF Closed
<1>3. \A x, p : Reach(c, x, p)' <=> Reach(c, x, p)
  BY <1>1, <1>2 DEF Reach
<1>4. \A u \in unlinked[c] : mem'.succ[u] = mem.succ[u]
  BY DEF Ground
<1> QED
  BY <1>1, <1>3, <1>4 DEF Walking

LEMMA WalksStay ==
  ASSUME Walks, UNCHANGED <<public, name, unlinked, steady>>,
         \A c \in Client : Searching(c)' /\ ~confused'[c] =>
            /\ ~confused[c] /\ pc'[c] = pc[c] /\ at'[c] = at[c]
            /\ \A x \in Ground(c) : mem'.succ[x] = mem.succ[x]
  PROVE  Walks'
<1> SUFFICES ASSUME NEW c \in Client, Searching(c)', ~confused'[c] PROVE Walking(c)'
  BY DEF Walks
<1>1. /\ ~confused[c] /\ pc'[c] = pc[c] /\ at'[c] = at[c]
      /\ \A x \in Ground(c) : mem'.succ[x] = mem.succ[x]
  OBVIOUS
<1>2. Searching(c)
  BY <1>1 DEF Searching
<1>3. Walking(c)
  BY <1>1, <1>2 DEF Walks
<1> QED
  BY <1>1, <1>3, WalkingStays

\* A step of a server inside its own calls, that neither touches a port nor gets a bit.
LEMMA ServerMoves ==
  ASSUME PortsInv, NEW s \in Server, NEW label \in ServerPC, NEW place,
         UNCHANGED <<ports, sigAlloc, walk>>, SignalType',
         \A u \in Server \ {s} : sigRecvd'[u] = sigRecvd[u] /\ missed'[u] = missed[u],
         pc' = [pc EXCEPT ![s] = label], at' = [at EXCEPT ![s] = place],
         pc[s] # "alloc", label # "alloc",
         label = "user" => place \in Port \cup {NULL},
         label # "user" => place \in Port /\ owner[place] = s,
         label \in {"load", "store"} => pc[s] \in {"load", "store"} /\ place = at[s],
         label \in {"test", "sleep", "asleep"} /\ mail[place] > 0 =>
           \/ sigBit[place] \in sigRecvd'[s]
           \/ \E c \in Client : pc[c] = "signal" /\ at[c] = place,
         label \in {"sleep", "asleep"} /\ sigBit[place] \in sigRecvd'[s] => missed'[s]
  PROVE  PortsInv'
<1>1. /\ pc \in [Server \cup Client -> PC] /\ at \in [Server \cup Client -> Cell \cup {NULL}]
      /\ place \in Cell \cup {NULL} /\ label \in PC
  BY Constants DEF PortsInv, TypeOK, TaskType, ServerPC, PC
<1>2. /\ pc' \in [Server \cup Client -> PC] /\ at' \in [Server \cup Client -> Cell \cup {NULL}]
      /\ \A t \in Server \cup Client : /\ pc'[t] = IF t = s THEN label ELSE pc[t]
                                       /\ at'[t] = IF t = s THEN place ELSE at[t]
  BY <1>1
<1>3. \A c \in Client : pc'[c] = pc[c] /\ at'[c] = at[c]
  BY <1>2, Constants
<1>4. UNCHANGED <<mem, owner, sigBit, mail, public, sigAlloc, name, unlinked, steady, confused>>
  BY DEF ports, walk
<1>5. TypeOK'
  BY <1>2, <1>4 DEF PortsInv, TypeOK, LinkType, PortType, TaskType, WalkType
<1>6. Placed'
  <2>1. \A u \in Server : /\ pc'[u] \in ServerPC
                          /\ pc'[u] # "user" => at'[u] \in Port /\ owner[at'[u]] = u
    BY <1>2 DEF PortsInv, Placed
  <2>2. ASSUME NEW p, Made(p) PROVE Made(p)'
    BY <1>2, <1>4, <2>2 DEF Made, Making
  <2>3. \A c \in Client : /\ pc'[c] \in ClientPC
                          /\ pc'[c] = "signal" => at'[c] \in Port /\ Made(at[c])'
                          /\ pc'[c] = "next" => at'[c] # NULL
    BY <1>3, <2>2 DEF PortsInv, Placed
  <2>4. \A p \in ToSet(public) : Made(p)'
    BY <2>2 DEF PortsInv, Placed
  <2> QED
    BY <1>4, <2>1, <2>3, <2>4 DEF Placed
<1>7. BitsApart'
  <2>1. \A u \in Server, p \in Port : p \in Mine(u)' <=> p \in Mine(u)
    BY <1>2, <1>4 DEF Mine
  <2> QED
    BY <1>4, <2>1, BitsStay DEF PortsInv
<1>8. Roused'
  <2> SUFFICES ASSUME NEW u \in Server
               PROVE  /\ pc'[u] \in {"test", "sleep", "asleep"} /\ mail'[at'[u]] > 0 => Sent(u)'
                      /\ pc'[u] \in {"sleep", "asleep"} /\ sigBit'[at'[u]] \in sigRecvd'[u] => missed'[u]
    BY DEF Roused
  <2>1. CASE u = s
    BY <1>2, <1>3, <1>4, <2>1 DEF Sent
  <2>2. CASE u # s
    BY <1>2, <1>3, <1>4, <2>2 DEF Sent, PortsInv, Roused
  <2> QED
    BY <2>1, <2>2
<1>9. Listed'
  BY <1>4 DEF PortsInv, Listed
<1>10. Walks'
  BY <1>3, <1>4, WalksStay DEF PortsInv
<1> QED
  BY <1>5, <1>6, <1>7, <1>8, <1>9, <1>10 DEF PortsInv

---------------------------------------------------------------------------
(***************************************************************************)
(* The steps of a server inside AllocSignal, WaitPort and Wait.            *)
(***************************************************************************)
LEMMA WithinCalls ==
  ASSUME PortsInv, NEW s \in Server,
         \/ AllocLoad(s) \/ AllocStore(s) \/ \E p \in Port : WaitPortCall(s, p)
         \/ WaitPort(s) \/ WaitTest(s) \/ WaitSleep(s) \/ WaitLoad(s) \/ WaitStore(s)
  PROVE  PortsInv'
<1>1. /\ pc \in [Server \cup Client -> PC] /\ at \in [Server \cup Client -> Cell \cup {NULL}]
      /\ SignalType
  BY DEF PortsInv, TypeOK, TaskType
<1>2. /\ pc[s] \in ServerPC
      /\ pc[s] # "user" => at[s] \in Port /\ owner[at[s]] = s
      /\ pc[s] \in {"test", "sleep", "asleep"} /\ mail[at[s]] > 0 => Sent(s)
      /\ pc[s] \in {"sleep", "asleep"} /\ sigBit[at[s]] \in sigRecvd[s] => missed[s]
  BY DEF PortsInv, Placed, Roused
<1>3. at = [at EXCEPT ![s] = at[s]]
  BY <1>1
<1>4. /\ sigRecvd \in [Server -> SUBSET (0..Bits - 1)] /\ reg \in [Server -> SUBSET (0..Bits - 1)]
      /\ missed \in [Server -> BOOLEAN] /\ sigAlloc \in [Server -> SUBSET (0..Bits - 1)]
  BY <1>1 DEF SignalType
<1>5. CASE AllocLoad(s)
  <2>1. /\ SignalType' /\ \A u \in Server \ {s} : sigRecvd'[u] = sigRecvd[u] /\ missed'[u] = missed[u]
        /\ pc' = [pc EXCEPT ![s] = "store"] /\ at' = [at EXCEPT ![s] = at[s]]
        /\ UNCHANGED <<ports, sigAlloc, walk>> /\ pc[s] = "load" /\ "store" \in ServerPC
    BY <1>3, <1>4, <1>5 DEF AllocLoad, GoTo, SignalType, ServerPC
  <2> QED
    BY <1>2, <2>1, ServerMoves
<1>6. CASE AllocStore(s)
  <2>1. /\ SignalType' /\ \A u \in Server \ {s} : sigRecvd'[u] = sigRecvd[u] /\ missed'[u] = missed[u]
        /\ pc' = [pc EXCEPT ![s] = "user"] /\ at' = [at EXCEPT ![s] = NULL]
        /\ UNCHANGED <<ports, sigAlloc, walk>> /\ pc[s] = "store" /\ "user" \in ServerPC
    BY <1>4, <1>6 DEF AllocStore, Return, GoTo, SignalType, ServerPC
  <2> QED
    BY <2>1, ServerMoves
<1>7. CASE \E p \in Port : WaitPortCall(s, p)
  <2>0. PICK p \in Port : WaitPortCall(s, p)
    BY <1>7
  <2>1. /\ SignalType' /\ \A u \in Server \ {s} : sigRecvd'[u] = sigRecvd[u] /\ missed'[u] = missed[u]
        /\ pc' = [pc EXCEPT ![s] = "waitport"] /\ at' = [at EXCEPT ![s] = p] /\ owner[p] = s
        /\ UNCHANGED <<ports, sigAlloc, walk>> /\ pc[s] = "user" /\ "waitport" \in ServerPC
    BY <1>4, <2>0 DEF WaitPortCall, GoTo, SignalType, ServerPC, signals
  <2> QED
    BY <2>1, ServerMoves
<1>8. CASE WaitPort(s)
  <2>1. /\ SignalType' /\ \A u \in Server \ {s} : sigRecvd'[u] = sigRecvd[u] /\ missed'[u] = missed[u]
        /\ UNCHANGED <<ports, sigAlloc, walk>> /\ pc[s] = "waitport"
        /\ "test" \in ServerPC /\ "user" \in ServerPC
    BY <1>4, <1>8 DEF WaitPort, SignalType, ServerPC, signals
  <2>2. CASE mail[at[s]] = 0
    <3>1. pc' = [pc EXCEPT ![s] = "test"] /\ at' = [at EXCEPT ![s] = at[s]]
      BY <1>3, <1>8, <2>2 DEF WaitPort, GoTo
    <3>2. ~(mail[at[s]] > 0)
      BY <2>2
    <3> QED
      BY <1>2, <2>1, <3>1, <3>2, ServerMoves
  <2>3. CASE mail[at[s]] # 0
    <3>1. pc' = [pc EXCEPT ![s] = "user"] /\ at' = [at EXCEPT ![s] = NULL]
      BY <1>8, <2>3 DEF WaitPort, Return, GoTo
    <3> QED
      BY <2>1, <3>1, ServerMoves
  <2> QED
    BY <2>2, <2>3
<1>9. CASE WaitTest(s)
  <2>1. /\ SignalType' /\ \A u \in Server \ {s} : sigRecvd'[u] = sigRecvd[u] /\ missed'[u] = missed[u]
        /\ UNCHANGED <<ports, sigAlloc, walk>> /\ pc[s] = "test" /\ sigRecvd' = sigRecvd
        /\ "collect" \in ServerPC /\ "sleep" \in ServerPC /\ at' = [at EXCEPT ![s] = at[s]]
    BY <1>3, <1>4, <1>9 DEF WaitTest, SignalType, ServerPC, signals
  <2>2. CASE sigBit[at[s]] \in sigRecvd[s]
    <3>1. pc' = [pc EXCEPT ![s] = "collect"]
      BY <1>9, <2>2 DEF WaitTest, GoTo
    <3> QED
      BY <1>2, <2>1, <3>1, ServerMoves
  <2>3. CASE sigBit[at[s]] \notin sigRecvd[s]
    <3>1. pc' = [pc EXCEPT ![s] = "sleep"]
      BY <1>9, <2>3 DEF WaitTest, GoTo
    <3>2. mail[at[s]] > 0 => \E c \in Client : pc[c] = "signal" /\ at[c] = at[s]
      BY <1>2, <2>1, <2>3 DEF Sent
    <3> QED
      BY <1>2, <2>1, <2>3, <3>1, <3>2, ServerMoves
  <2> QED
    BY <2>2, <2>3
<1>10. CASE WaitSleep(s)
  <2>1. /\ SignalType' /\ \A u \in Server \ {s} : sigRecvd'[u] = sigRecvd[u] /\ missed'[u] = missed[u]
        /\ UNCHANGED <<ports, sigAlloc, walk>> /\ pc[s] = "sleep" /\ sigRecvd' = sigRecvd
        /\ "asleep" \in ServerPC /\ at' = [at EXCEPT ![s] = at[s]] /\ missed' = missed
        /\ pc' = [pc EXCEPT ![s] = "asleep"]
    BY <1>3, <1>4, <1>10 DEF WaitSleep, GoTo, SignalType, ServerPC, signals
  <2>2. mail[at[s]] > 0 => \/ sigBit[at[s]] \in sigRecvd[s]
                           \/ \E c \in Client : pc[c] = "signal" /\ at[c] = at[s]
    BY <1>2, <2>1 DEF Sent
  <2> QED
    BY <1>2, <2>1, <2>2, ServerMoves
<1>11. CASE WaitLoad(s)
  <2>1. /\ SignalType' /\ \A u \in Server \ {s} : sigRecvd'[u] = sigRecvd[u] /\ missed'[u] = missed[u]
        /\ UNCHANGED <<ports, sigAlloc, walk>> /\ pc[s] = "collect"
        /\ "clear" \in ServerPC /\ at' = [at EXCEPT ![s] = at[s]]
        /\ pc' = [pc EXCEPT ![s] = "clear"]
    BY <1>3, <1>4, <1>11 DEF WaitLoad, GoTo, SignalType, ServerPC
  <2> QED
    BY <1>2, <2>1, ServerMoves
<1>12. CASE WaitStore(s)
  <2>1. /\ SignalType' /\ \A u \in Server \ {s} : sigRecvd'[u] = sigRecvd[u] /\ missed'[u] = missed[u]
        /\ UNCHANGED <<ports, sigAlloc, walk>> /\ pc[s] = "clear"
        /\ "waitport" \in ServerPC /\ at' = [at EXCEPT ![s] = at[s]]
        /\ pc' = [pc EXCEPT ![s] = "waitport"]
    BY <1>3, <1>4, <1>12 DEF WaitStore, GoTo, SignalType, ServerPC
  <2> QED
    BY <1>2, <2>1, ServerMoves
<1> QED
  BY <1>5, <1>6, <1>7, <1>8, <1>9, <1>10, <1>11, <1>12

---------------------------------------------------------------------------
(***************************************************************************)
(* Messages and signals.                                                   *)
(***************************************************************************)
LEMMA GetMsgStep ==
  ASSUME PortsInv, NEW s \in Server, NEW p \in Port, GetMsg(s, p)
  PROVE  PortsInv'
<1>1. UNCHANGED <<mem, owner, sigBit, public, sigAlloc, sigRecvd, reg, missed,
                  name, unlinked, steady, confused, pc, at>>
  BY DEF GetMsg, signals, walk
<1>2. mail \in [Port -> 0..MaxMail] /\ mail[p] \in 1..MaxMail
  BY Constants DEF PortsInv, TypeOK, PortType, GetMsg
<1>3. mail' \in [Port -> 0..MaxMail] /\ \A r \in Port : mail'[r] > 0 => mail[r] > 0
  BY <1>2, Constants DEF GetMsg
<1>4. TypeOK'
  BY <1>1, <1>3 DEF PortsInv, TypeOK, LinkType, PortType, SignalType, TaskType, WalkType
<1>5. Placed'
  BY <1>1 DEF PortsInv, Placed, Made, Making
<1>6. BitsApart'
  BY <1>1, BitsStay DEF PortsInv, Mine
<1>7. Roused'
  <2> SUFFICES ASSUME NEW u \in Server
               PROVE  /\ pc'[u] \in {"test", "sleep", "asleep"} /\ mail'[at'[u]] > 0 => Sent(u)'
                      /\ pc'[u] \in {"sleep", "asleep"} /\ sigBit'[at'[u]] \in sigRecvd'[u] => missed'[u]
    BY DEF Roused
  <2>1. pc[u] # "user" => at[u] \in Port
    BY DEF PortsInv, Placed
  <2>2. Sent(u)' <=> Sent(u)
    BY <1>1 DEF Sent
  <2> QED
    BY <1>1, <1>3, <2>1, <2>2 DEF PortsInv, Roused
<1>8. Listed'
  BY <1>1 DEF PortsInv, Listed
<1>9. Walks'
  BY <1>1, WalksStay DEF PortsInv
<1> QED
  BY <1>4, <1>5, <1>6, <1>7, <1>8, <1>9 DEF PortsInv

LEMMA PutMsgStep ==
  ASSUME PortsInv, NEW c \in Client, NEW p \in Port, PutMsg(c, p)
  PROVE  PortsInv'
<1>1. UNCHANGED <<mem, owner, sigBit, public, sigAlloc, sigRecvd, reg, missed,
                  name, unlinked, steady, confused>>
  BY DEF PutMsg, signals, walk
<1>2. mail \in [Port -> 0..MaxMail] /\ mail[p] \in 0..MaxMail - 1
  BY Constants DEF PortsInv, TypeOK, PortType, PutMsg
<1>3. mail' \in [Port -> 0..MaxMail] /\ \A r \in Port \ {p} : mail'[r] = mail[r]
  BY <1>2, Constants DEF PutMsg, Post
<1>4. /\ pc \in [Server \cup Client -> PC] /\ at \in [Server \cup Client -> Cell \cup {NULL}]
      /\ pc[c] = "user"
  BY DEF PortsInv, TypeOK, TaskType, PutMsg
<1>5. /\ pc' \in [Server \cup Client -> PC] /\ at' \in [Server \cup Client -> Cell \cup {NULL}]
      /\ \A t \in Server \cup Client : /\ pc'[t] = IF t = c THEN "signal" ELSE pc[t]
                                       /\ at'[t] = IF t = c THEN p ELSE at[t]
  BY <1>4, Constants DEF PutMsg, GoTo, PC
<1>6. \A u \in Server : pc'[u] = pc[u] /\ at'[u] = at[u]
  BY <1>5, Constants
<1>7. TypeOK'
  BY <1>1, <1>3, <1>5 DEF PortsInv, TypeOK, LinkType, PortType, SignalType, TaskType, WalkType
<1>8. Placed'
  <2>1. owner \in [Port -> Server \cup {NULL}]
    BY DEF PortsInv, TypeOK, PortType
  <2>2. Made(p)
    BY <2>1 DEF PutMsg, Open, Made, Making
  <2>3. \A r : Made(r)' <=> Made(r)
    BY <1>1, <1>6 DEF Made, Making
  <2>4. \A d \in Client : /\ pc'[d] \in ClientPC
                          /\ pc'[d] = "signal" => at'[d] \in Port /\ Made(at'[d])
                          /\ pc'[d] = "next" => at'[d] # NULL
    BY <1>5, <2>2 DEF PortsInv, Placed, ClientPC
  <2> QED
    BY <1>1, <1>6, <2>3, <2>4 DEF PortsInv, Placed
<1>9. BitsApart'
  <2>1. \A u \in Server, r \in Port : r \in Mine(u)' <=> r \in Mine(u)
    BY <1>1, <1>6 DEF Mine
  <2> QED
    BY <1>1, <2>1, BitsStay DEF PortsInv
<1>10. Roused'
  <2> SUFFICES ASSUME NEW u \in Server
               PROVE  /\ pc'[u] \in {"test", "sleep", "asleep"} /\ mail'[at'[u]] > 0 => Sent(u)'
                      /\ pc'[u] \in {"sleep", "asleep"} /\ sigBit'[at'[u]] \in sigRecvd'[u] => missed'[u]
    BY DEF Roused
  <2>1. pc[u] # "user" => at[u] \in Port
    BY DEF PortsInv, Placed
  <2>2. Sent(u) => Sent(u)'
    BY <1>1, <1>4, <1>5, <1>6 DEF Sent
  <2>3. at[u] = p => Sent(u)'
    BY <1>5, <1>6 DEF Sent
  <2> QED
    BY <1>1, <1>3, <1>6, <2>1, <2>2, <2>3 DEF PortsInv, Roused
<1>11. Listed'
  BY <1>1 DEF PortsInv, Listed
<1>12. Walks'
  <2>1. \A d \in Client : Searching(d)' => pc'[d] = pc[d] /\ at'[d] = at[d]
    BY <1>5 DEF Searching
  <2> QED
    BY <1>1, <2>1, WalksStay DEF PortsInv
<1> QED
  BY <1>7, <1>8, <1>9, <1>10, <1>11, <1>12 DEF PortsInv

\* Signal, whoever calls it.
LEMMA SignalStep ==
  ASSUME PortsInv, NEW p \in Port, Made(p), SignalOwner(p),
         UNCHANGED <<mem, owner, sigBit, public, sigAlloc, reg, walk>>,
         mail' \in [Port -> 0..MaxMail], \A r \in Port \ {p} : mail'[r] = mail[r],
         TaskType',
         \A u \in Server : /\ pc'[u] = IF u = owner[p] /\ pc[u] = "asleep" THEN "test" ELSE pc[u]
                           /\ at'[u] = at[u],
         \A c \in Client : \/ pc'[c] = pc[c] /\ at'[c] = at[c]
                           \/ /\ pc[c] = "signal" /\ at[c] = p
                              /\ pc'[c] = "user" /\ at'[c] = NULL
  PROVE  PortsInv'
<1> DEFINE s == owner[p]
<1>1. UNCHANGED <<mem, owner, sigBit, public, sigAlloc, reg, name, unlinked, steady, confused>>
  BY DEF walk
<1>2. /\ s \in Server /\ sigBit[p] \in 0..Bits - 1
      /\ sigRecvd \in [Server -> SUBSET (0..Bits - 1)] /\ missed \in [Server -> BOOLEAN]
  BY MadeHasBit DEF PortsInv, TypeOK, SignalType
<1> HIDE DEF s
<1>3. /\ sigRecvd' = [sigRecvd EXCEPT ![s] = @ \cup {sigBit[p]}]
      /\ missed' = [missed EXCEPT ![s] = IF pc[s] = "sleep" THEN TRUE
                                         ELSE missed[s] /\ pc[s] # "asleep"]
  BY DEF SignalOwner, s
<1>4. /\ sigRecvd' \in [Server -> SUBSET (0..Bits - 1)]
      /\ \A u \in Server : sigRecvd'[u] = IF u = s THEN sigRecvd[u] \cup {sigBit[p]} ELSE sigRecvd[u]
  BY <1>2, <1>3
<1>5. missed' \in [Server -> BOOLEAN]
  BY <1>2, <1>3
<1>6. TypeOK'
  BY <1>1, <1>4, <1>5 DEF PortsInv, TypeOK, LinkType, PortType, SignalType, WalkType
<1>7. Placed'
  <2>1. \A r : Made(r)' <=> Made(r)
    BY <1>1 DEF Made, Making
  <2>2. \A c \in Client : /\ pc'[c] \in ClientPC
                          /\ pc'[c] = "signal" => at'[c] \in Port /\ Made(at'[c])
                          /\ pc'[c] = "next" => at'[c] # NULL
    BY DEF PortsInv, Placed, ClientPC
  <2>3. \A u \in Server : /\ pc'[u] \in ServerPC
                          /\ pc'[u] # "user" => at'[u] \in Port /\ owner[at'[u]] = u
    BY DEF PortsInv, Placed, ServerPC
  <2> QED
    BY <1>1, <2>1, <2>2, <2>3 DEF PortsInv, Placed
<1>8. BitsApart'
  <2>1. \A u \in Server, r \in Port : r \in Mine(u)' <=> r \in Mine(u)
    BY <1>1 DEF Mine
  <2> QED
    BY <1>1, <2>1, BitsStay DEF PortsInv
<1>9. Roused'
  <2> SUFFICES ASSUME NEW u \in Server
               PROVE  /\ pc'[u] \in {"test", "sleep", "asleep"} /\ mail'[at'[u]] > 0 => Sent(u)'
                      /\ pc'[u] \in {"sleep", "asleep"} /\ sigBit'[at'[u]] \in sigRecvd'[u] => missed'[u]
    BY DEF Roused
  <2>1. pc[u] # "user" => at[u] \in Port /\ owner[at[u]] = u
    BY DEF PortsInv, Placed
  <2>2. /\ pc[u] \in {"test", "sleep", "asleep"} /\ mail[at[u]] > 0 => Sent(u)
        /\ pc[u] \in {"sleep", "asleep"} /\ sigBit[at[u]] \in sigRecvd[u] => missed[u]
    BY DEF PortsInv, Roused
  <2>3. at[u] # p /\ Sent(u) => Sent(u)'
    BY <1>1, <1>4 DEF Sent
  <2>4. CASE u = s
    <3>1. at[u] = p => Sent(u)'
      BY <1>1, <1>4, <2>4 DEF Sent
    <3>2. pc'[u] = IF pc[u] = "asleep" THEN "test" ELSE pc[u]
      BY <2>4 DEF s
    <3>3. pc[u] = "sleep" => missed'[u]
      BY <1>2, <1>3, <2>4
    <3> QED
      BY <1>1, <2>1, <2>2, <2>3, <3>1, <3>2, <3>3
  <2>5. CASE u # s
    <3>1. pc'[u] = pc[u] /\ sigRecvd'[u] = sigRecvd[u] /\ missed'[u] = missed[u]
      BY <1>2, <1>3, <1>4, <2>5 DEF s
    <3>2. pc[u] # "user" => at[u] # p
      BY <2>1, <2>5 DEF s
    <3> QED
      BY <1>1, <2>1, <2>2, <2>3, <3>1, <3>2
  <2> QED
    BY <2>4, <2>5
<1>10. Listed'
  BY <1>1 DEF PortsInv, Listed
<1>11. Walks'
  <2>1. \A c \in Client : Searching(c)' => pc'[c] = pc[c] /\ at'[c] = at[c]
    BY DEF Searching
  <2> QED
    BY <1>1, <2>1, WalksStay DEF PortsInv
<1> QED
  BY <1>6, <1>7, <1>8, <1>9, <1>10, <1>11 DEF PortsInv

LEMMA PutMsgSignalStep ==
  ASSUME PortsInv, NEW c \in Client, PutMsgSignal(c)
  PROVE  PortsInv'
<1> DEFINE p == at[c]
           s == owner[p]
<1>1. /\ pc \in [Server \cup Client -> PC] /\ at \in [Server \cup Client -> Cell \cup {NULL}]
      /\ mail \in [Port -> 0..MaxMail]
  BY DEF PortsInv, TypeOK, TaskType, PortType
<1>2. pc[c] = "signal" /\ p \in Port /\ Made(p)
  BY DEF PutMsgSignal, PortsInv, Placed
<1>3. s \in Server /\ s # c
  BY <1>2, Constants DEF Made
<1>4. /\ SignalOwner(p) /\ UNCHANGED <<ports, sigAlloc, reg, walk>>
      /\ pc' = [pc EXCEPT ![c] = "user", ![s] = IF @ = "asleep" THEN "test" ELSE @]
      /\ at' = [at EXCEPT ![c] = NULL]
  BY DEF PutMsgSignal
<1> HIDE DEF s
<1>5. /\ pc' \in [Server \cup Client -> PC]
      /\ \A t \in Server \cup Client :
           pc'[t] = IF t = c THEN "user"
                    ELSE IF t = s /\ pc[t] = "asleep" THEN "test" ELSE pc[t]
  BY <1>1, <1>3, <1>4 DEF PC
<1>6. /\ at' \in [Server \cup Client -> Cell \cup {NULL}]
      /\ \A t \in Server \cup Client : at'[t] = IF t = c THEN NULL ELSE at[t]
  BY <1>1, <1>4
<1>7. \A u \in Server : /\ pc'[u] = IF u = s /\ pc[u] = "asleep" THEN "test" ELSE pc[u]
                        /\ at'[u] = at[u]
  BY <1>5, <1>6, Constants
<1>8. \A d \in Client : \/ pc'[d] = pc[d] /\ at'[d] = at[d]
                        \/ /\ pc[d] = "signal" /\ at[d] = p
                           /\ pc'[d] = "user" /\ at'[d] = NULL
  BY <1>2, <1>3, <1>5, <1>6, Constants
<1>9. UNCHANGED <<mem, owner, sigBit, public, sigAlloc, reg, walk, mail>>
  BY <1>4 DEF ports
<1>10. TaskType'
  BY <1>5, <1>6 DEF TaskType
<1> HIDE DEF p
<1> QED
  BY <1>1, <1>2, <1>4, <1>7, <1>8, <1>9, <1>10, SignalStep DEF s

LEMMA InterruptReplyStep ==
  ASSUME PortsInv, NEW p \in Port, InterruptReply(p)
  PROVE  PortsInv'
<1> DEFINE s == owner[p]
<1>1. /\ pc \in [Server \cup Client -> PC] /\ at \in [Server \cup Client -> Cell \cup {NULL}]
      /\ mail \in [Port -> 0..MaxMail] /\ owner \in [Port -> Server \cup {NULL}]
  BY DEF PortsInv, TypeOK, TaskType, PortType
<1>2. Made(p) /\ s \in Server
  BY <1>1 DEF InterruptReply, Open, Made, Making
<1>3. /\ SignalOwner(p) /\ UNCHANGED <<mem, owner, sigBit, public, sigAlloc, reg, walk, at>>
      /\ pc' = [pc EXCEPT ![s] = IF @ = "asleep" THEN "test" ELSE @]
      /\ mail' = [mail EXCEPT ![p] = @ + 1] /\ mail[p] < MaxMail
  BY DEF InterruptReply, Post
<1>4. mail' \in [Port -> 0..MaxMail] /\ \A r \in Port \ {p} : mail'[r] = mail[r]
  BY <1>1, <1>3, Constants
<1> HIDE DEF s
<1>5. /\ pc' \in [Server \cup Client -> PC]
      /\ \A t \in Server \cup Client :
           pc'[t] = IF t = s /\ pc[t] = "asleep" THEN "test" ELSE pc[t]
  BY <1>1, <1>2, <1>3 DEF PC
<1>6. TaskType'
  BY <1>1, <1>3, <1>5 DEF TaskType
<1>7. \A d \in Client : pc'[d] = pc[d] /\ at'[d] = at[d]
  BY <1>2, <1>3, <1>5, Constants
<1> QED
  BY <1>2, <1>3, <1>4, <1>5, <1>6, <1>7, SignalStep DEF s

---------------------------------------------------------------------------
(***************************************************************************)
(* Searches.                                                               *)
(***************************************************************************)
LEMMA Links ==
  ASSUME PortsInv
  PROVE  /\ mem \in Memory /\ public \in Seq(Port) /\ ToSet(public) \subseteq Port
         /\ Distinct(public) /\ SortedBy(public, Pri)
         /\ Represents(mem, PortList, public) /\ Chain(mem, public)
<1>1. mem \in Memory /\ public \in Seq(Port)
  BY DEF PortsInv, TypeOK, LinkType, Memory
<1>2. ToSet(public) \subseteq Port
  BY <1>1, LenProperties, ElementOfSeq DEF ToSet
<1> QED
  BY <1>1, <1>2, ChainIsList DEF PortsInv, Listed

\* Behind a public port comes a public port or the tail.
LEMMA Follows ==
  ASSUME PortsInv
  PROVE  /\ mem.succ[LHead] \in ToSet(public) \cup {LTail}
         /\ \A x \in ToSet(public) : mem.succ[x] \in ToSet(public) \cup {LTail}
         /\ mem.succ[LTail] = NULL
<1>1. /\ public \in Seq(Port) /\ Distinct(public) /\ Chain(mem, public)
      /\ Len(public) \in Nat
  BY Links, LenProperties
<1>2. \A i \in 0..Len(public) : Place(public, i + 1) \in ToSet(public) \cup {LTail}
  <2> SUFFICES ASSUME NEW i \in 0..Len(public)
               PROVE  Place(public, i + 1) \in ToSet(public) \cup {LTail}
    OBVIOUS
  <2>1. CASE i = Len(public)
    BY <1>1, <2>1, Places
  <2>2. CASE i < Len(public)
    <3>1. i + 1 \in 1..Len(public)
      BY <1>1, <2>2
    <3>2. Place(public, i + 1) = public[i + 1]
      BY <1>1, <3>1, Places
    <3> QED
      BY <1>1, <3>1, <3>2, LenProperties DEF ToSet
  <2> QED
    BY <1>1, <2>1, <2>2
<1>3. mem.succ[LHead] = Place(public, 0 + 1)
  <2>1. 0 \in 0..Len(public) /\ Place(public, 0) = LHead
    BY <1>1, Places
  <2> QED
    BY <1>1, <2>1 DEF Chain
<1>4. ASSUME NEW x \in ToSet(public) PROVE \E i \in 0..Len(public) : mem.succ[x] = Place(public, i + 1)
  <2>1. PICK i \in 1..Len(public) : x = public[i]
    BY <1>1, LenProperties DEF ToSet
  <2>2. Place(public, i) = x /\ i \in 0..Len(public)
    BY <1>1, <2>1, Places
  <2> QED
    BY <1>1, <2>2 DEF Chain
<1>5. 0 \in 0..Len(public)
  BY <1>1
<1> QED
  BY <1>1, <1>2, <1>3, <1>4, <1>5 DEF Chain

\* From the head one gets to every port of the list.
LEMMA AllReached ==
  ASSUME PortsInv, NEW S, mem.succ[LHead] \in S, Closed(S)
  PROVE  ToSet(public) \subseteq S
<1>1. /\ public \in Seq(Port) /\ Distinct(public) /\ Chain(mem, public)
      /\ Len(public) \in Nat
  BY Links, LenProperties
<1> DEFINE off == {i \in 1..Len(public) : public[i] \notin S}
<1>2. off = {}
  <2> SUFFICES ASSUME off # {} PROVE FALSE
    OBVIOUS
  <2> DEFINE k == Min(off)
  <2>1. off \in SUBSET Nat
    BY <1>1
  <2>2. k \in off /\ \A j \in off : k <= j
    BY <2>1, MinIsLeast
  <2>3. k \in 1..Len(public) /\ public[k] \notin S
    BY <2>2
  <2> HIDE DEF k
  <2>4. /\ k - 1 \in 0..Len(public) /\ (k - 1) + 1 = k /\ k \in Nat
        /\ mem.succ[Place(public, k - 1)] = Place(public, (k - 1) + 1)
    BY <1>1, <2>3 DEF Chain
  <2>5. mem.succ[Place(public, k - 1)] = public[k]
    BY <1>1, <2>3, <2>4, Places
  <2>6. CASE k = 1
    BY <1>1, <2>3, <2>5, <2>6, Places
  <2>7. CASE k > 1
    <3>1. k - 1 \in 1..Len(public) /\ ~(k <= k - 1)
      BY <1>1, <2>3, <2>7
    <3>2. public[k - 1] \in S
      BY <2>2, <3>1
    <3>3. Place(public, k - 1) = public[k - 1] /\ public[k - 1] # LTail
      BY <1>1, <3>1, Places, Constants
    <3> QED
      BY <2>3, <2>5, <3>2, <3>3 DEF Closed
  <2> QED
    BY <2>3, <2>6, <2>7
<1> QED
  BY <1>1, <1>2, LenProperties DEF ToSet

\* The links of what a search may stand on lead to the like, except the tail's.
LEMMA GroundClosed ==
  ASSUME PortsInv, NEW c \in Client, Walking(c)
  PROVE  /\ Closed(Ground(c)) /\ LTail \in Ground(c) /\ Ground(c) \subseteq Cell
         /\ NULL \notin Ground(c)
         /\ \A x \in Ground(c) : mem.succ[x] = NULL <=> x = LTail
<1>1. unlinked[c] \subseteq Port /\ ToSet(public) \subseteq Port
  BY Links DEF PortsInv, TypeOK, WalkType
<1>2. Closed(Ground(c))
  BY Follows DEF Closed, Ground, Walking
<1>3. Ground(c) \subseteq Cell /\ NULL \notin Ground(c) /\ LTail \in Ground(c)
  BY <1>1, Constants DEF Ground
<1> QED
  BY <1>2, <1>3, Follows DEF Closed

\* A step of a client that concerns its search alone.
LEMMA ClientMoves ==
  ASSUME PortsInv, NEW c \in Client, NEW label \in ClientPC, NEW place \in Cell \cup {NULL},
         UNCHANGED <<ports, signals>>, WalkType',
         pc' = [pc EXCEPT ![c] = label], at' = [at EXCEPT ![c] = place],
         pc[c] # "signal", label # "signal", label = "next" => place # NULL,
         \A d \in Client \ {c} : /\ name'[d] = name[d] /\ unlinked'[d] = unlinked[d]
                                 /\ steady'[d] = steady[d] /\ confused'[d] = confused[d],
         Searching(c)' /\ ~confused'[c] => Walking(c)'
  PROVE  PortsInv'
<1>1. UNCHANGED <<mem, owner, sigBit, mail, public, sigAlloc, sigRecvd, reg, missed>>
  BY DEF ports, signals
<1>2. /\ pc \in [Server \cup Client -> PC] /\ at \in [Server \cup Client -> Cell \cup {NULL}]
      /\ label \in PC
  BY DEF PortsInv, TypeOK, TaskType, ClientPC, PC
<1>3. /\ pc' \in [Server \cup Client -> PC] /\ at' \in [Server \cup Client -> Cell \cup {NULL}]
      /\ \A t \in Server \cup Client : /\ pc'[t] = IF t = c THEN label ELSE pc[t]
                                       /\ at'[t] = IF t = c THEN place ELSE at[t]
  BY <1>2
<1>4. \A u \in Server : pc'[u] = pc[u] /\ at'[u] = at[u]
  BY <1>3, Constants
<1>5. TypeOK'
  BY <1>1, <1>3 DEF PortsInv, TypeOK, LinkType, PortType, SignalType, TaskType
<1>6. Placed'
  <2>1. \A r : Made(r)' <=> Made(r)
    BY <1>1, <1>4 DEF Made, Making
  <2>2. \A d \in Client : /\ pc'[d] \in ClientPC
                          /\ pc'[d] = "signal" => at'[d] \in Port /\ Made(at'[d])
                          /\ pc'[d] = "next" => at'[d] # NULL
    BY <1>3 DEF PortsInv, Placed
  <2> QED
    BY <1>1, <1>4, <2>1, <2>2 DEF PortsInv, Placed
<1>7. BitsApart'
  <2>1. \A u \in Server, r \in Port : r \in Mine(u)' <=> r \in Mine(u)
    BY <1>1, <1>4 DEF Mine
  <2> QED
    BY <1>1, <2>1, BitsStay DEF PortsInv
<1>8. Roused'
  <2> SUFFICES ASSUME NEW u \in Server
               PROVE  /\ pc'[u] \in {"test", "sleep", "asleep"} /\ mail'[at'[u]] > 0 => Sent(u)'
                      /\ pc'[u] \in {"sleep", "asleep"} /\ sigBit'[at'[u]] \in sigRecvd'[u] => missed'[u]
    BY DEF Roused
  <2>1. Sent(u) => Sent(u)'
    BY <1>1, <1>3, <1>4 DEF Sent
  <2> QED
    BY <1>1, <1>4, <2>1 DEF PortsInv, Roused
<1>9. Listed'
  BY <1>1 DEF PortsInv, Listed
<1>10. Walks'
  <2> SUFFICES ASSUME NEW d \in Client, d # c, Searching(d)', ~confused'[d] PROVE Walking(d)'
    BY DEF Walks
  <2>1. pc'[d] = pc[d] /\ at'[d] = at[d]
    BY <1>3
  <2>2. Searching(d) /\ ~confused[d]
    BY <2>1 DEF Searching
  <2>3. Walking(d)
    BY <2>2 DEF PortsInv, Walks
  <2> QED
    BY <1>1, <2>1, <2>3, WalkingStays
<1> QED
  BY <1>5, <1>6, <1>7, <1>8, <1>9, <1>10 DEF PortsInv

LEMMA FindPortStep ==
  ASSUME PortsInv, NEW c \in Client, NEW n \in Name, FindPort(c, n)
  PROVE  PortsInv'
<1>1. /\ name \in [Client -> Name \cup {NULL}] /\ unlinked \in [Client -> SUBSET Port]
      /\ steady \in [Client -> SUBSET Port] /\ confused \in [Client -> BOOLEAN]
      /\ pc \in [Server \cup Client -> PC] /\ at \in [Server \cup Client -> Cell \cup {NULL}]
  BY DEF PortsInv, TypeOK, WalkType, TaskType
<1>2. /\ pc[c] = "user" /\ UNCHANGED <<ports, signals>> /\ "look" \in ClientPC
      /\ pc' = [pc EXCEPT ![c] = "look"] /\ at' = [at EXCEPT ![c] = mem.succ[LHead]]
      /\ name' = [name EXCEPT ![c] = n] /\ steady' = [steady EXCEPT ![c] = ToSet(public)]
      /\ unlinked' = [unlinked EXCEPT ![c] = {}] /\ confused' = [confused EXCEPT ![c] = FALSE]
  BY DEF FindPort, GoTo, ClientPC
<1>3. ToSet(public) \subseteq Port
  BY Links
<1>4. WalkType'
  BY <1>1, <1>2, <1>3 DEF WalkType
<1>5. \A d \in Client \ {c} : /\ name'[d] = name[d] /\ unlinked'[d] = unlinked[d]
                              /\ steady'[d] = steady[d] /\ confused'[d] = confused[d]
  BY <1>1, <1>2
<1>6. mem.succ[LHead] \in ToSet(public) \cup {LTail}
  BY Follows
<1>7. mem.succ[LHead] \in Cell \cup {NULL}
  BY <1>3, <1>6, Constants
<1>8. Walking(c)'
  <2>1. /\ pc'[c] = "look" /\ at'[c] = mem.succ[LHead] /\ unlinked'[c] = {}
        /\ steady'[c] = ToSet(public) /\ public' = public /\ mem' = mem
    BY <1>1, <1>2 DEF ports
  <2>2. Ground(c)' = ToSet(public) \cup {LTail}
    BY <2>1 DEF Ground
  <2>3. \A S : Closed(S)' <=> Closed(S)
    BY <2>1 DEF Closed
  <2>4. \A p \in ToSet(public) : Reach(c, mem.succ[LHead], p)'
    BY <2>1, <2>3, AllReached DEF Reach
  <2>5. \A p \in ToSet(public) : Reach(c, at[c], p)'
    BY <2>1, <2>4 DEF Reach
  <2> QED
    BY <1>6, <2>1, <2>2, <2>5 DEF Walking
<1> QED
  BY <1>2, <1>4, <1>5, <1>7, <1>8, ClientMoves

LEMMA FindLookStep ==
  ASSUME PortsInv, NEW c \in Client, FindLook(c)
  PROVE  PortsInv'
<1> DEFINE label == IF at[c] = NULL \/ mem.succ[at[c]] = NULL THEN "none"
                    ELSE IF NameOf[at[c]] = name[c] THEN "found" ELSE "next"
<1>1. /\ pc \in [Server \cup Client -> PC] /\ at \in [Server \cup Client -> Cell \cup {NULL}]
      /\ WalkType
  BY DEF PortsInv, TypeOK, TaskType
<1>2. /\ pc[c] = "look" /\ UNCHANGED <<ports, signals, walk, at>> /\ label \in ClientPC
      /\ pc' = [pc EXCEPT ![c] = label]
  BY DEF FindLook, GoTo, ClientPC
<1> HIDE DEF label
<1>3. at' = [at EXCEPT ![c] = at[c]] /\ at[c] \in Cell \cup {NULL}
  BY <1>1, <1>2
<1>4. UNCHANGED <<mem, public, name, unlinked, steady, confused>>
  BY <1>2 DEF ports, walk
<1>5. WalkType'
  BY <1>1, <1>4 DEF WalkType
<1>6. ASSUME ~confused'[c] PROVE Walking(c)'
  <2>1. Searching(c) /\ ~confused[c]
    BY <1>2, <1>4, <1>6 DEF Searching
  <2>2. Walking(c)
    BY <2>1 DEF PortsInv, Walks
  <2>3. /\ at[c] \in Ground(c) /\ at[c] # NULL /\ LTail \in Ground(c)
        /\ (mem.succ[at[c]] = NULL <=> at[c] = LTail)
    BY <2>2, GroundClosed DEF Walking
  <2>4. pc'[c] = label /\ at'[c] = at[c]
    BY <1>1, <1>2
  <2>5. Ground(c)' = Ground(c) /\ \A S : Closed(S)' <=> Closed(S)
    BY <1>4 DEF Ground, Closed
  <2>6. \A x, p : Reach(c, x, p)' <=> Reach(c, x, p)
    BY <2>5 DEF Reach
  <2>7. ASSUME NEW p \in steady[c], NameOf[p] = name[c]
        PROVE  label # "none" /\ Reach(c, at[c], p)
    <3>1. Reach(c, at[c], p)
      BY <1>2, <2>2, <2>7 DEF Walking
    <3>2. p # LTail
      BY <1>1, Constants DEF WalkType
    <3>3. at[c] # LTail
      <4> SUFFICES ASSUME at[c] = LTail PROVE FALSE
        OBVIOUS
      <4>1. {LTail} \in SUBSET Ground(c) /\ Closed({LTail})
        BY <2>3 DEF Closed
      <4> QED
        BY <3>1, <3>2, <4>1 DEF Reach
    <3> QED
      BY <2>3, <3>1, <3>3 DEF label
  <2>8. /\ label \in {"next", "found"} => at[c] # LTail
        /\ label = "next" => NameOf[at[c]] # name[c]
    BY <2>3 DEF label
  <2>9. /\ unlinked[c] \cap ToSet(public) = {} /\ steady[c] \subseteq ToSet(public)
        /\ \A u \in unlinked[c] : mem.succ[u] \in Ground(c)
    BY <2>2 DEF Walking
  <2> QED
    BY <1>4, <2>3, <2>4, <2>5, <2>6, <2>7, <2>8, <2>9 DEF Walking
<1>7. label # "signal" /\ (label = "next" => at[c] # NULL)
  BY DEF label
<1> QED
  BY <1>2, <1>3, <1>4, <1>5, <1>6, <1>7, ClientMoves

LEMMA FindNextStep ==
  ASSUME PortsInv, NEW c \in Client, FindNext(c)
  PROVE  PortsInv'
<1> DEFINE next == mem.succ[at[c]]
<1>1. /\ pc \in [Server \cup Client -> PC] /\ at \in [Server \cup Client -> Cell \cup {NULL}]
      /\ WalkType
  BY DEF PortsInv, TypeOK, TaskType
<1>2. /\ pc[c] = "next" /\ UNCHANGED <<ports, signals, walk>> /\ "look" \in ClientPC
      /\ pc' = [pc EXCEPT ![c] = "look"] /\ at' = [at EXCEPT ![c] = next]
  BY DEF FindNext, GoTo, ClientPC
<1> HIDE DEF next
<1>3. UNCHANGED <<mem, public, name, unlinked, steady, confused>>
  BY <1>2 DEF ports, walk
<1>4. WalkType'
  BY <1>1, <1>3 DEF WalkType
<1>5. ASSUME ~confused'[c] PROVE Walking(c)'
  <2>1. Searching(c) /\ ~confused[c]
    BY <1>2, <1>3, <1>5 DEF Searching
  <2>2. Walking(c)
    BY <2>1 DEF PortsInv, Walks
  <2>3. at[c] \in Ground(c) \ {LTail} /\ next \in Ground(c)
    BY <1>2, <2>2, GroundClosed DEF Walking, Closed, next
  <2>4. pc'[c] = "look" /\ at'[c] = next
    BY <1>1, <1>2
  <2>5. Ground(c)' = Ground(c) /\ \A S : Closed(S)' <=> Closed(S)
    BY <1>3 DEF Ground, Closed
  <2>6. \A x, p : Reach(c, x, p)' <=> Reach(c, x, p)
    BY <2>5 DEF Reach
  <2>7. ASSUME NEW p \in steady[c], NameOf[p] = name[c]
        PROVE  Reach(c, next, p)
    <3>1. Reach(c, at[c], p) /\ p # at[c]
      BY <1>2, <2>2, <2>7 DEF Walking
    <3>2. ASSUME NEW S \in SUBSET Ground(c), next \in S, Closed(S) PROVE p \in S
      <4>1. S \cup {at[c]} \in SUBSET Ground(c) /\ Closed(S \cup {at[c]})
        BY <2>3, <3>2 DEF Closed, next
      <4>2. p \in S \cup {at[c]}
        BY <3>1, <4>1 DEF Reach
      <4> QED
        BY <3>1, <4>2
    <3> QED
      BY <3>2 DEF Reach
  <2>8. /\ unlinked[c] \cap ToSet(public) = {} /\ steady[c] \subseteq ToSet(public)
        /\ \A u \in unlinked[c] : mem.succ[u] \in Ground(c)
    BY <2>2 DEF Walking
  <2>9. \A p \in steady[c] : NameOf[p] = name[c] => Reach(c, at[c], p)'
    BY <2>4, <2>6, <2>7 DEF Reach
  <2> QED
    BY <1>3, <2>3, <2>4, <2>5, <2>8, <2>9 DEF Walking
<1>6. next \in Cell \cup {NULL}
  <2>1. mem.succ \in [Cell -> Cell \cup {NULL}] /\ at[c] \in Cell \cup {NULL}
    BY <1>1, Links DEF Memory
  <2>2. at[c] \in Cell
    BY <1>2, <2>1 DEF PortsInv, Placed
  <2> QED
    BY <2>1, <2>2 DEF next
<1> QED
  BY <1>2, <1>3, <1>4, <1>5, <1>6, ClientMoves

LEMMA FindReturnStep ==
  ASSUME PortsInv, NEW c \in Client, FindReturn(c)
  PROVE  PortsInv'
<1>1. WalkType /\ pc \in [Server \cup Client -> PC]
  BY DEF PortsInv, TypeOK, TaskType
<1>2. /\ pc[c] # "signal" /\ UNCHANGED <<ports, signals>> /\ "user" \in ClientPC
      /\ pc' = [pc EXCEPT ![c] = "user"] /\ at' = [at EXCEPT ![c] = NULL]
      /\ name' = [name EXCEPT ![c] = NULL] /\ steady' = [steady EXCEPT ![c] = {}]
      /\ unlinked' = [unlinked EXCEPT ![c] = {}] /\ confused' = [confused EXCEPT ![c] = FALSE]
  BY DEF FindReturn, Return, GoTo, ClientPC
<1>3. WalkType'
  BY <1>1, <1>2 DEF WalkType
<1>4. \A d \in Client \ {c} : /\ name'[d] = name[d] /\ unlinked'[d] = unlinked[d]
                              /\ steady'[d] = steady[d] /\ confused'[d] = confused[d]
  BY <1>1, <1>2 DEF WalkType
<1>5. ~Searching(c)'
  BY <1>1, <1>2 DEF Searching
<1> QED
  BY <1>2, <1>3, <1>4, <1>5, ClientMoves

---------------------------------------------------------------------------
(***************************************************************************)
(* Making and deleting ports.                                              *)
(***************************************************************************)
\* The links of a port are overwritten while it is in nobody's way.
LEMMA Elsewhere ==
  ASSUME PortsInv, NEW p \in Port, p \notin ToSet(public),
         mem' = SetPred(SetSucc(mem, p, NULL), p, NULL), Reused(p),
         UNCHANGED <<public, name, unlinked, steady>>,
         \A c \in Client : pc'[c] = pc[c] /\ at'[c] = at[c]
  PROVE  LinkType' /\ WalkType' /\ Listed' /\ Walks'
<1>1. /\ mem' \in Memory /\ Represents(mem', PortList, public)
      /\ \A x \in Cell \ {p} : mem'.succ[x] = mem.succ[x]
  BY Links, ElsewhereIsNothing
<1>2. LinkType' /\ Listed'
  BY <1>1 DEF PortsInv, TypeOK, LinkType, Listed, Memory
<1>3. \A c \in Client : confused'[c] = (confused[c] \/ (Searching(c) /\ p \in unlinked[c]))
  BY DEF Reused
<1>4. WalkType'
  <2>1. confused' \in [Client -> BOOLEAN]
    BY DEF Reused, PortsInv, TypeOK, WalkType
  <2> QED
    BY <2>1 DEF PortsInv, TypeOK, WalkType
<1>5. Walks'
  <2>1. ASSUME NEW c \in Client, Searching(c)', ~confused'[c]
        PROVE  ~confused[c] /\ \A x \in Ground(c) : mem'.succ[x] = mem.succ[x]
    <3>1. Searching(c) /\ ~confused[c] /\ p \notin unlinked[c]
      BY <1>3, <2>1 DEF Searching
    <3>2. Walking(c)
      BY <3>1 DEF PortsInv, Walks
    <3>3. Ground(c) \subseteq Cell
      BY <3>2, GroundClosed
    <3>4. p \notin Ground(c)
      BY <3>1, Constants DEF Ground
    <3> QED
      BY <1>1, <3>1, <3>3, <3>4
  <2> QED
    BY <2>1, WalksStay DEF PortsInv
<1> QED
  BY <1>2, <1>4, <1>5

LEMMA CreateMsgPortStep ==
  ASSUME PortsInv, NEW s \in Server, NEW p \in Port, CreateMsgPort(s, p)
  PROVE  PortsInv'
<1>1. /\ pc \in [Server \cup Client -> PC] /\ at \in [Server \cup Client -> Cell \cup {NULL}]
      /\ owner \in [Port -> Server \cup {NULL}]
  BY DEF PortsInv, TypeOK, TaskType, PortType
<1>2. /\ pc[s] = "user" /\ owner[p] = NULL
      /\ pc' = [pc EXCEPT ![s] = "alloc"] /\ at' = [at EXCEPT ![s] = p]
      /\ owner' = [owner EXCEPT ![p] = s]
      /\ mem' = SetPred(SetSucc(mem, p, NULL), p, NULL) /\ Reused(p)
      /\ UNCHANGED <<sigBit, mail, public, sigAlloc, sigRecvd, reg, missed, name, unlinked, steady>>
  BY DEF CreateMsgPort, GoTo, signals
<1>3. /\ pc' \in [Server \cup Client -> PC] /\ at' \in [Server \cup Client -> Cell \cup {NULL}]
      /\ \A t \in Server \cup Client : /\ pc'[t] = IF t = s THEN "alloc" ELSE pc[t]
                                       /\ at'[t] = IF t = s THEN p ELSE at[t]
  BY <1>1, <1>2, Constants DEF PC
<1>4. /\ owner' \in [Port -> Server \cup {NULL}]
      /\ \A r \in Port : owner'[r] = IF r = p THEN s ELSE owner[r]
  BY <1>1, <1>2
<1>5. \A c \in Client : pc'[c] = pc[c] /\ at'[c] = at[c]
  BY <1>3, Constants
<1>6. ~Made(p) /\ p \notin ToSet(public)
  BY <1>2, Constants DEF Made, PortsInv, Placed
<1>7. LinkType' /\ WalkType' /\ Listed' /\ Walks'
  BY <1>2, <1>5, <1>6, Elsewhere
<1>8. TypeOK'
  BY <1>2, <1>3, <1>4, <1>7 DEF PortsInv, TypeOK, PortType, SignalType, TaskType
<1>9. Placed'
  <2>1. ASSUME NEW r \in Port, Made(r) PROVE Made(r)'
    BY <1>3, <1>4, <1>6, <2>1 DEF Made, Making
  <2>2. \A u \in Server : /\ pc'[u] \in ServerPC
                          /\ pc'[u] # "user" => at'[u] \in Port /\ owner'[at'[u]] = u
    BY <1>2, <1>3, <1>4, Constants DEF PortsInv, Placed, ServerPC
  <2>3. \A c \in Client : /\ pc'[c] \in ClientPC
                          /\ pc'[c] = "signal" => at'[c] \in Port /\ Made(at[c])'
                          /\ pc'[c] = "next" => at'[c] # NULL
    BY <1>5, <2>1 DEF PortsInv, Placed
  <2>4. \A r \in ToSet(public) : Made(r)'
    BY <2>1, Links DEF PortsInv, Placed
  <2> QED
    BY <1>2, <1>5, <2>2, <2>3, <2>4 DEF Placed
<1>10. BitsApart'
  <2>1. \A u \in Server, r \in Port : r \in Mine(u)' <=> r \in Mine(u)
    BY <1>2, <1>3, <1>4, Constants DEF Mine
  <2> QED
    BY <1>2, <2>1, BitsStay DEF PortsInv
<1>11. Roused'
  <2> SUFFICES ASSUME NEW u \in Server, u # s
               PROVE  /\ pc'[u] \in {"test", "sleep", "asleep"} /\ mail'[at'[u]] > 0 => Sent(u)'
                      /\ pc'[u] \in {"sleep", "asleep"} /\ sigBit'[at'[u]] \in sigRecvd'[u] => missed'[u]
    BY <1>3 DEF Roused
  <2>1. Sent(u) => Sent(u)'
    BY <1>2, <1>3, <1>5 DEF Sent
  <2> QED
    BY <1>2, <1>3, <2>1 DEF PortsInv, Roused
<1> QED
  BY <1>7, <1>8, <1>9, <1>10, <1>11 DEF PortsInv

\* There is a highest one among the free bits.
LEMMA HighestBit ==
  ASSUME NEW F \in SUBSET (0..Bits - 1), F # {}
  PROVE  Max(F) \in F
<1> DEFINE D == {Bits - b : b \in F}
<1>0. Bits \in Nat /\ \A b \in F : b \in 0..Bits - 1
  BY Constants
<1>1. Bits \in Nat /\ D \in SUBSET Nat /\ D # {}
  <2>1. \A b \in F : Bits - b \in Nat
    BY <1>0
  <2> QED
    BY <1>0, <2>1
<1>2. Min(D) \in D /\ \A d \in D : Min(D) <= d
  BY <1>1, MinIsLeast
<1>3. PICK b \in F : Min(D) = Bits - b
  BY <1>2
<1>4. \A x \in F : Min(D) <= Bits - x
  BY <1>2
<1> HIDE DEF D
<1>5. \A x \in F : b >= x
  BY <1>0, <1>3, <1>4
<1> QED
  BY <1>5 DEF Max

LEMMA AllocSignalStep ==
  ASSUME PortsInv, NEW s \in Server, AllocSignal(s)
  PROVE  PortsInv'
<1> DEFINE p == at[s]
           bit == Max(FreeBits(s))
<1>1. /\ pc \in [Server \cup Client -> PC] /\ at \in [Server \cup Client -> Cell \cup {NULL}]
      /\ owner \in [Port -> Server \cup {NULL}] /\ sigBit \in [Port -> Nat]
      /\ sigAlloc \in [Server -> SUBSET (0..Bits - 1)]
  BY DEF PortsInv, TypeOK, TaskType, PortType, SignalType
<1>2. pc[s] = "alloc" /\ p \in Port /\ owner[p] = s
  BY DEF AllocSignal, PortsInv, Placed
<1>3. UNCHANGED <<mem, mail, public, sigRecvd, reg, missed, name, unlinked, steady, confused>>
  BY DEF AllocSignal, walk
<1>4. ~Made(p)
  BY <1>2 DEF Made, Making
<1>5. \A u \in Server \ {s} : pc[u] # "user" => at[u] \in Port /\ owner[at[u]] = u /\ at[u] # p
  BY <1>2 DEF PortsInv, Placed
<1>6. CASE FreeBits(s) = {}
  <2>1. /\ owner' = [owner EXCEPT ![p] = NULL] /\ UNCHANGED <<sigAlloc, sigBit>>
        /\ pc' = [pc EXCEPT ![s] = "user"] /\ at' = [at EXCEPT ![s] = NULL]
    BY <1>6 DEF AllocSignal, Return, GoTo
  <2> HIDE DEF p
  <2>2. /\ pc' \in [Server \cup Client -> PC] /\ at' \in [Server \cup Client -> Cell \cup {NULL}]
        /\ \A t \in Server \cup Client : /\ pc'[t] = IF t = s THEN "user" ELSE pc[t]
                                         /\ at'[t] = IF t = s THEN NULL ELSE at[t]
    BY <1>1, <2>1 DEF PC
  <2>3. /\ owner' \in [Port -> Server \cup {NULL}]
        /\ \A r \in Port : owner'[r] = IF r = p THEN NULL ELSE owner[r]
    BY <1>1, <2>1
  <2>4. \A c \in Client : pc'[c] = pc[c] /\ at'[c] = at[c]
    BY <2>2, Constants
  <2>5. TypeOK'
    BY <1>3, <2>1, <2>2, <2>3
       DEF PortsInv, TypeOK, LinkType, PortType, SignalType, TaskType, WalkType
  <2>6. Placed'
    <3>1. ASSUME NEW r \in Port, Made(r) PROVE Made(r)'
      BY <1>4, <2>2, <2>3, <3>1 DEF Made, Making
    <3>2. \A u \in Server : /\ pc'[u] \in ServerPC
                            /\ pc'[u] # "user" => at'[u] \in Port /\ owner'[at'[u]] = u
      BY <1>5, <2>2, <2>3 DEF PortsInv, Placed, ServerPC
    <3>3. \A c \in Client : /\ pc'[c] \in ClientPC
                            /\ pc'[c] = "signal" => at'[c] \in Port /\ Made(at[c])'
                            /\ pc'[c] = "next" => at'[c] # NULL
      BY <2>4, <3>1 DEF PortsInv, Placed
    <3>4. \A r \in ToSet(public) : Made(r)'
      BY <3>1, Links DEF PortsInv, Placed
    <3> QED
      BY <1>3, <2>4, <3>2, <3>3, <3>4 DEF Placed
  <2>7. BitsApart'
    <3>1. \A u \in Server, r \in Port : r \in Mine(u)' <=> r \in Mine(u)
      BY <1>2, <2>2, <2>3, Constants DEF Mine, p
    <3> QED
      BY <2>1, <3>1, BitsStay DEF PortsInv
  <2>8. Roused'
    <3> SUFFICES ASSUME NEW u \in Server, u # s
                 PROVE  /\ pc'[u] \in {"test", "sleep", "asleep"} /\ mail'[at'[u]] > 0 => Sent(u)'
                        /\ pc'[u] \in {"sleep", "asleep"} /\ sigBit'[at'[u]] \in sigRecvd'[u] => missed'[u]
      BY <2>2 DEF Roused
    <3>1. Sent(u) => Sent(u)'
      BY <1>3, <2>1, <2>2, <2>4 DEF Sent
    <3> QED
      BY <1>3, <2>1, <2>2, <3>1 DEF PortsInv, Roused
  <2>9. Listed'
    BY <1>3 DEF PortsInv, Listed
  <2>10. Walks'
    BY <1>3, <2>4, WalksStay DEF PortsInv
  <2> QED
    BY <2>5, <2>6, <2>7, <2>8, <2>9, <2>10 DEF PortsInv
<1>7. CASE FreeBits(s) # {}
  <2>1. /\ sigAlloc' = [sigAlloc EXCEPT ![s] = @ \cup {bit}]
        /\ sigBit' = [sigBit EXCEPT ![p] = bit]
        /\ pc' = [pc EXCEPT ![s] = "load"] /\ UNCHANGED <<owner, at>>
    BY <1>7 DEF AllocSignal, GoTo
  <2>2. bit \in 0..Bits - 1 /\ bit \notin sigAlloc[s]
    <3>1. FreeBits(s) \in SUBSET (0..Bits - 1)
      BY DEF FreeBits
    <3>2. bit \in FreeBits(s)
      BY <1>7, <3>1, HighestBit
    <3> QED
      BY <3>2 DEF FreeBits
  <2> HIDE DEF p, bit
  <2>3. /\ pc' \in [Server \cup Client -> PC]
        /\ \A t \in Server \cup Client : pc'[t] = IF t = s THEN "load" ELSE pc[t]
    BY <1>1, <2>1 DEF PC
  <2>4. /\ sigBit' \in [Port -> Nat] /\ \A r \in Port : sigBit'[r] = IF r = p THEN bit ELSE sigBit[r]
        /\ sigAlloc' \in [Server -> SUBSET (0..Bits - 1)]
        /\ \A u \in Server : sigAlloc'[u] = IF u = s THEN sigAlloc[s] \cup {bit} ELSE sigAlloc[u]
    BY <1>1, <1>2, <2>1, <2>2, Constants
  <2>5. \A c \in Client : pc'[c] = pc[c] /\ at'[c] = at[c]
    BY <2>1, <2>3, Constants
  <2>6. TypeOK'
    BY <1>1, <1>3, <2>1, <2>3, <2>4
       DEF PortsInv, TypeOK, LinkType, PortType, SignalType, TaskType, WalkType
  <2>7. Placed'
    <3>1. ASSUME NEW r \in Port PROVE Made(r)' <=> Made(r)
      BY <1>2, <2>1, <2>3 DEF Made, Making
    <3>2. \A u \in Server : /\ pc'[u] \in ServerPC
                            /\ pc'[u] # "user" => at'[u] \in Port /\ owner'[at'[u]] = u
      BY <1>2, <2>1, <2>3 DEF PortsInv, Placed, ServerPC, p
    <3>3. \A c \in Client : /\ pc'[c] \in ClientPC
                            /\ pc'[c] = "signal" => at'[c] \in Port /\ Made(at[c])'
                            /\ pc'[c] = "next" => at'[c] # NULL
      BY <2>5, <3>1 DEF PortsInv, Placed
    <3>4. \A r \in ToSet(public) : Made(r)'
      BY <3>1, Links DEF PortsInv, Placed
    <3> QED
      BY <1>3, <2>5, <3>2, <3>3, <3>4 DEF Placed
  <2>8. BitsApart'
    <3> SUFFICES ASSUME NEW u \in Server
                 PROVE  /\ sigAlloc'[u] = {sigBit'[r] : r \in Mine(u)'}
                        /\ \A q, r \in Mine(u)' : sigBit'[q] = sigBit'[r] => q = r
      BY DEF BitsApart
    <3>1. /\ sigAlloc[u] = {sigBit[r] : r \in Mine(u)}
          /\ \A q, r \in Mine(u) : sigBit[q] = sigBit[r] => q = r
      BY DEF PortsInv, BitsApart
    <3>2. Mine(u)' = (IF u = s THEN Mine(u) \cup {p} ELSE Mine(u)) /\ p \notin Mine(u)
      BY <1>2, <2>1, <2>3 DEF Mine, p
    <3>3. Mine(u) \subseteq Port
      BY DEF Mine
    <3>4. \A r \in Mine(u) : sigBit'[r] = sigBit[r] /\ (u = s => sigBit[r] # bit)
      BY <2>2, <2>4, <3>1, <3>2, <3>3
    <3>5. sigBit'[p] = bit
      BY <1>2, <2>4
    <3>6. CASE u = s
      <4>1. \A q, r \in Mine(u)' : sigBit'[q] = sigBit'[r] => q = r
        BY <3>1, <3>2, <3>4, <3>5, <3>6
      <4>2. {sigBit'[r] : r \in Mine(u)'} = {sigBit[r] : r \in Mine(u)} \cup {bit}
        BY <3>2, <3>4, <3>5, <3>6
      <4> QED
        BY <2>4, <3>1, <3>6, <4>1, <4>2
    <3>7. CASE u # s
      <4>1. {sigBit'[r] : r \in Mine(u)'} = {sigBit[r] : r \in Mine(u)}
        BY <3>2, <3>4, <3>7
      <4> QED
        BY <2>4, <3>1, <3>2, <3>4, <3>7, <4>1
    <3> QED
      BY <3>6, <3>7
  <2>9. Roused'
    <3> SUFFICES ASSUME NEW u \in Server, u # s
                 PROVE  /\ pc'[u] \in {"test", "sleep", "asleep"} /\ mail'[at'[u]] > 0 => Sent(u)'
                        /\ pc'[u] \in {"sleep", "asleep"} /\ sigBit'[at'[u]] \in sigRecvd'[u] => missed'[u]
      BY <2>3 DEF Roused
    <3>1. pc[u] # "user" => sigBit'[at'[u]] = sigBit[at[u]]
      BY <1>5, <2>1, <2>4
    <3>2. pc[u] # "user" /\ Sent(u) => Sent(u)'
      BY <1>3, <2>1, <2>5, <3>1 DEF Sent
    <3> QED
      BY <1>3, <2>1, <2>3, <3>1, <3>2 DEF PortsInv, Roused
  <2>10. Listed'
    BY <1>3 DEF PortsInv, Listed
  <2>11. Walks'
    BY <1>3, <2>5, WalksStay DEF PortsInv
  <2> QED
    BY <2>6, <2>7, <2>8, <2>9, <2>10, <2>11 DEF PortsInv
<1> QED
  BY <1>6, <1>7

LEMMA DeleteMsgPortStep ==
  ASSUME PortsInv, NEW s \in Server, NEW p \in Port, DeleteMsgPort(s, p)
  PROVE  PortsInv'
<1>1. /\ pc \in [Server \cup Client -> PC] /\ at \in [Server \cup Client -> Cell \cup {NULL}]
      /\ owner \in [Port -> Server \cup {NULL}] /\ sigBit \in [Port -> Nat]
      /\ mail \in [Port -> 0..MaxMail] /\ sigAlloc \in [Server -> SUBSET (0..Bits - 1)]
  BY DEF PortsInv, TypeOK, TaskType, PortType, SignalType
<1>2. /\ pc[s] = "user" /\ owner[p] = s /\ p \notin ToSet(public)
      /\ \A c \in Client : pc[c] = "signal" => at[c] # p
      /\ sigAlloc' = [sigAlloc EXCEPT ![s] = @ \ {sigBit[p]}]
      /\ owner' = [owner EXCEPT ![p] = NULL]
      /\ sigBit' = [sigBit EXCEPT ![p] = 0] /\ mail' = [mail EXCEPT ![p] = 0]
      /\ mem' = SetPred(SetSucc(mem, p, NULL), p, NULL) /\ Reused(p)
      /\ UNCHANGED <<public, sigRecvd, reg, missed, name, unlinked, steady, pc, at>>
  BY DEF DeleteMsgPort, IsPublic
<1>3. /\ owner' \in [Port -> Server \cup {NULL}] /\ sigBit' \in [Port -> Nat]
      /\ mail' \in [Port -> 0..MaxMail]
      /\ \A r \in Port : /\ owner'[r] = IF r = p THEN NULL ELSE owner[r]
                         /\ r # p => sigBit'[r] = sigBit[r] /\ mail'[r] = mail[r]
  BY <1>1, <1>2, Constants
<1>4. /\ sigAlloc' \in [Server -> SUBSET (0..Bits - 1)]
      /\ \A u \in Server : sigAlloc'[u] = IF u = s THEN sigAlloc[s] \ {sigBit[p]} ELSE sigAlloc[u]
  BY <1>1, <1>2
<1>5. \A u \in Server : pc[u] # "user" => at[u] \in Port /\ owner[at[u]] = u /\ at[u] # p
  BY <1>2 DEF PortsInv, Placed
<1>6. LinkType' /\ WalkType' /\ Listed' /\ Walks'
  BY <1>2, Elsewhere
<1>7. TypeOK'
  BY <1>2, <1>3, <1>4, <1>6 DEF PortsInv, TypeOK, PortType, SignalType, TaskType
<1>8. Placed'
  <2>1. ASSUME NEW r \in Port, r # p, Made(r) PROVE Made(r)'
    BY <1>2, <1>3, <2>1 DEF Made, Making
  <2>2. \A u \in Server : /\ pc'[u] \in ServerPC
                          /\ pc'[u] # "user" => at'[u] \in Port /\ owner'[at'[u]] = u
    BY <1>2, <1>3, <1>5 DEF PortsInv, Placed
  <2>3. \A c \in Client : /\ pc'[c] \in ClientPC
                          /\ pc'[c] = "signal" => at'[c] \in Port /\ Made(at[c])'
                          /\ pc'[c] = "next" => at'[c] # NULL
    BY <1>2, <2>1 DEF PortsInv, Placed
  <2>4. \A r \in ToSet(public) : Made(r)'
    BY <1>2, <2>1, Links DEF PortsInv, Placed
  <2> QED
    BY <1>2, <2>2, <2>3, <2>4 DEF Placed
<1>9. BitsApart'
  <2> SUFFICES ASSUME NEW u \in Server
               PROVE  /\ sigAlloc'[u] = {sigBit'[r] : r \in Mine(u)'}
                      /\ \A q, r \in Mine(u)' : sigBit'[q] = sigBit'[r] => q = r
    BY DEF BitsApart
  <2>1. /\ sigAlloc[u] = {sigBit[r] : r \in Mine(u)}
        /\ \A q, r \in Mine(u) : sigBit[q] = sigBit[r] => q = r
    BY DEF PortsInv, BitsApart
  <2>2. Mine(u)' = Mine(u) \ {p} /\ (p \in Mine(u) <=> u = s)
    BY <1>2, <1>3, Constants DEF Mine
  <2>3. \A r \in Mine(u)' : r \in Mine(u) /\ sigBit'[r] = sigBit[r]
    BY <1>3, <2>2 DEF Mine
  <2>4. {sigBit'[r] : r \in Mine(u)'} = {sigBit[r] : r \in Mine(u) \ {p}}
    BY <2>2, <2>3
  <2>5. CASE u = s
    <3>1. {sigBit[r] : r \in Mine(u) \ {p}} = sigAlloc[u] \ {sigBit[p]}
      BY <2>1, <2>2, <2>5
    <3> QED
      BY <1>4, <2>1, <2>3, <2>4, <2>5, <3>1
  <2>6. CASE u # s
    <3>1. Mine(u) \ {p} = Mine(u)
      BY <2>2, <2>6
    <3> QED
      BY <1>4, <2>1, <2>3, <2>4, <2>6, <3>1
  <2> QED
    BY <2>5, <2>6
<1>10. Roused'
  <2> SUFFICES ASSUME NEW u \in Server, pc[u] # "user"
               PROVE  /\ pc'[u] \in {"test", "sleep", "asleep"} /\ mail'[at'[u]] > 0 => Sent(u)'
                      /\ pc'[u] \in {"sleep", "asleep"} /\ sigBit'[at'[u]] \in sigRecvd'[u] => missed'[u]
    BY <1>2 DEF Roused
  <2>1. sigBit'[at'[u]] = sigBit[at[u]] /\ mail'[at'[u]] = mail[at[u]]
    BY <1>2, <1>3, <1>5
  <2>2. Sent(u) => Sent(u)'
    BY <1>2, <2>1 DEF Sent
  <2> QED
    BY <1>2, <2>1, <2>2 DEF PortsInv, Roused
<1> QED
  BY <1>6, <1>7, <1>8, <1>9, <1>10 DEF PortsInv
---------------------------------------------------------------------------
(***************************************************************************)
(* The public list while a search is under way.                            *)
(***************************************************************************)
\* A node is linked in that no search may stand on: what could be got to still can.
LEMMA InsertKeepsWalk ==
  ASSUME PortsInv, NEW c \in Client, Walking(c), NEW n \in Port, n \notin Ground(c),
         NEW a \in Cell, a # n, a # LTail, mem'.succ[a] = n, mem'.succ[n] = mem.succ[a],
         \A x \in Cell \ {a, n} : mem'.succ[x] = mem.succ[x],
         a \notin unlinked[c], ToSet(public)' = ToSet(public) \cup {n},
         name'[c] = name[c], unlinked'[c] = unlinked[c], steady'[c] = steady[c],
         pc'[c] = pc[c], at'[c] = at[c]
  PROVE  Walking(c)'
<1>1. /\ Closed(Ground(c)) /\ LTail \in Ground(c) /\ Ground(c) \subseteq Cell
  BY GroundClosed
<1>2. Ground(c)' = Ground(c) \cup {n}
  BY DEF Ground
<1>3. \A u \in unlinked[c] : u \in Ground(c) /\ u # n /\ u # a
  BY DEF Ground
<1>4. \A u \in unlinked[c] : mem'.succ[u] = mem.succ[u]
  BY <1>1, <1>3
<1>5. ASSUME NEW x \in Ground(c), NEW p \in Ground(c), Reach(c, x, p) PROVE Reach(c, x, p)'
  <2>1. ASSUME NEW S \in SUBSET (Ground(c)'), x \in S, Closed(S)' PROVE p \in S
    <3> DEFINE T == S \ {n}
    <3>1. T \in SUBSET Ground(c) /\ x \in T
      BY <1>2, <2>1
    <3>2. ASSUME NEW y \in T \ {LTail} PROVE mem.succ[y] \in T
      <4>1. y \in S \ {LTail} /\ y \in Cell /\ y # n /\ mem.succ[y] \in Ground(c)
        BY <1>1, <3>1 DEF Closed
      <4>2. mem'.succ[y] \in S
        BY <2>1, <4>1 DEF Closed
      <4>3. CASE y = a
        <5>1. n \in S /\ n # LTail
          BY <4>2, <4>3, Constants
        <5>2. mem'.succ[n] \in S
          BY <2>1, <5>1 DEF Closed
        <5> QED
          BY <4>1, <4>3, <5>2
      <4>4. CASE y # a
        BY <4>1, <4>2, <4>4
      <4> QED
        BY <4>3, <4>4
    <3>3. p \in T
      BY <1>5, <3>1, <3>2 DEF Reach, Closed
    <3> QED
      BY <3>3
  <2> QED
    BY <2>1 DEF Reach
<1>6. /\ steady[c] \subseteq ToSet(public) /\ at[c] \in Ground(c)
      /\ ToSet(public) \subseteq Ground(c)
  BY DEF Walking, Ground
<1>7. \A p \in steady[c] : Reach(c, at[c], p) => Reach(c, at[c], p)'
  <2>1. ASSUME NEW p \in steady[c], Reach(c, at[c], p) PROVE Reach(c, at[c], p)'
    <3>1. PICK x \in Ground(c) : x = at[c]
      BY <1>6
    <3>2. Reach(c, x, p)'
      BY <1>5, <1>6, <2>1, <3>1
    <3> QED
      BY <3>1, <3>2 DEF Reach
  <2> QED
    BY <2>1
<1>8. unlinked[c] \cap ToSet(public)' = {}
  BY <1>3 DEF Walking
<1> QED
  BY <1>2, <1>4, <1>6, <1>7, <1>8 DEF Walking

\* A node is taken out whose own links stay: what could be got to still can, but for
\* the node itself.
LEMMA RemoveKeepsWalk ==
  ASSUME PortsInv, NEW c \in Client, Walking(c), NEW n \in ToSet(public),
         NEW a \in Cell, a # n, mem.succ[a] = n, mem'.succ[a] = mem.succ[n],
         \A x \in Cell \ {a} : mem'.succ[x] = mem.succ[x],
         a \notin unlinked[c], ToSet(public)' = ToSet(public) \ {n},
         name'[c] = name[c], unlinked'[c] = unlinked[c] \cup {n},
         steady'[c] = steady[c] \ {n}, pc'[c] = pc[c], at'[c] = at[c]
  PROVE  Walking(c)'
<1>1. /\ Closed(Ground(c)) /\ LTail \in Ground(c) /\ Ground(c) \subseteq Cell
      /\ n \in Port
  BY GroundClosed, Links
<1>2. Ground(c)' = Ground(c)
  BY DEF Ground
<1>3. \A u \in unlinked[c] \cup {n} : mem'.succ[u] = mem.succ[u] /\ mem.succ[u] \in Ground(c)
  <2>1. \A u \in unlinked[c] \cup {n} : u \in Ground(c) \ {LTail} /\ u # a
    BY <1>1, Constants DEF Ground, PortsInv, TypeOK, WalkType
  <2> QED
    BY <1>1, <2>1 DEF Closed
<1>4. ASSUME NEW x, NEW p \in Ground(c), p # n, Reach(c, x, p) PROVE Reach(c, x, p)'
  <2>1. ASSUME NEW S \in SUBSET (Ground(c)'), x \in S, Closed(S)' PROVE p \in S
    <3>1. S \subseteq Ground(c) /\ S \subseteq Cell
      BY <1>1, <1>2
    <3>2. CASE a \in S
      <4> DEFINE T == S \cup {n}
      <4>1. T \in SUBSET Ground(c) /\ x \in T
        BY <2>1, <3>1 DEF Ground
      <4>2. a # LTail
        BY Follows, <1>1, Constants
      <4>3. mem.succ[n] \in T
        BY <2>1, <3>2, <4>2 DEF Closed
      <4>4. ASSUME NEW y \in S \ {LTail}, y # a PROVE mem.succ[y] \in T
        BY <2>1, <3>1, <4>4 DEF Closed
      <4>5. Closed(T)
        BY <4>3, <4>4 DEF Closed
      <4> QED
        BY <1>4, <4>1, <4>5 DEF Reach
    <3>3. CASE a \notin S
      <4>1. Closed(S)
        BY <2>1, <3>1, <3>3 DEF Closed
      <4> QED
        BY <1>4, <2>1, <3>1, <4>1 DEF Reach
    <3> QED
      BY <3>2, <3>3
  <2> QED
    BY <2>1 DEF Reach
<1>5. /\ steady[c] \subseteq ToSet(public) /\ at[c] \in Ground(c)
      /\ ToSet(public) \subseteq Ground(c)
  BY DEF Walking, Ground
<1>6. \A p \in steady[c] \ {n} : Reach(c, at[c], p) => Reach(c, at[c], p)'
  <2>1. ASSUME NEW p \in steady[c] \ {n}, Reach(c, at[c], p) PROVE Reach(c, at[c], p)'
    <3>1. PICK x : x = at[c]
      OBVIOUS
    <3>2. Reach(c, x, p)'
      BY <1>4, <1>5, <2>1, <3>1
    <3> QED
      BY <3>1, <3>2 DEF Reach
  <2> QED
    BY <2>1
<1>7. (unlinked[c] \cup {n}) \cap ToSet(public)' = {}
  BY DEF Walking
<1> QED
  BY <1>2, <1>3, <1>5, <1>6, <1>7 DEF Walking

\* A node's predecessor is the head or in the list.
LEMMA Before ==
  ASSUME PortsInv, NEW i \in 0..Len(public)
  PROVE  /\ Place(public, i) \in Cell \ {LTail}
         /\ Place(public, i) \in {LHead} \cup ToSet(public)
         /\ mem.succ[Place(public, i)] = Place(public, i + 1)
<1>1. /\ public \in Seq(Port) /\ Distinct(public) /\ Chain(mem, public)
      /\ Len(public) \in Nat /\ i \in 0..Len(public) + 1 /\ Len(public) + 1 \in 0..Len(public) + 1
      /\ i # Len(public) + 1
  BY Links, LenProperties
<1>2. Place(public, i) \in Cell /\ Place(public, i) # LTail
  BY <1>1, Places
<1>3. i = 0 => Place(public, i) = LHead
  BY DEF Place
<1>4. i # 0 => i \in 1..Len(public) /\ Place(public, i) = public[i]
  BY <1>1, Places
<1> QED
  BY <1>1, <1>2, <1>3, <1>4, LenProperties DEF Chain, ToSet

LEMMA AddPortStep ==
  ASSUME PortsInv, NEW s \in Server, NEW p \in Port, AddPort(s, p)
  PROVE  PortsInv'
<1>1. /\ public \in Seq(Port) /\ Distinct(public) /\ SortedBy(public, Pri) /\ mem \in Memory
      /\ Represents(mem, PortList, public) /\ Len(public) \in Nat
  BY Links, LenProperties
<1>2. /\ pc[s] = "user" /\ owner[p] = s /\ p \in Port \ ToSet(public)
      /\ mem' = LinkByPri(mem, PortList, p, Pri, Bound)
      /\ mail' = [mail EXCEPT ![p] = 0] /\ public' = Enqueue(public, p, Pri) /\ Reused(p)
      /\ UNCHANGED <<owner, sigBit, sigAlloc, sigRecvd, reg, missed, name, unlinked, steady, pc, at>>
  BY DEF AddPort, IsPublic, signals
<1>3. PICK k \in 1..Len(public) + 1 :
        /\ mem' = Link(mem, Place(public, k - 1), p, Place(public, k))
        /\ public' = InsertAt(public, k, p)
  BY <1>1, <1>2, LinkIsEnqueue
<1> DEFINE a == Place(public, k - 1)
           b == Place(public, k)
<1>4. mem' \in Memory /\ Represents(mem', PortList, public')
  BY <1>1, <1>2, <1>3, LinkIsInsert
<1>5. public' \in Seq(Port) /\ ToSet(public') = ToSet(public) \cup {p}
  BY <1>1, <1>2, EnqueueMembers
<1>6. Distinct(public')
  BY <1>1, <1>2, EnqueueDistinct
<1>7. SortedBy(public', Pri)
  <2>1. \A x \in Port : Pri[x] \in Int
    BY PortsAssumption
  <2> QED
    BY <1>1, <1>2, <2>1, EnqueueSorted
<1>8. LinkType' /\ Listed'
  BY <1>4, <1>5, <1>6, <1>7 DEF LinkType, Listed, Memory
<1>9. mail' \in [Port -> 0..MaxMail] /\ \A r \in Port : mail'[r] > 0 => mail'[r] = mail[r]
  <2>1. mail \in [Port -> 0..MaxMail]
    BY DEF PortsInv, TypeOK, PortType
  <2> QED
    BY <1>2, <2>1, Constants
<1>10. \A c \in Client : confused'[c] = (confused[c] \/ (Searching(c) /\ p \in unlinked[c]))
  BY <1>2 DEF Reused
<1>11. TypeOK'
  <2>1. confused' \in [Client -> BOOLEAN]
    BY <1>2 DEF Reused, PortsInv, TypeOK, WalkType
  <2> QED
    BY <1>2, <1>8, <1>9, <2>1 DEF PortsInv, TypeOK, PortType, SignalType, TaskType, WalkType
<1>12. Placed'
  <2>1. \A r : Made(r)' <=> Made(r)
    BY <1>2 DEF Made, Making
  <2>2. Made(p)
    BY <1>2 DEF Made, Making
  <2>3. \A r \in ToSet(public') : Made(r)'
    BY <1>5, <2>1, <2>2 DEF PortsInv, Placed
  <2> QED
    BY <1>2, <2>1, <2>3 DEF PortsInv, Placed
<1>13. BitsApart'
  BY <1>2, BitsStay DEF PortsInv, Mine
<1>14. Roused'
  <2> SUFFICES ASSUME NEW u \in Server
               PROVE  /\ pc'[u] \in {"test", "sleep", "asleep"} /\ mail'[at'[u]] > 0 => Sent(u)'
                      /\ pc'[u] \in {"sleep", "asleep"} /\ sigBit'[at'[u]] \in sigRecvd'[u] => missed'[u]
    BY DEF Roused
  <2>1. pc[u] # "user" => at[u] \in Port
    BY DEF PortsInv, Placed
  <2>2. Sent(u)' <=> Sent(u)
    BY <1>2 DEF Sent
  <2> QED
    BY <1>2, <1>9, <2>1, <2>2 DEF PortsInv, Roused
<1>15. Walks'
  <2> SUFFICES ASSUME NEW c \in Client, Searching(c)', ~confused'[c] PROVE Walking(c)'
    BY DEF Walks
  <2>1. Searching(c) /\ ~confused[c] /\ p \notin unlinked[c]
    BY <1>2, <1>10 DEF Searching
  <2>2. Walking(c)
    BY <2>1 DEF PortsInv, Walks
  <2>3. p \notin Ground(c)
    BY <1>2, <2>1, Constants DEF Ground
  <2>4. k - 1 \in 0..Len(public) /\ (k - 1) + 1 = k
    BY <1>1
  <2>5. a \in Cell \ {LTail} /\ a \in {LHead} \cup ToSet(public) /\ mem.succ[a] = b
    BY <2>4, Before
  <2>6. a # p
    BY <1>2, <2>5, Constants
  <2>7. a \notin unlinked[c]
    BY <2>2, <2>5, Constants DEF Walking, PortsInv, TypeOK, WalkType
  <2> HIDE DEF a, b
  <2>8. /\ mem'.succ[a] = p /\ mem'.succ[p] = mem.succ[a]
        /\ \A x \in Cell \ {a, p} : mem'.succ[x] = mem.succ[x]
    <3>1. mem'.succ = [mem.succ EXCEPT ![p] = b, ![a] = p]
      BY <1>3 DEF Link, a, b
    <3>2. mem.succ \in [Cell -> Cell \cup {NULL}] /\ p \in Cell
      BY <1>1, Constants DEF Memory
    <3> QED
      BY <2>5, <2>6, <3>1, <3>2
  <2>9. /\ name'[c] = name[c] /\ unlinked'[c] = unlinked[c] /\ steady'[c] = steady[c]
        /\ pc'[c] = pc[c] /\ at'[c] = at[c]
    BY <1>2
  <2> QED
    BY <1>5, <2>2, <2>3, <2>5, <2>6, <2>7, <2>8, <2>9, InsertKeepsWalk
<1> QED
  BY <1>8, <1>11, <1>12, <1>13, <1>14, <1>15 DEF PortsInv

LEMMA RemPortStep ==
  ASSUME PortsInv, NEW s \in Server, NEW p \in Port, RemPort(s, p)
  PROVE  PortsInv'
<1>1. /\ public \in Seq(Port) /\ Distinct(public) /\ SortedBy(public, Pri) /\ mem \in Memory
      /\ Represents(mem, PortList, public) /\ Len(public) \in Nat
  BY Links, LenProperties
<1>2. /\ p \in ToSet(public)
      /\ mem' = RemoveNode(mem, p) /\ public' = Unlink(public, p)
      /\ unlinked' = [c \in Client |-> IF Searching(c) THEN unlinked[c] \cup {p} ELSE {}]
      /\ steady' = [c \in Client |-> steady[c] \ {p}]
      /\ UNCHANGED <<owner, sigBit, mail, sigAlloc, sigRecvd, reg, missed, name, confused, pc, at>>
  BY DEF RemPort, IsPublic, Leaves, signals
<1> DEFINE k == CHOOSE i \in 1..Len(public) : public[i] = p
           a == Place(public, k - 1)
<1>3. k \in 1..Len(public) /\ public[k] = p /\ public' = RemoveAt(public, k)
  <2>1. \E i \in 1..Len(public) : public[i] = p
    BY <1>1, <1>2, LenProperties DEF ToSet
  <2> QED
    BY <1>2, <2>1 DEF Unlink
<1> HIDE DEF k
<1>4. /\ mem' \in Memory /\ Represents(mem', PortList, public')
      /\ mem'.succ = [mem.succ EXCEPT ![a] = mem.succ[p]]
  BY <1>1, <1>2, <1>3, RemoveIsUnlink
<1>5. public' \in Seq(Port) /\ ToSet(public') = ToSet(public) \ {p} /\ Distinct(public')
  BY <1>1, <1>2, UnlinkMembers
<1>6. SortedBy(public', Pri)
  BY <1>1, <1>2, UnlinkSorted
<1>7. LinkType' /\ Listed'
  BY <1>4, <1>5, <1>6 DEF LinkType, Listed, Memory
<1>8. TypeOK'
  <2>1. unlinked' \in [Client -> SUBSET Port] /\ steady' \in [Client -> SUBSET Port]
    BY <1>2 DEF PortsInv, TypeOK, WalkType
  <2> QED
    BY <1>2, <1>7, <2>1 DEF PortsInv, TypeOK, PortType, SignalType, TaskType, WalkType
<1>9. Placed'
  <2>1. \A r : Made(r)' <=> Made(r)
    BY <1>2 DEF Made, Making
  <2> QED
    BY <1>2, <1>5, <2>1 DEF PortsInv, Placed
<1>10. BitsApart'
  BY <1>2, BitsStay DEF PortsInv, Mine
<1>11. Roused'
  BY <1>2 DEF PortsInv, Roused, Sent
<1>12. Walks'
  <2> SUFFICES ASSUME NEW c \in Client, Searching(c)', ~confused'[c] PROVE Walking(c)'
    BY DEF Walks
  <2>1. Searching(c) /\ ~confused[c]
    BY <1>2 DEF Searching
  <2>2. Walking(c)
    BY <2>1 DEF PortsInv, Walks
  <2>3. k - 1 \in 0..Len(public) /\ (k - 1) + 1 = k
    BY <1>1, <1>3
  <2>4. a \in Cell \ {LTail} /\ a \in {LHead} \cup ToSet(public) /\ mem.succ[a] = p
    <3>1. Place(public, k) = p
      BY <1>1, <1>3, Places
    <3> QED
      BY <2>3, <3>1, Before
  <2>5. a # p
    <3>1. k - 1 \in 0..Len(public) + 1 /\ k \in 0..Len(public) + 1 /\ k - 1 # k
      BY <1>1, <1>3
    <3> QED
      BY <1>1, <1>3, <3>1, Places
  <2>6. a \notin unlinked[c]
    BY <2>2, <2>4, Constants DEF Walking, PortsInv, TypeOK, WalkType
  <2> HIDE DEF a
  <2>7. /\ mem'.succ[a] = mem.succ[p] /\ \A x \in Cell \ {a} : mem'.succ[x] = mem.succ[x]
    <3>1. mem.succ \in [Cell -> Cell \cup {NULL}]
      BY <1>1 DEF Memory
    <3> QED
      BY <1>4, <2>4, <3>1
  <2>8. /\ name'[c] = name[c] /\ unlinked'[c] = unlinked[c] \cup {p}
        /\ steady'[c] = steady[c] \ {p} /\ pc'[c] = pc[c] /\ at'[c] = at[c]
    BY <1>2, <2>1
  <2> QED
    BY <1>2, <1>5, <2>2, <2>4, <2>5, <2>6, <2>7, <2>8, RemoveKeepsWalk
<1> QED
  BY <1>7, <1>8, <1>9, <1>10, <1>11, <1>12 DEF PortsInv
---------------------------------------------------------------------------
(***************************************************************************)
(* The theorems.                                                           *)
(***************************************************************************)
LEMMA InitPortsInv == Init => PortsInv
<1> SUFFICES ASSUME Init PROVE PortsInv
  OBVIOUS
<1>1. mem \in Memory /\ Chain(mem, <<>>)
  <2> DEFINE none == [c \in Cell |-> NULL]
  <2>1. /\ mem.succ = [none EXCEPT ![LHead] = LTail, ![LTail] = NULL]
        /\ mem.pred = [none EXCEPT ![LHead] = NULL, ![LTail] = LHead]
        /\ mem = [succ |-> mem.succ, pred |-> mem.pred]
    BY DEF Init, NewList, PortList, Header
  <2>2. none \in [Cell -> Cell \cup {NULL}]
    OBVIOUS
  <2> HIDE DEF none
  <2>3. mem.succ \in [Cell -> Cell \cup {NULL}] /\ mem.pred \in [Cell -> Cell \cup {NULL}]
    BY <2>1, <2>2, Constants
  <2>4. /\ mem.succ[LHead] = LTail /\ mem.pred[LTail] = LHead
        /\ mem.succ[LTail] = NULL /\ mem.pred[LHead] = NULL
    BY <2>1, <2>2, Constants
  <2>5. Place(<<>>, 0) = LHead /\ Place(<<>>, 1) = LTail /\ 0..Len(<<>>) = {0}
    BY DEF Place
  <2>6. Chain(mem, <<>>)
    BY <2>4, <2>5 DEF Chain
  <2> QED
    BY <2>1, <2>3, <2>6 DEF Memory
<1>2. <<>> \in Seq(Port) /\ public = <<>>
  BY DEF Init
<1>3. TypeOK
  <2>1. LinkType
    BY <1>1, <1>2 DEF LinkType, Memory
  <2>2. PortType /\ SignalType
    BY Constants DEF Init, PortType, SignalType
  <2>3. TaskType /\ WalkType
    BY DEF Init, TaskType, WalkType, PC
  <2> QED
    BY <2>1, <2>2, <2>3 DEF TypeOK
<1>4. Placed
  <2>1. ToSet(public) = {}
    BY <1>2 DEF ToSet
  <2>2. \A t \in Server \cup Client : pc[t] = "user"
    BY DEF Init
  <2> QED
    BY <2>1, <2>2 DEF Placed, ServerPC, ClientPC
<1>5. BitsApart
  <2>1. \A s \in Server : Mine(s) = {} /\ sigAlloc[s] = {}
    BY Constants DEF Init, Mine
  <2> QED
    BY <2>1 DEF BitsApart
<1>6. Roused /\ Walks
  BY DEF Init, Roused, Walks, Searching
<1>7. Listed
  <2>1. Represents(mem, PortList, <<>>)
    BY <1>1, <1>2, ChainIsList
  <2>2. Distinct(<<>>) /\ SortedBy(<<>>, Pri)
    BY DEF Distinct, SortedBy
  <2> QED
    BY <1>2, <2>1, <2>2 DEF Listed
<1> QED
  BY <1>3, <1>4, <1>5, <1>6, <1>7 DEF PortsInv

LEMMA NextPortsInv == PortsInv /\ [Next]_vars => PortsInv'
<1> SUFFICES ASSUME PortsInv, [Next]_vars PROVE PortsInv'
  OBVIOUS
<1>1. CASE UNCHANGED vars
  <2>1. UNCHANGED <<mem, owner, sigBit, mail, public, sigAlloc, sigRecvd, reg, missed,
                    name, unlinked, steady, confused, pc, at>>
    BY <1>1 DEF vars, ports, signals, walk
  <2>2. TypeOK'
    BY <2>1 DEF PortsInv, TypeOK, LinkType, PortType, SignalType, TaskType, WalkType
  <2>3. Placed' /\ Roused' /\ Listed'
    BY <2>1 DEF PortsInv, Placed, Made, Making, Roused, Sent, Listed
  <2>4. BitsApart'
    BY <2>1, BitsStay DEF PortsInv, Mine
  <2>5. Walks'
    BY <2>1, WalksStay DEF PortsInv
  <2> QED
    BY <2>2, <2>3, <2>4, <2>5 DEF PortsInv
<1>2. ASSUME NEW s \in Server, ServerStep(s) PROVE PortsInv'
  <2>1. CASE \E p \in Port : \/ CreateMsgPort(s, p) \/ AddPort(s, p) \/ RemPort(s, p)
                             \/ DeleteMsgPort(s, p) \/ GetMsg(s, p)
    BY <2>1, CreateMsgPortStep, AddPortStep, RemPortStep, DeleteMsgPortStep, GetMsgStep
  <2>2. CASE AllocSignal(s)
    BY <2>2, AllocSignalStep
  <2> QED
    BY <1>2, <2>1, <2>2, WithinCalls DEF ServerStep
<1>3. ASSUME NEW c \in Client, ClientStep(c) PROVE PortsInv'
  BY <1>3, PutMsgStep, FindPortStep, PutMsgSignalStep, FindLookStep, FindNextStep, FindReturnStep
     DEF ClientStep
<1> QED
  BY <1>1, <1>2, <1>3, InterruptReplyStep DEF Next

THEOREM PortsInvariant == Spec => []PortsInv
BY InitPortsInv, NextPortsInv, PTL DEF Spec

\* The links of PortList are at any time those of a list, in both directions, of the
\* public ports in priority order, whoever adds and removes ports (lib.exec/list.c,
\* ports.c:8-27).
THEOREM ListIsExact == Spec => []ListExact
<1>1. PortsInv => ListExact
  BY DEF PortsInv, Listed, ListExact
<1> QED
  BY <1>1, PortsInvariant, PTL

\* A search without Forbid finds a port of the wanted name that is public all the
\* time, and nothing but a port that was public, as long as no port that left the
\* list meanwhile is published or allocated again (lib.exec/list.c:153-161).
THEOREM SearchesFind == Spec => []FindPortFinds
<1>1. PortsInv => FindPortFinds
  <2> SUFFICES ASSUME PortsInv, NEW c \in Client, ~confused[c], pc[c] \in {"none", "found"}
               PROVE  /\ pc[c] = "none" => \A p \in steady[c] : NameOf[p] # name[c]
                      /\ pc[c] = "found" => at[c] \in steady[c] \cup unlinked[c] \cup ToSet(public)
    BY DEF FindPortFinds
  <2>1. Walking(c)
    BY DEF PortsInv, Walks, Searching
  <2> QED
    BY <2>1 DEF Walking, Ground
<1> QED
  BY <1>1, PortsInvariant, PTL

\* Each port of a task has a signal bit of its own, and no bit is allocated that no
\* port has, for any number of bits (ports.c:38-71, tasks.c:95-138).
THEOREM BitsAreOwned == Spec => []BitsOwned
<1>1. PortsInv => BitsOwned
  <2> SUFFICES ASSUME PortsInv, NEW s \in Server
               PROVE  /\ sigAlloc[s] = {sigBit[p] : p \in Mine(s)}
                      /\ Cardinality(sigAlloc[s]) = Cardinality(Mine(s))
    BY DEF BitsOwned
  <2>1. /\ sigAlloc[s] = {sigBit[p] : p \in Mine(s)}
        /\ \A p, q \in Mine(s) : sigBit[p] = sigBit[q] => p = q
    BY DEF PortsInv, BitsApart
  <2> DEFINE f == [p \in Mine(s) |-> sigBit[p]]
  <2>2. f \in Bijection(Mine(s), sigAlloc[s])
    BY <2>1 DEF Bijection, Injection, Surjection, IsInjective
  <2>3. ExistsBijection(Mine(s), sigAlloc[s])
    BY <2>2 DEF ExistsBijection
  <2>4. IsFiniteSet(Mine(s))
    <3>1. Mine(s) \subseteq Port /\ IsFiniteSet(Port)
      BY PortsAssumption DEF Mine
    <3> QED
      BY <3>1, FS_Subset
  <2> QED
    BY <2>1, <2>3, <2>4, FS_Bijection
<1> QED
  BY <1>1, PortsInvariant, PTL

\* A server is asleep in WaitPort on a port with a message only while the sender has
\* not signalled yet, or when the signal fell between the test and the sleep of Wait
\* (messages.c:139, ports.c:31-34).
THEOREM NoSleepOnMail == Spec => []SleepsOnMail
<1>1. PortsInv => SleepsOnMail
  BY DEF PortsInv, Roused, Sent, SleepsOnMail
<1> QED
  BY <1>1, PortsInvariant, PTL
=============================================================================
