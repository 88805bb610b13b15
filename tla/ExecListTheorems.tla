------------------------- MODULE ExecListTheorems -------------------------
(***************************************************************************)
(* What the list operations of ExecLists return, for lists of any length:  *)
(* the nodes they hold, that no node is linked twice, and that Enqueue     *)
(* keeps a list in priority order.  And what the loops of Loops keep, and  *)
(* when they have ended.                                                   *)
(***************************************************************************)
EXTENDS ExecLists, Loops, SequenceTheorems, WellFoundedInduction, TLAPS

\* A non-empty set of naturals has a minimum.
LEMMA MinIsLeast ==
  ASSUME NEW S \in SUBSET Nat, S # {}
  PROVE  Min(S) \in S /\ \A y \in S : Min(S) <= y
<1>1. PICK x \in S : \A y \in S : ~ (<<y, x>> \in OpToRel(<, Nat))
  BY NatLessThanWellFounded, WFMin
<1>2. \A y \in S : ~ (y < x)
  BY <1>1 DEF OpToRel
<1>3. \A y \in S : x <= y
  BY <1>2
<1> QED
  BY <1>3 DEF Min

\* InsertAt puts its node at place k and moves what stands there and behind it
\* back by one.
LEMMA InsertAtPlace ==
  ASSUME NEW S, NEW q \in Seq(S), NEW n \in S, NEW k \in 1..(Len(q) + 1)
  PROVE  /\ InsertAt(q, k, n) \in Seq(S) /\ Len(InsertAt(q, k, n)) = Len(q) + 1
         /\ \A i \in 1..(Len(q) + 1) :
              InsertAt(q, k, n)[i] = IF i < k THEN q[i] ELSE IF i = k THEN n ELSE q[i - 1]
<1> DEFINE front == SubSeq(q, 1, k - 1)
           back  == SubSeq(q, k, Len(q))
           upto  == front \o <<n>>
<1>1. Len(q) \in Nat /\ k \in Nat /\ 1 <= k /\ k <= Len(q) + 1
  BY LenProperties
<1>2. /\ front \in Seq(S) /\ Len(front) = k - 1
      /\ \A i \in 1..(k - 1) : front[i] = q[i]
  BY <1>1, SubSeqProperties, ElementOfSeq, Z3
<1>3. /\ back \in Seq(S) /\ Len(back) = Len(q) - k + 1
      /\ \A i \in 1..(Len(q) - k + 1) : back[i] = q[k + i - 1]
  BY <1>1, SubSeqProperties, ElementOfSeq, Z3
<1>4. /\ <<n>> \in Seq(S) /\ Len(<<n>>) = 1 /\ <<n>>[1] = n
  OBVIOUS
<1> HIDE DEF front, back
<1>5. /\ upto \in Seq(S) /\ Len(upto) = k
      /\ \A i \in 1..k : upto[i] = IF i < k THEN q[i] ELSE n
  BY <1>1, <1>2, <1>4, ConcatProperties
<1>6. InsertAt(q, k, n) = upto \o back
  BY DEF InsertAt, upto, front, back
<1> HIDE DEF upto
<1>7. /\ upto \o back \in Seq(S)
      /\ Len(upto \o back) = Len(q) + 1
      /\ \A i \in 1..(Len(q) + 1) :
           (upto \o back)[i] = IF i <= k THEN upto[i] ELSE back[i - k]
  <2>1. Len(upto) + Len(back) = Len(q) + 1
    BY <1>1, <1>3, <1>5
  <2> QED
    BY <1>1, <1>3, <1>5, <2>1, ConcatProperties
<1>8. \A i \in 1..(Len(q) + 1) :
        (upto \o back)[i] = IF i < k THEN q[i] ELSE IF i = k THEN n ELSE q[i - 1]
  BY <1>1, <1>3, <1>5, <1>7
<1> QED
  BY <1>6, <1>7, <1>8

\* r is the sequence q over S with n put at place k.
Inserted(S, r, q, n, k) ==
  /\ r \in Seq(S)
  /\ Len(r) = Len(q) + 1
  /\ \A i \in 1..(Len(q) + 1) : r[i] = IF i < k THEN q[i] ELSE IF i = k THEN n ELSE q[i - 1]

\* The same fact as one predicate, for the proofs where the quantifier is in the way.
LEMMA InsertAtInserts ==
  ASSUME NEW S, NEW q \in Seq(S), NEW n \in S, NEW k \in 1..(Len(q) + 1)
  PROVE  Inserted(S, InsertAt(q, k, n), q, n, k)
<1>1. InsertAt(q, k, n) \in Seq(S) /\ Len(InsertAt(q, k, n)) = Len(q) + 1
  BY InsertAtPlace
<1>2. \A i \in 1..(Len(q) + 1) :
        InsertAt(q, k, n)[i] = IF i < k THEN q[i] ELSE IF i = k THEN n ELSE q[i - 1]
  BY InsertAtPlace
<1> QED
  BY <1>1, <1>2, Zenon DEF Inserted

\* RemoveAt takes the node at place k out and moves what stands behind it up by one.
LEMMA RemoveAtPlace ==
  ASSUME NEW S, NEW q \in Seq(S), NEW k \in 1..Len(q)
  PROVE  /\ RemoveAt(q, k) \in Seq(S) /\ Len(RemoveAt(q, k)) = Len(q) - 1
         /\ \A i \in 1..(Len(q) - 1) :
              RemoveAt(q, k)[i] = IF i < k THEN q[i] ELSE q[i + 1]
<1> DEFINE front == SubSeq(q, 1, k - 1)
           back  == SubSeq(q, k + 1, Len(q))
           e == front \o back
<1>1. Len(q) \in Nat /\ \A i \in 1..Len(q) : q[i] \in S
  BY LenProperties, ElementOfSeq
<1>2. /\ front \in Seq(S) /\ Len(front) = k - 1
      /\ \A i \in 1..(k - 1) : front[i] = q[i]
  BY <1>1, SubSeqProperties, Z3
<1>3. /\ back \in Seq(S) /\ Len(back) = Len(q) - k
      /\ \A i \in 1..(Len(q) - k) : back[i] = q[k + i]
  <2>1. \A i \in (k + 1)..Len(q) : q[i] \in S
    BY <1>1
  <2>2. /\ back \in Seq(S)
        /\ Len(back) = IF k + 1 <= Len(q) THEN Len(q) - (k + 1) + 1 ELSE 0
        /\ \A i \in 1..(Len(q) - (k + 1) + 1) : back[i] = q[(k + 1) + i - 1]
    BY <1>1, <2>1, SubSeqProperties
  <2> HIDE DEF back
  <2>3. ASSUME NEW i \in 1..(Len(q) - k) PROVE back[i] = q[k + i]
    <3>1. i \in 1..(Len(q) - (k + 1) + 1) /\ (k + 1) + i - 1 = k + i
      BY <1>1
    <3> QED
      BY <2>2, <3>1
  <2>4. Len(back) = Len(q) - k
    BY <1>1, <2>2
  <2> QED
    BY <2>2, <2>3, <2>4
<1> HIDE DEF front, back
<1>4. Len(front) + Len(back) = Len(q) - 1
  BY <1>1, <1>2, <1>3
<1>5. /\ e \in Seq(S) /\ Len(e) = Len(q) - 1
      /\ \A i \in 1..(Len(q) - 1) :
           e[i] = IF i <= Len(front) THEN front[i] ELSE back[i - Len(front)]
  <2>1. front \in Seq(S) /\ back \in Seq(S)
    BY <1>2, <1>3
  <2>2. /\ e \in Seq(S) /\ Len(e) = Len(front) + Len(back)
        /\ \A i \in 1..(Len(front) + Len(back)) :
             e[i] = IF i <= Len(front) THEN front[i] ELSE back[i - Len(front)]
    BY <2>1, ConcatProperties
  <2> HIDE DEF e
  <2> QED
    BY <1>4, <2>2
<1>6. RemoveAt(q, k) = e
  BY DEF RemoveAt, front, back
<1> HIDE DEF e
<1>7. ASSUME NEW i \in 1..(Len(q) - 1) PROVE e[i] = IF i < k THEN q[i] ELSE q[i + 1]
  <2>1. CASE i < k
    BY <1>1, <1>2, <1>5, <2>1
  <2>2. CASE i >= k
    <3>1. i - (k - 1) \in 1..(Len(q) - k) /\ k + (i - (k - 1)) = i + 1
      BY <1>1, <2>2
    <3>2. e[i] = back[i - (k - 1)]
      BY <1>1, <1>2, <1>5, <2>2
    <3>3. back[i - (k - 1)] = q[k + (i - (k - 1))]
      BY <1>3, <3>1
    <3> QED
      BY <1>1, <2>2, <3>1, <3>2, <3>3
  <2> QED
    BY <1>1, <2>1, <2>2
<1> QED
  BY <1>5, <1>6, <1>7

\* e is q with n put in at place k, behind everything not lower than n and in front
\* of something lower.
PutAt(e, q, n, pri, k) ==
  /\ Len(e) = Len(q) + 1
  /\ \A i \in 1..(Len(q) + 1) :
       e[i] = IF i < k THEN q[i] ELSE IF i = k THEN n ELSE q[i - 1]
  /\ \A i \in 1..(k - 1) : ~ (pri[n] > pri[q[i]])
  /\ k <= Len(q) => pri[n] > pri[q[k]]

\* Enqueue puts the node at one place k and moves what stands behind it back by
\* one; nothing in front of k is lower, and what stood at k is.
LEMMA EnqueueAt ==
  ASSUME NEW S, NEW q \in Seq(S), NEW n \in S, NEW pri
  PROVE  /\ Enqueue(q, n, pri) \in Seq(S)
         /\ \E k \in 1..(Len(q) + 1) : PutAt(Enqueue(q, n, pri), q, n, pri, k)
<1> DEFINE P == EnqueuePlaces(q, pri[n], pri)
           k == Min(P)
<1>0. Len(q) \in Nat
  BY LenProperties
<1>1. P \in SUBSET (1..(Len(q) + 1)) /\ Len(q) + 1 \in P
  BY <1>0 DEF EnqueuePlaces
<1>2. k \in P /\ \A y \in P : k <= y
  <2>1. P \in SUBSET Nat /\ P # {}
    BY <1>0, <1>1
  <2> QED
    BY <2>1, MinIsLeast
<1>3. k \in 1..(Len(q) + 1)
  BY <1>1, <1>2
<1>4. Enqueue(q, n, pri) = InsertAt(q, k, n)
  BY DEF Enqueue
<1> HIDE DEF k, P
<1>5. \A i \in 1..(k - 1) : ~ (pri[n] > pri[q[i]])
  BY <1>0, <1>2, <1>3 DEF P, EnqueuePlaces
<1>6. k <= Len(q) => pri[n] > pri[q[k]]
  BY <1>0, <1>2, <1>3 DEF P, EnqueuePlaces
<1>7. InsertAt(q, k, n) \in Seq(S) /\ Len(InsertAt(q, k, n)) = Len(q) + 1
  BY <1>3, InsertAtPlace
<1>8. \A i \in 1..(Len(q) + 1) :
        InsertAt(q, k, n)[i] = IF i < k THEN q[i] ELSE IF i = k THEN n ELSE q[i - 1]
  BY <1>3, InsertAtPlace
<1> QED
  BY <1>3, <1>4, <1>5, <1>6, <1>7, <1>8 DEF PutAt

\* Enqueue adds its node and no other.
LEMMA EnqueueMembers ==
  ASSUME NEW S, NEW q \in Seq(S), NEW n \in S, NEW pri
  PROVE  /\ Enqueue(q, n, pri) \in Seq(S)
         /\ Enqueue(q, n, pri) # <<>>
         /\ ToSet(Enqueue(q, n, pri)) = ToSet(q) \cup {n}
<1> DEFINE e == Enqueue(q, n, pri)
<1>1. e \in Seq(S)
  BY EnqueueAt
<1>2. PICK k \in 1..(Len(q) + 1) : PutAt(e, q, n, pri, k)
  BY EnqueueAt
<1> HIDE DEF e
<1>3. Len(q) \in Nat /\ DOMAIN q = 1..Len(q) /\ DOMAIN e = 1..(Len(q) + 1)
  BY <1>1, <1>2, LenProperties DEF PutAt
<1>4. ASSUME NEW i \in 1..(Len(q) + 1) PROVE e[i] \in ToSet(q) \cup {n}
  BY <1>2, <1>3, <1>4 DEF PutAt, ToSet
<1>5. e[k] = n
  BY <1>2, <1>3 DEF PutAt
<1>6. ASSUME NEW j \in 1..Len(q) PROVE \E i \in 1..(Len(q) + 1) : e[i] = q[j]
  <2>1. CASE j < k
    BY <1>2, <1>3, <2>1 DEF PutAt
  <2>2. CASE j >= k
    <3>1. j + 1 \in 1..(Len(q) + 1) /\ e[j + 1] = q[j]
      BY <1>2, <1>3, <2>2 DEF PutAt
    <3> QED
      BY <3>1
  <2> QED
    BY <1>3, <2>1, <2>2
<1>7. ToSet(e) = ToSet(q) \cup {n}
  BY <1>3, <1>4, <1>5, <1>6 DEF ToSet
<1>8. e # <<>>
  BY <1>3
<1> QED
  BY <1>1, <1>7, <1>8 DEF e

\* A node that was not in the list is in it once.
LEMMA EnqueueDistinct ==
  ASSUME NEW S, NEW q \in Seq(S), NEW n \in S, NEW pri,
         Distinct(q), n \notin ToSet(q)
  PROVE  Distinct(Enqueue(q, n, pri))
<1> DEFINE e == Enqueue(q, n, pri)
<1>1. PICK k \in 1..(Len(q) + 1) : PutAt(e, q, n, pri, k)
  BY EnqueueAt
<1> HIDE DEF e
<1>2. Len(q) \in Nat /\ \A i \in 1..Len(q) : q[i] # n
  BY LenProperties DEF ToSet
<1>3. ASSUME NEW i \in 1..(Len(q) + 1), NEW j \in 1..(Len(q) + 1), i < j
      PROVE  e[i] # e[j]
  <2>1. e[i] = (IF i < k THEN q[i] ELSE IF i = k THEN n ELSE q[i - 1])
    BY <1>1 DEF PutAt
  <2>2. e[j] = (IF j < k THEN q[j] ELSE IF j = k THEN n ELSE q[j - 1])
    BY <1>1 DEF PutAt
  <2>3. CASE j < k
    BY <1>2, <1>3, <2>1, <2>2, <2>3 DEF Distinct
  <2>4. CASE j = k
    BY <1>2, <1>3, <2>1, <2>2, <2>4
  <2>5. CASE i < k /\ j > k
    BY <1>2, <1>3, <2>1, <2>2, <2>5 DEF Distinct
  <2>6. CASE i = k
    BY <1>2, <1>3, <2>1, <2>2, <2>6
  <2>7. CASE i > k
    BY <1>2, <1>3, <2>1, <2>2, <2>7 DEF Distinct
  <2> QED
    BY <1>2, <1>3, <2>3, <2>4, <2>5, <2>6, <2>7
<1>4. Len(e) = Len(q) + 1
  BY <1>1 DEF PutAt
<1>5. ASSUME NEW i \in 1..Len(e), NEW j \in 1..Len(e), i # j PROVE e[i] # e[j]
  <2>1. i < j \/ j < i
    BY <1>2, <1>4, <1>5
  <2> QED
    BY <1>3, <1>4, <2>1
<1> QED
  BY <1>5 DEF Distinct, e

\* Enqueue keeps a list in priority order.
LEMMA EnqueueSorted ==
  ASSUME NEW S, NEW q \in Seq(S), NEW n \in S, NEW pri,
         \A x \in S : pri[x] \in Int,
         SortedBy(q, pri)
  PROVE  SortedBy(Enqueue(q, n, pri), pri)
<1> DEFINE e == Enqueue(q, n, pri)
<1>1. PICK k \in 1..(Len(q) + 1) : PutAt(e, q, n, pri, k)
  BY EnqueueAt
<1> HIDE DEF e
<1>2. Len(q) \in Nat /\ \A i \in 1..Len(q) : q[i] \in S
  BY LenProperties, ElementOfSeq
<1>3. pri[n] \in Int /\ \A i \in 1..Len(q) : pri[q[i]] \in Int
  BY <1>2
<1>4. ASSUME NEW i \in 1..Len(q), i >= k PROVE pri[n] > pri[q[i]]
  <2>1. k \in 1..Len(q) /\ pri[n] > pri[q[k]]
    BY <1>1, <1>2, <1>4 DEF PutAt
  <2>2. i = k \/ pri[q[k]] >= pri[q[i]]
    BY <1>2, <1>4, <2>1 DEF SortedBy
  <2> QED
    BY <1>3, <2>1, <2>2
<1>5. ASSUME NEW i \in 1..Len(q), i < k PROVE pri[q[i]] >= pri[n]
  <2>1. ~ (pri[n] > pri[q[i]])
    BY <1>1, <1>2, <1>5 DEF PutAt
  <2> QED
    BY <1>3, <2>1
<1>6. ASSUME NEW i \in 1..(Len(q) + 1), NEW j \in 1..(Len(q) + 1), i < j
      PROVE  pri[e[i]] >= pri[e[j]]
  <2>1. e[i] = (IF i < k THEN q[i] ELSE IF i = k THEN n ELSE q[i - 1])
    BY <1>1 DEF PutAt
  <2>2. e[j] = (IF j < k THEN q[j] ELSE IF j = k THEN n ELSE q[j - 1])
    BY <1>1 DEF PutAt
  <2>3. CASE j < k
    BY <1>2, <1>6, <2>1, <2>2, <2>3 DEF SortedBy
  <2>4. CASE j = k
    BY <1>2, <1>5, <1>6, <2>1, <2>2, <2>4
  <2>5. CASE i < k /\ j > k
    <3>1. i \in 1..Len(q) /\ j - 1 \in 1..Len(q) /\ j - 1 >= k
      BY <1>2, <1>6, <2>5
    <3>2. pri[q[i]] >= pri[n] /\ pri[n] > pri[q[j - 1]]
      BY <1>4, <1>5, <2>5, <3>1
    <3>3. pri[q[i]] \in Int /\ pri[q[j - 1]] \in Int
      BY <1>3, <3>1
    <3> QED
      BY <1>3, <2>1, <2>2, <2>5, <3>2, <3>3
  <2>6. CASE i = k
    <3>1. j - 1 \in 1..Len(q) /\ j - 1 >= k
      BY <1>2, <1>6, <2>6
    <3> QED
      BY <1>3, <1>4, <1>6, <2>1, <2>2, <2>6, <3>1
  <2>7. CASE i > k
    <3>1. i - 1 \in 1..Len(q) /\ j - 1 \in 1..Len(q) /\ i - 1 < j - 1
      BY <1>2, <1>6, <2>7
    <3>2. pri[q[i - 1]] >= pri[q[j - 1]]
      BY <3>1 DEF SortedBy
    <3> QED
      BY <1>6, <2>1, <2>2, <2>7, <3>2
  <2> QED
    BY <1>2, <1>6, <2>3, <2>4, <2>5, <2>6, <2>7
<1>7. Len(e) = Len(q) + 1
  BY <1>1 DEF PutAt
<1> QED
  BY <1>6, <1>7 DEF SortedBy, e

\* Taking the head off leaves the other nodes, still in order.
LEMMA TailOfList ==
  ASSUME NEW S, NEW q \in Seq(S), q # <<>>, NEW pri
  PROVE  /\ Head(q) \in ToSet(q) /\ Head(q) \in S
         /\ Tail(q) \in Seq(S)
         /\ Distinct(q) => Distinct(Tail(q)) /\ ToSet(Tail(q)) = ToSet(q) \ {Head(q)}
         /\ SortedBy(q, pri) => /\ SortedBy(Tail(q), pri)
                                /\ \A x \in ToSet(Tail(q)) : pri[Head(q)] >= pri[x]
<1> DEFINE t == Tail(q)
<1>1. /\ Len(q) \in Nat \ {0} /\ DOMAIN q = 1..Len(q)
      /\ Head(q) = q[1] /\ Head(q) \in S
  BY LenProperties, HeadTailProperties, EmptySeq
<1>2. /\ t \in Seq(S) /\ Len(t) = Len(q) - 1 /\ DOMAIN t = 1..(Len(q) - 1)
      /\ \A i \in 1..(Len(q) - 1) : t[i] = q[i + 1]
  BY HeadTailProperties, LenProperties
<1> HIDE DEF t
<1>3. Head(q) \in ToSet(q)
  BY <1>1 DEF ToSet
<1>4. ASSUME NEW i \in 1..(Len(q) - 1) PROVE i + 1 \in 1..Len(q)
  BY <1>1
<1>5. ASSUME Distinct(q) PROVE Distinct(t) /\ ToSet(t) = ToSet(q) \ {Head(q)}
  <2>1. Distinct(t)
    BY <1>1, <1>2, <1>5 DEF Distinct
  <2>2. ASSUME NEW i \in 1..(Len(q) - 1) PROVE t[i] \in ToSet(q) \ {Head(q)}
    <3>1. i + 1 \in 1..Len(q) /\ i + 1 # 1 /\ 1 \in 1..Len(q)
      BY <1>1
    <3> QED
      BY <1>1, <1>2, <1>5, <3>1 DEF Distinct, ToSet
  <2>3. ASSUME NEW i \in 1..Len(q), q[i] # Head(q) PROVE q[i] \in ToSet(t)
    <3>1. i - 1 \in 1..(Len(q) - 1) /\ (i - 1) + 1 = i
      BY <1>1, <2>3
    <3>2. t[i - 1] = q[i]
      BY <1>2, <3>1
    <3> QED
      BY <1>2, <3>1, <3>2 DEF ToSet
  <2>4. ToSet(t) = {t[i] : i \in 1..(Len(q) - 1)} /\ ToSet(q) = {q[i] : i \in 1..Len(q)}
    BY <1>1, <1>2 DEF ToSet
  <2> QED
    BY <2>1, <2>2, <2>3, <2>4
<1>6. ASSUME SortedBy(q, pri)
      PROVE  SortedBy(t, pri) /\ \A x \in ToSet(t) : pri[Head(q)] >= pri[x]
  <2>1. ASSUME NEW i \in 1..(Len(q) - 1), NEW j \in 1..(Len(q) - 1), i < j
        PROVE  pri[t[i]] >= pri[t[j]]
    <3>1. i + 1 \in 1..Len(q) /\ j + 1 \in 1..Len(q) /\ i + 1 < j + 1
      BY <1>1, <2>1
    <3>2. pri[q[i + 1]] >= pri[q[j + 1]]
      BY <1>6, <3>1 DEF SortedBy
    <3> QED
      BY <1>2, <3>2
  <2>2. ASSUME NEW i \in 1..(Len(q) - 1) PROVE pri[Head(q)] >= pri[t[i]]
    <3>1. 1 \in 1..Len(q) /\ i + 1 \in 1..Len(q) /\ 1 < i + 1
      BY <1>1
    <3>2. pri[q[1]] >= pri[q[i + 1]]
      BY <1>6, <3>1 DEF SortedBy
    <3> QED
      BY <1>1, <1>2, <3>2
  <2> QED
    BY <1>2, <2>1, <2>2 DEF SortedBy, ToSet
<1> QED
  BY <1>1, <1>2, <1>3, <1>5, <1>6 DEF t

\* AddHead adds its node once.
LEMMA AddHeadMembers ==
  ASSUME NEW S, NEW q \in Seq(S), NEW n \in S
  PROVE  /\ AddHead(q, n) \in Seq(S)
         /\ ToSet(AddHead(q, n)) = ToSet(q) \cup {n}
         /\ Distinct(q) /\ n \notin ToSet(q) => Distinct(AddHead(q, n))
<1> DEFINE e == AddHead(q, n)
<1>1. <<n>> \in Seq(S) /\ Len(<<n>>) = 1 /\ <<n>>[1] = n
  OBVIOUS
<1>2. Len(q) \in Nat /\ DOMAIN q = 1..Len(q)
  BY LenProperties
<1>3. /\ e \in Seq(S) /\ Len(e) = Len(q) + 1
      /\ \A i \in 1..(Len(q) + 1) : e[i] = IF i = 1 THEN n ELSE q[i - 1]
  BY <1>1, <1>2, ConcatProperties DEF AddHead
<1>4. DOMAIN e = 1..(Len(q) + 1)
  BY <1>3, LenProperties
<1> HIDE DEF e
<1>5. ASSUME NEW i \in 1..(Len(q) + 1) PROVE e[i] \in ToSet(q) \cup {n}
  <2>1. i = 1 \/ i - 1 \in 1..Len(q)
    BY <1>2
  <2> QED
    BY <1>2, <1>3, <2>1 DEF ToSet
<1>6. ASSUME NEW j \in 1..Len(q) PROVE e[j + 1] = q[j] /\ j + 1 \in 1..(Len(q) + 1)
  BY <1>2, <1>3
<1>7. e[1] = n /\ 1 \in 1..(Len(q) + 1)
  BY <1>2, <1>3
<1>8. ToSet(e) = ToSet(q) \cup {n}
  <2>1. ToSet(e) = {e[i] : i \in 1..(Len(q) + 1)} /\ ToSet(q) = {q[i] : i \in 1..Len(q)}
    BY <1>2, <1>4 DEF ToSet
  <2>2. n \in ToSet(e) /\ \A j \in 1..Len(q) : q[j] \in ToSet(e)
    BY <1>6, <1>7, <2>1
  <2> QED
    BY <1>5, <2>1, <2>2
<1>9. ASSUME Distinct(q), n \notin ToSet(q) PROVE Distinct(e)
  <2>1. ASSUME NEW i \in 1..(Len(q) + 1), NEW j \in 1..(Len(q) + 1), i # j
        PROVE  e[i] # e[j]
    <3>1. CASE i # 1 /\ j # 1
      <4>1. i - 1 \in 1..Len(q) /\ j - 1 \in 1..Len(q) /\ i - 1 # j - 1
        BY <1>2, <2>1, <3>1
      <4> QED
        BY <1>3, <1>9, <3>1, <4>1 DEF Distinct
    <3>2. CASE i = 1
      <4>1. j - 1 \in 1..Len(q)
        BY <1>2, <2>1, <3>2
      <4> QED
        BY <1>2, <1>3, <1>9, <2>1, <3>2, <4>1 DEF ToSet
    <3>3. CASE j = 1
      <4>1. i - 1 \in 1..Len(q)
        BY <1>2, <2>1, <3>3
      <4> QED
        BY <1>2, <1>3, <1>9, <2>1, <3>3, <4>1 DEF ToSet
    <3> QED
      BY <3>1, <3>2, <3>3
  <2> QED
    BY <1>3, <2>1 DEF Distinct
<1> QED
  BY <1>3, <1>8, <1>9 DEF e

\* AddTail adds its node once.
LEMMA AddTailMembers ==
  ASSUME NEW S, NEW q \in Seq(S), NEW n \in S
  PROVE  /\ AddTail(q, n) \in Seq(S) /\ AddTail(q, n) # <<>>
         /\ ToSet(AddTail(q, n)) = ToSet(q) \cup {n}
         /\ Distinct(q) /\ n \notin ToSet(q) => Distinct(AddTail(q, n))
<1> DEFINE e == AddTail(q, n)
<1>1. Len(q) \in Nat /\ DOMAIN q = 1..Len(q)
  BY LenProperties
<1>2. /\ e \in Seq(S) /\ e # <<>> /\ Len(e) = Len(q) + 1
      /\ \A i \in 1..Len(q) : e[i] = q[i]
      /\ e[Len(q) + 1] = n
  BY <1>1, AppendProperties DEF AddTail
<1>3. DOMAIN e = 1..(Len(q) + 1)
  BY <1>2, LenProperties
<1> HIDE DEF e
<1>4. \A i \in 1..(Len(q) + 1) : i \in 1..Len(q) \/ i = Len(q) + 1
  BY <1>1
<1>5. ToSet(e) = ToSet(q) \cup {n}
  <2>1. ToSet(e) = {e[i] : i \in 1..(Len(q) + 1)} /\ ToSet(q) = {q[i] : i \in 1..Len(q)}
    BY <1>1, <1>3 DEF ToSet
  <2>2. 1..Len(q) \subseteq 1..(Len(q) + 1) /\ Len(q) + 1 \in 1..(Len(q) + 1)
    BY <1>1
  <2> QED
    BY <1>2, <1>4, <2>1, <2>2
<1>6. ASSUME Distinct(q), n \notin ToSet(q) PROVE Distinct(e)
  <2>1. \A i \in 1..Len(q) : q[i] # n
    BY <1>1, <1>6 DEF ToSet
  <2> QED
    BY <1>2, <1>4, <1>6, <2>1 DEF Distinct
<1> QED
  BY <1>2, <1>5, <1>6 DEF e

\* Remove takes its node out and leaves the others.
LEMMA UnlinkMembers ==
  ASSUME NEW S, NEW q \in Seq(S), NEW n \in ToSet(q)
  PROVE  /\ Unlink(q, n) \in Seq(S)
         /\ Distinct(q) => /\ Distinct(Unlink(q, n))
                           /\ ToSet(Unlink(q, n)) = ToSet(q) \ {n}
<1> DEFINE k == CHOOSE i \in 1..Len(q) : q[i] = n
           e == RemoveAt(q, k)
<1>1. Len(q) \in Nat /\ DOMAIN q = 1..Len(q)
  BY LenProperties
<1>2. k \in 1..Len(q) /\ q[k] = n
  BY <1>1 DEF ToSet
<1>3. Unlink(q, n) = e
  BY DEF Unlink
<1> HIDE DEF k
<1>4. /\ e \in Seq(S) /\ Len(e) = Len(q) - 1
      /\ \A i \in 1..(Len(q) - 1) : e[i] = IF i < k THEN q[i] ELSE q[i + 1]
  BY <1>2, RemoveAtPlace
<1>5. DOMAIN e = 1..(Len(q) - 1)
  BY <1>4, LenProperties
<1> HIDE DEF e
<1>6. ASSUME Distinct(q) PROVE Distinct(e)
  <2>1. ASSUME NEW i \in 1..(Len(q) - 1), NEW j \in 1..(Len(q) - 1), i # j
        PROVE  e[i] # e[j]
    <3>1. /\ i \in 1..Len(q) /\ j \in 1..Len(q)
          /\ i + 1 \in 1..Len(q) /\ j + 1 \in 1..Len(q)
      BY <1>1
    <3> QED
      BY <1>1, <1>2, <1>4, <1>6, <2>1, <3>1 DEF Distinct
  <2> QED
    BY <1>4, <2>1 DEF Distinct
<1>7. ASSUME Distinct(q) PROVE ToSet(e) = ToSet(q) \ {n}
  <2>1. ASSUME NEW i \in 1..(Len(q) - 1) PROVE e[i] \in ToSet(q) \ {n}
    <3>1. i \in 1..Len(q) /\ i + 1 \in 1..Len(q)
      BY <1>1
    <3>2. (i < k => i # k) /\ (i >= k => i + 1 # k)
      BY <1>1, <1>2
    <3>3. q[i] \in ToSet(q) /\ q[i + 1] \in ToSet(q)
      BY <1>1, <3>1 DEF ToSet
    <3>4. (i < k => q[i] # n) /\ (i >= k => q[i + 1] # n)
      BY <1>2, <1>7, <3>1, <3>2 DEF Distinct
    <3> QED
      BY <1>1, <1>2, <1>4, <3>3, <3>4
  <2>2. ASSUME NEW j \in 1..Len(q), q[j] # n PROVE q[j] \in ToSet(e)
    <3>1. CASE j < k
      <4>1. j \in 1..(Len(q) - 1)
        BY <1>1, <1>2, <3>1
      <4> QED
        BY <1>5, <1>4, <3>1, <4>1 DEF ToSet
    <3>2. CASE j > k
      <4>1. j - 1 \in 1..(Len(q) - 1) /\ ~ (j - 1 < k) /\ (j - 1) + 1 = j
        BY <1>1, <1>2, <3>2
      <4>2. e[j - 1] = q[j]
        BY <1>4, <4>1
      <4> QED
        BY <1>5, <4>1, <4>2 DEF ToSet
    <3> QED
      BY <1>1, <1>2, <2>2, <3>1, <3>2
  <2>3. ToSet(e) = {e[i] : i \in 1..(Len(q) - 1)} /\ ToSet(q) = {q[i] : i \in 1..Len(q)}
    BY <1>1, <1>5 DEF ToSet
  <2> QED
    BY <2>1, <2>2, <2>3
<1> QED
  BY <1>3, <1>4, <1>6, <1>7

\* It leaves a sorted list sorted.
LEMMA UnlinkSorted ==
  ASSUME NEW S, NEW q \in Seq(S), NEW n \in ToSet(q), NEW pri, SortedBy(q, pri)
  PROVE  SortedBy(Unlink(q, n), pri)
<1> DEFINE k == CHOOSE i \in 1..Len(q) : q[i] = n
           e == RemoveAt(q, k)
<1>1. Len(q) \in Nat /\ DOMAIN q = 1..Len(q)
  BY LenProperties
<1>2. k \in 1..Len(q) /\ q[k] = n
  BY <1>1 DEF ToSet
<1>3. Unlink(q, n) = e
  BY DEF Unlink
<1> HIDE DEF k
<1>4. /\ Len(e) = Len(q) - 1
      /\ \A i \in 1..(Len(q) - 1) : e[i] = IF i < k THEN q[i] ELSE q[i + 1]
  BY <1>2, RemoveAtPlace
<1> HIDE DEF e
<1>5. ASSUME NEW i \in 1..Len(e), NEW j \in 1..Len(e), i < j
      PROVE  pri[e[i]] >= pri[e[j]]
  <2> DEFINE a == IF i < k THEN i ELSE i + 1
             b == IF j < k THEN j ELSE j + 1
  <2>1. a \in 1..Len(q) /\ b \in 1..Len(q) /\ a < b
    BY <1>1, <1>2, <1>4, <1>5
  <2>2. e[i] = q[a] /\ e[j] = q[b]
    BY <1>4
  <2> QED
    BY <2>1, <2>2 DEF SortedBy
<1> QED
  BY <1>3, <1>5 DEF SortedBy

\* A list of one node is that node's, and a list without nodes is empty.
LEMMA ShortLists ==
  ASSUME NEW S, NEW t \in S
  PROVE  /\ <<t>> \in Seq(S) /\ ToSet(<<t>>) = {t} /\ Distinct(<<t>>)
         /\ AddTail(<<>>, t) = <<t>> /\ Tail(<<t>>) = <<>>
         /\ \A q \in Seq(S) : ToSet(q) = {} => q = <<>>
<1>1. <<t>> \in Seq(S) /\ ToSet(<<t>>) = {t} /\ Distinct(<<t>>)
  BY DEF ToSet, Distinct
<1>2. AddTail(<<>>, t) = <<t>> /\ Tail(<<t>>) = <<>>
  BY DEF AddTail
<1>3. ASSUME NEW q \in Seq(S), ToSet(q) = {} PROVE q = <<>>
  <2>1. Len(q) \in Nat /\ DOMAIN q = 1..Len(q)
    BY LenProperties
  <2>2. \A i \in DOMAIN q : q[i] \in ToSet(q)
    BY DEF ToSet
  <2>3. Len(q) = 0
    BY <1>3, <2>1, <2>2
  <2> QED
    BY <2>3, EmptySeq
<1> QED
  BY <1>1, <1>2, <1>3

\* Remove of the only node leaves nothing.
LEMMA ShortUnlink ==
  ASSUME NEW S, NEW t \in S, NEW q, q = <<t>>
  PROVE  Unlink(q, t) = <<>>
<1>1. ASSUME NEW r \in Seq(S), ToSet(r) = {t}, Distinct(r) PROVE Unlink(r, t) = <<>>
  <2>1. Unlink(r, t) \in Seq(S) /\ ToSet(Unlink(r, t)) = {}
    BY <1>1, UnlinkMembers
  <2>2. \A e \in Seq(S) : ToSet(e) = {} => e = <<>>
    BY ShortLists
  <2> QED
    BY <2>1, <2>2
<1>2. q \in Seq(S) /\ ToSet(q) = {t} /\ Distinct(q)
  BY ShortLists
<1> QED
  BY <1>1, <1>2
----------------------------------------------------------------------------
(***************************************************************************)
(* Induction, and loops.                                                   *)
(***************************************************************************)
\* What holds of 0, and of n + 1 when of n, holds of all.
LEMMA AllNats ==
  ASSUME NEW S, 0 \in S, \A n \in Nat : n \in S => n + 1 \in S
  PROVE  \A n \in Nat : n \in S
<1> SUFFICES ASSUME {n \in Nat : n \notin S} # {} PROVE FALSE
  OBVIOUS
<1>1. PICK x \in {n \in Nat : n \notin S} : \A y \in {n \in Nat : n \notin S} : x <= y
  BY MinIsLeast, {n \in Nat : n \notin S} \in SUBSET Nat
<1>2. x - 1 \in Nat /\ x = (x - 1) + 1
  BY <1>1
<1>3. x - 1 \in S
  BY <1>1, <1>2
<1> QED
  BY <1>1, <1>2, <1>3

\* A loop's rounds up to the n-th.
Course(g, round, s, n) ==
  /\ DOMAIN g = 0..n
  /\ g = [i \in 0..n |-> IF i = 0 THEN s ELSE round[g[i - 1]]]

\* There is one course of each length, and shorter ones begin it.
LEMMA CoursesAgree ==
  ASSUME NEW round, NEW s, NEW m \in Nat, NEW n \in Nat, m <= n,
         NEW g, NEW h, Course(g, round, s, m), Course(h, round, s, n)
  PROVE  \A i \in 0..m : g[i] = h[i]
<1> DEFINE S == {i \in Nat : i <= m => g[i] = h[i]}
<1>1. 0 \in S
  BY DEF Course
<1>2. ASSUME NEW i \in Nat, i \in S PROVE i + 1 \in S
  <2> SUFFICES ASSUME i + 1 <= m PROVE g[i + 1] = h[i + 1]
    OBVIOUS
  <2>1. g[i] = h[i] /\ i + 1 \in 0..m /\ i + 1 \in 0..n /\ i + 1 # 0 /\ (i + 1) - 1 = i
    BY <1>2
  <2>2. g[i + 1] = round[g[i]]
    BY <2>1 DEF Course
  <2>3. h[i + 1] = round[h[i]]
    BY <2>1 DEF Course
  <2> QED
    BY <2>1, <2>2, <2>3
<1> HIDE DEF S
<1>3. \A i \in Nat : i \in S
  BY <1>1, <1>2, AllNats
<1> QED
  BY <1>3 DEF S

\* There is a course of each length.
LEMMA CourseExists ==
  ASSUME NEW round, NEW s
  PROVE  \A n \in Nat : \E g : Course(g, round, s, n)
<1> DEFINE S == {n \in Nat : \E g : Course(g, round, s, n)}
<1>1. 0 \in S
  <2>1. Course([i \in 0..0 |-> s], round, s, 0)
    BY DEF Course
  <2> QED
    BY <2>1
<1>2. ASSUME NEW n \in Nat, n \in S PROVE n + 1 \in S
  <2>1. PICK g : Course(g, round, s, n)
    BY <1>2
  <2> DEFINE h == [i \in 0..n + 1 |-> IF i = n + 1 THEN round[g[n]] ELSE g[i]]
  <2>2. ASSUME NEW i \in 0..n + 1 PROVE h[i] = IF i = 0 THEN s ELSE round[h[i - 1]]
    <3>1. CASE i = 0
      BY <2>1, <3>1 DEF Course
    <3>2. CASE i = n + 1
      <4>1. i - 1 = n /\ n \in 0..n + 1 /\ n # n + 1 /\ i # 0
        BY <3>2
      <4>2. h[n] = g[n]
        BY <4>1
      <4> QED
        BY <3>2, <4>1, <4>2
    <3>3. CASE i # 0 /\ i # n + 1
      <4>1. i \in 0..n /\ i - 1 \in 0..n + 1 /\ i - 1 # n + 1
        BY <3>3
      <4>2. h[i] = g[i] /\ h[i - 1] = g[i - 1]
        BY <3>3, <4>1
      <4>3. g[i] = round[g[i - 1]]
        BY <2>1, <3>3, <4>1 DEF Course
      <4> QED
        BY <3>3, <4>2, <4>3
    <3> QED
      BY <3>1, <3>2, <3>3
  <2>3. DOMAIN h = 0..n + 1 /\ h = [i \in 0..n + 1 |-> h[i]]
    OBVIOUS
  <2> HIDE DEF h
  <2>4. Course(h, round, s, n + 1)
    BY <2>2, <2>3 DEF Course
  <2> QED
    BY <2>4
<1> HIDE DEF S
<1>3. \A n \in Nat : n \in S
  BY <1>1, <1>2, AllNats
<1> QED
  BY <1>3 DEF S

\* The rounds of a loop one by one.
LEMMA RoundsStep ==
  ASSUME NEW round, NEW s
  PROVE  /\ Rounds(round, s, 0) = s
         /\ \A n \in Nat : Rounds(round, s, n + 1) = round[Rounds(round, s, n)]
<1> DEFINE c(n) == CHOOSE g : Course(g, round, s, n)
           run == [n \in Nat |-> c(n)[n]]
           Is(f) == f = [i \in Nat |-> IF i = 0 THEN s ELSE round[f[i - 1]]]
           chosen == CHOOSE f : Is(f)
<1>1. \A n \in Nat : Course(c(n), round, s, n)
  BY CourseExists
<1> HIDE DEF c
<1>2. ASSUME NEW n \in Nat PROVE run[n] = IF n = 0 THEN s ELSE round[run[n - 1]]
  <2>1. CASE n = 0
    BY <1>1, <2>1 DEF Course
  <2>2. CASE n # 0
    <3>1. n - 1 \in Nat /\ n - 1 <= n /\ n \in 0..n /\ n - 1 \in 0..n - 1
      BY <2>2
    <3>2. c(n)[n] = round[c(n)[n - 1]]
      BY <1>1, <2>2, <3>1 DEF Course
    <3>3. c(n - 1)[n - 1] = c(n)[n - 1]
      BY <1>1, <3>1, CoursesAgree
    <3> QED
      BY <2>2, <3>1, <3>2, <3>3
  <2> QED
    BY <2>1, <2>2
<1>3. run = [n \in Nat |-> run[n]]
  OBVIOUS
<1> HIDE DEF run
<1>4. Is(run)
  BY <1>2, <1>3
<1>5. Is(chosen)
  BY <1>4
<1> HIDE DEF chosen
<1>6. chosen[0] = s /\ \A n \in Nat : chosen[n + 1] = round[chosen[n]]
  BY <1>5
<1>7. \A n \in Nat : Rounds(round, s, n) = chosen[n]
  BY Zenon DEF Rounds, chosen
<1> QED
  BY <1>6, <1>7

\* What a loop keeps: an invariant I of its states.
LEMMA LoopKeeps ==
  ASSUME NEW round, NEW s, NEW I, s \in I, \A x \in I : round[x] \in I
  PROVE  \A n \in Nat : Rounds(round, s, n) \in I
<1> DEFINE S == {n \in Nat : Rounds(round, s, n) \in I}
<1>1. 0 \in S
  BY RoundsStep
<1>2. ASSUME NEW n \in Nat, n \in S PROVE n + 1 \in S
  <2>1. Rounds(round, s, n) \in I /\ n + 1 \in Nat
    BY <1>2
  <2>2. Rounds(round, s, n + 1) = round[Rounds(round, s, n)]
    BY RoundsStep
  <2> QED
    BY <2>1, <2>2
<1> HIDE DEF S
<1>3. \A n \in Nat : n \in S
  BY <1>1, <1>2, AllNats
<1> QED
  BY <1>3 DEF S

\* A loop whose rounds bring a variant down is over after as many rounds as that has steps.
LEMMA LoopEnds ==
  ASSUME NEW round, NEW s, NEW I, s \in I, \A x \in I : round[x] \in I,
         NEW v \in [I -> Nat], \A x \in I : round[x] = x \/ v[round[x]] < v[x],
         NEW n \in Nat, v[s] <= n
  PROVE  Rounds(round, s, n) \in I /\ round[Rounds(round, s, n)] = Rounds(round, s, n)
<1> DEFINE R(k) == Rounds(round, s, k)
           S == {k \in Nat : round[R(k)] = R(k) \/ v[R(k)] + k <= n}
<1>1. \A k \in Nat : R(k) \in I /\ v[R(k)] \in Nat
  BY LoopKeeps
<1>2. R(0) = s /\ \A k \in Nat : R(k + 1) = round[R(k)]
  BY RoundsStep
<1> HIDE DEF R
<1>3. 0 \in S
  BY <1>1, <1>2
<1>4. ASSUME NEW k \in Nat, k \in S PROVE k + 1 \in S
  <2>1. CASE round[R(k)] = R(k)
    BY <1>2, <2>1
  <2>2. CASE round[R(k)] # R(k) /\ v[R(k)] + k <= n
    <3>1. v[R(k + 1)] < v[R(k)] /\ R(k + 1) \in I
      BY <1>1, <1>2, <2>2
    <3> QED
      BY <1>1, <2>2, <3>1
  <2> QED
    BY <1>4, <2>1, <2>2
<1> HIDE DEF S
<1>5. n \in S /\ n + 1 \in S
  BY <1>3, <1>4, AllNats
<1>6. round[R(n)] = R(n)
  <2>1. CASE round[R(n)] # R(n)
    <3>1. v[R(n)] = 0
      BY <1>1, <1>5, <2>1 DEF S
    <3> QED
      BY <1>1, <1>2, <3>1
  <2> QED
    BY <2>1
<1> QED
  BY <1>1, <1>6 DEF R
=============================================================================
