--------------------------- MODULE LibrariesProof ---------------------------
(***************************************************************************)
(* Theorems about Libraries, for any tasks, modules and priorities, and    *)
(* about Expansion and IntServer, whose lists are of the same kind: what   *)
(* is checked on four modules and two tasks holds with any number, and     *)
(* with all calls mixed, not one group at a time.                          *)
(*                                                                         *)
(* Booting says how far each pass of InitResidentCode has come; Located    *)
(* says where each module is, with at most one task between AddLibrary's   *)
(* first step and its Enqueue; Working says what each task may be at.      *)
(***************************************************************************)
EXTENDS Libraries, Expansion, IntServer, ExecListTheorems, FiniteSetTheorems, TLAPS

\* A task in a call works on something that is set up; one about to count an open has
\* room for it, and one that adds is adding a library.
Working ==
  \A t \in Task : pc[t] # "user" =>
    /\ boot = "done" /\ at[t] \in Lib
    /\ pc[t] \in {"openlib", "store", "opendev"} => holds[t][at[t]] < MaxOpen
    /\ pc[t] \in AddPC => at[t] \in Module /\ Kind[at[t]] = "library"

\* Nothing is open before the tasks run.
Closed ==
  boot # "done" => \A l \in Lib : leaked[l] = 0 /\ \A t \in Task : holds[t][l] = 0

\* Residents are listed by rt_Pri, and those that have had their turn are set up.
Turn(i) ==
  IF boot = "single" THEN Class[residents[i]] = "single" /\ i < rank
  ELSE boot = "done" \/ Class[residents[i]] = "single" \/ i < rank

Booting ==
  /\ SortedBy(residents, RtPri)
  /\ boot = "scan" => rank = 1 /\ \A m \in Module : inits[m] = 0
  /\ boot \in {"single", "cold", "done"} =>
       /\ scanned = Module
       /\ \A i \in 1..Len(residents) : inits[residents[i]] = IF Turn(i) THEN 1 ELSE 0

\* Before, the order follows from Booting; after a failure nothing is set up any more.
Halted == boot = "halted" => BootOrder

\* Each module is nowhere before it is set up, and in one place then.
InPlace(m) ==
  \/ m \in ToSet(ListOf(m)) /\ m \notin removed /\ Adding(m) = {}
  \/ m \notin ToSet(ListOf(m)) /\ m \in removed /\ Adding(m) = {}
  \/ m \notin ToSet(ListOf(m)) /\ m \notin removed /\ \E t \in Task : Adding(m) = {t}

Located(m) ==
  /\ m \notin ToSet(IF Kind[m] = "library" THEN devList ELSE libList)
  /\ \/ inits[m] = 0 /\ m \notin ToSet(ListOf(m)) /\ m \notin removed /\ Adding(m) = {}
     \/ inits[m] = 1 /\ InPlace(m)

Linked ==
  /\ Distinct(libList) /\ SortedBy(libList, LibPri)
  /\ Distinct(devList) /\ SortedBy(devList, LibPri)
  /\ \A m \in Module : Located(m)

\* No sum is ever anything but 0, so that a changed vector raises no alert.
NoSums == ~alert /\ \A l \in Lib : libSum[l] = 0

LibInv == TypeOK /\ Working /\ Closed /\ Booting /\ Halted /\ Linked /\ OpenCntExact /\ NoSums
---------------------------------------------------------------------------
(***************************************************************************)
(* Lemmas about the operators.                                             *)
(***************************************************************************)
\* The range SumLibrary walks is empty, whatever the library has.
LEMMA SumIsZero == ASSUME NEW l \in Lib PROVE Sum(l) = 0
<1> DEFINE e == FoldSet(LAMBDA k, s : s + vec[l][k], 0, {})
<1>1. NegSize(l) \in Nat
  BY LibrariesAssumption, LenProperties DEF NegSize
<1>2. {k \in NegSize(l)..-1 : k % 4 = 0} = {}
  BY <1>1
<1>3. Sum(l) = e
  BY <1>2, Zenon DEF Sum
<1>4. e = 0
  <2> DEFINE F(f) == [s \in SUBSET {} |->
                       IF s = {} THEN 0
                       ELSE f[s \ {CHOOSE x \in s : TRUE}] + vec[l][CHOOSE x \in s : TRUE]]
             zero == [s \in SUBSET {} |-> 0]
             iter == CHOOSE f : f = F(f)
  <2>1. e = iter[{}]
    BY Zenon DEF FoldSet, MapThenFoldSet
  <2>2. zero = F(zero)
    <3>1. \A s \in SUBSET {} : s = {}
      OBVIOUS
    <3> QED
      BY <3>1
  <2>3. iter = F(iter)
    <3> HIDE DEF F
    <3> QED
      BY <2>2
  <2> HIDE DEF iter
  <2>4. F(iter)[{}] = 0
    OBVIOUS
  <2> QED
    BY <2>1, <2>3, <2>4
<1> QED
  BY <1>3, <1>4

LEMMA WordsAreSmall ==
  CntSize \in Int /\ UWORD \subseteq Int /\ 0 \in UWORD /\ 1 \in UWORD
<1>1. CntSize \in Int /\ CntSize > 1
  BY DEF CntSize
<1> QED
  BY <1>1 DEF UWORD

\* The opens of a module are finitely many, and none if nobody holds it.
LEMMA OpenedFinite ==
  ASSUME OpenType, NEW l \in Lib
  PROVE  /\ IsFiniteSet(Opened(l)) /\ Cardinality(Opened(l)) \in Nat
         /\ (\A t \in Task : holds[t][l] = 0) => Cardinality(Opened(l)) = 0
<1>1. IsFiniteSet(Task \X (1..MaxOpen))
  <2>1. IsFiniteSet(Task) /\ IsFiniteSet(1..MaxOpen)
    BY LibrariesAssumption, FS_Interval
  <2> QED
    BY <2>1, FS_Product
<1>2. IsFiniteSet(Opened(l))
  BY <1>1, FS_Subset DEF Opened
<1>3. ASSUME \A t \in Task : holds[t][l] = 0 PROVE Opened(l) = {}
  BY <1>3 DEF Opened
<1> QED
  BY <1>2, <1>3, FS_CardinalityType, FS_EmptySet

\* One open more of module d.
LEMMA OpenedGrows ==
  ASSUME OpenType, NEW t \in Task, NEW d \in Lib, holds[t][d] < MaxOpen,
         holds' = [holds EXCEPT ![t][d] = @ + 1]
  PROVE  /\ Cardinality(Opened(d)') = Cardinality(Opened(d)) + 1
         /\ \A l \in Lib \ {d} : Opened(l)' = Opened(l)
         /\ holds' \in [Task -> [Lib -> 0..MaxOpen]]
<1>0. holds \in [Task -> [Lib -> 0..MaxOpen]] /\ MaxOpen \in Nat
  <2>1. holds \in [Task -> [Lib -> 0..MaxOpen]]
    BY DEF OpenType
  <2> QED
    BY <2>1, LibrariesAssumption
<1>1. holds[t][d] \in 0..MaxOpen /\ holds[t][d] + 1 \in 1..MaxOpen
  BY <1>0
<1>2. \A u \in Task, l \in Lib :
        holds'[u][l] = IF u = t /\ l = d THEN holds[t][d] + 1 ELSE holds[u][l]
  BY <1>0
<1>3. holds' \in [Task -> [Lib -> 0..MaxOpen]]
  BY <1>0, <1>1
<1>4. <<t, holds[t][d] + 1>> \notin Opened(d)
  BY <1>1 DEF Opened
<1>5. Opened(d)' = Opened(d) \cup {<<t, holds[t][d] + 1>>}
  <2>1. ASSUME NEW u \in Task, NEW i \in 1..MaxOpen
        PROVE  i <= holds'[u][d] <=> i <= holds[u][d] \/ (u = t /\ i = holds[t][d] + 1)
    BY <1>0, <1>1, <1>2
  <2> QED
    BY <1>1, <2>1 DEF Opened
<1>6. \A l \in Lib \ {d} : Opened(l)' = Opened(l)
  BY <1>2 DEF Opened
<1>7. IsFiniteSet(Opened(d))
  BY OpenedFinite
<1>8. Cardinality(Opened(d) \cup {<<t, holds[t][d] + 1>>}) = Cardinality(Opened(d)) + 1
  BY <1>4, <1>7, FS_AddElement
<1> QED
  BY <1>3, <1>5, <1>6, <1>8

\* One open less.
LEMMA OpenedShrinks ==
  ASSUME OpenType, NEW t \in Task, NEW d \in Lib, holds[t][d] > 0,
         holds' = [holds EXCEPT ![t][d] = @ - 1]
  PROVE  /\ Cardinality(Opened(d)') = Cardinality(Opened(d)) - 1
         /\ \A l \in Lib \ {d} : Opened(l)' = Opened(l)
         /\ holds' \in [Task -> [Lib -> 0..MaxOpen]]
<1>0. holds \in [Task -> [Lib -> 0..MaxOpen]] /\ MaxOpen \in Nat
  <2>1. holds \in [Task -> [Lib -> 0..MaxOpen]]
    BY DEF OpenType
  <2> QED
    BY <2>1, LibrariesAssumption
<1>1. holds[t][d] \in 1..MaxOpen
  BY <1>0
<1>2. \A u \in Task, l \in Lib :
        holds'[u][l] = IF u = t /\ l = d THEN holds[t][d] - 1 ELSE holds[u][l]
  BY <1>0
<1>3. holds' \in [Task -> [Lib -> 0..MaxOpen]]
  BY <1>0, <1>1
<1>4. <<t, holds[t][d]>> \in Opened(d)
  BY <1>1 DEF Opened
<1>5. Opened(d)' = Opened(d) \ {<<t, holds[t][d]>>}
  <2>1. ASSUME NEW u \in Task, NEW i \in 1..MaxOpen
        PROVE  i <= holds'[u][d] <=> i <= holds[u][d] /\ ~(u = t /\ i = holds[t][d])
    BY <1>0, <1>1, <1>2
  <2> QED
    BY <1>1, <2>1 DEF Opened
<1>6. \A l \in Lib \ {d} : Opened(l)' = Opened(l)
  BY <1>2 DEF Opened
<1>7. IsFiniteSet(Opened(d))
  BY OpenedFinite
<1>8. Cardinality(Opened(d) \ {<<t, holds[t][d]>>}) = Cardinality(Opened(d)) - 1
  BY <1>4, <1>7, FS_RemoveElement
<1> QED
  BY <1>3, <1>5, <1>6, <1>8

\* A task that neither begins nor ends adding a module does not change who adds one.
LEMMA AddingStays ==
  ASSUME PlaceType, NEW t \in Task, NEW label, NEW l, GoTo(t, label, l),
         pc[t] \in AddPC <=> label \in AddPC, label \in AddPC => l = at[t]
  PROVE  \A m : Adding(m)' = Adding(m)
<1>1. \A u \in Task : /\ pc'[u] = IF u = t THEN label ELSE pc[u]
                      /\ at'[u] = IF u = t THEN l ELSE at[u]
  BY DEF GoTo, PlaceType
<1> QED
  BY <1>1 DEF Adding

\* What the steps of one concern leave alone of the others.
LEMMA LinkedStays ==
  ASSUME Linked, UNCHANGED <<libList, devList, removed, inits>>,
         \A m : Adding(m)' = Adding(m)
  PROVE  Linked'
BY DEF Linked, Located, InPlace, ListOf

LEMMA BootStays ==
  ASSUME Booting, Halted, UNCHANGED bootVars
  PROVE  Booting' /\ Halted'
BY DEF Booting, Halted, BootOrder, bootVars, Turn

LEMMA CountsStay ==
  ASSUME Closed, OpenCntExact, UNCHANGED <<boot, openCnt, holds, leaked, torn>>
  PROVE  Closed' /\ OpenCntExact'
BY DEF Closed, OpenCntExact, Opened

LEMMA SumsStay == ASSUME NoSums, UNCHANGED <<alert, libSum>> PROVE NoSums'
BY DEF NoSums
\* The members of a list of T, and where a member is.
LEMMA ListMembers ==
  ASSUME NEW T, NEW q \in Seq(T)
  PROVE  /\ Len(q) \in Nat /\ ToSet(q) \subseteq T
         /\ \A x : x \in ToSet(q) <=> \E i \in 1..Len(q) : q[i] = x
         /\ \A i \in 1..Len(q) : q[i] \in T
BY ElementOfSeq, LenProperties DEF ToSet

LEMMA Constants ==
  /\ Exec \notin Module /\ NULL \notin Lib /\ Module \subseteq Lib /\ Exec \in Lib
  /\ \A m \in Module : /\ Kind[m] \in {"library", "device"} /\ Class[m] \in {"single", "cold"}
                       /\ RtPri[m] \in Int
  /\ \A l \in Lib : LibPri[l] \in Int
BY LibrariesAssumption DEF Lib
---------------------------------------------------------------------------
(***************************************************************************)
(* The boot.                                                               *)
(***************************************************************************)
LEMMA LibInit == Init => LibInv
<1> SUFFICES ASSUME Init PROVE LibInv
  OBVIOUS
<1>1. BootType /\ ListType /\ PlaceType
  BY Constants DEF Init, BootType, ListType, PlaceType, PC, Distinct, ToSet
<1>2. SumType
  BY DEF Init, SumType, Flags, MakeFunctions
<1>3. OpenType
  <2>1. 0 \in UWORD /\ 1 \in UWORD
    BY WordsAreSmall
  <2>2. MaxOpen \in Nat
    BY LibrariesAssumption
  <2> QED
    BY <2>1, <2>2 DEF Init, OpenType
<1>4. Working /\ Closed /\ NoSums
  BY DEF Init, Working, Closed, NoSums
<1>5. Booting /\ Halted
  BY Constants DEF Init, Booting, Halted, SortedBy
<1>6. Linked
  <2>1. ToSet(libList) = {Exec} /\ ToSet(devList) = {} /\ removed = {}
    BY DEF Init, ToSet
  <2>2. \A m : Adding(m) = {}
    BY DEF Init, Adding, AddPC
  <2>3. Distinct(libList) /\ Distinct(devList) /\ SortedBy(libList, LibPri) /\ SortedBy(devList, LibPri)
    BY DEF Init, Distinct, SortedBy
  <2>4. \A m \in Module : inits[m] = 0
    BY Constants DEF Init
  <2> QED
    BY <2>1, <2>2, <2>3, <2>4, Constants DEF Linked, Located, ListOf
<1>7. OpenCntExact
  <2>1. \A l \in Lib : Cardinality(Opened(l)) = 0
    BY <1>3, OpenedFinite DEF Init
  <2>2. Wrap(0) = 0 /\ Wrap(1) = 1
    BY DEF Wrap, CntSize
  <2>3. \A l \in Lib : leaked[l] = 0 /\ openCnt[l] = IF l = Exec THEN 1 ELSE 0
    BY DEF Init
  <2>4. \A l \in Lib : (IF l = Exec THEN 1 ELSE 0) + leaked[l] + Cardinality(Opened(l))
                        = IF l = Exec THEN 1 ELSE 0
    BY <2>1, <2>3
  <2> QED
    BY <2>2, <2>3, <2>4 DEF OpenCntExact
<1> QED
  BY <1>1, <1>2, <1>3, <1>4, <1>5, <1>6, <1>7 DEF LibInv, TypeOK

\* While the boot goes on, what has been set up is a beginning of the list.
LEMMA BootInOrder == ASSUME BootType, Booting, boot # "halted" PROVE BootOrder
<1>1. Len(residents) \in Nat /\ rank \in Nat
      /\ \A m : m \in ToSet(residents) <=> \E i \in 1..Len(residents) : residents[i] = m
  BY ListMembers DEF BootType
<1>2. CASE boot = "scan"
  BY <1>2 DEF Booting, BootOrder
<1>3. CASE boot \in {"single", "cold", "done"}
  <2>1. \A m \in Module : \E i \in 1..Len(residents) :
          residents[i] = m /\ inits[m] = IF Turn(i) THEN 1 ELSE 0
    <3>1. Module = ToSet(residents)
      BY <1>3 DEF Booting, BootType
    <3>2. \A i \in 1..Len(residents) : inits[residents[i]] = IF Turn(i) THEN 1 ELSE 0
      BY <1>3 DEF Booting
    <3> QED
      BY <1>1, <3>1, <3>2
  <2>2. boot = "done" => \A m \in Module : inits[m] = 1
    BY <2>1 DEF Turn
  <2>3. ASSUME NEW m \in Module, NEW n \in Module, inits[n] > 0,
               \/ Class[m] = "single" /\ Class[n] = "cold"
               \/ Class[m] = Class[n] /\ RtPri[m] > RtPri[n]
        PROVE  inits[m] > 0
    <3>1. PICK i \in 1..Len(residents) :
            residents[i] = m /\ inits[m] = IF Turn(i) THEN 1 ELSE 0
      BY <2>1
    <3>2. PICK j \in 1..Len(residents) :
            residents[j] = n /\ inits[n] = IF Turn(j) THEN 1 ELSE 0
      BY <2>1
    <3>3. Turn(j)
      BY <2>3, <3>2
    <3>4. ASSUME Class[m] = Class[n], RtPri[m] > RtPri[n] PROVE i < j
      <4>1. RtPri[m] \in Int /\ RtPri[n] \in Int
        BY Constants
      <4>2. j < i => RtPri[n] >= RtPri[m]
        BY <3>1, <3>2 DEF Booting, SortedBy
      <4> QED
        BY <1>1, <3>1, <3>2, <3>4, <4>1, <4>2
    <3>5. Turn(i)
      BY <1>1, <1>3, <2>3, <3>1, <3>2, <3>3, <3>4 DEF Turn
    <3> QED
      BY <3>1, <3>5
  <2> QED
    BY <2>2, <2>3 DEF BootOrder
<1> QED
  BY <1>2, <1>3 DEF BootType
\* What the steps of the boot leave alone.
LEMMA TasksIdle ==
  ASSUME PlaceType, Working, boot # "done", UNCHANGED place
  PROVE  /\ PlaceType' /\ Working' /\ \A m : Adding(m)' = Adding(m)
         /\ \A t \in Task : pc[t] = "user"
BY DEF PlaceType, Working, Adding, AddPC, place

\* RomTagScanner and its failure.
LEMMA ScanKeeps ==
  ASSUME LibInv, (\E m \in Module : RomTagScanner(m) \/ InitFails(m)) \/ ScanFails
  PROVE  LibInv'
<1>0. boot # "done" /\ UNCHANGED <<rank, inits, lists, sumVars, opens, place>>
  BY DEF RomTagScanner, InitFails, ScanFails, Due
<1>1. ListType' /\ SumType' /\ OpenType' /\ PlaceType' /\ Working' /\ Linked' /\ NoSums'
  <2>1. ListType' /\ SumType' /\ OpenType' /\ PlaceType' /\ Working'
    BY <1>0, TasksIdle DEF LibInv, TypeOK, ListType, SumType, OpenType, lists, sumVars, opens
  <2>2. Linked'
    BY <1>0, TasksIdle, LinkedStays DEF LibInv, TypeOK, lists
  <2>3. NoSums'
    BY <1>0, SumsStay DEF LibInv, sumVars
  <2> QED
    BY <2>1, <2>2, <2>3
<1>2. Closed' /\ OpenCntExact'
  BY <1>0 DEF LibInv, Closed, OpenCntExact, Opened, opens
<1>3. CASE ~\E m \in Module : RomTagScanner(m)
  <2>1. boot' = "halted" /\ UNCHANGED <<scanned, residents>>
    BY <1>3 DEF InitFails, ScanFails
  <2>2. BootOrder
    BY <1>0, BootInOrder DEF LibInv, TypeOK, Halted
  <2>3. BootType' /\ Booting' /\ Halted'
    BY <1>0, <2>1, <2>2 DEF LibInv, TypeOK, BootType, Booting, BootOrder, Halted
  <2> QED
    BY <1>1, <1>2, <2>3 DEF LibInv, TypeOK
<1>4. ASSUME NEW m \in Module, RomTagScanner(m) PROVE LibInv'
  <2>1. /\ boot = "scan" /\ m \notin scanned /\ scanned' = scanned \cup {m}
        /\ residents' = Enqueue(residents, m, RtPri)
        /\ boot' = IF scanned' = Module THEN "single" ELSE "scan"
        /\ rank' = rank /\ inits' = inits
    BY <1>4 DEF RomTagScanner
  <2>2. /\ residents \in Seq(Module) /\ Distinct(residents) /\ ToSet(residents) = scanned
        /\ SortedBy(residents, RtPri) /\ rank = 1 /\ \A n \in Module : inits[n] = 0
    BY <2>1 DEF LibInv, TypeOK, BootType, Booting
  <2>3. /\ residents' \in Seq(Module) /\ ToSet(residents') = scanned'
        /\ Distinct(residents')
    BY <2>1, <2>2, EnqueueMembers, EnqueueDistinct
  <2>4. SortedBy(residents', RtPri)
    BY <2>1, <2>2, Constants, EnqueueSorted
  <2>5. Len(residents') \in Nat /\ \A i \in 1..Len(residents') : residents'[i] \in Module
    BY <2>3, ListMembers
  <2>6. BootType'
    BY <2>1, <2>2, <2>3, <2>5 DEF LibInv, TypeOK, BootType
  <2>7. Booting'
    BY <2>1, <2>2, <2>4, <2>5 DEF Booting, Turn
  <2>8. Halted'
    BY <2>1 DEF Halted
  <2> QED
    BY <1>1, <1>2, <2>6, <2>7, <2>8 DEF LibInv, TypeOK
<1> QED
  BY <1>3, <1>4

\* A resident is passed over, or a pass ends.
LEMMA NextResidentKeeps == ASSUME LibInv, NextResident PROVE LibInv'
<1>0. /\ boot \in {"single", "cold"}
      /\ UNCHANGED <<scanned, residents, inits, lists, sumVars, opens, place>>
      /\ \/ rank <= Len(residents) /\ ~Due(residents[rank]) /\ rank' = rank + 1 /\ boot' = boot
         \/ ~(rank <= Len(residents)) /\ rank' = 1
            /\ boot' = IF boot = "single" THEN "cold" ELSE "done"
  BY DEF NextResident
<1>1. /\ residents \in Seq(Module) /\ Len(residents) \in Nat
      /\ rank \in 1..Len(residents) + 1
      /\ \A i \in 1..Len(residents) : Class[residents[i]] \in {"single", "cold"}
  BY ListMembers, Constants DEF LibInv, TypeOK, BootType
<1>2. /\ SortedBy(residents, RtPri) /\ scanned = Module
      /\ \A i \in 1..Len(residents) : inits[residents[i]] = IF Turn(i) THEN 1 ELSE 0
  BY <1>0 DEF LibInv, Booting
<1>3. BootType'
  BY <1>0, <1>1 DEF LibInv, TypeOK, BootType
<1>4. \A i \in 1..Len(residents) : Turn(i)' <=> Turn(i)
  BY <1>0, <1>1 DEF Turn, Due
<1>5. Booting'
  BY <1>0, <1>2, <1>4 DEF Booting
<1>6. Halted'
  BY <1>0 DEF Halted
<1>7. ListType' /\ SumType' /\ OpenType' /\ PlaceType' /\ Working'
  BY <1>0, TasksIdle DEF LibInv, TypeOK, ListType, SumType, OpenType, lists, sumVars, opens
<1>8. Linked'
  BY <1>0, TasksIdle, LinkedStays DEF LibInv, TypeOK, lists
<1>9. NoSums'
  BY <1>0, SumsStay DEF LibInv, sumVars
<1>10. Closed' /\ OpenCntExact'
  BY <1>0 DEF LibInv, Closed, OpenCntExact, Opened, opens
<1> QED
  BY <1>3, <1>5, <1>6, <1>7, <1>8, <1>9, <1>10 DEF LibInv, TypeOK

\* A resident is set up: it was nowhere, and is in its list now.
LEMMA InitResidentKeeps == ASSUME LibInv, NEW m \in Module, InitResident(m) PROVE LibInv'
<1>0. /\ boot \in {"single", "cold"} /\ rank \in 1..Len(residents) /\ residents[rank] = m
      /\ Class[m] = boot /\ rank' = rank + 1 /\ inits' = [inits EXCEPT ![m] = @ + 1]
      /\ openCnt' = [openCnt EXCEPT ![m] = 0]
      /\ UNCHANGED <<boot, scanned, residents, removed, vec, oldflags, alert,
                     holds, leaked, torn, want, reg, place>>
  BY DEF InitResident, Due, LibInv, TypeOK, BootType
<1>1. /\ residents \in Seq(Module) /\ Distinct(residents) /\ Len(residents) \in Nat
      /\ inits \in [Lib -> Nat] /\ m \in Lib /\ m # Exec
      /\ \A i \in 1..Len(residents) : residents[i] \in Lib
  BY ListMembers, Constants DEF LibInv, TypeOK, BootType
<1>2. /\ SortedBy(residents, RtPri) /\ scanned = Module
      /\ \A i \in 1..Len(residents) : inits[residents[i]] = IF Turn(i) THEN 1 ELSE 0
  BY <1>0 DEF LibInv, Booting
<1>3. inits[m] = 0
  BY <1>0, <1>2 DEF Turn
<1>4. BootType'
  BY <1>0, <1>1 DEF LibInv, TypeOK, BootType
<1>5. Booting' /\ Halted'
  <2>1. ASSUME NEW i \in 1..Len(residents)
        PROVE  inits'[residents[i]] = IF Turn(i)' THEN 1 ELSE 0
    <3>1. CASE i = rank
      <4>1. Turn(i)'
        BY <1>0, <1>1, <3>1 DEF Turn
      <4> QED
        BY <1>0, <1>1, <1>3, <3>1, <4>1
    <3>2. CASE i # rank
      <4>1. residents[i] # m
        BY <1>0, <3>2 , <1>1 DEF Distinct
      <4>2. Turn(i)' <=> Turn(i)
        BY <1>0, <1>1, <3>2 DEF Turn
      <4> QED
        BY <1>0, <1>1, <1>2, <4>1, <4>2
    <3> QED
      BY <3>1, <3>2
  <2> QED
    BY <1>0, <1>2, <2>1 DEF Booting, Halted
<1>6. /\ PlaceType' /\ Working' /\ \A n : Adding(n)' = Adding(n)
  BY <1>0, TasksIdle DEF LibInv, TypeOK
<1>7. OpenType'
  <2>1. 0 \in UWORD
    BY WordsAreSmall
  <2> QED
    BY <1>0, <2>1 DEF LibInv, TypeOK, OpenType
<1>8. Closed'
  BY <1>0 DEF LibInv, Closed
<1>9. OpenCntExact'
  <2>1. \A l \in Lib : Opened(l)' = Opened(l)
    BY <1>0 DEF Opened
  <2>2. \A l \in Lib \ {m} : openCnt'[l] = openCnt[l]
    BY <1>0 DEF LibInv, TypeOK, OpenType
  <2>3. openCnt'[m] = Wrap((IF m = Exec THEN 1 ELSE 0) + leaked[m] + Cardinality(Opened(m)))
    <3>1. leaked[m] = 0 /\ Cardinality(Opened(m)) = 0
      BY <1>0, <1>1, OpenedFinite DEF LibInv, TypeOK, Closed
    <3>2. openCnt'[m] = 0
      BY <1>0, <1>1 DEF LibInv, TypeOK, OpenType
    <3> QED
      BY <1>1, <3>1, <3>2 DEF Wrap, CntSize
  <2> QED
    BY <1>0, <2>1, <2>2, <2>3 DEF LibInv, OpenCntExact
<1>10. /\ m \notin ToSet(libList) /\ m \notin ToSet(devList) /\ m \notin removed /\ Adding(m) = {}
       /\ libList \in Seq(Lib) /\ devList \in Seq(Module)
  BY <1>3 DEF LibInv, TypeOK, ListType, Linked, Located, ListOf
<1>11. \/ /\ Kind[m] = "library" /\ libList' = Enqueue(libList, m, LibPri)
          /\ flags' = [flags EXCEPT ![m] = {"SUMUSED"}]
          /\ libSum' = [libSum EXCEPT ![m] = Sum(m)] /\ devList' = devList
       \/ /\ Kind[m] = "device" /\ devList' = Enqueue(devList, m, LibPri)
          /\ flags' = [flags EXCEPT ![m] = {"SUMUSED", "CHANGED"}]
          /\ libList' = libList /\ libSum' = libSum
  BY Constants DEF InitResident
<1>12. SumType' /\ NoSums'
  <2>1. \A l \in Lib : libSum'[l] = 0
    BY <1>11, SumIsZero DEF LibInv, TypeOK, SumType, NoSums
  <2>2. libSum' \in [Lib -> Nat]
    BY <1>11, SumIsZero DEF LibInv, TypeOK, SumType
  <2>3. flags' \in [Lib -> Flags]
    BY <1>11 DEF LibInv, TypeOK, SumType, Flags
  <2> QED
    BY <1>0, <2>1, <2>2, <2>3 DEF LibInv, TypeOK, SumType, NoSums
<1>13. /\ ListType' /\ Distinct(libList') /\ SortedBy(libList', LibPri)
       /\ Distinct(devList') /\ SortedBy(devList', LibPri)
       /\ ToSet(libList') = IF Kind[m] = "library" THEN ToSet(libList) \cup {m} ELSE ToSet(libList)
       /\ ToSet(devList') = IF Kind[m] = "library" THEN ToSet(devList) ELSE ToSet(devList) \cup {m}
  <2>1. /\ Distinct(libList) /\ SortedBy(libList, LibPri)
        /\ Distinct(devList) /\ SortedBy(devList, LibPri) /\ removed' = removed /\ removed \subseteq Module
    BY <1>0 DEF LibInv, Linked, TypeOK, ListType
  <2>2. CASE Kind[m] = "library"
    <3>1. libList' = Enqueue(libList, m, LibPri) /\ devList' = devList
      BY <1>11, <2>2
    <3>2. libList' \in Seq(Lib) /\ ToSet(libList') = ToSet(libList) \cup {m}
      BY <1>1, <1>10, <3>1, EnqueueMembers
    <3>3. Distinct(libList')
      BY <1>1, <1>10, <2>1, <3>1, EnqueueDistinct
    <3>4. SortedBy(libList', LibPri)
      BY <1>1, <1>10, <2>1, <3>1, Constants, EnqueueSorted
    <3> QED
      BY <1>10, <2>1, <2>2, <3>1, <3>2, <3>3, <3>4 DEF ListType
  <2>3. CASE Kind[m] = "device"
    <3>1. devList' = Enqueue(devList, m, LibPri) /\ libList' = libList
      BY <1>11, <2>3
    <3>2. devList' \in Seq(Module) /\ ToSet(devList') = ToSet(devList) \cup {m}
      BY <1>10, <3>1, EnqueueMembers
    <3>3. Distinct(devList')
      BY <1>10, <2>1, <3>1, EnqueueDistinct
    <3>4. SortedBy(devList', LibPri)
      <4>1. \A x \in Module : LibPri[x] \in Int
        BY Constants
      <4> QED
        BY <1>10, <2>1, <3>1, <4>1, EnqueueSorted
    <3> QED
      BY <1>10, <2>1, <2>3, <3>1, <3>2, <3>3, <3>4 DEF ListType
  <2> QED
    BY <1>11, <2>2, <2>3
<1>14. Linked'
  <2>1. ASSUME NEW n \in Module PROVE Located(n)'
    <3>1. Located(n) /\ n \in Lib
      BY Constants DEF LibInv, Linked
    <3>2. inits'[n] = IF n = m THEN 1 ELSE inits[n]
      BY <1>0, <1>1, <1>3, <3>1
    <3> QED
      BY <1>0, <1>6, <1>10, <1>13, <3>1, <3>2 DEF Located, InPlace, ListOf
  <2> QED
    BY <1>13, <2>1 DEF Linked
<1> QED
  BY <1>4, <1>5, <1>6, <1>7, <1>8, <1>9, <1>12, <1>13, <1>14 DEF LibInv, TypeOK
---------------------------------------------------------------------------
(***************************************************************************)
(* Opening and closing.                                                    *)
(***************************************************************************)
\* Nothing of this changes what is set up, where it is linked, or a sum.
LEMMA OpenLeaves ==
  ASSUME LibInv, UNCHANGED <<bootVars, lists, sumVars>>, \A m : Adding(m)' = Adding(m)
  PROVE  /\ BootType' /\ ListType' /\ SumType' /\ Booting' /\ Halted' /\ Linked' /\ NoSums'
<1>1. BootType' /\ ListType' /\ SumType'
  BY DEF LibInv, TypeOK, BootType, ListType, SumType, bootVars, lists, sumVars
<1>2. Booting' /\ Halted'
  BY BootStays DEF LibInv
<1>3. Linked'
  BY LinkedStays DEF LibInv, bootVars, lists
<1>4. NoSums'
  BY SumsStay DEF LibInv, sumVars
<1> QED
  BY <1>1, <1>2, <1>3, <1>4

\* A task finds what it opens, and has room for it.
LEMMA FindKeeps ==
  ASSUME LibInv, NEW t \in Task, NEW l \in Lib, NEW v \in 0..1,
         OpenLibrary(t, l, v) \/ OpenDevice(t, l, v)
  PROVE  LibInv'
<1> DEFINE label == IF OpenLibrary(t, l, v) THEN "openlib" ELSE "opendev"
<1>0. /\ boot = "done" /\ pc[t] = "user" /\ holds[t][l] < MaxOpen
      /\ GoTo(t, label, l) /\ want' = [want EXCEPT ![t] = v]
      /\ UNCHANGED <<bootVars, lists, sumVars, openCnt, holds, leaked, torn, reg>>
  BY DEF OpenLibrary, OpenDevice, Find, Free
<1>1. label \in PC /\ label # "user" /\ label \notin AddPC /\ pc[t] \notin AddPC
  BY <1>0 DEF PC, AddPC
<1> HIDE DEF label
<1>2. /\ BootType' /\ ListType' /\ SumType' /\ Booting' /\ Halted' /\ Linked' /\ NoSums'
  BY <1>0, <1>1, AddingStays, OpenLeaves DEF LibInv, TypeOK
<1>3. OpenType' /\ Closed' /\ OpenCntExact'
  BY <1>0, CountsStay DEF LibInv, TypeOK, OpenType, bootVars
<1>4. PlaceType' /\ Working'
  BY <1>0, <1>1 DEF LibInv, TypeOK, PlaceType, Working, GoTo, bootVars
<1> QED
  BY <1>2, <1>3, <1>4 DEF LibInv, TypeOK

\* The version is not enough, or the count is loaded.
LEMMA OpenLoadKeeps == ASSUME LibInv, NEW t \in Task, OpenLoad(t) PROVE LibInv'
<1>0. /\ pc[t] = "openlib" /\ want' = [want EXCEPT ![t] = 0]
      /\ UNCHANGED <<bootVars, lists, sumVars, openCnt, holds, leaked, torn>>
      /\ \/ GoTo(t, "store", at[t]) /\ reg' = [reg EXCEPT ![t] = openCnt[at[t]]]
         \/ GoTo(t, "user", NULL) /\ reg' = reg
  BY DEF OpenLoad, Back
<1>1. boot = "done" /\ at[t] \in Lib /\ holds[t][at[t]] < MaxOpen
  BY <1>0 DEF LibInv, Working
<1>2. /\ BootType' /\ ListType' /\ SumType' /\ Booting' /\ Halted' /\ Linked' /\ NoSums'
  <2>1. \A m : Adding(m)' = Adding(m)
    BY <1>0, AddingStays DEF LibInv, TypeOK, AddPC
  <2> QED
    BY <1>0, <2>1, OpenLeaves
<1>3. OpenType'
  BY <1>0, <1>1 DEF LibInv, TypeOK, OpenType
<1>4. Closed' /\ OpenCntExact'
  BY <1>0, CountsStay DEF LibInv, bootVars
<1>5. PlaceType' /\ Working'
  BY <1>0, <1>1 DEF LibInv, TypeOK, PlaceType, PC, AddPC, Working, GoTo, bootVars
<1> QED
  BY <1>2, <1>3, <1>4, <1>5 DEF LibInv, TypeOK

\* A count modulo 2^16 is a word.
LEMMA WrapIsWord == \A k \in Int : Wrap(k) \in UWORD
<1>1. \A k \in Int : k % 65536 \in Int /\ 0 <= k % 65536 /\ k % 65536 < 65536
  OBVIOUS
<1>2. \A k \in Int : Wrap(k) \in Int /\ 0 <= Wrap(k) /\ Wrap(k) < CntSize
  BY <1>1 DEF Wrap, CntSize
<1> QED
  BY <1>2, WordsAreSmall DEF UWORD

\* Counting one more or one less modulo the width of lib_OpenCnt.
LEMMA WrapCounts ==
  ASSUME NEW n \in Nat
  PROVE  /\ Wrap(n) \in UWORD /\ Wrap(Wrap(n) + 1) = Wrap(n + 1)
         /\ n > 0 => Wrap(Wrap(n) - 1) = Wrap(n - 1)
<1>1. \A k \in Int : Wrap(k) \in UWORD
  BY WrapIsWord
<1>2. Wrap(Wrap(n) + 1) = Wrap(n + 1)
  <2>1. ((n % 65536) + 1) % 65536 = (n + 1) % 65536
    OBVIOUS
  <2> QED
    BY <2>1 DEF Wrap, CntSize
<1>3. ASSUME n > 0 PROVE Wrap(Wrap(n) - 1) = Wrap(n - 1)
  <2>1. ((n % 65536) - 1) % 65536 = (n - 1) % 65536
    BY <1>3
  <2> QED
    BY <2>1 DEF Wrap, CntSize
<1> QED
  BY <1>1, <1>2, <1>3

LEMMA WrapType == \A n \in UWORD : Wrap(n + 1) \in UWORD /\ Wrap(n - 1) \in UWORD
<1>1. \A k \in Int : Wrap(k) \in UWORD
  BY WrapIsWord
<1>2. \A n \in UWORD : n + 1 \in Int /\ n - 1 \in Int
  BY WordsAreSmall
<1> QED
  BY <1>1, <1>2

\* What lib_OpenCnt counts.
Count(l) == (IF l = Exec THEN 1 ELSE 0) + leaked[l] + Cardinality(Opened(l))

LEMMA CountType == ASSUME OpenType, NEW l \in Lib PROVE Count(l) \in Nat
<1>1. leaked[l] \in Nat /\ Cardinality(Opened(l)) \in Nat
  BY OpenedFinite DEF OpenType
<1> QED
  BY <1>1 DEF Count
\* The count is stored; if it was changed since it was loaded, the module is torn.
LEMMA OpenStoreKeeps == ASSUME LibInv, NEW t \in Task, OpenStore(t) PROVE LibInv'
<1>d. PICK d \in Lib : d = at[t]
  BY DEF OpenStore, LibInv, Working
<1>0. /\ pc[t] = "store" /\ openCnt' = [openCnt EXCEPT ![d] = Wrap(reg[t] + 1)]
      /\ holds' = [holds EXCEPT ![t][d] = @ + 1]
      /\ torn' = IF openCnt[d] = reg[t] THEN torn ELSE torn \cup {d}
      /\ reg' = [reg EXCEPT ![t] = 0] /\ GoTo(t, "user", NULL)
      /\ UNCHANGED <<bootVars, lists, sumVars, leaked, want>>
  BY <1>d DEF OpenStore, Back
<1>1. /\ boot = "done" /\ boot' = boot /\ d \in Lib /\ holds[t][d] < MaxOpen
  BY <1>0, <1>d DEF LibInv, Working, bootVars
<1>2. OpenType
  BY DEF LibInv, TypeOK
<1>3. /\ BootType' /\ ListType' /\ SumType' /\ Booting' /\ Halted' /\ Linked' /\ NoSums'
  <2>1. \A m : Adding(m)' = Adding(m)
    BY <1>0, AddingStays DEF LibInv, TypeOK, AddPC
  <2> QED
    BY <1>0, <2>1, OpenLeaves
<1>4. /\ Cardinality(Opened(d)') = Cardinality(Opened(d)) + 1
      /\ \A l \in Lib \ {d} : Opened(l)' = Opened(l)
      /\ holds' \in [Task -> [Lib -> 0..MaxOpen]]
  BY <1>0, <1>1, <1>2, OpenedGrows
<1>5. OpenType'
  <2>1. Wrap(reg[t] + 1) \in UWORD /\ 0 \in UWORD
    <3>1. reg[t] \in UWORD
      BY <1>2 DEF OpenType
    <3>2. 0 \in UWORD
      BY WordsAreSmall
    <3> QED
      BY <3>1, <3>2, WrapType
  <2> QED
    BY <1>0, <1>1, <1>2, <1>4, <2>1 DEF OpenType
<1>6. Closed'
  BY <1>1 DEF Closed
<1>7. OpenCntExact'
  <2>1. ASSUME NEW l \in Lib \ torn', l # d
        PROVE  openCnt'[l] = Wrap(Count(l)')
    <3>1. openCnt'[l] = openCnt[l] /\ leaked' = leaked /\ Opened(l)' = Opened(l) /\ l \notin torn
      BY <1>0, <1>2, <1>4, <2>1 DEF OpenType
    <3> QED
      BY <3>1 DEF Count, LibInv, OpenCntExact
  <2>2. ASSUME d \notin torn' PROVE openCnt'[d] = Wrap(Count(d)')
    <3>1. d \notin torn /\ openCnt[d] = reg[t]
      BY <1>0, <2>2
    <3>2. openCnt[d] = Wrap(Count(d))
      BY <1>1, <3>1 DEF LibInv, OpenCntExact, Count
    <3>3. openCnt'[d] = Wrap(Wrap(Count(d)) + 1)
      BY <1>0, <1>1, <1>2, <3>1, <3>2 DEF OpenType
    <3>4. Count(d)' = Count(d) + 1
      <4>1. leaked[d] \in Nat /\ leaked' = leaked /\ Cardinality(Opened(d)) \in Nat
        BY <1>0, <1>1, <1>2, OpenedFinite DEF OpenType
      <4> QED
        BY <1>4, <4>1 DEF Count
    <3> QED
      BY <1>1, <1>2, <3>3, <3>4, CountType, WrapCounts
  <2> QED
    BY <2>1, <2>2 DEF OpenCntExact, Count
<1>8. PlaceType' /\ Working'
  BY <1>0, <1>1 DEF LibInv, TypeOK, PlaceType, PC, Working, GoTo, bootVars, OpenType
<1> QED
  BY <1>3, <1>5, <1>6, <1>7, <1>8 DEF LibInv, TypeOK

\* A device is opened, not opened, or not opened but counted.
LEMMA OpenDevKeeps == ASSUME LibInv, NEW t \in Task, OpenDev(t) PROVE LibInv'
<1>d. PICK d \in Lib : d = at[t]
  BY DEF OpenDev, LibInv, Working
<1>0. /\ pc[t] = "opendev" /\ want' = [want EXCEPT ![t] = 0] /\ GoTo(t, "user", NULL)
      /\ UNCHANGED <<bootVars, lists, sumVars, torn, reg>>
      /\ \/ /\ openCnt' = [openCnt EXCEPT ![d] = Wrap(@ + 1)]
            /\ holds' = [holds EXCEPT ![t][d] = @ + 1] /\ leaked' = [leaked EXCEPT ![d] = @]
         \/ /\ openCnt' = [openCnt EXCEPT ![d] = Wrap(@ + 1)]
            /\ holds' = [holds EXCEPT ![t][d] = @] /\ leaked' = [leaked EXCEPT ![d] = @ + 1]
         \/ /\ openCnt' = [openCnt EXCEPT ![d] = @]
            /\ holds' = [holds EXCEPT ![t][d] = @] /\ leaked' = [leaked EXCEPT ![d] = @]
  BY <1>d DEF OpenDev, Back
<1>1. /\ boot = "done" /\ boot' = boot /\ d \in Lib /\ holds[t][d] < MaxOpen
  BY <1>0, <1>d DEF LibInv, Working, bootVars
<1>2. OpenType
  BY DEF LibInv, TypeOK
<1>3. /\ BootType' /\ ListType' /\ SumType' /\ Booting' /\ Halted' /\ Linked' /\ NoSums'
  <2>1. \A m : Adding(m)' = Adding(m)
    BY <1>0, AddingStays DEF LibInv, TypeOK, AddPC
  <2> QED
    BY <1>0, <2>1, OpenLeaves
<1>4. \A u \in Task : pc'[u] # "user" => u # t
  BY <1>0 DEF GoTo, LibInv, TypeOK, PlaceType
<1>5. /\ holds' \in [Task -> [Lib -> 0..MaxOpen]] /\ leaked' \in [Lib -> Nat]
      /\ \A l \in Lib \ {d} : Opened(l)' = Opened(l) /\ leaked'[l] = leaked[l] /\ openCnt'[l] = openCnt[l]
      /\ \/ openCnt'[d] = Wrap(openCnt[d] + 1) /\ Count(d)' = Count(d) + 1
         \/ openCnt'[d] = openCnt[d] /\ Count(d)' = Count(d)
  <2>0. \A l \in Lib : leaked[l] \in Nat /\ Cardinality(Opened(l)) \in Nat
    BY <1>2, OpenedFinite DEF OpenType
  <2>1. ASSUME holds' = [holds EXCEPT ![t][d] = @] PROVE holds' = holds
    BY <1>1, <1>2, <2>1 DEF OpenType
  <2>2. ASSUME leaked' = [leaked EXCEPT ![d] = @] PROVE leaked' = leaked
    BY <1>1, <1>2, <2>2 DEF OpenType
  <2>3. CASE /\ openCnt' = [openCnt EXCEPT ![d] = Wrap(@ + 1)]
             /\ holds' = [holds EXCEPT ![t][d] = @ + 1] /\ leaked' = [leaked EXCEPT ![d] = @]
    <3>1. /\ Cardinality(Opened(d)') = Cardinality(Opened(d)) + 1
          /\ \A l \in Lib \ {d} : Opened(l)' = Opened(l)
          /\ holds' \in [Task -> [Lib -> 0..MaxOpen]]
      BY <1>1, <1>2, <2>3, OpenedGrows
    <3>2. leaked' = leaked
      BY <2>2, <2>3
    <3>3. Count(d)' = Count(d) + 1
      BY <1>1, <2>0, <3>1, <3>2 DEF Count
    <3>4. openCnt'[d] = Wrap(openCnt[d] + 1) /\ \A l \in Lib \ {d} : openCnt'[l] = openCnt[l]
      BY <1>1, <1>2, <2>3 DEF OpenType
    <3> QED
      BY <1>2, <3>1, <3>2, <3>3, <3>4 DEF OpenType
  <2>4. CASE /\ openCnt' = [openCnt EXCEPT ![d] = Wrap(@ + 1)]
             /\ holds' = [holds EXCEPT ![t][d] = @] /\ leaked' = [leaked EXCEPT ![d] = @ + 1]
    <3>1. holds' = holds /\ \A l : Opened(l)' = Opened(l)
      BY <2>1, <2>4 DEF Opened
    <3>2. /\ leaked' \in [Lib -> Nat] /\ leaked'[d] = leaked[d] + 1
          /\ \A l \in Lib \ {d} : leaked'[l] = leaked[l]
      BY <1>1, <1>2, <2>4 DEF OpenType
    <3>3. Count(d)' = Count(d) + 1
      BY <1>1, <2>0, <3>1, <3>2 DEF Count
    <3>4. openCnt'[d] = Wrap(openCnt[d] + 1) /\ \A l \in Lib \ {d} : openCnt'[l] = openCnt[l]
      BY <1>1, <1>2, <2>4 DEF OpenType
    <3> QED
      BY <1>2, <3>1, <3>2, <3>3, <3>4 DEF OpenType
  <2>5. CASE /\ openCnt' = [openCnt EXCEPT ![d] = @]
             /\ holds' = [holds EXCEPT ![t][d] = @] /\ leaked' = [leaked EXCEPT ![d] = @]
    <3>1. holds' = holds /\ leaked' = leaked /\ \A l : Opened(l)' = Opened(l)
      BY <2>1, <2>2, <2>5 DEF Opened
    <3>2. Count(d)' = Count(d)
      BY <3>1 DEF Count
    <3>3. \A l \in Lib : openCnt'[l] = openCnt[l]
      BY <1>1, <1>2, <2>5 DEF OpenType
    <3> QED
      BY <1>1, <1>2, <3>1, <3>2, <3>3 DEF OpenType
  <2> QED
    BY <1>0, <2>3, <2>4, <2>5
<1>6. OpenType'
  <2>1. Wrap(openCnt[d] + 1) \in UWORD /\ openCnt[d] \in UWORD
    <3>1. openCnt[d] \in UWORD
      BY <1>1, <1>2 DEF OpenType
    <3> QED
      BY <3>1, WrapType
  <2>2. openCnt' \in [Lib -> UWORD]
    <3>1. openCnt' = [openCnt EXCEPT ![d] = Wrap(openCnt[d] + 1)] \/ openCnt' = [openCnt EXCEPT ![d] = openCnt[d]]
      BY <1>0
    <3> QED
      BY <1>1, <1>2, <2>1, <3>1 DEF OpenType
  <2> QED
    BY <1>0, <1>2, <1>5, <2>2 DEF OpenType
<1>7. Closed'
  BY <1>1 DEF Closed
<1>8. OpenCntExact'
  <2>1. ASSUME NEW l \in Lib \ torn', l # d PROVE openCnt'[l] = Wrap(Count(l)')
    <3>1. openCnt[l] = Wrap(Count(l))
      BY <1>0, <2>1 DEF LibInv, OpenCntExact, Count
    <3> QED
      BY <1>5, <2>1, <3>1 DEF Count
  <2>2. ASSUME d \notin torn' PROVE openCnt'[d] = Wrap(Count(d)')
    <3>1. openCnt[d] = Wrap(Count(d))
      BY <1>0, <1>1, <2>2 DEF LibInv, OpenCntExact, Count
    <3> QED
      BY <1>1, <1>2, <1>5, <3>1, CountType, WrapCounts
  <2> QED
    BY <2>1, <2>2 DEF OpenCntExact, Count
<1>9. PlaceType'
  BY <1>0 DEF LibInv, TypeOK, PlaceType, PC, GoTo
<1>10. Working'
  <2>1. ASSUME NEW u \in Task, u # t PROVE holds'[u] = holds[u] /\ pc'[u] = pc[u] /\ at'[u] = at[u]
    BY <1>0, <1>2, <2>1 DEF OpenType, LibInv, TypeOK, PlaceType, GoTo
  <2> QED
    BY <1>1, <1>4, <2>1 DEF LibInv, Working
<1> QED
  BY <1>3, <1>6, <1>7, <1>8, <1>9, <1>10 DEF LibInv, TypeOK

\* A close, of what the task has open.
LEMMA CloseKeeps == ASSUME LibInv, NEW t \in Task, NEW d \in Lib, Close(t, d) PROVE LibInv'
<1>0. /\ boot = "done" /\ pc[t] = "user" /\ holds[t][d] > 0
      /\ openCnt' = [openCnt EXCEPT ![d] = Wrap(@ - 1)]
      /\ holds' = [holds EXCEPT ![t][d] = @ - 1]
      /\ UNCHANGED <<bootVars, lists, sumVars, leaked, torn, want, reg, pc, at>>
  BY DEF Close, Free, place
<1>2. OpenType
  BY DEF LibInv, TypeOK
<1>3. /\ BootType' /\ ListType' /\ SumType' /\ Booting' /\ Halted' /\ Linked' /\ NoSums'
  <2>1. \A m : Adding(m)' = Adding(m)
    BY <1>0 DEF Adding
  <2> QED
    BY <1>0, <2>1, OpenLeaves
<1>4. /\ Cardinality(Opened(d)') = Cardinality(Opened(d)) - 1
      /\ \A l \in Lib \ {d} : Opened(l)' = Opened(l)
      /\ holds' \in [Task -> [Lib -> 0..MaxOpen]]
  BY <1>0, <1>2, OpenedShrinks
<1>5. OpenType'
  <2>1. Wrap(openCnt[d] - 1) \in UWORD
    <3>1. openCnt[d] \in UWORD
      BY <1>2 DEF OpenType
    <3> QED
      BY <3>1, WrapType
  <2> QED
    BY <1>0, <1>2, <1>4, <2>1 DEF OpenType
<1>6. Closed'
  BY <1>0 DEF Closed, bootVars
<1>7. OpenCntExact'
  <2>1. ASSUME NEW l \in Lib \ torn', l # d PROVE openCnt'[l] = Wrap(Count(l)')
    <3>1. openCnt'[l] = openCnt[l] /\ leaked' = leaked /\ Opened(l)' = Opened(l) /\ l \notin torn
      BY <1>0, <1>2, <1>4, <2>1 DEF OpenType
    <3> QED
      BY <3>1 DEF Count, LibInv, OpenCntExact
  <2>2. ASSUME d \notin torn' PROVE openCnt'[d] = Wrap(Count(d)')
    <3>1. openCnt[d] = Wrap(Count(d))
      BY <1>0, <2>2 DEF LibInv, OpenCntExact, Count
    <3>2. openCnt'[d] = Wrap(Wrap(Count(d)) - 1)
      BY <1>0, <1>2, <3>1 DEF OpenType
    <3>3. leaked[d] \in Nat /\ leaked' = leaked /\ Cardinality(Opened(d)) \in Nat \ {0}
      <4>1. <<t, holds[t][d]>> \in Opened(d)
        BY <1>0, <1>2 DEF Opened, OpenType
      <4> QED
        BY <1>0, <1>2, <4>1, OpenedFinite, FS_EmptySet DEF OpenType
    <3>4. Count(d)' = Count(d) - 1 /\ Count(d) > 0
      BY <1>4, <3>3 DEF Count
    <3> QED
      BY <1>2, <3>2, <3>4, CountType, WrapCounts
  <2> QED
    BY <2>1, <2>2 DEF OpenCntExact, Count
<1>8. PlaceType'
  BY <1>0 DEF LibInv, TypeOK, PlaceType
<1>9. Working'
  <2>1. ASSUME NEW u \in Task, u # t PROVE holds'[u] = holds[u]
    BY <1>0, <1>2, <2>1 DEF OpenType
  <2> QED
    BY <1>0, <2>1 DEF LibInv, Working, bootVars
<1> QED
  BY <1>3, <1>5, <1>6, <1>7, <1>8, <1>9 DEF LibInv, TypeOK
---------------------------------------------------------------------------
(***************************************************************************)
(* Removing and adding.                                                    *)
(***************************************************************************)
\* Nothing of this, nor of summing, sets up a resident or counts an open.
LEMMA CallLeaves ==
  ASSUME LibInv, UNCHANGED <<bootVars, opens>>
  PROVE  BootType' /\ Booting' /\ Halted' /\ OpenType' /\ Closed' /\ OpenCntExact'
<1>1. BootType' /\ OpenType'
  BY DEF LibInv, TypeOK, BootType, OpenType, bootVars, opens
<1>2. Booting' /\ Halted'
  BY BootStays DEF LibInv
<1>3. Closed' /\ OpenCntExact'
  BY CountsStay DEF LibInv, bootVars, opens
<1> QED
  BY <1>1, <1>2, <1>3

\* A task goes to a step that is right for it.
LEMMA WorkingGoesOn ==
  ASSUME LibInv, UNCHANGED <<boot, holds>>, NEW t \in Task,
         NEW label \in PC, NEW l \in Lib \cup {NULL}, GoTo(t, label, l),
         label \notin {"openlib", "store", "opendev"},
         label # "user" => boot = "done" /\ l \in Lib,
         label \in AddPC => l \in Module /\ Kind[l] = "library"
  PROVE  PlaceType' /\ Working'
<1>1. /\ pc \in [Task -> PC] /\ at \in [Task -> Lib \cup {NULL}]
      /\ pc' = [pc EXCEPT ![t] = label] /\ at' = [at EXCEPT ![t] = l]
  BY DEF LibInv, TypeOK, PlaceType, GoTo
<1>2. PlaceType'
  BY <1>1 DEF PlaceType
<1>3. ASSUME NEW u \in Task, u # t PROVE pc'[u] = pc[u] /\ at'[u] = at[u]
  BY <1>1, <1>3
<1>4. pc'[t] = label /\ at'[t] = l
  BY <1>1
<1> QED
  BY <1>2, <1>3, <1>4 DEF LibInv, Working

\* A library or device leaves its list.
LEMMA RemLibraryKeeps ==
  ASSUME LibInv, NEW t \in Task, NEW l \in Lib, RemLibrary(t, l)
  PROVE  LibInv'
<1>0. /\ l \in Module /\ removed' = removed \cup {l}
      /\ UNCHANGED <<bootVars, sumVars, opens, pc, at>>
      /\ \/ l \in ToSet(libList) /\ libList' = Unlink(libList, l) /\ devList' = devList
         \/ l \in ToSet(devList) /\ devList' = Unlink(devList, l) /\ libList' = libList
  BY DEF RemLibrary, place, Lib
<1>1. /\ libList \in Seq(Lib) /\ Distinct(libList) /\ SortedBy(libList, LibPri)
      /\ devList \in Seq(Module) /\ Distinct(devList) /\ SortedBy(devList, LibPri)
  BY DEF LibInv, TypeOK, ListType, Linked
<1>2. BootType' /\ Booting' /\ Halted' /\ OpenType' /\ Closed' /\ OpenCntExact'
  BY <1>0, CallLeaves
<1>3. PlaceType' /\ Working' /\ SumType' /\ NoSums' /\ \A m : Adding(m)' = Adding(m)
  <2>1. PlaceType' /\ Working' /\ \A m : Adding(m)' = Adding(m)
    BY <1>0 DEF LibInv, TypeOK, PlaceType, Working, Adding, bootVars, opens
  <2>2. SumType' /\ NoSums'
    BY <1>0, SumsStay DEF LibInv, TypeOK, SumType, sumVars
  <2> QED
    BY <2>1, <2>2
<1>4. /\ libList' \in Seq(Lib) /\ Distinct(libList') /\ SortedBy(libList', LibPri)
      /\ devList' \in Seq(Module) /\ Distinct(devList') /\ SortedBy(devList', LibPri)
      /\ ToSet(libList') = ToSet(libList) \ {l} /\ ToSet(devList') = ToSet(devList) \ {l}
      /\ l \in ToSet(ListOf(l))
  <2>0. ~(l \in ToSet(libList) /\ l \in ToSet(devList)) /\ Kind[l] \in {"library", "device"}
        /\ (l \in ToSet(libList) => Kind[l] = "library") /\ (l \in ToSet(devList) => Kind[l] = "device")
    BY <1>0, Constants DEF LibInv, Linked, Located
  <2>1. CASE l \in ToSet(libList) /\ libList' = Unlink(libList, l) /\ devList' = devList
    <3>1. libList' \in Seq(Lib) /\ Distinct(libList') /\ ToSet(libList') = ToSet(libList) \ {l}
      BY <1>1, <2>1, UnlinkMembers
    <3>2. SortedBy(libList', LibPri)
      BY <1>1, <2>1, UnlinkSorted
    <3> QED
      BY <1>1, <2>0, <2>1, <3>1, <3>2 DEF ListOf
  <2>2. CASE l \in ToSet(devList) /\ devList' = Unlink(devList, l) /\ libList' = libList
    <3>1. devList' \in Seq(Module) /\ Distinct(devList') /\ ToSet(devList') = ToSet(devList) \ {l}
      BY <1>1, <2>2, UnlinkMembers
    <3>2. SortedBy(devList', LibPri)
      BY <1>1, <2>2, UnlinkSorted
    <3> QED
      BY <1>1, <2>0, <2>2, <3>1, <3>2 DEF ListOf
  <2> QED
    BY <1>0, <2>1, <2>2
<1>5. ListType'
  BY <1>0, <1>4 DEF LibInv, TypeOK, ListType
<1>6. Linked'
  <2>1. ASSUME NEW n \in Module PROVE Located(n)'
    <3>1. Located(n) /\ inits' = inits
      BY <1>0 DEF LibInv, Linked, bootVars
    <3> QED
      BY <1>0, <1>3, <1>4, <3>1 DEF Located, InPlace, ListOf
  <2> QED
    BY <1>4, <2>1 DEF Linked
<1> QED
  BY <1>2, <1>3, <1>5, <1>6 DEF LibInv, TypeOK

\* A removed device is linked again.
LEMMA AddDeviceKeeps ==
  ASSUME LibInv, NEW t \in Task, NEW l \in Lib, AddDevice(t, l)
  PROVE  LibInv'
<1>0. /\ l \in removed /\ l \in Module /\ Kind[l] = "device"
      /\ flags' = [flags EXCEPT ![l] = @ \cup {"CHANGED"}]
      /\ devList' = Enqueue(devList, l, LibPri) /\ removed' = removed \ {l}
      /\ UNCHANGED <<bootVars, libList, vec, libSum, oldflags, alert, opens, pc, at>>
  BY DEF AddDevice, place, LibInv, TypeOK, ListType
<1>1. /\ libList \in Seq(Lib) /\ Distinct(libList) /\ SortedBy(libList, LibPri)
      /\ devList \in Seq(Module) /\ Distinct(devList) /\ SortedBy(devList, LibPri)
      /\ l \notin ToSet(devList) /\ l \notin ToSet(libList)
  BY <1>0 DEF LibInv, TypeOK, ListType, Linked, Located, InPlace, ListOf
<1>2. BootType' /\ Booting' /\ Halted' /\ OpenType' /\ Closed' /\ OpenCntExact'
  BY <1>0, CallLeaves
<1>3. PlaceType' /\ Working' /\ SumType' /\ NoSums' /\ \A m : Adding(m)' = Adding(m)
  <2>1. PlaceType' /\ Working' /\ \A m : Adding(m)' = Adding(m)
    BY <1>0 DEF LibInv, TypeOK, PlaceType, Working, Adding, bootVars, opens
  <2>2. SumType' /\ NoSums'
    BY <1>0, SumsStay DEF LibInv, TypeOK, SumType, Flags
  <2> QED
    BY <2>1, <2>2
<1>4. /\ devList' \in Seq(Module) /\ Distinct(devList') /\ SortedBy(devList', LibPri)
      /\ ToSet(devList') = ToSet(devList) \cup {l}
  <2>1. devList' \in Seq(Module) /\ ToSet(devList') = ToSet(devList) \cup {l}
    BY <1>0, <1>1, EnqueueMembers
  <2>2. Distinct(devList')
    BY <1>0, <1>1, EnqueueDistinct
  <2>3. SortedBy(devList', LibPri)
    <3>1. \A x \in Module : LibPri[x] \in Int
      BY Constants
    <3> QED
      BY <1>0, <1>1, <3>1, EnqueueSorted
  <2> QED
    BY <2>1, <2>2, <2>3
<1>5. ListType'
  BY <1>0, <1>1, <1>4 DEF LibInv, TypeOK, ListType
<1>6. Linked'
  <2>1. ASSUME NEW n \in Module PROVE Located(n)'
    <3>1. Located(n) /\ inits' = inits
      BY <1>0 DEF LibInv, Linked, bootVars
    <3> QED
      BY <1>0, <1>3, <1>4, <3>1 DEF Located, InPlace, ListOf
  <2> QED
    BY <1>0, <1>1, <1>4, <2>1 DEF Linked
<1> QED
  BY <1>2, <1>3, <1>5, <1>6 DEF LibInv, TypeOK

\* A removed library is on its way back, in the hands of this task alone.
LEMMA AddLibraryKeeps ==
  ASSUME LibInv, NEW t \in Task, NEW l \in Lib, AddLibrary(t, l)
  PROVE  LibInv'
<1>0. /\ boot = "done" /\ pc[t] = "user" /\ l \in removed /\ l \in Module /\ Kind[l] = "library"
      /\ oldflags' = [oldflags EXCEPT ![t] = flags[l]]
      /\ removed' = removed \ {l} /\ GoTo(t, "changed", l)
      /\ UNCHANGED <<bootVars, libList, devList, vec, flags, libSum, alert, opens>>
  BY DEF AddLibrary, Free, LibInv, TypeOK, ListType
<1>1. BootType' /\ Booting' /\ Halted' /\ OpenType' /\ Closed' /\ OpenCntExact'
  BY <1>0, CallLeaves
<1>2. PlaceType' /\ Working'
  BY <1>0, WorkingGoesOn DEF PC, AddPC, bootVars, opens
<1>3. SumType' /\ NoSums' /\ ListType'
  BY <1>0, SumsStay DEF LibInv, TypeOK, SumType, ListType
<1>4. \A n : Adding(n)' = IF n = l THEN Adding(n) \cup {t} ELSE Adding(n)
  BY <1>0 DEF GoTo, Adding, AddPC, LibInv, TypeOK, PlaceType
<1>5. Linked'
  <2>1. ASSUME NEW n \in Module PROVE Located(n)'
    <3>1. Located(n) /\ inits' = inits
      BY <1>0 DEF LibInv, Linked, bootVars
    <3>2. CASE n = l
      <4>1. inits[l] = 1 /\ l \notin ToSet(ListOf(l)) /\ Adding(l) = {}
        BY <1>0, <3>1, <3>2 DEF Located, InPlace
      <4> QED
        BY <1>0, <1>4, <3>1, <3>2, <4>1 DEF Located, InPlace, ListOf
    <3>3. CASE n # l
      BY <1>0, <1>4, <3>1, <3>3 DEF Located, InPlace, ListOf
    <3> QED
      BY <3>2, <3>3
  <2> QED
    BY <1>0, <2>1 DEF LibInv, Linked
<1> QED
  BY <1>1, <1>2, <1>3, <1>5 DEF LibInv, TypeOK

LEMMA AddChangedKeeps == ASSUME LibInv, NEW t \in Task, AddChanged(t) PROVE LibInv'
<1>0. /\ pc[t] = "changed" /\ flags' = [flags EXCEPT ![at[t]] = oldflags[t] \cup {"CHANGED"}]
      /\ oldflags' = [oldflags EXCEPT ![t] = {}] /\ GoTo(t, "addsum", at[t])
      /\ UNCHANGED <<bootVars, lists, vec, libSum, alert, opens>>
  BY DEF AddChanged
<1>1. boot = "done" /\ at[t] \in Module /\ at[t] \in Lib /\ Kind[at[t]] = "library"
  BY <1>0 DEF LibInv, Working, AddPC
<1>2. BootType' /\ Booting' /\ Halted' /\ OpenType' /\ Closed' /\ OpenCntExact'
  BY <1>0, CallLeaves
<1>3. PlaceType' /\ Working'
  BY <1>0, <1>1, WorkingGoesOn DEF PC, AddPC, bootVars, opens
<1>4. SumType' /\ NoSums' /\ ListType'
  BY <1>0, <1>1, SumsStay DEF LibInv, TypeOK, SumType, ListType, Flags, lists
<1>5. Linked'
  <2>1. \A m : Adding(m)' = Adding(m)
    BY <1>0, AddingStays DEF AddPC, LibInv, TypeOK
  <2> QED
    BY <1>0, <2>1, LinkedStays DEF LibInv, lists, bootVars
<1> QED
  BY <1>2, <1>3, <1>4, <1>5 DEF LibInv, TypeOK

\* The library is back in its list.
LEMMA AddEnqueueKeeps == ASSUME LibInv, NEW t \in Task, AddEnqueue(t) PROVE LibInv'
<1>1. boot = "done" /\ at[t] \in Module /\ Kind[at[t]] = "library"
  BY DEF AddEnqueue, LibInv, Working, AddPC
<1>d. PICK l \in Module : l = at[t] /\ Kind[l] = "library"
  BY <1>1
<1>0. /\ pc[t] = "enqueue" /\ libList' = Enqueue(libList, l, LibPri) /\ GoTo(t, "user", NULL)
      /\ UNCHANGED <<bootVars, devList, removed, sumVars, opens>>
  BY <1>d DEF AddEnqueue, Back
<1>2. BootType' /\ Booting' /\ Halted' /\ OpenType' /\ Closed' /\ OpenCntExact'
  BY <1>0, CallLeaves
<1>3. PlaceType' /\ Working'
  BY <1>0, <1>1, WorkingGoesOn DEF PC, AddPC, bootVars, opens
<1>4. SumType' /\ NoSums'
  BY <1>0, SumsStay DEF LibInv, TypeOK, SumType, sumVars
<1>5. /\ l \notin ToSet(libList) /\ l \notin removed /\ l \notin ToSet(devList)
      /\ inits[l] = 1 /\ Adding(l) = {t}
  <2>1. Located(l) /\ t \in Adding(l)
    BY <1>0, <1>d DEF LibInv, Linked, Adding, AddPC
  <2> QED
    BY <1>d, <2>1 DEF Located, InPlace, ListOf
<1>6. \A n : Adding(n)' = IF n = l THEN {} ELSE Adding(n)
  <2>1. \A u \in Task : /\ pc'[u] = IF u = t THEN "user" ELSE pc[u]
                        /\ u # t => at'[u] = at[u]
    BY <1>0 DEF GoTo, LibInv, TypeOK, PlaceType
  <2> QED
    BY <1>5, <1>d, <2>1 DEF Adding, AddPC
<1>7. /\ libList' \in Seq(Lib) /\ ToSet(libList') = ToSet(libList) \cup {l}
      /\ Distinct(libList') /\ SortedBy(libList', LibPri)
  <2>1. libList \in Seq(Lib) /\ Distinct(libList) /\ SortedBy(libList, LibPri) /\ l \in Lib
    BY Constants DEF LibInv, TypeOK, ListType, Linked
  <2>2. libList' \in Seq(Lib) /\ ToSet(libList') = ToSet(libList) \cup {l}
    BY <1>0, <2>1, EnqueueMembers
  <2>3. Distinct(libList')
    BY <1>0, <1>5, <2>1, EnqueueDistinct
  <2>4. SortedBy(libList', LibPri)
    BY <1>0, <2>1, Constants, EnqueueSorted
  <2> QED
    BY <2>2, <2>3, <2>4
<1>8. ListType'
  BY <1>0, <1>7 DEF LibInv, TypeOK, ListType
<1>9. Linked'
  <2>1. ASSUME NEW n \in Module PROVE Located(n)'
    <3>1. Located(n) /\ inits' = inits
      BY <1>0 DEF LibInv, Linked, bootVars
    <3> QED
      BY <1>0, <1>d, <1>5, <1>6, <1>7, <3>1 DEF Located, InPlace, ListOf
  <2> QED
    BY <1>0, <1>7, <2>1 DEF LibInv, Linked
<1> QED
  BY <1>2, <1>3, <1>4, <1>8, <1>9 DEF LibInv, TypeOK
---------------------------------------------------------------------------
(***************************************************************************)
(* Summing and patching.                                                   *)
(***************************************************************************)
\* A call that stays with its module, or begins or ends without adding one, moves
\* nothing between the lists.
LEMMA SumLeaves ==
  ASSUME LibInv, UNCHANGED <<bootVars, lists, opens>>, SumType', NoSums',
         PlaceType' /\ Working', \A m : Adding(m)' = Adding(m)
  PROVE  LibInv'
<1>1. BootType' /\ Booting' /\ Halted' /\ OpenType' /\ Closed' /\ OpenCntExact'
  BY CallLeaves
<1>2. ListType'
  BY DEF LibInv, TypeOK, ListType, lists
<1>3. Linked'
  BY LinkedStays DEF LibInv, lists, bootVars
<1> QED
  BY <1>1, <1>2, <1>3 DEF LibInv, TypeOK

\* The place of a task that sums after its step.
LEMMA SumGoesOn ==
  ASSUME LibInv, UNCHANGED <<bootVars, opens>>, NEW t \in Task,
         pc[t] \in {"sum", "addsum", "summing", "addsumming"},
         \/ UNCHANGED place \/ AfterSum(t)
         \/ GoTo(t, IF pc[t] = "sum" THEN "summing" ELSE "addsumming", at[t])
            /\ pc[t] \in {"sum", "addsum"}
  PROVE  at[t] \in Lib /\ PlaceType' /\ Working' /\ \A m : Adding(m)' = Adding(m)
<1>1. /\ boot = "done" /\ at[t] \in Lib /\ UNCHANGED <<boot, holds>>
      /\ pc[t] \in {"addsum", "addsumming"} => at[t] \in Module /\ Kind[at[t]] = "library"
  BY DEF LibInv, Working, AddPC, bootVars, opens
<1>2. CASE UNCHANGED place
  BY <1>1, <1>2 DEF LibInv, TypeOK, PlaceType, Working, Adding, place
<1>3. ASSUME GoTo(t, "user", NULL), pc[t] \in {"sum", "summing"}
      PROVE  PlaceType' /\ Working' /\ \A m : Adding(m)' = Adding(m)
  <2>1. PlaceType' /\ Working'
    BY <1>1, <1>3, WorkingGoesOn DEF PC, AddPC
  <2>2. \A m : Adding(m)' = Adding(m)
    BY <1>3, AddingStays DEF AddPC, LibInv, TypeOK
  <2> QED
    BY <2>1, <2>2
<1>4. ASSUME NEW label \in {"summing", "addsumming", "enqueue"}, GoTo(t, label, at[t]),
             label = "summing" <=> pc[t] \in {"sum", "summing"}
      PROVE  PlaceType' /\ Working' /\ \A m : Adding(m)' = Adding(m)
  <2>1. PlaceType' /\ Working'
    BY <1>1, <1>4, WorkingGoesOn DEF PC, AddPC
  <2>2. \A m : Adding(m)' = Adding(m)
    BY <1>4, AddingStays DEF AddPC, LibInv, TypeOK
  <2> QED
    BY <2>1, <2>2
<1> QED
  BY <1>1, <1>2, <1>3, <1>4 DEF AfterSum, Back

LEMMA SumLibraryKeeps ==
  ASSUME LibInv, NEW t \in Task, NEW l \in Lib, SumLibrary(t, l)
  PROVE  LibInv'
<1>0. /\ boot = "done" /\ pc[t] = "user" /\ GoTo(t, "sum", l)
      /\ UNCHANGED <<bootVars, lists, sumVars, opens>>
  BY DEF SumLibrary, Free
<1>1. SumType' /\ NoSums'
  BY <1>0, SumsStay DEF LibInv, TypeOK, SumType, sumVars
<1>2. PlaceType' /\ Working'
  BY <1>0, WorkingGoesOn DEF PC, AddPC, bootVars, opens
<1>3. \A m : Adding(m)' = Adding(m)
  BY <1>0, AddingStays DEF AddPC, LibInv, TypeOK
<1> QED
  BY <1>0, <1>1, <1>2, <1>3, SumLeaves

\* Flags stay flags.
LEMMA FlagsOnly ==
  ASSUME SumType, NEW t \in Task, NEW l \in Lib, NEW f \in Flags, NEW g \in Flags,
         oldflags' \in {oldflags, [oldflags EXCEPT ![t] = f]},
         flags' \in {flags, [flags EXCEPT ![l] = g]},
         UNCHANGED <<vec, libSum, alert>>
  PROVE  SumType'
<1>1. oldflags' \in [Task -> Flags] /\ flags' \in [Lib -> Flags]
  BY DEF SumType
<1> QED
  BY <1>1 DEF SumType

LEMMA FlagType ==
  \A f \in Flags : /\ {} \in Flags /\ f \ {"SUMMING"} \in Flags
                  /\ (f \cup {"SUMMING"}) \ {"CHANGED"} \in Flags
                  /\ ((f \ {"SUMMING"}) \cup {"SUMMING"}) \ {"CHANGED"} \in Flags
BY DEF Flags

\* The flags of the library change, and the sum stays 0.
LEMMA SumBeginKeeps == ASSUME LibInv, NEW t \in Task, SumBegin(t) PROVE LibInv'
<1>0. /\ pc[t] \in {"sum", "addsum"}
      /\ UNCHANGED <<bootVars, lists, vec, libSum, alert, opens>>
      /\ \/ /\ oldflags' = [oldflags EXCEPT ![t] = flags[at[t]]]
            /\ flags' = [flags EXCEPT ![at[t]] = (flags[at[t]] \cup {"SUMMING"}) \ {"CHANGED"}]
            /\ GoTo(t, IF pc[t] = "sum" THEN "summing" ELSE "addsumming", at[t])
         \/ AfterSum(t) /\ flags' = flags /\ oldflags' = oldflags
  BY DEF SumBegin
<1>1. at[t] \in Lib /\ PlaceType' /\ Working' /\ \A m : Adding(m)' = Adding(m)
  BY <1>0, SumGoesOn
<1>2. SumType'
  <2>1. flags[at[t]] \in Flags /\ SumType
    BY <1>1 DEF LibInv, TypeOK, SumType
  <2>2. (flags[at[t]] \cup {"SUMMING"}) \ {"CHANGED"} \in Flags
    BY <2>1, FlagType
  <2> QED
    BY <1>0, <1>1, <2>1, <2>2, FlagsOnly
<1>3. NoSums'
  BY <1>0, SumsStay DEF LibInv
<1> QED
  BY <1>0, <1>1, <1>2, <1>3, SumLeaves

\* The sum is 0 again, whatever was written meanwhile, and agrees with the old one.
LEMMA SumEndKeeps == ASSUME LibInv, NEW t \in Task, SumEnd(t) PROVE LibInv'
<1> DEFINE f == flags[at[t]] \ {"SUMMING"}
<1>0. /\ pc[t] \in {"summing", "addsumming"}
      /\ UNCHANGED <<bootVars, lists, vec, opens>>
      /\ \/ /\ oldflags' = [oldflags EXCEPT ![t] = f]
            /\ flags' = [flags EXCEPT ![at[t]] = (f \cup {"SUMMING"}) \ {"CHANGED"}]
            /\ UNCHANGED <<alert, libSum, place>>
         \/ /\ alert' = (alert \/ ("CHANGED" \notin oldflags[t] /\ libSum[at[t]] # Sum(at[t])))
            /\ libSum' = [libSum EXCEPT ![at[t]] = Sum(at[t])]
            /\ flags' = [flags EXCEPT ![at[t]] = f]
            /\ oldflags' = [oldflags EXCEPT ![t] = {}]
            /\ AfterSum(t)
  BY DEF SumEnd
<1>1. at[t] \in Lib /\ PlaceType' /\ Working' /\ \A m : Adding(m)' = Adding(m)
  BY <1>0, SumGoesOn
<1>2. Sum(at[t]) = 0 /\ libSum[at[t]] = 0 /\ ~alert
  BY <1>1, SumIsZero DEF LibInv, NoSums
<1>3. libSum' = libSum /\ alert' = alert
  <2>1. libSum \in [Lib -> Nat] /\ alert \in BOOLEAN
    BY DEF LibInv, TypeOK, SumType
  <2>2. [libSum EXCEPT ![at[t]] = 0] = libSum
    BY <1>1, <1>2, <2>1
  <2> QED
    BY <1>0, <1>2, <2>1, <2>2
<1>4. SumType'
  <2>1. flags[at[t]] \in Flags /\ SumType
    BY <1>1 DEF LibInv, TypeOK, SumType
  <2>2. {} \in Flags /\ f \in Flags /\ (f \cup {"SUMMING"}) \ {"CHANGED"} \in Flags
    BY <2>1, FlagType
  <2>3. CASE /\ oldflags' = [oldflags EXCEPT ![t] = f]
             /\ flags' = [flags EXCEPT ![at[t]] = (f \cup {"SUMMING"}) \ {"CHANGED"}]
    <3> HIDE DEF f
    <3> QED
      BY <1>0, <1>1, <1>3, <2>1, <2>2, <2>3, FlagsOnly
  <2>4. CASE /\ oldflags' = [oldflags EXCEPT ![t] = {}]
             /\ flags' = [flags EXCEPT ![at[t]] = f]
    <3> HIDE DEF f
    <3> QED
      BY <1>0, <1>1, <1>3, <2>1, <2>2, <2>4, FlagsOnly
  <2> QED
    BY <1>0, <2>3, <2>4
<1>5. NoSums'
  BY <1>3, SumsStay DEF LibInv
<1> QED
  BY <1>0, <1>1, <1>4, <1>5, SumLeaves

\* A vector is written, by SetFunction or by anybody.
LEMMA WriteKeeps ==
  ASSUME LibInv, NEW l \in Lib, (\E t \in Task : SetFunction(t, l)) \/ StrayWrite(l)
  PROVE  LibInv'
<1>0. /\ UNCHANGED <<bootVars, lists, libSum, oldflags, alert, opens, pc, at>>
      /\ flags' = flags \/ flags' = [flags EXCEPT ![l] = @ \cup {"CHANGED"}]
      /\ \E k, w : vec' = [vec EXCEPT ![l][k] = w]
  BY DEF SetFunction, StrayWrite, Write, place
<1>1. \A d \in Lib : DOMAIN vec'[d] = DOMAIN vec[d]
  <2>1. PICK k, w : vec' = [vec EXCEPT ![l] = [vec[l] EXCEPT ![k] = w]]
    BY <1>0
  <2>2. DOMAIN vec = Lib
    BY DEF LibInv, TypeOK, SumType
  <2> QED
    BY <2>1, <2>2
<1>2. SumType'
  <2>1. DOMAIN vec' = DOMAIN vec
    BY <1>0
  <2>2. flags' \in [Lib -> Flags]
    <3>1. flags \in [Lib -> Flags]
      BY DEF LibInv, TypeOK, SumType
    <3>2. flags[l] \cup {"CHANGED"} \in Flags
      BY <3>1 DEF Flags
    <3> QED
      BY <1>0, <3>1, <3>2
  <2> QED
    BY <1>0, <1>1, <2>1, <2>2 DEF LibInv, TypeOK, SumType
<1>3. NoSums'
  BY <1>0, SumsStay DEF LibInv
<1>4. PlaceType' /\ Working' /\ \A m : Adding(m)' = Adding(m)
  BY <1>0 DEF LibInv, TypeOK, PlaceType, Working, Adding, bootVars, opens
<1> QED
  BY <1>0, <1>2, <1>3, <1>4, SumLeaves
---------------------------------------------------------------------------
\* Every step keeps the invariant.
LEMMA LibStep == LibInv /\ [Next]_vars => LibInv'
<1> SUFFICES ASSUME LibInv, [Next]_vars PROVE LibInv'
  OBVIOUS
<1>1. CASE BootStep
  BY <1>1, ScanKeeps, InitResidentKeeps, NextResidentKeeps DEF BootStep
<1>2. ASSUME NEW t \in Task, OpenStep(t, Lib) PROVE LibInv'
  BY <1>2, FindKeeps, CloseKeeps, OpenLoadKeeps, OpenStoreKeeps, OpenDevKeeps DEF OpenStep
<1>3. ASSUME NEW t \in Task, ListStep(t, Lib) PROVE LibInv'
  BY <1>3, RemLibraryKeeps, AddDeviceKeeps, AddLibraryKeeps DEF ListStep
<1>4. ASSUME NEW t \in Task, SumStep(t, Lib) PROVE LibInv'
  BY <1>4, SumLibraryKeeps, WriteKeeps, SumBeginKeeps, SumEndKeeps DEF SumStep
<1>5. ASSUME NEW t \in Task, AddStep(t) PROVE LibInv'
  BY <1>5, AddChangedKeeps, AddEnqueueKeeps DEF AddStep
<1>6. ASSUME NEW l \in Lib, StrayWrite(l) PROVE LibInv'
  BY <1>6, WriteKeeps
<1>7. CASE UNCHANGED vars
  <2>1. UNCHANGED <<bootVars, lists, sumVars, opens, pc, at>>
    BY <1>7 DEF vars, place
  <2>2. SumType' /\ NoSums'
    BY <2>1, SumsStay DEF LibInv, TypeOK, SumType, sumVars
  <2>3. PlaceType' /\ Working' /\ \A m : Adding(m)' = Adding(m)
    BY <2>1 DEF LibInv, TypeOK, PlaceType, Working, Adding, bootVars, opens
  <2> QED
    BY <2>1, <2>2, <2>3, SumLeaves
<1> QED
  BY <1>1, <1>2, <1>3, <1>4, <1>5, <1>6, <1>7 DEF Next

LEMMA LibInvAlways == Spec => []LibInv
BY LibInit, LibStep, PTL DEF Spec

\* Each module is in the list of its kind once, or taken out, or on its way back in
\* with one task, and the lists are in order of priority (library.c:36-60,
\* devices.c:10-40, resident.c:11-92).
THEOREM ListsCorrect == Spec => []ListsExact
<1>1. LibInv => ListsExact
  <2> SUFFICES ASSUME LibInv PROVE ListsExact
    OBVIOUS
  <2>1. ASSUME NEW m \in Module
        PROVE  /\ inits[m] = Cardinality(Adding(m)) + (IF m \in ToSet(ListOf(m)) THEN 1 ELSE 0)
                              + (IF m \in removed THEN 1 ELSE 0)
               /\ m \notin ToSet(IF Kind[m] = "library" THEN devList ELSE libList)
    <3>1. Located(m)
      BY DEF LibInv, Linked
    <3>2. Adding(m) = {} => Cardinality(Adding(m)) = 0
      BY FS_EmptySet
    <3>3. (\E t \in Task : Adding(m) = {t}) => Cardinality(Adding(m)) = 1
      BY FS_Singleton
    <3> QED
      BY <3>1, <3>2, <3>3 DEF Located, InPlace
  <2> QED
    BY <2>1 DEF LibInv, Linked, ListsExact
<1> QED
  BY <1>1, LibInvAlways, PTL

\* Residents are set up by class and priority, whatever the order of their addresses,
\* each exactly once (initresidentcode.c:23-36).
THEOREM BootCorrect == Spec => []BootOrder
<1>1. LibInv => BootOrder
  BY BootInOrder DEF LibInv, TypeOK, Halted
<1> QED
  BY <1>1, LibInvAlways, PTL

\* lib_OpenCnt counts the opens and timer.device's failed ones, modulo its width, but
\* for a library whose increment another task has cut (_library.c:18, timerdevice.c:8).
THEOREM OpenCountCorrect == Spec => []OpenCntExact
<1>1. LibInv => OpenCntExact
  BY DEF LibInv
<1> QED
  BY <1>1, LibInvAlways, PTL
---------------------------------------------------------------------------
(***************************************************************************)
(* expansion.library, for any makers, nodes and names.                     *)
(*                                                                         *)
(* Neither of its properties is inductive by itself.  Owned says what the  *)
(* node of each running call has become so far, and that no two calls      *)
(* share one; Searched says that a call which gets past its search holds a *)
(* name nobody had when the search began.                                  *)
(***************************************************************************)
\* The blocks a call has allocated when it comes to a step.
BlocksAt(s) == IF s = "dosName" THEN {"node"}
               ELSE IF s = "execName" THEN {"node", "dosName"} ELSE Whole

Busy(t) == step[t] # "idle"

Owned ==
  \A t \in Maker : Busy(t) =>
    /\ node[t] \in Node
    /\ blocks[node[t]] = BlocksAt(step[t])
    /\ step[t] # "dosName" => dosName[node[t]] # NoName
    /\ step[t] # "release" => node[t] \notin ToSet(mount)
    /\ \A u \in Maker : Busy(u) /\ node[u] = node[t] => u = t

\* Blocks are all there, or not there, or a call is about to change that.
Made ==
  \A n \in Node :
    blocks[n] \in {{}, Whole} \/ \E t \in Maker : node[t] = n /\ step[t] \in {"dosName", "execName"}

Mounted ==
  /\ Distinct(mount)
  /\ \A n \in ToSet(mount) : blocks[n] = Whole /\ dosName[n] # NoName

\* No node that the search for n began with has its name.
Clean(n) == \A q \in sawAt[n] : dosName[q] # dosName[n]

Searched ==
  /\ \A n \in Node : sawAt[n] \subseteq ToSet(mount)
  /\ \A t \in Maker :
       (step[t] = "search" /\ ~found[t]) \/ step[t] \in {"obtain", "link"} => Clean(node[t])
  /\ \A p, q \in ToSet(mount) : p # q /\ dosName[p] = dosName[q] => p \notin sawAt[q]

ExpInv == ExpTypeOK /\ Owned /\ Made /\ Mounted /\ Searched
---------------------------------------------------------------------------
\* At the beginning there are no nodes and no calls.
LEMMA ExpInvInit == ExpInit => ExpInv
<1> SUFFICES ASSUME ExpInit PROVE ExpInv
  OBVIOUS
<1>1. Distinct(mount) /\ ToSet(mount) = {} /\ mount \in Seq(Node)
  BY DEF ExpInit, Distinct, ToSet
<1>2. ExpTypeOK
  BY <1>1 DEF ExpInit, ExpTypeOK, Steps, Whole
<1>3. Owned /\ Made
  BY DEF ExpInit, Owned, Made, Busy
<1>4. Mounted /\ Searched
  BY <1>1 DEF ExpInit, Mounted, Searched
<1> QED
  BY <1>2, <1>3, <1>4 DEF ExpInv

\* A new node is one no call has and nobody has mounted.
LEMMA MakeDosNodeKeeps ==
  ASSUME ExpInv, NEW t \in Maker, NEW n \in Node, NEW name \in DosName \cup {NoName},
         MakeDosNode(t, n, name)
  PROVE  ExpInv'
<1> USE DEF ExpInv
<1>1. /\ step[t] = "idle" /\ blocks[n] = {} /\ step' = [step EXCEPT ![t] = "dosName"]
      /\ node' = [node EXCEPT ![t] = n] /\ blocks' = [blocks EXCEPT ![n] = @ \cup {"node"}]
      /\ dosName' = [dosName EXCEPT ![n] = name]
      /\ UNCHANGED <<mount, lock, found, sawAt, stuck>>
  BY DEF MakeDosNode, At, Step, Add
<1>2. n \notin ToSet(mount)
  BY <1>1 DEF Mounted, Whole
<1>3. \A u \in Maker : Busy(u) => node[u] # n
  BY <1>1 DEF Owned, BlocksAt, Whole
<1>4. ExpTypeOK'
  BY <1>1 DEF ExpTypeOK, Steps, Whole
<1>5. Owned'
  BY <1>1, <1>2, <1>3 DEF Owned, Busy, BlocksAt, ExpTypeOK
<1>6. Made'
  BY <1>1, <1>3 DEF Made, Busy, ExpTypeOK
<1>7. Mounted'
  BY <1>1, <1>2 DEF Mounted, ExpTypeOK
<1>8. Searched'
  BY <1>1, <1>2, <1>3 DEF Searched, Clean, Busy, ExpTypeOK, Owned
<1> QED
  BY <1>4, <1>5, <1>6, <1>7, <1>8

\* The next block of a node that one call alone has.
LEMMA MakeNameKeeps ==
  ASSUME ExpInv, NEW t \in Maker, MakeDosName(t) \/ MakeExecName(t)
  PROVE  ExpInv'
<1> USE DEF ExpInv
<1> DEFINE s == IF step[t] = "dosName" THEN "execName" ELSE "made"
           b == IF step[t] = "dosName" THEN "dosName" ELSE "execName"
<1>1. /\ step[t] \in {"dosName", "execName"}
      /\ step[t] = "dosName" => dosName[node[t]] # NoName
      /\ step' = [step EXCEPT ![t] = s]
      /\ blocks' = [blocks EXCEPT ![node[t]] = @ \cup {b}]
      /\ UNCHANGED <<dosName, mount, lock, node, found, sawAt, stuck>>
  BY DEF MakeDosName, MakeExecName, At, Step, Add
<1>2. /\ node[t] \in Node /\ node[t] \notin ToSet(mount) /\ dosName[node[t]] # NoName
      /\ blocks[node[t]] \cup {b} = BlocksAt(s)
      /\ \A u \in Maker : Busy(u) /\ node[u] = node[t] => u = t
  BY <1>1 DEF Owned, Busy, BlocksAt, Whole
<1>3. ExpTypeOK'
  BY <1>1, <1>2 DEF ExpTypeOK, Steps, Whole
<1>4. Owned'
  BY <1>1, <1>2 DEF Owned, Busy, BlocksAt, ExpTypeOK
<1>5. Made'
  BY <1>1, <1>2 DEF Made, Busy, BlocksAt, Whole, ExpTypeOK
<1>6. Mounted'
  BY <1>1, <1>2 DEF Mounted, ExpTypeOK
<1>7. Searched'
  BY <1>1 DEF Searched, Clean, ExpTypeOK
<1> QED
  BY <1>3, <1>4, <1>5, <1>6, <1>7

\* A call that fails leaves no block of its node.
LEMMA MakeFailsKeeps ==
  ASSUME ExpInv, NEW t \in Maker, MakeFails(t)
  PROVE  ExpInv'
<1> USE DEF ExpInv
<1> DEFINE gone == IF step[t] = "dosName" THEN {"node"} ELSE {"node", "dosName"}
<1>1. /\ step[t] \in {"dosName", "execName"}
      /\ step' = [step EXCEPT ![t] = "idle"] /\ node' = [node EXCEPT ![t] = None]
      /\ blocks' = [blocks EXCEPT ![node[t]] = @ \ gone]
      /\ dosName' = [dosName EXCEPT ![node[t]] = NoName]
      /\ UNCHANGED <<mount, lock, found, sawAt, stuck>>
  BY DEF MakeFails, At, Idle, Step
<1>2. /\ node[t] \in Node /\ node[t] \notin ToSet(mount)
      /\ blocks[node[t]] \ gone = {}
      /\ \A u \in Maker : Busy(u) /\ node[u] = node[t] => u = t
  BY <1>1 DEF Owned, Busy, BlocksAt
<1>3. ExpTypeOK'
  BY <1>1, <1>2 DEF ExpTypeOK, Steps, Whole
<1>4. Owned'
  BY <1>1, <1>2 DEF Owned, Busy, BlocksAt, ExpTypeOK
<1>5. Made'
  <2>1. blocks'[node[t]] = {} /\ \A m \in Node : m # node[t] => blocks'[m] = blocks[m]
    BY <1>1, <1>2 DEF ExpTypeOK
  <2>2. \A u \in Maker : node[u] # node[t] => node'[u] = node[u] /\ step'[u] = step[u]
    BY <1>1 DEF ExpTypeOK
  <2> QED
    BY <2>1, <2>2 DEF Made
<1>6. Mounted'
  BY <1>1, <1>2 DEF Mounted, ExpTypeOK
<1>7. Searched'
  <2>1. \A u \in Maker : Busy(u)' => node'[u] = node[u] /\ node[u] # node[t] /\ step'[u] = step[u]
    BY <1>1, <1>2 DEF Busy, ExpTypeOK
  <2>2. \A m \in ToSet(mount) : dosName'[m] = dosName[m]
    BY <1>1, <1>2 DEF ExpTypeOK
  <2>3. \A u \in Maker : Busy(u)' => node[u] \in Node /\ dosName'[node[u]] = dosName[node[u]]
    BY <1>1, <2>1 DEF Owned, Busy, ExpTypeOK
  <2> QED
    BY <1>1, <2>1, <2>2, <2>3 DEF Searched, Clean, Busy, ExpTypeOK
<1> QED
  BY <1>3, <1>4, <1>5, <1>6, <1>7

\* The search: what it begins with is what is mounted.
LEMMA SearchKeeps ==
  ASSUME ExpInv, NEW t \in Maker, AddDosNode(t) \/ SearchEnd(t) \/ Obtain(t)
  PROVE  ExpInv'
<1> USE DEF ExpInv
<1>1. step[t] \in {"made", "search", "obtain"} /\ UNCHANGED <<blocks, dosName, mount>>
  BY DEF AddDosNode, SearchEnd, Obtain, At
<1>2. /\ node[t] \in Node /\ node[t] \notin ToSet(mount)
      /\ blocks[node[t]] = Whole /\ dosName[node[t]] # NoName
      /\ \A u \in Maker : Busy(u) /\ node[u] = node[t] => u = t
  BY <1>1 DEF Owned, Busy, BlocksAt
<1>3. CASE AddDosNode(t)
  <2>1. /\ step' = [step EXCEPT ![t] = "search"] /\ sawAt' = [sawAt EXCEPT ![node[t]] = ToSet(mount)]
        /\ found' = [found EXCEPT ![t] = Same(node[t], mount)]
        /\ UNCHANGED <<lock, node, stuck>> /\ step[t] = "made"
    BY <1>3 DEF AddDosNode, Step, At
  <2>2. ToSet(mount) \subseteq Node /\ Same(node[t], mount) \in BOOLEAN
    BY ElementOfSeq, LenProperties DEF ExpTypeOK, ToSet, Same
  <2>3. ExpTypeOK'
    BY <1>1, <1>2, <2>1, <2>2 DEF ExpTypeOK, Steps
  <2>4. Owned' /\ Made' /\ Mounted'
    BY <1>1, <1>2, <2>1 DEF Owned, Made, Mounted, Busy, BlocksAt, ExpTypeOK
  <2>5. ~found'[t] => Clean(node[t])'
    BY <1>1, <1>2, <2>1, LenProperties DEF Clean, Same, ToSet, ExpTypeOK
  <2>6. Searched'
    <3>1. \A n \in Node : sawAt'[n] \subseteq ToSet(mount')
      BY <1>1, <2>1 DEF Searched, ExpTypeOK
    <3>2. ASSUME NEW u \in Maker, (step'[u] = "search" /\ ~found'[u]) \/ step'[u] \in {"obtain", "link"}
          PROVE  Clean(node[u])'
      <4>1. CASE u = t
        BY <2>1, <2>5, <3>2, <4>1 DEF ExpTypeOK
      <4>2. CASE u # t
        <5>1. step'[u] = step[u] /\ found'[u] = found[u] /\ node[u] # node[t] /\ Clean(node[u])
          BY <1>2, <2>1, <3>2, <4>2 DEF Searched, Busy, ExpTypeOK
        <5> QED
          BY <1>1, <2>1, <5>1 DEF Clean, ExpTypeOK
      <4> QED
        BY <4>1, <4>2
    <3>3. \A p, q \in ToSet(mount) : p # q /\ dosName[p] = dosName[q] => p \notin sawAt'[q]
      BY <1>2, <2>1 DEF Searched, ExpTypeOK
    <3> QED
      BY <1>1, <2>1, <3>1, <3>2, <3>3 DEF Searched, Clean
  <2> QED
    BY <2>3, <2>4, <2>6
<1>4. CASE SearchEnd(t)
  <2>1. /\ step[t] = "search" /\ found' = [found EXCEPT ![t] = FALSE]
        /\ UNCHANGED <<lock, sawAt, stuck>>
        /\ \/ step' = [step EXCEPT ![t] = "idle"] /\ node' = [node EXCEPT ![t] = None]
           \/ ~found[t] /\ step' = [step EXCEPT ![t] = "obtain"] /\ node' = node
    BY <1>4 DEF SearchEnd, At, Idle, Step
  <2>2. ExpTypeOK'
    BY <1>1, <2>1 DEF ExpTypeOK, Steps
  <2>3. Owned' /\ Made' /\ Mounted'
    BY <1>1, <1>2, <2>1 DEF Owned, Made, Mounted, Busy, BlocksAt, ExpTypeOK
  <2>4. Searched'
    BY <1>1, <2>1 DEF Searched, Clean, ExpTypeOK
  <2> QED
    BY <2>2, <2>3, <2>4
<1>5. CASE Obtain(t)
  <2>1. /\ step[t] = "obtain" /\ lock' \in {lock, t} /\ stuck' \in {stuck, TRUE}
        /\ UNCHANGED <<node, found, sawAt>>
        /\ step' = step \/ step' = [step EXCEPT ![t] = "link"]
    BY <1>5 DEF Obtain, At, Step
  <2>2. ExpTypeOK'
    BY <1>1, <2>1 DEF ExpTypeOK, Steps
  <2>3. Owned' /\ Made' /\ Mounted'
    BY <1>1, <1>2, <2>1 DEF Owned, Made, Mounted, Busy, BlocksAt, ExpTypeOK
  <2>4. Searched'
    BY <1>1, <2>1 DEF Searched, Clean, ExpTypeOK
  <2> QED
    BY <2>2, <2>3, <2>4
<1> QED
  BY <1>3, <1>4, <1>5

\* A node is linked whose name nobody had when its search began, and which no search
\* that is over can have met.
LEMMA MountKeeps ==
  ASSUME ExpInv, NEW t \in Maker, Mount(t)
  PROVE  ExpInv'
<1> USE DEF ExpInv
<1> DEFINE n == node[t]
<1>1. /\ step[t] = "link" /\ step' = [step EXCEPT ![t] = "release"]
      /\ mount' = Enqueue(mount, n, BootPri)
      /\ UNCHANGED <<blocks, dosName, lock, node, found, sawAt, stuck>>
  BY DEF Mount, At, Step
<1>2. /\ n \in Node /\ n \notin ToSet(mount) /\ blocks[n] = Whole /\ dosName[n] # NoName
      /\ \A u \in Maker : Busy(u) /\ node[u] = n => u = t
  BY <1>1 DEF Owned, Busy, BlocksAt
<1>3. mount' \in Seq(Node) /\ ToSet(mount') = ToSet(mount) \cup {n}
  BY <1>1, <1>2, EnqueueMembers DEF ExpTypeOK
<1>4. Distinct(mount')
  BY <1>1, <1>2, EnqueueDistinct DEF ExpTypeOK, Mounted
<1>5. ExpTypeOK'
  BY <1>1, <1>3 DEF ExpTypeOK, Steps
<1>6. Owned'
  BY <1>1, <1>2, <1>3 DEF Owned, Busy, BlocksAt, ExpTypeOK
<1>7. Made'
  BY <1>1 DEF Made, ExpTypeOK
<1>8. Mounted'
  BY <1>1, <1>2, <1>3, <1>4 DEF Mounted
<1>9. Searched'
  <2>1. Clean(n) /\ \A q \in Node : n \notin sawAt[q]
    BY <1>1, <1>2 DEF Searched
  <2>2. ToSet(mount) \subseteq Node
    BY <1>3, ElementOfSeq, LenProperties DEF ToSet, ExpTypeOK
  <2>3. \A p, q \in ToSet(mount') : p # q /\ dosName[p] = dosName[q] => p \notin sawAt[q]
    BY <1>2, <1>3, <2>1, <2>2 DEF Searched, Clean
  <2>4. \A u \in Maker : step'[u] # "release" => step'[u] = step[u]
    BY <1>1 DEF ExpTypeOK
  <2> QED
    BY <1>1, <1>3, <2>3, <2>4 DEF Searched, Clean
<1> QED
  BY <1>5, <1>6, <1>7, <1>8, <1>9

\* The call returns; its node stays whole.
LEMMA ReleaseKeeps ==
  ASSUME ExpInv, NEW t \in Maker, Release(t)
  PROVE  ExpInv'
<1> USE DEF ExpInv
<1>1. /\ step[t] = "release" /\ lock' = None
      /\ step' = [step EXCEPT ![t] = "idle"] /\ node' = [node EXCEPT ![t] = None]
      /\ UNCHANGED <<blocks, dosName, mount, found, sawAt, stuck>>
  BY DEF Release, At, Idle, Step
<1>2. ExpTypeOK'
  BY <1>1 DEF ExpTypeOK, Steps
<1>3. Owned' /\ Made' /\ Mounted'
  BY <1>1 DEF Owned, Made, Mounted, Busy, BlocksAt, ExpTypeOK
<1>4. Searched'
  BY <1>1 DEF Searched, Clean, ExpTypeOK
<1> QED
  BY <1>2, <1>3, <1>4

\* Every step keeps the invariant.
LEMMA ExpInvStep == ExpInv /\ [ExpNext]_expVars => ExpInv'
<1> SUFFICES ASSUME ExpInv, [ExpNext]_expVars PROVE ExpInv'
  OBVIOUS
<1>1. CASE ExpNext
  BY <1>1, MakeDosNodeKeeps, MakeNameKeeps, MakeFailsKeeps, SearchKeeps, MountKeeps, ReleaseKeeps
     DEF ExpNext, MakerStep
<1>2. CASE UNCHANGED expVars
  BY <1>2 DEF expVars, ExpInv, ExpTypeOK, Owned, Busy, Made, Mounted, Searched, Clean
<1> QED
  BY <1>1, <1>2
\* ExpInv holds in every state.
LEMMA ExpInvAlways == ExpSpec => []ExpInv
BY ExpInvInit, ExpInvStep, PTL DEF ExpSpec

\* No path of MakeDosNode leaks a block or keeps half a node, and what is mounted is
\* whole and named.
THEOREM NodesAreWhole == ExpSpec => []NodesWhole
<1>1. ExpInv => NodesWhole
  <2> SUFFICES ASSUME ExpInv PROVE NodesWhole
    OBVIOUS
  <2>1. \A i \in 1..Len(mount) : mount[i] \in ToSet(mount)
    BY LenProperties DEF ToSet, ExpInv, ExpTypeOK
  <2> QED
    BY <2>1 DEF ExpInv, Made, Mounted, NodesWhole
<1> QED
  BY <1>1, ExpInvAlways, PTL

\* Two nodes of one name are mounted only by calls that overlap.
THEOREM OnlyOverlapDuplicates == ExpSpec => []DuplicatesOverlap
<1>1. ExpInv => DuplicatesOverlap
  <2> SUFFICES ASSUME ExpInv PROVE DuplicatesOverlap
    OBVIOUS
  <2>1. \A i \in 1..Len(mount) : mount[i] \in ToSet(mount)
    BY LenProperties DEF ToSet, ExpInv, ExpTypeOK
  <2> QED
    BY <2>1 DEF ExpInv, Mounted, Searched, Distinct, DuplicatesOverlap
<1> QED
  BY <1>1, ExpInvAlways, PTL
----------------------------------------------------------------------------
(***************************************************************************)
(* Interrupt servers, for any drivers, priorities and enabled lines.       *)
(*                                                                         *)
(* The look-up first: the shifted words of the de Bruijn multiplication as *)
(* a table, checked entry by entry.  Then the chains: Ordered says that a  *)
(* chain has its servers by priority and age, which adding and removing    *)
(* keep although the age of the others is counted from new places; and     *)
(* KernelInFront that only a higher server can keep _IRQServer from being  *)
(* called.                                                                 *)
(***************************************************************************)
\* The upper and lower halves of 0x077CB531 shifted up by 0 to 31 bits.
Uppers == <<
  1916, 3833, 7666, 15333, 30667, 61334, 57133, 48730, 31925, 63850, 62164, 58793,
  52051, 38566, 11596, 23192, 46385, 27234, 54468, 43400, 21264, 42528, 19520, 39040,
  12544, 25088, 50176, 34816, 4096, 8192, 16384, 32768>>
Lowers == <<
  46385, 27234, 54468, 43400, 21264, 42528, 19520, 39040, 12544, 25088, 50176, 34816,
  4096, 8192, 16384, 32768, 0, 0, 0, 0, 0, 0, 0, 0, 0, 0, 0, 0, 0, 0, 0, 0>>

\* Each shift doubles the last one and loses what leaves the 32 bits.
LEMMA ShiftsDouble ==
  \A n \in 0..30 :
    /\ Uppers[n + 2] = (2 * Uppers[n + 1] + (2 * Lowers[n + 1]) \div HalfSize) % HalfSize
    /\ Lowers[n + 2] = (2 * Lowers[n + 1]) % HalfSize
<1> TAKE n \in 0..30
<1>1. Uppers[n + 2] = (2 * Uppers[n + 1] + (2 * Lowers[n + 1]) \div HalfSize) % HalfSize
  BY SMTT(30) DEF Uppers, Lowers, HalfSize
<1>2. Lowers[n + 2] = (2 * Lowers[n + 1]) % HalfSize
  BY SMTT(30) DEF Lowers, HalfSize
<1> QED
  BY <1>1, <1>2

LEMMA HalvesType ==
  \A n \in 0..31 : /\ Uppers[n + 1] \in Int /\ 0 <= Uppers[n + 1] /\ Uppers[n + 1] < 65536
                   /\ Lowers[n + 1] \in Int /\ 0 <= Lowers[n + 1] /\ Lowers[n + 1] < 65536
<1> TAKE n \in 0..31
<1>1. Uppers[n + 1] \in Int /\ 0 <= Uppers[n + 1] /\ Uppers[n + 1] < 65536
  BY SMTT(30) DEF Uppers
<1>2. Lowers[n + 1] \in Int /\ 0 <= Lowers[n + 1] /\ Lowers[n + 1] < 65536
  BY SMTT(30) DEF Lowers
<1> QED
  BY <1>1, <1>2

\* Their five upper bits are different, and the table names the shift by them.
LEMMA TableFinds == \A n \in 0..31 : DeBruijn[(Uppers[n + 1] \div 2048) + 1] = n
BY SMTT(30) DEF Uppers, DeBruijn

LEMMA ShiftedIs ==
  \A n \in 0..31 : Shifted[n] = [hi |-> Uppers[n + 1], lo |-> Lowers[n + 1]]
<1> DEFINE F(f) == [n \in 0..31 |->
                     IF n = 0 THEN [hi |-> 1916, lo |-> 46385]
                     ELSE [hi |-> (2 * f[n - 1].hi + (2 * f[n - 1].lo) \div HalfSize) % HalfSize,
                           lo |-> (2 * f[n - 1].lo) % HalfSize]]
           w == [n \in 0..31 |-> [hi |-> Uppers[n + 1], lo |-> Lowers[n + 1]]]
<1>1. w = F(w)
  <2>1. Uppers[1] = 1916 /\ Lowers[1] = 46385
    BY DEF Uppers, Lowers
  <2>2. ASSUME NEW n \in 1..31 PROVE w[n] = F(w)[n]
    <3>1. n - 1 \in 0..30 /\ (n - 1) + 2 = n + 1 /\ (n - 1) + 1 = n /\ n # 0 /\ n \in 0..31
          /\ n - 1 \in 0..31
      OBVIOUS
    <3>2. /\ Uppers[n + 1] = (2 * Uppers[n] + (2 * Lowers[n]) \div HalfSize) % HalfSize
          /\ Lowers[n + 1] = (2 * Lowers[n]) % HalfSize
      BY <3>1, ShiftsDouble
    <3>3. w[n - 1] = [hi |-> Uppers[n], lo |-> Lowers[n]]
      BY <3>1
    <3> QED
      BY <3>1, <3>2, <3>3
  <2>3. \A n \in 0..31 : w[n] = F(w)[n]
    <3>1. w[0] = F(w)[0]
      BY <2>1
    <3>2. \A n \in 0..31 : n = 0 \/ n \in 1..31
      OBVIOUS
    <3> HIDE DEF w, F
    <3> QED
      BY <2>2, <3>1, <3>2
  <2>4. F(w) = [n \in 0..31 |-> F(w)[n]]
    OBVIOUS
  <2>5. w = [n \in 0..31 |-> w[n]]
    OBVIOUS
  <2> HIDE DEF w, F
  <2> QED
    BY <2>3, <2>4, <2>5
<1>2. Shifted = F(Shifted)
  <2>1. Shifted = CHOOSE f : f = F(f)
    BY DEF Shifted
  <2> HIDE DEF F, w
  <2> QED
    BY <1>1, <2>1
<1>3. \A n \in 0..31 : (n # 0 => Shifted[n - 1] = w[n - 1]) => Shifted[n] = w[n]
  <2> SUFFICES ASSUME NEW n \in 0..31, n # 0 => Shifted[n - 1] = w[n - 1]
               PROVE  F(Shifted)[n] = F(w)[n]
    <3> HIDE DEF F, w
    <3> QED
      BY <1>1, <1>2
  <2> HIDE DEF w
  <2> QED
    OBVIOUS
<1> HIDE DEF w
<1> DEFINE bad == {n \in 0..31 : Shifted[n] # w[n]}
<1>4. bad = {}
  <2> SUFFICES ASSUME bad # {} PROVE FALSE
    OBVIOUS
  <2>1. bad \in SUBSET Nat
    OBVIOUS
  <2>2. PICK n \in bad : \A k \in bad : n <= k
    BY <2>1, MinIsLeast
  <2>3. n # 0 => Shifted[n - 1] = w[n - 1]
    BY <2>2
  <2> QED
    BY <1>3, <2>2, <2>3
<1> QED
  BY <1>4 DEF w

\* The multiplication of one bit is a shift, and its upper five bits find the bit.
LEMMA BitIsFound == ASSUME NEW n \in 0..31 PROVE BitPosition({n}) = n
<1> DEFINE base == [hi |-> 0, lo |-> 0]
           add(k, x) == [hi |-> (x.hi + Shifted[k].hi + (x.lo + Shifted[k].lo) \div HalfSize) % HalfSize,
                         lo |-> (x.lo + Shifted[k].lo) % HalfSize]
           F(f) == [s \in SUBSET {n} |->
                     IF s = {} THEN base
                     ELSE add(CHOOSE x \in s : TRUE, f[s \ {CHOOSE x \in s : TRUE}])]
           w == [s \in SUBSET {n} |-> IF s = {} THEN base ELSE add(n, base)]
           iter == CHOOSE f : f = F(f)
<1>1. Product({n}) = iter[{n}]
  BY Zenon DEF Product, FoldSet, MapThenFoldSet
<1>2. w = F(w)
  <2> HIDE DEF add, base
  <2>1. \A s \in SUBSET {n} : s = {} \/ s = {n}
    OBVIOUS
  <2>2. (CHOOSE x \in {n} : TRUE) = n /\ {n} \ {n} = {}
    OBVIOUS
  <2>3. w[{}] = F(w)[{}] /\ w[{n}] = F(w)[{n}]
    BY <2>2
  <2> QED
    BY <2>1, <2>3
<1>3. iter = F(iter)
  <2> HIDE DEF F, w
  <2> QED
    BY <1>2
<1>4. iter[{n}] = add(n, base)
  <2> HIDE DEF add, base, iter
  <2>1. (CHOOSE x \in {n} : TRUE) = n /\ {n} \ {n} = {} /\ {} \in SUBSET {n} /\ {n} \in SUBSET {n}
    OBVIOUS
  <2>2. iter[{}] = base
    BY <1>3, <2>1
  <2>3. iter[{n}] = add(n, iter[{}])
    BY <1>3, <2>1
  <2> QED
    BY <2>2, <2>3
<1>5. Shifted[n].hi = Uppers[n + 1] /\ Shifted[n].lo = Lowers[n + 1]
  BY ShiftedIs
<1>6. /\ Uppers[n + 1] \in Int /\ 0 <= Uppers[n + 1] /\ Uppers[n + 1] < 65536
      /\ Lowers[n + 1] \in Int /\ 0 <= Lowers[n + 1] /\ Lowers[n + 1] < 65536
  BY HalvesType
<1>7. Product({n}).hi = (0 + Shifted[n].hi + (0 + Shifted[n].lo) \div HalfSize) % HalfSize
  <2> HIDE DEF iter
  <2> QED
    BY <1>1, <1>4
<1>8. Product({n}).hi = Uppers[n + 1]
  BY <1>5, <1>6, <1>7 DEF HalfSize
<1> QED
  BY <1>8, TableFinds DEF BitPosition

\* If one line of the first register with any is pending, it is the one looked up.
LEMMA LineIsFound ==
  ASSUME NEW p \in SUBSET (0..71), NEW n \in 0..71, FirstBank(p) = {n}
  PROVE  LineOf(p) = n
<1>1. CASE \E k \in p : k < 32
  <2>1. Pend1(p) = {n} /\ n \in 0..31
    BY <1>1 DEF FirstBank, Pend1
  <2>2. 8 \in Pend3(p)
    BY <2>1 DEF Pend3
  <2> QED
    BY <2>1, <2>2, BitIsFound DEF LineOf
<1>2. CASE ~(\E k \in p : k < 32) /\ \E k \in p : k < 64
  <2>1. n \in p /\ n \in 32..63 /\ \A k \in p : k < 64 => k = n
    BY <1>2 DEF FirstBank
  <2>2. Pend1(p) = {}
    BY <1>2 DEF Pend1
  <2>3. Pend2(p) = {n - 32}
    BY <2>1 DEF Pend2
  <2>4. 9 \in Pend3(p) /\ n - 32 \in 0..31
    BY <2>1, <2>3 DEF Pend3
  <2>5. 8 \notin Pend3(p)
    BY <2>2 DEF Pend3
  <2>6. BitPosition({n - 32}) = n - 32
    BY <2>4, BitIsFound
  <2> QED
    BY <2>3, <2>4, <2>5, <2>6 DEF LineOf
<1>3. CASE ~(\E k \in p : k < 32) /\ ~(\E k \in p : k < 64)
  <2>1. p = {n} /\ n \in 64..71
    BY <1>3 DEF FirstBank
  <2>2. Pend1(p) = {} /\ Pend2(p) = {} /\ n - 64 \in 0..7
    BY <2>1 DEF Pend1, Pend2
  <2>3. Pend3(p) = {n - 64}
    BY <2>1, <2>2 DEF Pend3
  <2>4. 8 \notin Pend3(p) /\ 9 \notin Pend3(p) /\ n - 64 \in 0..31
    BY <2>2, <2>3
  <2>5. BitPosition({n - 64}) = n - 64
    BY <2>4, BitIsFound
  <2> QED
    BY <2>3, <2>4, <2>5 DEF LineOf
<1> QED
  BY <1>1, <1>2, <1>3
----------------------------------------------------------------------------
(***************************************************************************)
(* Chains.                                                                 *)
(***************************************************************************)
\* A chain is gone through up to a place k: nobody in front of it has claimed, and
\* either somebody there has, or it is the end.
LEMMA CalledFront ==
  ASSUME NEW T, NEW q \in Seq(T), NEW yes
  PROVE  \E k \in 0..Len(q) :
           /\ ToSet(Called(q, yes)) = {q[i] : i \in 1..k}
           /\ \A i \in 1..Len(q) : i < k => q[i] \notin yes
           /\ k < Len(q) => k >= 1 /\ q[k] \in yes
<1> DEFINE I == {i \in 1..Len(q) : q[i] \in yes}
           s == SelectInSeq(q, LAMBDA x : x \in yes)
<1>0. Len(q) \in Nat /\ DOMAIN q = 1..Len(q)
  BY LenProperties
<1>1. s = IF I # {} THEN Min(I) ELSE 0
  BY Zenon DEF SelectInSeq
<1>2. Called(q, yes) = IF s = 0 THEN q ELSE SubSeq(q, 1, s)
  BY Zenon DEF Called
<1> HIDE DEF s
<1>3. CASE I = {}
  <2>1. Called(q, yes) = q
    BY <1>1, <1>2, <1>3
  <2>2. ToSet(q) = {q[i] : i \in 1..Len(q)}
    BY <1>0 DEF ToSet
  <2> QED
    BY <1>0, <1>3, <2>1, <2>2
<1>4. CASE I # {}
  <2>1. s \in I /\ \A i \in I : s <= i
    <3>1. I \in SUBSET Nat
      BY <1>0
    <3> HIDE DEF I
    <3> QED
      BY <1>1, <1>4, <3>1, MinIsLeast
  <2>2. s \in 1..Len(q) /\ q[s] \in yes /\ \A i \in 1..Len(q) : i < s => q[i] \notin yes
    BY <1>0, <2>1
  <2>3. Called(q, yes) = SubSeq(q, 1, s)
    BY <1>2, <2>2
  <2>4. /\ Len(SubSeq(q, 1, s)) = s /\ DOMAIN SubSeq(q, 1, s) = 1..s
        /\ \A i \in 1..s : SubSeq(q, 1, s)[i] = q[i]
    BY <1>0, <2>2
  <2>5. ToSet(SubSeq(q, 1, s)) = {q[i] : i \in 1..s}
    BY <2>4 DEF ToSet
  <2> QED
    BY <1>0, <2>2, <2>3, <2>5
<1> QED
  BY <1>3, <1>4

Driver == Server \cup {Tick}

\* s stands in front of t in the order of priorities and, among equals, in that of a.
Ahead(a, s, t) ==
  \/ SrvPri[s] > SrvPri[t]
  \/ /\ SrvPri[s] = SrvPri[t]
     /\ \E i, j \in 1..Len(a) : i < j /\ a[i] = s /\ a[j] = t

Ordered(a, q) == \A i, j \in 1..Len(q) : i < j => Ahead(a, q[i], q[j])

LEMMA AheadOneWay ==
  ASSUME NEW a \in Seq(Driver), Distinct(a), NEW s \in Driver, NEW t \in Driver, Ahead(a, s, t)
  PROVE  s # t /\ ~Ahead(a, t, s)
<1>1. SrvPri[s] \in Int /\ SrvPri[t] \in Int
  BY IntAssumption DEF Driver
<1>2. Len(a) \in Nat
  BY LenProperties
<1>3. \A i, j, k, l \in 1..Len(a) :
        i < j /\ a[i] = s /\ a[j] = t /\ k < l /\ a[k] = t /\ a[l] = s => FALSE
  BY <1>2 DEF Distinct
<1>4. \A i, j \in 1..Len(a) : i < j /\ a[i] = s /\ a[j] = t => s # t
  BY <1>2 DEF Distinct
<1> QED
  BY <1>1, <1>3, <1>4 DEF Ahead

\* A server that is added puts no others out of order.
LEMMA AppendOrdered ==
  ASSUME NEW a \in Seq(Driver), NEW s \in Driver
  PROVE  /\ \A x, y : Ahead(a, x, y) => Ahead(Append(a, s), x, y)
         /\ \A q : Ordered(a, q) => Ordered(Append(a, s), q)
<1> DEFINE b == Append(a, s)
<1>1. Len(a) \in Nat /\ Len(b) = Len(a) + 1 /\ \A i \in 1..Len(a) : b[i] = a[i]
  BY LenProperties
<1> HIDE DEF b
<1>2. \A x, y : Ahead(a, x, y) => Ahead(b, x, y)
  BY <1>1 DEF Ahead
<1> QED
  BY <1>2 DEF Ordered, b

\* A server that comes last in time takes its place behind its equals.
LEMMA EnqueueOrdered ==
  ASSUME NEW a \in Seq(Driver), NEW q \in Seq(Driver), NEW s \in Driver,
         ToSet(q) \subseteq ToSet(a), Ordered(a, q)
  PROVE  Ordered(Append(a, s), Enqueue(q, s, SrvPri))
<1> DEFINE e == Enqueue(q, s, SrvPri)
           b == Append(a, s)
<1>1. PICK k \in 1..(Len(q) + 1) : PutAt(e, q, s, SrvPri, k)
  BY EnqueueAt
<1> HIDE DEF e
<1>2. Len(q) \in Nat /\ Len(a) \in Nat /\ DOMAIN a = 1..Len(a)
  BY LenProperties
<1>3. /\ Len(b) = Len(a) + 1 /\ b[Len(a) + 1] = s
      /\ \A i \in 1..Len(a) : b[i] = a[i]
  BY <1>2
<1>4. \A x, y : Ahead(a, x, y) => Ahead(b, x, y)
  BY AppendOrdered
<1> HIDE DEF b
<1>5. \A i \in 1..Len(q) : q[i] \in Driver /\ SrvPri[q[i]] \in Int
  BY IntAssumption DEF Driver
<1>6. SrvPri[s] \in Int
  BY IntAssumption DEF Driver
<1>7. \A i \in 1..Len(q) : SrvPri[q[i]] >= SrvPri[s] => Ahead(b, q[i], s)
  <2> SUFFICES ASSUME NEW i \in 1..Len(q), SrvPri[q[i]] = SrvPri[s] PROVE Ahead(b, q[i], s)
    BY <1>5, <1>6 DEF Ahead
  <2>1. PICK j \in 1..Len(a) : a[j] = q[i]
    <3>1. q[i] \in ToSet(q)
      BY LenProperties DEF ToSet
    <3> QED
      BY <1>2, <3>1 DEF ToSet
  <2>2. /\ j \in 1..Len(b) /\ Len(a) + 1 \in 1..Len(b) /\ j < Len(a) + 1
        /\ b[j] = q[i] /\ b[Len(a) + 1] = s
    BY <1>2, <1>3, <2>1
  <2> QED
    BY <2>2 DEF Ahead
<1>8. /\ Len(e) = Len(q) + 1
      /\ \A i \in 1..(Len(q) + 1) : e[i] = IF i < k THEN q[i] ELSE IF i = k THEN s ELSE q[i - 1]
      /\ \A i \in 1..(k - 1) : ~(SrvPri[s] > SrvPri[q[i]])
      /\ k <= Len(q) => SrvPri[s] > SrvPri[q[k]]
  BY <1>1 DEF PutAt
<1>9. ASSUME NEW i \in 1..Len(e), NEW j \in 1..Len(e), i < j PROVE Ahead(b, e[i], e[j])
  <2>1. CASE j < k
    BY <1>2, <1>4, <1>8, <1>9, <2>1 DEF Ordered
  <2>2. CASE j = k
    <3>1. e[j] = s /\ e[i] = q[i] /\ i \in 1..Len(q) /\ i \in 1..(k - 1)
      BY <1>2, <1>8, <1>9, <2>2
    <3>2. SrvPri[q[i]] >= SrvPri[s]
      BY <1>5, <1>6, <1>8, <3>1
    <3> QED
      BY <1>7, <3>1, <3>2
  <2>3. CASE j > k /\ i = k
    <3>1. e[i] = s /\ e[j] = q[j - 1] /\ j - 1 \in 1..Len(q) /\ k \in 1..Len(q) /\ k <= j - 1
      BY <1>2, <1>8, <1>9, <2>3
    <3>2. SrvPri[s] > SrvPri[q[k]]
      BY <1>2, <1>8, <3>1
    <3>3. k = j - 1 \/ Ahead(a, q[k], q[j - 1])
      BY <1>2, <3>1 DEF Ordered
    <3>4. SrvPri[q[k]] >= SrvPri[q[j - 1]]
      BY <1>5, <3>1, <3>3 DEF Ahead
    <3> QED
      BY <1>5, <1>6, <3>1, <3>2, <3>4 DEF Ahead
  <2>4. CASE j > k /\ i < k
    <3>1. e[i] = q[i] /\ e[j] = q[j - 1] /\ j - 1 \in 1..Len(q) /\ i \in 1..Len(q) /\ i < j - 1
      BY <1>2, <1>8, <1>9, <2>4
    <3> QED
      BY <1>4, <3>1 DEF Ordered
  <2>5. CASE j > k /\ i > k
    <3>1. /\ e[i] = q[i - 1] /\ e[j] = q[j - 1] /\ j - 1 \in 1..Len(q) /\ i - 1 \in 1..Len(q)
          /\ i - 1 < j - 1
      BY <1>2, <1>8, <1>9, <2>5
    <3> QED
      BY <1>4, <3>1 DEF Ordered
  <2> QED
    BY <1>2, <1>8, <2>1, <2>2, <2>3, <2>4, <2>5
<1> QED
  BY <1>9 DEF Ordered, b, e

\* Unlinking leaves out one place and nothing else.
LEMMA UnlinkAt ==
  ASSUME NEW T, NEW q \in Seq(T), NEW s \in ToSet(q)
  PROVE  \E k \in 1..Len(q) :
           /\ q[k] = s
           /\ Len(Unlink(q, s)) = Len(q) - 1
           /\ \A i \in 1..(Len(q) - 1) : Unlink(q, s)[i] = IF i < k THEN q[i] ELSE q[i + 1]
<1> DEFINE k == CHOOSE i \in 1..Len(q) : q[i] = s
<1>1. k \in 1..Len(q) /\ q[k] = s
  BY LenProperties DEF ToSet
<1>2. Unlink(q, s) = RemoveAt(q, k)
  BY DEF Unlink
<1> HIDE DEF k
<1> QED
  BY <1>1, <1>2, RemoveAtPlace

LEMMA WithoutKeeps ==
  ASSUME NEW T, NEW q \in Seq(T), NEW s, Distinct(q)
  PROVE  /\ Without(q, s) \in Seq(T) /\ Distinct(Without(q, s))
         /\ ToSet(Without(q, s)) = ToSet(q) \ {s}
<1>1. CASE s \in ToSet(q)
  BY <1>1, UnlinkMembers DEF Without
<1>2. CASE s \notin ToSet(q)
  BY <1>2 DEF Without
<1> QED
  BY <1>1, <1>2

\* A server that goes leaves the others in their order.
LEMMA WithoutOrdered ==
  ASSUME NEW a \in Seq(Driver), NEW q \in Seq(Driver), NEW s \in ToSet(a),
         Distinct(q), Ordered(a, q)
  PROVE  Ordered(Unlink(a, s), Without(q, s))
<1> DEFINE b == Unlink(a, s)
           e == Without(q, s)
<1>1. \A x, y : x # s /\ y # s /\ Ahead(a, x, y) => Ahead(b, x, y)
  <2>1. PICK k \in 1..Len(a) :
          /\ a[k] = s
          /\ Len(b) = Len(a) - 1
          /\ \A i \in 1..(Len(a) - 1) : b[i] = IF i < k THEN a[i] ELSE a[i + 1]
    BY UnlinkAt
  <2> HIDE DEF b
  <2>2. Len(a) \in Nat
    BY LenProperties
  <2>3. ASSUME NEW x, NEW y, NEW i \in 1..Len(a), NEW j \in 1..Len(a),
               x # s, y # s, i < j, a[i] = x, a[j] = y
        PROVE  \E g, h \in 1..Len(b) : g < h /\ b[g] = x /\ b[h] = y
    <3> DEFINE low(m) == IF m < k THEN m ELSE m - 1
    <3>1. i # k /\ j # k
      BY <2>1, <2>3
    <3>2. low(i) \in 1..Len(b) /\ low(j) \in 1..Len(b) /\ low(i) < low(j)
      BY <2>1, <2>2, <2>3, <3>1
    <3>3. b[low(i)] = a[i] /\ b[low(j)] = a[j]
      BY <2>1, <2>2, <2>3, <3>1
    <3> QED
      BY <2>3, <3>2, <3>3
  <2> QED
    BY <2>3 DEF Ahead
<1>2. ASSUME NEW i \in 1..Len(e), NEW j \in 1..Len(e), i < j PROVE Ahead(a, e[i], e[j])
  <2>1. CASE s \in ToSet(q)
    <3>1. e = Unlink(q, s)
      BY <2>1 DEF Without
    <3> HIDE DEF e
    <3>2. PICK k \in 1..Len(q) :
            /\ q[k] = s
            /\ Len(e) = Len(q) - 1
            /\ \A m \in 1..(Len(q) - 1) : e[m] = IF m < k THEN q[m] ELSE q[m + 1]
      BY <2>1, <3>1, UnlinkAt
    <3>3. Len(q) \in Nat
      BY LenProperties
    <3> DEFINE up(m) == IF m < k THEN m ELSE m + 1
    <3>4. up(i) \in 1..Len(q) /\ up(j) \in 1..Len(q) /\ up(i) < up(j)
      BY <1>2, <3>2, <3>3
    <3>5. e[i] = q[up(i)] /\ e[j] = q[up(j)]
      BY <1>2, <3>2, <3>3
    <3> HIDE DEF up
    <3> QED
      BY <3>4, <3>5 DEF Ordered
  <2>2. CASE s \notin ToSet(q)
    BY <1>2, <2>2 DEF Without, Ordered
  <2> QED
    BY <2>1, <2>2
<1>3. \A i \in 1..Len(e) : e[i] # s
  <2>1. e \in Seq(Driver) /\ s \notin ToSet(e)
    BY WithoutKeeps
  <2> HIDE DEF e
  <2> QED
    BY <2>1, LenProperties DEF ToSet
<1> QED
  BY <1>1, <1>2, <1>3 DEF Ordered

\* Those a claim cuts off are behind one who claims.
Uncut(a, S) == {s \in S : \A t \in S \cap Claims : s = t \/ ~Ahead(a, t, s)}

LEMMA CalledAreUncut ==
  ASSUME NEW a \in Seq(Driver), Distinct(a), NEW q \in Seq(Driver), Distinct(q), Ordered(a, q)
  PROVE  ToSet(Called(q, Claims)) = Uncut(a, ToSet(q))
<1>0. Len(q) \in Nat /\ ToSet(q) = {q[i] : i \in 1..Len(q)} /\ \A i \in 1..Len(q) : q[i] \in Driver
  BY LenProperties DEF ToSet
<1>1. PICK k \in 0..Len(q) :
        /\ ToSet(Called(q, Claims)) = {q[i] : i \in 1..k}
        /\ \A i \in 1..Len(q) : i < k => q[i] \notin Claims
        /\ k < Len(q) => k >= 1 /\ q[k] \in Claims
  BY CalledFront
<1>2. ASSUME NEW i \in 1..Len(q), i <= k PROVE q[i] \in Uncut(a, ToSet(q))
  <2>1. ASSUME NEW t \in ToSet(q) \cap Claims PROVE q[i] = t \/ ~Ahead(a, t, q[i])
    <3>1. PICK j \in 1..Len(q) : q[j] = t
      BY <1>0
    <3>2. j >= k
      BY <1>0, <1>1, <2>1, <3>1
    <3>3. CASE i = j
      BY <3>1, <3>3
    <3>4. CASE i < j
      <4>1. Ahead(a, q[i], q[j])
        BY <3>4 DEF Ordered
      <4> QED
        BY <1>0, <3>1, <4>1, AheadOneWay
    <3> QED
      BY <1>0, <1>2, <3>2, <3>3, <3>4
  <2> QED
    BY <1>0, <2>1 DEF Uncut
<1>3. ASSUME NEW i \in 1..Len(q), i > k PROVE q[i] \notin Uncut(a, ToSet(q))
  <2>1. k \in 1..Len(q) /\ q[k] \in Claims /\ k < i
    BY <1>0, <1>1, <1>3
  <2>2. Ahead(a, q[k], q[i]) /\ q[k] # q[i]
    BY <2>1 DEF Ordered, Distinct
  <2> QED
    BY <1>0, <2>1, <2>2 DEF Uncut
<1>4. \A i \in 1..k : i \in 1..Len(q) /\ i <= k
  BY <1>0
<1>5. \A i \in 1..Len(q) : i \in 1..k \/ i > k
  BY <1>0
<1>6. Uncut(a, ToSet(q)) \subseteq ToSet(q)
  BY DEF Uncut
<1> QED
  BY <1>0, <1>1, <1>2, <1>3, <1>4, <1>5, <1>6
----------------------------------------------------------------------------
(***************************************************************************)
(* The invariant.                                                          *)
(***************************************************************************)
LinesInOrder ==
  /\ added \in Seq(Driver) /\ Distinct(added)
  /\ irq \in [Lines -> Seq(Driver)]
  /\ \A n \in Lines : /\ Distinct(irq[n]) /\ ToSet(irq[n]) \subseteq ToSet(added)
                      /\ Ordered(added, irq[n])

\* Whoever is in front of _IRQServer has a higher priority.
KernelInFront(q) ==
  \E k \in 1..Len(q) :
    /\ q[k] = "_IRQServer"
    /\ \A i \in 1..Len(q) : i < k => SrvPri[q[i]] > SrvPri["_IRQServer"]

Anybody == Driver \cup KernelServer

ExceptionsServed ==
  /\ exc \in [0..ExcVectors - 1 -> Seq(Anybody)]
  /\ \A n \in 0..ExcVectors - 1 : n # EXC_IRQ =>
       ToSet(exc[n]) \cap Driver = {} /\ (exc[n] = <<>> <=> n >= EXC_FIQ)
  /\ KernelInFront(exc[EXC_IRQ])

Answer ==
  called # NoCall =>
    IF "_IRQServer" \notin called.exc
    THEN \E s \in Claims \cap called.exc : SrvPri[s] > SrvPri["_IRQServer"]
    ELSE \A n \in Lines : FirstBank(called.at) = {n} => called.irq = Uncut(added, ToSet(irq[n]))

IntInv == LinesInOrder /\ ExceptionsServed /\ pending \subseteq Lines /\ Answer
----------------------------------------------------------------------------
LEMMA FirstOfChain ==
  ASSUME NEW T, NEW s \in T
  PROVE  Enqueue(<<>>, s, SrvPri) = <<s>>
<1>1. <<>> \in Seq(T) /\ Len(<<>>) = 0
  OBVIOUS
<1>2. PICK k \in 1..(Len(<<>>) + 1) : PutAt(Enqueue(<<>>, s, SrvPri), <<>>, s, SrvPri, k)
  BY <1>1, EnqueueAt
<1>3. Enqueue(<<>>, s, SrvPri) \in Seq(T)
  BY <1>1, EnqueueAt
<1>4. k = 1 /\ Len(Enqueue(<<>>, s, SrvPri)) = 1 /\ Enqueue(<<>>, s, SrvPri)[1] = s
  BY <1>1, <1>2 DEF PutAt
<1>5. \A r \in Seq(T) : Len(r) = 1 /\ r[1] = s => r = <<s>>
  OBVIOUS
<1> QED
  BY <1>3, <1>4, <1>5

\* What the exceptions in S have got, and the others have not.
Served(e, S) ==
  /\ e \in [0..ExcVectors - 1 -> Seq(Anybody)]
  /\ \A n \in 0..ExcVectors - 1 :
       IF n \in S THEN \E s \in KernelServer : e[n] = <<s>> ELSE e[n] = <<>>
  /\ EXC_IRQ \in S => e[EXC_IRQ] = <<"_IRQServer">>

\* The kernel's servers are the first of their exceptions.
LEMMA ServedFirst ==
  ASSUME NEW e, NEW S, Served(e, S), NEW n \in 0..ExcVectors - 1, n \notin S,
         NEW s \in KernelServer, n = EXC_IRQ => s = "_IRQServer"
  PROVE  Served(ExcAdded(e, n, s), S \cup {n})
<1>1. ~(n > ExcVectors) /\ EXC_IRQ \in 0..ExcVectors - 1
  BY DEF ExcVectors, EXC_IRQ
<1>2. s \in Anybody /\ e[n] = <<>>
  BY DEF Anybody, Served
<1>3. <<s>> \in Seq(Anybody) /\ Enqueue(<<>>, s, SrvPri) = <<s>>
  BY <1>2, FirstOfChain
<1>4. ExcAdded(e, n, s) = [e EXCEPT ![n] = Enqueue(e[n], s, SrvPri)]
  BY <1>1 DEF ExcAdded
<1>5. ExcAdded(e, n, s) = [e EXCEPT ![n] = <<s>>]
  BY <1>2, <1>3, <1>4
<1> QED
  BY <1>1, <1>3, <1>5 DEF Served

LEMMA BootServers == Served(InitExcServer, {0, 1, 2, 3, 4, 5})
<1> DEFINE e0 == [n \in 0..ExcVectors - 1 |-> <<>>]
           e1 == ExcAdded(e0, EXC_IRQ, "_IRQServer")
           e2 == ExcAdded(e1, 3, "prefetch_abort")
           e3 == ExcAdded(e2, 4, "data_abort")
           e4 == ExcAdded(e3, 2, "swi_exception")
           e5 == ExcAdded(e4, 1, "exc_undef")
           e6 == ExcAdded(e5, 0, "exc_undef")
<1>1. FiqVec > ExcVectors
  BY DEF FiqVec, ExcVectors
<1>2. ExcAdded(e4, FiqVec, "exc_undef") = e4
  <2> HIDE DEF e4
  <2> QED
    BY <1>1 DEF ExcAdded
<1>3. InitExcServer = e6
  <2>1. InitExcServer = ExcAdded(ExcAdded(ExcAdded(e4, FiqVec, "exc_undef"), 1, "exc_undef"), 0, "exc_undef")
    BY DEF InitExcServer
  <2> HIDE DEF e4
  <2> QED
    BY <1>2, <2>1
<1>4. 0..ExcVectors - 1 = {0, 1, 2, 3, 4, 5, 6, 7} /\ EXC_IRQ = 5
  BY DEF ExcVectors, EXC_IRQ
<1>5. /\ "_IRQServer" \in KernelServer /\ "prefetch_abort" \in KernelServer
      /\ "data_abort" \in KernelServer /\ "swi_exception" \in KernelServer
      /\ "exc_undef" \in KernelServer
  BY DEF KernelServer
<1>6. Served(e0, {})
  BY <1>4 DEF Served
<1> HIDE DEF e0
<1>7. Served(e1, {} \cup {5})
  BY <1>4, <1>5, <1>6, ServedFirst
<1> HIDE DEF e1
<1>8. Served(e2, {5} \cup {3})
  BY <1>4, <1>5, <1>7, ServedFirst
<1> HIDE DEF e2
<1>9. Served(e3, {5, 3} \cup {4})
  BY <1>4, <1>5, <1>8, ServedFirst
<1> HIDE DEF e3
<1>10. Served(e4, {5, 3, 4} \cup {2})
  BY <1>4, <1>5, <1>9, ServedFirst
<1> HIDE DEF e4
<1>11. Served(e5, {5, 3, 4, 2} \cup {1})
  BY <1>4, <1>5, <1>10, ServedFirst
<1> HIDE DEF e5
<1>12. Served(e6, {5, 3, 4, 2, 1} \cup {0})
  BY <1>4, <1>5, <1>11, ServedFirst
<1>13. {5, 3, 4, 2, 1} \cup {0} = {0, 1, 2, 3, 4, 5}
  OBVIOUS
<1> HIDE DEF e6
<1> QED
  BY <1>3, <1>12, <1>13

\* At the start the kernel's servers and the system timer's are there.
LEMMA IntInvInit == IntInit => IntInv
<1> SUFFICES ASSUME IntInit PROVE IntInv
  OBVIOUS
<1>1. /\ exc = InitExcServer /\ added = <<Tick>> /\ pending = {} /\ called = NoCall
      /\ irq = [n \in Lines |-> IF n = Timer3 THEN <<Tick>> ELSE <<>>]
  BY DEF IntInit
<1>2. LinesInOrder
  <2>1. <<Tick>> \in Seq(Driver) /\ Distinct(<<Tick>>) /\ ToSet(<<Tick>>) = {Tick}
    BY ShortLists DEF Driver
  <2>2. <<>> \in Seq(Driver) /\ Distinct(<<>>) /\ ToSet(<<>>) = {}
    BY DEF Distinct, ToSet
  <2>3. Ordered(<<Tick>>, <<>>) /\ Ordered(<<Tick>>, <<Tick>>)
    BY DEF Ordered
  <2>4. \A n \in Lines : irq[n] \in {<<>>, <<Tick>>}
    BY <1>1
  <2> QED
    BY <1>1, <2>1, <2>2, <2>3, <2>4 DEF LinesInOrder
<1>3. ExceptionsServed
  <2>1. ASSUME NEW s \in KernelServer
        PROVE  <<s>> # <<>> /\ ToSet(<<s>>) \cap Driver = {}
    <3>1. ToSet(<<s>>) = {s} /\ s \notin Driver
      BY ShortLists, IntAssumption DEF Driver
    <3> QED
      BY <3>1
  <2>2. ToSet(<<>>) = {}
    BY DEF ToSet
  <2>3. \A n \in 0..ExcVectors - 1 : n >= EXC_FIQ <=> n \notin {0, 1, 2, 3, 4, 5}
    BY DEF ExcVectors, EXC_FIQ
  <2>4. /\ exc \in [0..ExcVectors - 1 -> Seq(Anybody)] /\ exc[EXC_IRQ] = <<"_IRQServer">>
        /\ \A n \in 0..ExcVectors - 1 :
             IF n \in {0, 1, 2, 3, 4, 5} THEN \E s \in KernelServer : exc[n] = <<s>>
             ELSE exc[n] = <<>>
    BY <1>1, BootServers DEF Served, EXC_IRQ
  <2>5. KernelInFront(exc[EXC_IRQ])
    BY <2>4 DEF KernelInFront
  <2>6. ASSUME NEW n \in 0..ExcVectors - 1
        PROVE  ToSet(exc[n]) \cap Driver = {} /\ (exc[n] = <<>> <=> n >= EXC_FIQ)
    BY <2>1, <2>2, <2>3, <2>4
  <2> QED
    BY <2>4, <2>5, <2>6 DEF ExceptionsServed
<1> QED
  BY <1>1, <1>2, <1>3 DEF IntInv, Answer

\* A driver in the chain keeps it below what it was above, and never comes to it.
LEMMA EnqueueInFront ==
  ASSUME NEW q \in Seq(Anybody), KernelInFront(q), NEW s \in Driver
  PROVE  KernelInFront(Enqueue(q, s, SrvPri))
<1> DEFINE e == Enqueue(q, s, SrvPri)
<1>1. PICK p \in 1..(Len(q) + 1) : PutAt(e, q, s, SrvPri, p)
  BY EnqueueAt DEF Anybody
<1> HIDE DEF e
<1>2. PICK k \in 1..Len(q) :
        /\ q[k] = "_IRQServer"
        /\ \A i \in 1..Len(q) : i < k => SrvPri[q[i]] > SrvPri["_IRQServer"]
  BY DEF KernelInFront
<1>3. /\ Len(q) \in Nat /\ SrvPri[s] \in Int
      /\ \A i \in 1..Len(q) : SrvPri[q[i]] \in Int
  BY IntAssumption, LenProperties DEF Anybody, Driver
<1>4. /\ Len(e) = Len(q) + 1
      /\ \A i \in 1..(Len(q) + 1) : e[i] = IF i < p THEN q[i] ELSE IF i = p THEN s ELSE q[i - 1]
      /\ p <= Len(q) => SrvPri[s] > SrvPri[q[p]]
  BY <1>1 DEF PutAt
<1>5. CASE p > k
  <2>1. k \in 1..Len(e) /\ e[k] = "_IRQServer" /\ \A i \in 1..Len(e) : i < k => e[i] = q[i]
    BY <1>2, <1>3, <1>4, <1>5
  <2>2. \A i \in 1..Len(e) : i < k => i \in 1..Len(q)
    BY <1>2, <1>3, <1>4
  <2> QED
    BY <1>2, <2>1, <2>2 DEF KernelInFront, e
<1>6. CASE p <= k
  <2>1. k + 1 \in 1..Len(e) /\ e[k + 1] = "_IRQServer"
    BY <1>2, <1>3, <1>4, <1>6
  <2>2. SrvPri[s] > SrvPri["_IRQServer"]
    <3>1. p \in 1..Len(q) /\ SrvPri[s] > SrvPri[q[p]]
      BY <1>2, <1>3, <1>4, <1>6
    <3>2. p = k \/ SrvPri[q[p]] > SrvPri["_IRQServer"]
      BY <1>2, <1>3, <1>6, <3>1
    <3>3. SrvPri["_IRQServer"] \in Int /\ SrvPri[q[p]] \in Int
      BY <1>2, <1>3, <3>1
    <3> QED
      BY <1>2, <1>3, <3>1, <3>2, <3>3
  <2>3. ASSUME NEW i \in 1..Len(e), i < k + 1 PROVE SrvPri[e[i]] > SrvPri["_IRQServer"]
    <3>1. i = p \/ (i < p /\ i < k /\ i \in 1..Len(q))
                \/ (i > p /\ i - 1 < k /\ i - 1 \in 1..Len(q))
      BY <1>2, <1>3, <1>4, <1>6, <2>3
    <3>2. e[i] = s \/ (e[i] = q[i] /\ i < k /\ i \in 1..Len(q))
                   \/ (e[i] = q[i - 1] /\ i - 1 < k /\ i - 1 \in 1..Len(q))
      BY <1>3, <1>4, <3>1
    <3> QED
      BY <1>2, <2>2, <3>2
  <2> QED
    BY <2>1, <2>3 DEF KernelInFront, e
<1> QED
  BY <1>2, <1>3, <1>5, <1>6

LEMMA WithoutInFront ==
  ASSUME NEW q \in Seq(Anybody), KernelInFront(q), NEW s \in Driver
  PROVE  Without(q, s) \in Seq(Anybody) /\ KernelInFront(Without(q, s))
<1>1. CASE s \notin ToSet(q)
  BY <1>1 DEF Without
<1>2. CASE s \in ToSet(q)
  <2> DEFINE e == Unlink(q, s)
  <2>1. Without(q, s) = e
    BY <1>2 DEF Without
  <2>2. e \in Seq(Anybody)
    BY <1>2, UnlinkMembers
  <2>3. PICK p \in 1..Len(q) :
          /\ q[p] = s
          /\ Len(e) = Len(q) - 1
          /\ \A i \in 1..(Len(q) - 1) : e[i] = IF i < p THEN q[i] ELSE q[i + 1]
    BY <1>2, UnlinkAt
  <2> HIDE DEF e
  <2>4. PICK k \in 1..Len(q) :
          /\ q[k] = "_IRQServer"
          /\ \A i \in 1..Len(q) : i < k => SrvPri[q[i]] > SrvPri["_IRQServer"]
    BY DEF KernelInFront
  <2>5. Len(q) \in Nat
    BY LenProperties
  <2>6. p # k
    BY <2>3, <2>4, IntAssumption DEF Driver, KernelServer
  <2> DEFINE g == IF k < p THEN k ELSE k - 1
  <2>7. g \in 1..Len(e) /\ e[g] = "_IRQServer"
    BY <2>3, <2>4, <2>5, <2>6
  <2>8. ASSUME NEW i \in 1..Len(e), i < g PROVE SrvPri[e[i]] > SrvPri["_IRQServer"]
    <3>1. \/ e[i] = q[i] /\ i \in 1..Len(q) /\ i < k
          \/ e[i] = q[i + 1] /\ i + 1 \in 1..Len(q) /\ i + 1 < k
      BY <2>3, <2>4, <2>5, <2>6, <2>8
    <3> QED
      BY <2>4, <3>1
  <2> HIDE DEF g
  <2> QED
    BY <2>1, <2>2, <2>7, <2>8 DEF KernelInFront
<1> QED
  BY <1>1, <1>2
----------------------------------------------------------------------------
\* The steps, one by one.
LEMMA AddIntServerKeeps ==
  ASSUME IntInv, NEW n \in Lines, NEW s \in Server, AddIntServer(s, n)
  PROVE  IntInv'
<1>1. /\ s \notin ToSet(added) /\ irq' = [irq EXCEPT ![n] = Enqueue(irq[n], s, SrvPri)]
      /\ added' = Append(added, s) /\ called' = NoCall /\ UNCHANGED <<exc, pending>>
  BY DEF AddIntServer
<1>2. /\ added \in Seq(Driver) /\ Distinct(added) /\ irq \in [Lines -> Seq(Driver)]
      /\ \A l \in Lines : /\ Distinct(irq[l]) /\ ToSet(irq[l]) \subseteq ToSet(added)
                          /\ Ordered(added, irq[l])
      /\ s \in Driver
  BY DEF IntInv, LinesInOrder, Driver
<1>3. added' \in Seq(Driver) /\ Distinct(added') /\ ToSet(added') = ToSet(added) \cup {s}
  BY <1>1, <1>2, AddTailMembers DEF AddTail
<1>4. ASSUME NEW l \in Lines
      PROVE  /\ irq'[l] \in Seq(Driver) /\ Distinct(irq'[l])
             /\ ToSet(irq'[l]) \subseteq ToSet(added') /\ Ordered(added', irq'[l])
  <2>1. PICK q \in Seq(Driver) : q = irq[l]
    BY <1>2
  <2>2. /\ Enqueue(q, s, SrvPri) \in Seq(Driver) /\ Distinct(Enqueue(q, s, SrvPri))
        /\ ToSet(Enqueue(q, s, SrvPri)) = ToSet(q) \cup {s}
    BY <1>1, <1>2, <2>1, EnqueueMembers, EnqueueDistinct
  <2>3. Ordered(added', Enqueue(q, s, SrvPri))
    BY <1>1, <1>2, <2>1, EnqueueOrdered
  <2>4. CASE l = n
    BY <1>1, <1>2, <1>3, <2>1, <2>2, <2>3, <2>4
  <2>5. CASE l # n
    <3>1. irq'[l] = q
      BY <1>1, <1>2, <2>1, <2>5
    <3>2. Ordered(added', q)
      BY <1>1, <1>2, <2>1, AppendOrdered
    <3> QED
      BY <1>2, <1>3, <2>1, <3>1, <3>2
  <2> QED
    BY <2>4, <2>5
<1>5. irq' \in [Lines -> Seq(Driver)]
  BY <1>1, <1>2, <1>4
<1>6. LinesInOrder'
  BY <1>3, <1>4, <1>5 DEF LinesInOrder
<1> QED
  BY <1>1, <1>6 DEF IntInv, ExceptionsServed, Answer

LEMMA AddExcServerKeeps ==
  ASSUME IntInv, NEW s \in Server, AddExcServer(s, EXC_IRQ)
  PROVE  IntInv'
<1>1. /\ s \notin ToSet(added) /\ exc' = [exc EXCEPT ![EXC_IRQ] = Enqueue(exc[EXC_IRQ], s, SrvPri)]
      /\ added' = Append(added, s) /\ called' = NoCall /\ UNCHANGED <<irq, pending>>
  BY DEF AddExcServer, ExcAdded, EXC_IRQ, ExcVectors
<1>2. s \in Driver /\ s \in Anybody /\ EXC_IRQ \in 0..ExcVectors - 1
  BY DEF Driver, Anybody, EXC_IRQ, ExcVectors
<1>3. LinesInOrder'
  <2>1. added \in Seq(Driver) /\ Distinct(added)
    BY DEF IntInv, LinesInOrder
  <2>2. added' \in Seq(Driver) /\ Distinct(added') /\ ToSet(added') = ToSet(added) \cup {s}
    BY <1>1, <1>2, <2>1, AddTailMembers DEF AddTail
  <2>3. \A l \in Lines : Ordered(added', irq[l])
    BY <1>1, <1>2, <2>1, AppendOrdered DEF IntInv, LinesInOrder
  <2> QED
    BY <1>1, <2>2, <2>3 DEF IntInv, LinesInOrder
<1>4. ExceptionsServed'
  <2>1. PICK q \in Seq(Anybody) : q = exc[EXC_IRQ]
    BY <1>2 DEF IntInv, ExceptionsServed
  <2>2. Enqueue(q, s, SrvPri) \in Seq(Anybody) /\ KernelInFront(Enqueue(q, s, SrvPri))
    BY <1>2, <2>1, EnqueueMembers, EnqueueInFront DEF IntInv, ExceptionsServed
  <2>3. /\ exc' \in [0..ExcVectors - 1 -> Seq(Anybody)]
        /\ exc'[EXC_IRQ] = Enqueue(q, s, SrvPri)
        /\ \A n \in 0..ExcVectors - 1 : n # EXC_IRQ => exc'[n] = exc[n]
    BY <1>1, <1>2, <2>1, <2>2 DEF IntInv, ExceptionsServed
  <2> QED
    BY <2>2, <2>3 DEF IntInv, ExceptionsServed
<1> QED
  BY <1>1, <1>3, <1>4 DEF IntInv, Answer

LEMMA RemServerKeeps ==
  ASSUME IntInv, NEW s \in Server, RemServer(s)
  PROVE  IntInv'
<1>1. /\ s \in ToSet(added) /\ irq' = [l \in Lines |-> Without(irq[l], s)]
      /\ exc' = [n \in 0..ExcVectors - 1 |-> Without(exc[n], s)]
      /\ added' = Unlink(added, s) /\ called' = NoCall /\ pending' = pending
  BY DEF RemServer, IntInv, LinesInOrder, ExceptionsServed
<1>2. s \in Driver /\ EXC_IRQ \in 0..ExcVectors - 1
  BY DEF Driver, EXC_IRQ, ExcVectors
<1>3. LinesInOrder'
  <2>1. PICK a \in Seq(Driver) : a = added /\ Distinct(a) /\ s \in ToSet(a)
    BY <1>1 DEF IntInv, LinesInOrder
  <2>2. added' \in Seq(Driver) /\ Distinct(added') /\ ToSet(added') = ToSet(a) \ {s}
    BY <1>1, <2>1, UnlinkMembers
  <2>3. ASSUME NEW l \in Lines
        PROVE  /\ irq'[l] \in Seq(Driver) /\ Distinct(irq'[l])
               /\ ToSet(irq'[l]) \subseteq ToSet(added') /\ Ordered(added', irq'[l])
    <3>1. PICK q \in Seq(Driver) :
            q = irq[l] /\ Distinct(q) /\ ToSet(q) \subseteq ToSet(a) /\ Ordered(a, q)
      BY <2>1 DEF IntInv, LinesInOrder
    <3>2. irq'[l] = Without(q, s)
      BY <1>1, <3>1
    <3>3. /\ Without(q, s) \in Seq(Driver) /\ Distinct(Without(q, s))
          /\ ToSet(Without(q, s)) = ToSet(q) \ {s}
      BY <3>1, WithoutKeeps
    <3>4. Ordered(Unlink(a, s), Without(q, s))
      BY <2>1, <3>1, WithoutOrdered
    <3> QED
      BY <1>1, <2>1, <2>2, <3>1, <3>2, <3>3, <3>4
  <2>4. irq' \in [Lines -> Seq(Driver)]
    BY <1>1, <2>3
  <2> QED
    BY <2>2, <2>3, <2>4 DEF LinesInOrder
<1>4. ExceptionsServed'
  <2>1. ASSUME NEW n \in 0..ExcVectors - 1, n # EXC_IRQ PROVE exc'[n] = exc[n]
    <3>1. s \notin ToSet(exc[n])
      BY <1>2, <2>1 DEF IntInv, ExceptionsServed
    <3> QED
      BY <1>1, <3>1 DEF Without
  <2>2. PICK q \in Seq(Anybody) : q = exc[EXC_IRQ] /\ KernelInFront(q)
    BY <1>2 DEF IntInv, ExceptionsServed
  <2>3. exc'[EXC_IRQ] = Without(q, s)
    BY <1>1, <1>2, <2>2
  <2>4. Without(q, s) \in Seq(Anybody) /\ KernelInFront(Without(q, s))
    BY <1>2, <2>2, WithoutInFront
  <2>5. exc' \in [0..ExcVectors - 1 -> Seq(Anybody)]
    <3>1. \A n \in 0..ExcVectors - 1 : exc'[n] \in Seq(Anybody)
      BY <2>1, <2>3, <2>4 DEF IntInv, ExceptionsServed
    <3> QED
      BY <1>1, <3>1
  <2> QED
    BY <2>1, <2>3, <2>4, <2>5 DEF IntInv, ExceptionsServed
<1> QED
  BY <1>1, <1>3, <1>4 DEF IntInv, Answer

\* What an interrupt calls.
LEMMA InterruptKeeps ==
  ASSUME IntInv, Interrupt
  PROVE  IntInv'
<1>1. UNCHANGED <<exc, irq, added>>
  BY DEF Interrupt
<1>2. PICK yes \in {Claims, Claims \cup {"_IRQServer"}} :
        LET outer == Called(exc[EXC_IRQ], yes)
            n     == LineOf(pending)
            inner == IF "_IRQServer" \in ToSet(outer) /\ n \in Lines
                     THEN Called(irq[n], Claims) ELSE <<>>
        IN  /\ called' = [at |-> pending, exc |-> ToSet(outer), irq |-> ToSet(inner)]
            /\ pending' = IF ToSet(inner) \cap Claims # {} THEN pending \ {n} ELSE pending
  BY DEF Interrupt
<1>3. PICK q \in Seq(Anybody) : q = exc[EXC_IRQ] /\ KernelInFront(q)
  BY DEF IntInv, ExceptionsServed, EXC_IRQ, ExcVectors
<1> DEFINE outer == ToSet(Called(q, yes))
<1>4. called'.at = pending /\ called'.exc = outer /\ pending' \subseteq pending
  BY <1>2, <1>3
<1>5. ASSUME NEW n \in Lines, LineOf(pending) = n, "_IRQServer" \in outer
      PROVE  called'.irq = ToSet(Called(irq[n], Claims))
  BY <1>2, <1>3, <1>5
<1>6. ASSUME "_IRQServer" \notin outer
      PROVE  \E s \in Claims \cap outer : SrvPri[s] > SrvPri["_IRQServer"]
  <2>1. PICK k \in 0..Len(q) :
          /\ outer = {q[i] : i \in 1..k}
          /\ \A i \in 1..Len(q) : i < k => q[i] \notin yes
          /\ k < Len(q) => k >= 1 /\ q[k] \in yes
    BY CalledFront
  <2> HIDE DEF outer
  <2>2. PICK j \in 1..Len(q) :
          /\ q[j] = "_IRQServer"
          /\ \A i \in 1..Len(q) : i < j => SrvPri[q[i]] > SrvPri["_IRQServer"]
    BY <1>3 DEF KernelInFront
  <2>3. Len(q) \in Nat
    BY LenProperties
  <2>4. k < j
    BY <1>6, <2>1, <2>2, <2>3
  <2>5. k \in 1..Len(q) /\ q[k] \in yes
    BY <2>1, <2>2, <2>3, <2>4
  <2>6. q[k] \in outer /\ SrvPri[q[k]] > SrvPri["_IRQServer"]
    BY <2>1, <2>2, <2>4, <2>5
  <2>7. q[k] \in Claims
    BY <1>6, <2>5, <2>6
  <2> QED
    BY <2>6, <2>7
<1>7. ASSUME NEW n \in Lines, FirstBank(pending) = {n}, "_IRQServer" \in outer
      PROVE  called'.irq = Uncut(added, ToSet(irq[n]))
  <2>1. pending \in SUBSET (0..71) /\ n \in 0..71
    BY IntAssumption DEF IntInv
  <2>2. LineOf(pending) = n
    BY <1>7, <2>1, LineIsFound
  <2>3. ToSet(Called(irq[n], Claims)) = Uncut(added, ToSet(irq[n]))
    BY CalledAreUncut DEF IntInv, LinesInOrder
  <2> HIDE DEF outer
  <2> QED
    BY <1>5, <1>7, <2>2, <2>3
<1>8. Answer'
  <2> HIDE DEF outer
  <2>1. /\ "_IRQServer" \notin called'.exc =>
             \E s \in Claims \cap called'.exc : SrvPri[s] > SrvPri["_IRQServer"]
        /\ "_IRQServer" \in called'.exc =>
             \A n \in Lines : FirstBank(called'.at) = {n} =>
               called'.irq = Uncut(added', ToSet(irq'[n]))
    BY <1>1, <1>4, <1>6, <1>7
  <2> QED
    BY <2>1 DEF Answer
<1>9. LinesInOrder' /\ ExceptionsServed'
  BY <1>1 DEF IntInv, LinesInOrder, ExceptionsServed
<1> QED
  BY <1>4, <1>8, <1>9 DEF IntInv

LEMMA IntInvStep == IntInv /\ [IntNext]_intVars => IntInv'
<1> SUFFICES ASSUME IntInv, [IntNext]_intVars PROVE IntInv'
  OBVIOUS
<1>1. ASSUME NEW n \in Lines, Raise(n) PROVE IntInv'
  <2>1. UNCHANGED <<exc, irq, added>> /\ pending' = pending \cup {n} /\ called' = NoCall
    BY <1>1 DEF Raise
  <2> QED
    BY <2>1 DEF IntInv, LinesInOrder, ExceptionsServed, Answer
<1>2. CASE UNCHANGED intVars
  BY <1>2 DEF intVars, IntInv, LinesInOrder, ExceptionsServed, Answer
<1> QED
  BY <1>1, <1>2, AddIntServerKeeps, AddExcServerKeeps, RemServerKeeps, InterruptKeeps DEF IntNext

\* An interrupt calls the servers of the first pending line, in order and up to the
\* one that claims it, whatever drivers add and remove their servers, for any drivers,
\* priorities and enabled lines (intserver.c:17-77, 102-201).
THEOREM DispatchCorrect == IntSpec => []DispatchExact
<1>1. IntInv => DispatchExact
  <2> SUFFICES ASSUME IntInv PROVE DispatchExact
    OBVIOUS
  <2>1. IntTypeOK
    <3>1. ToSet(added) \subseteq Driver
      BY LenProperties DEF IntInv, LinesInOrder, ToSet
    <3> QED
      BY <3>1 DEF IntInv, LinesInOrder, IntTypeOK, Driver
  <2>2. OneBitFound
    BY BitIsFound DEF OneBitFound
  <2>3. ASSUME NEW n \in 0..6 PROVE exc[n] = <<>> <=> n = EXC_FIQ
    <3>1. n \in 0..ExcVectors - 1 /\ (n >= EXC_FIQ <=> n = EXC_FIQ)
      BY DEF ExcVectors, EXC_FIQ
    <3>2. CASE n # EXC_IRQ
      BY <3>1, <3>2 DEF IntInv, ExceptionsServed
    <3>3. CASE n = EXC_IRQ
      <4>1. exc[n] # <<>>
        BY <3>3 DEF IntInv, ExceptionsServed, KernelInFront
      <4> QED
        BY <3>3, <4>1 DEF EXC_IRQ, EXC_FIQ
    <3> QED
      BY <3>2, <3>3
  <2>4. \A S : Reached(S) = Uncut(added, S)
    BY DEF Reached, Uncut, Before, Ahead
  <2>5. called # NoCall =>
          IF "_IRQServer" \notin called.exc
          THEN \E s \in Claims \cap called.exc : SrvPri[s] > SrvPri["_IRQServer"]
          ELSE \A n \in Lines : FirstBank(called.at) = {n} => called.irq = Reached(ToSet(irq[n]))
    BY <2>4 DEF IntInv, Answer
  <2> QED
    BY <2>1, <2>2, <2>3, <2>5 DEF DispatchExact
<1> QED
  BY <1>1, IntInvInit, IntInvStep, PTL DEF IntSpec
=============================================================================
