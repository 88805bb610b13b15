----------------------------- MODULE Libraries -----------------------------
(***************************************************************************)
(* Libraries, devices and residents (lib.exec/resident.c, library.c,       *)
(* devices.c, setfunction.c, initresidentcode.c).  The kernel scans the    *)
(* ROM for residents, sets up those of each class in the order of their    *)
(* priorities, and halts if one fails; then tasks open, close, sum, patch, *)
(* remove and add what has been set up.  What is inside Forbid is one      *)
(* step, everything else may be interleaved with other tasks.              *)
(***************************************************************************)
EXTENDS ExecLists, Integers, FiniteSets

CONSTANTS
  NULL, Task,
  Exec,                    \* exec.library, which the kernel links itself
  Module, Kind,            \* residents, each a "library" or a "device"
  Class, RtPri,            \* rt_Flags: "single" or "cold"; rt_Pri
  LibPri, Version,         \* what each module's own init sets
  Units, Leaky,            \* how many units a device has; those that count failed opens
  FuncTab,                 \* the functions a library is made with
  MaxOpen, MaxCount,       \* bounds on a task's opens of a module and on lib_OpenCnt
  MaxWrites                \* bound on the writes to a vector

Lib == Module \cup {Exec}

ASSUME LibrariesAssumption ==
  /\ IsFiniteSet(Task) /\ Exec \notin Module /\ NULL \notin Lib
  /\ Kind \in [Module -> {"library", "device"}] /\ Class \in [Module -> {"single", "cold"}]
  /\ RtPri \in [Module -> Int] /\ LibPri \in [Lib -> Int]
  /\ FuncTab \in [Lib -> Seq(Nat) \ {<<>>}] /\ MaxOpen \in Nat

VARIABLES
  boot,         \* "scan", "single", "cold", "done" or "halted"
  scanned,      \* what RomTagScanner has met
  residents,    \* SysBase->ResidentList
  rank,         \* how far InitResidentCode has come in it
  libList, devList,
  vec,          \* each library's jump table, by negative offset from its base
  flags, libSum, openCnt,
  pc, at, want, reg,   \* each task: where it is, on what, version wanted, loaded value
  oldflags,     \* SumLibrary's local
  holds,        \* how often each task has each module open
  leaked,       \* history: failed opens that were counted
  torn,         \* history: another task changed lib_OpenCnt within an increment
  inits,        \* history: how often each module has been initialised
  removed,      \* history: what RemLibrary and RemDevice have taken out
  alert         \* Alert(AT_DeadEnd|AN_LibChkSum) has been called

bootVars == <<boot, scanned, residents, rank, inits>>
lists    == <<libList, devList, removed>>
sumVars  == <<vec, flags, libSum, oldflags, alert>>
opens    == <<openCnt, holds, leaked, torn, want, reg>>
place    == <<pc, at>>
vars     == <<bootVars, lists, sumVars, opens, place>>

\* MakeFunctions: vector n lies 4n bytes below the base, where _GETVECADDR looks.
MakeFunctions(funcs) == [k \in {-4 * n : n \in 1..Len(funcs)} |-> funcs[-(k \div 4)]]
NegSize(l) == 4 * Len(FuncTab[l])
GetVec(l, n) == vec[l][-4 * n]

\* The words from lib_NegSize above the base up to the base: there are none.
Sum(l) == FoldSet(LAMBDA k, s : s + vec[l][k], 0, {k \in NegSize(l)..-1 : k % 4 = 0})

Init ==
  /\ boot = "scan" /\ scanned = {} /\ residents = <<>> /\ rank = 1
  /\ inits = [l \in Lib |-> 0]
  /\ libList = <<Exec>> /\ devList = <<>> /\ removed = {}
  /\ vec = [l \in Lib |-> MakeFunctions(FuncTab[l])]
  /\ flags = [l \in Lib |-> {}] /\ libSum = [l \in Lib |-> 0]
  /\ oldflags = [t \in Task |-> {}] /\ alert = FALSE
  /\ openCnt = [l \in Lib |-> IF l = Exec THEN 1 ELSE 0]
  /\ holds = [t \in Task |-> [l \in Lib |-> 0]]
  /\ leaked = [l \in Lib |-> 0] /\ torn = {}
  /\ want = [t \in Task |-> 0] /\ reg = [t \in Task |-> 0]
  /\ pc = [t \in Task |-> "user"] /\ at = [t \in Task |-> NULL]
----------------------------------------------------------------------------
\* Seeded fault: residents are listed by the priority of their library.
Bug_ScanLibPri(m) ==
  /\ boot = "scan" /\ m \notin scanned
  /\ scanned' = scanned \cup {m}
  /\ residents' = Enqueue(residents, m, LibPri)
  /\ boot' = IF scanned' = Module THEN "single" ELSE "scan"
  /\ UNCHANGED <<rank, inits, lists, sumVars, opens, place>>

\* RomTagScanner: in the order of their addresses, which the linker chooses.
RomTagScanner(m) ==
  /\ boot = "scan" /\ m \notin scanned
  /\ scanned' = scanned \cup {m}
  /\ residents' = Enqueue(residents, m, RtPri)
  /\ boot' = IF scanned' = Module THEN "single" ELSE "scan"
  /\ UNCHANGED <<rank, inits, lists, sumVars, opens, place>>

\* No memory for a node of ResidentList: CreateSysBase ends in for(;;).
ScanFails ==
  /\ boot = "scan"
  /\ boot' = "halted"
  /\ UNCHANGED <<scanned, residents, rank, inits, lists, sumVars, opens, place>>

\* Seeded fault: every pass takes residents of every class.
Bug_DueAny(m) ==
  boot \in {"single", "cold"} /\ rank <= Len(residents) /\ residents[rank] = m

\* The resident InitResidentCode has to set up next.
Due(m) ==
  /\ boot \in {"single", "cold"} /\ rank <= Len(residents) /\ residents[rank] = m
  /\ Class[m] = boot

\* InitResident: MakeLibrary, the module's init, and AddLibrary with its sum, or
\* AddDevice without.
InitResident(m) ==
  /\ Due(m)
  /\ rank' = rank + 1
  /\ inits' = [inits EXCEPT ![m] = @ + 1]
  /\ openCnt' = [openCnt EXCEPT ![m] = 0]
  /\ IF Kind[m] = "library"
     THEN /\ libList' = Enqueue(libList, m, LibPri)
          /\ flags' = [flags EXCEPT ![m] = {"SUMUSED"}]
          /\ libSum' = [libSum EXCEPT ![m] = Sum(m)]
          /\ UNCHANGED devList
     ELSE /\ devList' = Enqueue(devList, m, LibPri)
          /\ flags' = [flags EXCEPT ![m] = {"SUMUSED", "CHANGED"}]
          /\ UNCHANGED <<libList, libSum>>
  /\ UNCHANGED <<boot, scanned, residents, removed, vec, oldflags, alert,
                 holds, leaked, torn, want, reg, place>>

\* MakeLibrary finds no memory: InitResidentCode ends in for(;;), in the boot or in
\* ExecTask, above every other task.
InitFails(m) ==
  /\ Due(m)
  /\ boot' = "halted"
  /\ UNCHANGED <<scanned, residents, rank, inits, lists, sumVars, opens, place>>

\* A resident of another class is passed over; then the next pass, or the tasks.
NextResident ==
  /\ boot \in {"single", "cold"}
  /\ IF rank <= Len(residents)
     THEN ~Due(residents[rank]) /\ rank' = rank + 1 /\ UNCHANGED boot
     ELSE rank' = 1 /\ boot' = IF boot = "single" THEN "cold" ELSE "done"
  /\ UNCHANGED <<scanned, residents, inits, lists, sumVars, opens, place>>
----------------------------------------------------------------------------
\* lib_OpenCnt is 16 bits wide.
CntSize == 65536
UWORD == 0..CntSize - 1
Wrap(n) == n % CntSize

GoTo(t, label, l) == pc' = [pc EXCEPT ![t] = label] /\ at' = [at EXCEPT ![t] = l]
Free(t) == boot = "done" /\ pc[t] = "user"
Back(t) == GoTo(t, "user", NULL)

\* OpenLibrary and OpenDevice: FindName inside Forbid.  Version v, or unit v.
Find(t, l, list, label, v) ==
  /\ Free(t) /\ holds[t][l] < MaxOpen /\ openCnt[l] < MaxCount
  /\ l \in ToSet(list)
  /\ GoTo(t, label, l)
  /\ want' = [want EXCEPT ![t] = v]
  /\ UNCHANGED <<bootVars, lists, sumVars, openCnt, holds, leaked, torn, reg>>

OpenLibrary(t, l, v) == Find(t, l, libList, "openlib", v)
OpenDevice(t, l, v) == Find(t, l, devList, "opendev", v)

\* The version test and the open vector, outside Forbid: lib_OpenCnt++ is two steps.
OpenLoad(t) ==
  /\ pc[t] = "openlib"
  /\ IF Version[at[t]] >= want[t]
     THEN /\ reg' = [reg EXCEPT ![t] = openCnt[at[t]]]
          /\ GoTo(t, "store", at[t])
     ELSE UNCHANGED reg /\ Back(t)
  /\ want' = [want EXCEPT ![t] = 0]
  /\ UNCHANGED <<bootVars, lists, sumVars, openCnt, holds, leaked, torn>>

OpenStore(t) ==
  /\ pc[t] = "store"
  /\ openCnt' = [openCnt EXCEPT ![at[t]] = Wrap(reg[t] + 1)]
  /\ holds' = [holds EXCEPT ![t][at[t]] = @ + 1]
  /\ torn' = IF openCnt[at[t]] = reg[t] THEN torn ELSE torn \cup {at[t]}
  /\ reg' = [reg EXCEPT ![t] = 0]
  /\ Back(t)
  /\ UNCHANGED <<bootVars, lists, sumVars, leaked, want>>

\* The open vector of a device, inside Forbid.  The timer counts first and looks at
\* the unit then; io_Device is NULL after a failure.
OpenDev(t) ==
  LET d == at[t]
      ok == want[t] < Units[d]
  IN  /\ pc[t] = "opendev"
      /\ openCnt' = [openCnt EXCEPT ![d] = IF ok \/ d \in Leaky THEN Wrap(@ + 1) ELSE @]
      /\ holds' = [holds EXCEPT ![t][d] = IF ok THEN @ + 1 ELSE @]
      /\ leaked' = [leaked EXCEPT ![d] = IF ~ok /\ d \in Leaky THEN @ + 1 ELSE @]
      /\ want' = [want EXCEPT ![t] = 0]
      /\ Back(t)
      /\ UNCHANGED <<bootVars, lists, sumVars, torn, reg>>

\* Seeded fault: the count is left to the expunge.
Bug_CloseKeeps(t, l) ==
  /\ Free(t) /\ holds[t][l] > 0
  /\ openCnt' = [openCnt EXCEPT ![l] = IF @ = 1 THEN 1 ELSE @ - 1]
  /\ holds' = [holds EXCEPT ![t][l] = @ - 1]
  /\ UNCHANGED <<bootVars, lists, sumVars, leaked, torn, want, reg, place>>

\* CloseLibrary and CloseDevice: the close vector, inside Forbid.
Close(t, l) ==
  /\ Free(t) /\ holds[t][l] > 0
  /\ openCnt' = [openCnt EXCEPT ![l] = Wrap(@ - 1)]
  /\ holds' = [holds EXCEPT ![t][l] = @ - 1]
  /\ UNCHANGED <<bootVars, lists, sumVars, leaked, torn, want, reg, place>>
----------------------------------------------------------------------------
\* RemLibrary and RemDevice ask neither lib_OpenCnt nor the expunge vector, which
\* returns NULL; the memory stays.
RemLibrary(t, l) ==
  /\ Free(t) /\ l # Exec
  /\ \/ l \in ToSet(libList) /\ libList' = Unlink(libList, l) /\ UNCHANGED devList
     \/ l \in ToSet(devList) /\ devList' = Unlink(devList, l) /\ UNCHANGED libList
  /\ removed' = removed \cup {l}
  /\ UNCHANGED <<bootVars, sumVars, opens, place>>

\* AddDevice: CHANGED, and Enqueue inside Forbid.
AddDevice(t, l) ==
  /\ Free(t) /\ l \in removed /\ Kind[l] = "device"
  /\ flags' = [flags EXCEPT ![l] = @ \cup {"CHANGED"}]
  /\ devList' = Enqueue(devList, l, LibPri)
  /\ removed' = removed \ {l}
  /\ UNCHANGED <<bootVars, libList, vec, libSum, oldflags, alert, opens, place>>

\* AddLibrary: CHANGED, SumLibrary, then Enqueue.  lib_Flags |= is two steps.
AddLibrary(t, l) ==
  /\ Free(t) /\ l \in removed /\ Kind[l] = "library"
  /\ oldflags' = [oldflags EXCEPT ![t] = flags[l]]
  /\ removed' = removed \ {l}
  /\ GoTo(t, "changed", l)
  /\ UNCHANGED <<bootVars, libList, devList, vec, flags, libSum, alert, opens>>

AddChanged(t) ==
  /\ pc[t] = "changed"
  /\ flags' = [flags EXCEPT ![at[t]] = oldflags[t] \cup {"CHANGED"}]
  /\ oldflags' = [oldflags EXCEPT ![t] = {}]
  /\ GoTo(t, "addsum", at[t])
  /\ UNCHANGED <<bootVars, lists, vec, libSum, alert, opens>>

AddEnqueue(t) ==
  /\ pc[t] = "enqueue"
  /\ libList' = Enqueue(libList, at[t], LibPri)
  /\ Back(t)
  /\ UNCHANGED <<bootVars, devList, removed, sumVars, opens>>

\* SumLibrary, with Forbid given up while it sums.
SumLibrary(t, l) ==
  /\ Free(t) /\ l \in ToSet(libList) \ {Exec}
  /\ GoTo(t, "sum", l)
  /\ UNCHANGED <<bootVars, lists, sumVars, opens>>

AfterSum(t) == IF pc[t] \in {"addsum", "addsumming"} THEN GoTo(t, "enqueue", at[t]) ELSE Back(t)

SumBegin(t) ==
  LET f == flags[at[t]]
  IN  /\ pc[t] \in {"sum", "addsum"}
      /\ IF "SUMUSED" \in f /\ "SUMMING" \notin f
         THEN /\ oldflags' = [oldflags EXCEPT ![t] = f]
              /\ flags' = [flags EXCEPT ![at[t]] = (f \cup {"SUMMING"}) \ {"CHANGED"}]
              /\ GoTo(t, IF pc[t] = "sum" THEN "summing" ELSE "addsumming", at[t])
         ELSE AfterSum(t) /\ UNCHANGED <<flags, oldflags>>
      /\ UNCHANGED <<bootVars, lists, vec, libSum, alert, opens>>

SumEnd(t) ==
  LET l == at[t]
      f == flags[l] \ {"SUMMING"}
  IN  /\ pc[t] \in {"summing", "addsumming"}
      /\ IF "CHANGED" \in f
         THEN /\ oldflags' = [oldflags EXCEPT ![t] = f]
              /\ flags' = [flags EXCEPT ![l] = (f \cup {"SUMMING"}) \ {"CHANGED"}]
              /\ UNCHANGED <<alert, libSum, place>>
         ELSE /\ alert' = (alert \/ ("CHANGED" \notin oldflags[t] /\ libSum[l] # Sum(l)))
              /\ libSum' = [libSum EXCEPT ![l] = Sum(l)]
              /\ flags' = [flags EXCEPT ![l] = f]
              /\ oldflags' = [oldflags EXCEPT ![t] = {}]
              /\ AfterSum(t)
      /\ UNCHANGED <<bootVars, lists, vec, opens>>

Write(l) == LET k == -NegSize(l)
            IN  vec[l][k] < Len(FuncTab[l]) + MaxWrites /\ vec' = [vec EXCEPT ![l][k] = @ + 1]

\* SetFunction: CHANGED and the vector, inside Forbid.
SetFunction(t, l) ==
  /\ Free(t) /\ l \in ToSet(libList) \ {Exec}
  /\ Write(l)
  /\ flags' = [flags EXCEPT ![l] = @ \cup {"CHANGED"}]
  /\ UNCHANGED <<bootVars, lists, libSum, oldflags, alert, opens, place>>

\* A stray write to the jump table, which the sum is there to find.
StrayWrite(l) ==
  /\ boot = "done" /\ l # Exec
  /\ Write(l)
  /\ UNCHANGED <<bootVars, lists, flags, libSum, oldflags, alert, opens, place>>

BootStep ==
  \/ \E m \in Module : RomTagScanner(m) \/ InitResident(m) \/ InitFails(m)
  \/ NextResident \/ ScanFails

OpenStep(t, L) ==
  \/ \E l \in L, v \in 0..1 : OpenLibrary(t, l, v) \/ OpenDevice(t, l, v)
  \/ \E l \in L : Close(t, l)
  \/ OpenLoad(t) \/ OpenStore(t) \/ OpenDev(t)

ListStep(t, L) == \E l \in L : RemLibrary(t, l) \/ AddDevice(t, l) \/ AddLibrary(t, l)

SumStep(t, L) ==
  \/ \E l \in L : SumLibrary(t, l) \/ SetFunction(t, l)
  \/ SumBegin(t) \/ SumEnd(t)

AddStep(t) == AddChanged(t) \/ AddEnqueue(t)

Next ==
  \/ BootStep
  \/ \E t \in Task : OpenStep(t, Lib) \/ ListStep(t, Lib) \/ SumStep(t, Lib) \/ AddStep(t)
  \/ \E l \in Lib : StrayWrite(l)

Spec == Init /\ [][Next]_vars
----------------------------------------------------------------------------
PC == {"user", "openlib", "store", "opendev", "changed", "addsum", "sum",
       "summing", "addsumming", "enqueue"}
Flags == SUBSET {"SUMUSED", "SUMMING", "CHANGED"}

BootType ==
  /\ boot \in {"scan", "single", "cold", "done", "halted"}
  /\ residents \in Seq(Module) /\ Distinct(residents) /\ ToSet(residents) = scanned
  /\ rank \in 1..Len(residents) + 1
  /\ inits \in [Lib -> Nat]

ListType == libList \in Seq(Lib) /\ devList \in Seq(Module) /\ removed \subseteq Module

SumType ==
  /\ DOMAIN vec = Lib /\ \A l \in Lib : DOMAIN vec[l] = {-4 * n : n \in 1..Len(FuncTab[l])}
  /\ flags \in [Lib -> Flags] /\ oldflags \in [Task -> Flags]
  /\ libSum \in [Lib -> Nat] /\ alert \in BOOLEAN

OpenType ==
  /\ openCnt \in [Lib -> UWORD] /\ holds \in [Task -> [Lib -> 0..MaxOpen]]
  /\ leaked \in [Lib -> Nat] /\ torn \subseteq Lib
  /\ want \in [Task -> Nat] /\ reg \in [Task -> UWORD]

PlaceType == pc \in [Task -> PC] /\ at \in [Task -> Lib \cup {NULL}]

TypeOK == BootType /\ ListType /\ SumType /\ OpenType /\ PlaceType

\* Who is adding module m again, and has not linked it yet.
AddPC == {"changed", "addsum", "addsumming", "enqueue"}
Adding(m) == {t \in Task : at[t] = m /\ pc[t] \in AddPC}

ListOf(m) == IF Kind[m] = "library" THEN libList ELSE devList

\* The lists are sorted, and each module that has been initialised is in the list of
\* its kind once, or taken out, or on its way back in: whoever scans, boots, removes
\* and adds (lib.exec/resident.c:11-92, library.c:36-60, devices.c:10-40).
ListsExact ==
  /\ TypeOK
  /\ Distinct(libList) /\ SortedBy(libList, LibPri)
  /\ Distinct(devList) /\ SortedBy(devList, LibPri)
  /\ \A m \in Module :
       /\ inits[m] = Cardinality(Adding(m)) + (IF m \in ToSet(ListOf(m)) THEN 1 ELSE 0)
                     + (IF m \in removed THEN 1 ELSE 0)
       /\ m \notin ToSet(IF Kind[m] = "library" THEN devList ELSE libList)

\* Residents are set up class by class and, within a class, by falling rt_Pri, whatever
\* the order of their addresses; once the tasks run, each has been set up exactly once
\* (resident.c:74-91, initresidentcode.c:23-36, _functab.c:262-265, _exectask.c:12-16).
BootOrder ==
  /\ \A m, n \in Module :
       /\ inits[n] > 0
       /\ \/ Class[m] = "single" /\ Class[n] = "cold"
          \/ Class[m] = Class[n] /\ RtPri[m] > RtPri[n]
       => inits[m] > 0
  /\ boot = "done" => \A m \in Module : inits[m] = 1

\* The opens of l that have not been closed, each with its number among its task's.
Opened(l) == {p \in Task \X (1..MaxOpen) : p[2] <= holds[p[1]][l]}

\* lib_OpenCnt is how often a library or device is open, counting
\* timer.device's failed opens, which nobody can close (timerdevice.c:8), unless two
\* tasks opened one at once (library.c:19-22): the increment is outside Forbid, and the
\* close or open of another task within it is lost.  Close, inside Forbid, loses none.
OpenCntExact ==
  \A l \in Lib \ torn :
    openCnt[l] = Wrap((IF l = Exec THEN 1 ELSE 0) + leaked[l] + Cardinality(Opened(l)))

\* The words of the jump table, which lies below the base.
TableSum(l) == FoldSet(LAMBDA k, s : s + vec[l][k], 0, {k \in -NegSize(l)..-1 : k % 4 = 0})

\* SumLibrary sums the jump table: "Get start of jumptable", "And sum it up"
\* (library.c:85-88).  What it leaves in lib_Sum is what the next one compares with.
SumsTable ==
  [][\A t \in Task : SumEnd(t) /\ pc'[t] # pc[t] => libSum'[at[t]] = TableSum(at[t])]_vars
============================================================================
