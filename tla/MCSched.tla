------------------------------ MODULE MCSched ------------------------------
(***************************************************************************)
(* Instances of Sched for TLC: two client tasks and the idle task.         *)
(***************************************************************************)
EXTENDS Sched

CONSTANTS a, b

\* b is created above a.
Prioritised == (Idle :> -128) @@ (a :> 0) @@ (b :> 5)
\* a and b share the CPU.
EqualPri    == (Idle :> -128) @@ (a :> 0) @@ (b :> 0)

\* Clients ask SetTaskPri for what the idle task asks for: which priority ends up at
\* address 0 makes no difference, so one value is enough.
AsIdle == {IdlePri}

\* Signals differ by name only.
Symmetry == Permutations(Sig)

\* The bound of the larger instance: while a task is inside Forbid, at most one
\* kind of signal is received, waited for or loaded, by all tasks together.
InUse == UNION {sigRecvd[t] \cup signalSet[t] \cup reg[t] : t \in Tasks}

OneSignalInForbid == (\E t \in Tasks : held[t] > 0) => Cardinality(InUse) <= 1
=============================================================================
