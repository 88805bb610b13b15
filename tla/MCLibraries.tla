---------------------------- MODULE MCLibraries ----------------------------
(***************************************************************************)
(* The libraries and expansion.library's mount list on one small machine:  *)
(* two libraries and two devices, and two tasks.  Calls that touch         *)
(* different variables are explored one group at a time: after the boot    *)
(* the tasks open and close while modules come and go, or sum and patch,   *)
(* or mount.                                                               *)
(***************************************************************************)
EXTENDS Libraries, Expansion

CONSTANTS exec, expansion, utility, timer, testdev, n1, n2, n3, dh0, dh1

Kinds    == (expansion :> "library") @@ (utility :> "library")
            @@ (timer :> "device") @@ (testdev :> "device")
Classes  == (expansion :> "single") @@ (utility :> "cold")
            @@ (timer :> "cold") @@ (testdev :> "cold")
RtPris   == (expansion :> 110) @@ (utility :> 30) @@ (timer :> 50) @@ (testdev :> 30)
LibPris  == (exec :> -127) @@ (expansion :> -100) @@ (utility :> 0)
            @@ (timer :> 0) @@ (testdev :> 0)
Versions == (exec :> 0) @@ (expansion :> 0) @@ (utility :> 0) @@ (timer :> 0) @@ (testdev :> 0)
OneUnit  == (timer :> 1) @@ (testdev :> 1)
Tables   == [l \in Lib |-> <<1, 2>>]
BootPris == (n1 :> 0) @@ (n2 :> 5) @@ (n3 :> 0)

VARIABLE calls   \* which group of calls the tasks make

MCInit == Init /\ ExpInit /\ calls \in {"open", "sum", "mount"}

MCNext ==
  /\ UNCHANGED calls
  /\ \/ BootStep /\ UNCHANGED expVars
     \/ /\ calls = "open" /\ UNCHANGED expVars
        /\ \E t \in Task : \/ OpenStep(t, {utility, timer, testdev})
                           \/ RemLibrary(t, utility)
     \/ /\ calls = "sum" /\ UNCHANGED expVars
        /\ \/ \E t \in Task : \/ SumStep(t, {utility, expansion}) \/ AddStep(t)
                              \/ ListStep(t, {utility, timer, testdev})
           \/ \E l \in {utility, expansion} : StrayWrite(l)
     \/ calls = "mount" /\ boot = "done" /\ ExpNext /\ UNCHANGED vars

MCSpec == MCInit /\ [][MCNext]_<<vars, expVars, calls>>
============================================================================
