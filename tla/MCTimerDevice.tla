--------------------------- MODULE MCTimerDevice ---------------------------
(***************************************************************************)
(* TimerDevice and its links for TLC.  The tasks are alike.  They send     *)
(* requests to UNIT_VBLANK and wait; or all ask for the same delay, and    *)
(* not more than two are about to abort; or not more than two make calls   *)
(* of every kind.                                                          *)
(***************************************************************************)
EXTENDS TimerLinks

VARIABLE calls   \* "wait", "abort" or "all"

MCInit == Init /\ LinksInit /\ calls \in {"wait", "abort", "all"}

\* A task that has made no call, or waited for one request without a trace.
Fresh(t) == pc[t] = "user" /\ type[t] = "REPLYMSG" /\ port[t] = <<>> /\ ~sig[t]

\* A client of UNIT_VBLANK that waits for its requests.
Waiter(t) == TaskStep(t) /\ (pc[t] = "user" => DoIO(t) /\ AddRequest(t))

\* One that may abort them.
Aborter(t) ==
  /\ TaskStep(t)
  /\ pc[t] = "user" => AddRequest(t) /\ asked'[t] = N - 1
  /\ Cardinality({u \in Task : pc'[u] \in {"sent", "abort", "unlink", "reply"}}) <= 2

Caller(t) == TaskStep(t) /\ Cardinality({u \in Task : ~Fresh(u)'}) <= 2

MCNext ==
  /\ UNCHANGED calls
  /\ \/ Interrupt /\ mem' = InterruptLinks
     \/ \E t \in Task :
          /\ \/ calls = "wait" /\ Waiter(t)
             \/ calls = "abort" /\ Aborter(t)
             \/ calls = "all" /\ Caller(t)
          /\ LinkStep(t)
     \/ Damaged /\ UNCHANGED mem

MCSpec == MCInit /\ [][MCNext]_<<vars, mem, calls>>

Symmetry == Permutations(Task)
============================================================================
