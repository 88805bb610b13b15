------------------------------- MODULE Calls -------------------------------
(***************************************************************************)
(* Routines that keep no state, called one at a time.                      *)
(***************************************************************************)
VARIABLE call    \* the last call: its arguments and its result

Idle == [op |-> "none"]

SupInit == call = Idle

Return == call # Idle /\ call' = Idle
=============================================================================
