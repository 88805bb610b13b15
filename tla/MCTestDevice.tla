---------------------------- MODULE MCTestDevice ----------------------------
(***************************************************************************)
(* TestDevice for TLC.                                                     *)
(***************************************************************************)
EXTENDS TestDevice

CONSTANTS c1, c2

\* c1's command always goes to the device task and fails there; c2's is done
\* quickly by DoIO, and goes to the device task by SendIO.
WriteAndUpdate == (c1 :> {"WRITE"}) @@ (c2 :> {"UPDATE"})
=============================================================================
