----------------------------- MODULE MCJobSlot -----------------------------
(* JobSlot with two of the three threads. *)
EXTENDS JobSlot

CONSTANTS k1, r1

TwoModes == {"get", "set"}
=============================================================================
