---------------------------- MODULE MC_Minting ----------------------------
(* Model values for Minting that a .cfg cannot write.                      *)
EXTENDS Minting

(* A block time may lie before its parent's (a negative spacing, clamped   *)
(* to 1), equal it, match the pre-upgrade spacing, or exceed the timespan. *)
MCTimeSteps == {-10, 0, 45, 1000}
============================================================================
