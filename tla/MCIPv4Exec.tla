----------------------------- MODULE MCIPv4Exec -----------------------------
EXTENDS IPv4Exec

CONSTANTS a, b

MCUpdates == << {a}, {b} >>
MCInverse == << {a, b} >>

(* The hold times of the run are the shortest that suffice.                *)
ASSUME MCHoldTimes == HoldTimesSuffice
=============================================================================
