--------------------------- MODULE MCMclstReceiver ---------------------------
(* The raw receiver with two flows, without a limit and with one of two    *)
(* packets.                                                                *)
EXTENDS MclstReceiver

CONSTANTS f1, f2

MCFlows == {f1, f2}
MCOthers == {"noshow", "filtered"}
MCLimits == {0, 2}
=============================================================================
