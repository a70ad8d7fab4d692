---------------------------- MODULE MCMclstSender ----------------------------
(* A sender without a limit and with limits up to the bound.               *)
EXTENDS MclstSender

MCLimits == 0 .. MaxSent
=============================================================================
