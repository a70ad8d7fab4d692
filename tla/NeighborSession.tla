-------------------------- MODULE NeighborSession --------------------------
(***************************************************************************)
(* What a run of pimc looks like from the link, whatever its timers do:    *)
(* Hellos, and after the first of them whole rounds of Join/Prune updates, *)
(* each round in order and uninterrupted; then, once, the inverse updates  *)
(* in order; then, after the last of them, one Goodbye, and silence.  The  *)
(* program may give up at any point.                                       *)
(*                                                                         *)
(* IPv4Exec is the program itself and implements this specification.       *)
(***************************************************************************)
EXTENDS Naturals

CONSTANTS
  NUpdates,  \* how many packets a round of updates has, a natural number
  NInverse   \* how many inverse updates there are, a natural number

VARIABLES
  phase,  \* "silent", "present", "leaving", "gone", "aborted"
  sent    \* how many packets of the round, or inverse updates, have gone out

svars == <<phase, sent>>

SInit == phase = "silent" /\ sent = 0

SayHello ==
  /\ phase \in {"silent", "present"}
  /\ sent = 0
  /\ phase' = "present"
  /\ UNCHANGED sent

SendUpdate ==
  /\ phase = "present"
  /\ sent < NUpdates
  /\ sent' = sent + 1
  /\ UNCHANGED phase

EndRound ==
  /\ phase = "present"
  /\ sent = NUpdates
  /\ sent' = 0
  /\ UNCHANGED phase

StartLeaving ==
  /\ phase \in {"silent", "present"}
  /\ sent = 0
  /\ phase' = "leaving"
  /\ UNCHANGED sent

SendInverseUpdate ==
  /\ phase = "leaving"
  /\ sent < NInverse
  /\ sent' = sent + 1
  /\ UNCHANGED phase

SayGoodbye ==
  /\ phase = "leaving"
  /\ sent = NInverse
  /\ phase' = "gone"
  /\ UNCHANGED sent

Abort ==
  /\ phase \notin {"gone", "aborted"}
  /\ phase' = "aborted"
  /\ sent' = 0

SNext ==
  \/ SayHello
  \/ SendUpdate
  \/ EndRound
  \/ StartLeaving
  \/ SendInverseUpdate
  \/ SayGoodbye
  \/ Abort

SSpec == SInit /\ [][SNext]_svars
=============================================================================
