----------------------------- MODULE MclstSender -----------------------------
(***************************************************************************)
(* mclst as a sender: run() and sendLoop() of apps/mclst/Sender.hpp and    *)
(* Sender.cpp, which send a packet a second, and the signal that stops it. *)
(***************************************************************************)
EXTENDS Integers

CONSTANTS
  Limits,    \* the values of cfg.count() looked at; 0 is no limit
  MaxSent    \* bound: a sender without a limit sends no more than this

ASSUME SenderAssumption == MaxSent \in Nat /\ Limits \subseteq 0 .. MaxSent

VARIABLES
  limit,     \* cfg.count()
  stopped,   \* the flag the signal handler sets
  pc,        \* "init", "while", "send", "count", "sleep", "report", "done",
             \* "raised"
  seq,       \* Sender::seq_
  reported,  \* what showTxStats() says has been sent, -1 before
  sent,      \* history: packets sent
  sentLate   \* history: packets sent since the flag was set

vars == <<limit, stopped, pc, seq, reported, sent, sentLate>>

Init ==
  /\ limit \in Limits
  /\ stopped = FALSE
  /\ pc = "init"
  /\ seq = 0
  /\ reported = -1
  /\ sent = 0
  /\ sentLate = 0

Goto(from, to) ==
  /\ pc = from
  /\ pc' = to

(* init() opens the socket and fills in the packet.                        *)
Initialise ==
  /\ Goto("init", "while")
  /\ UNCHANGED <<limit, stopped, seq, reported, sent, sentLate>>

(* init() or sendto() fails: run() is left without statistics.             *)
Fail ==
  /\ Goto("init", "raised") \/ Goto("send", "raised")
  /\ UNCHANGED <<limit, stopped, seq, reported, sent, sentLate>>

Bounded == limit # 0 \/ sent < MaxSent

(* A compiler that keeps the flag, a plain bool, in a register.            *)
TestFlagCached ==
  /\ Bounded
  /\ Goto("while", "send")
  /\ UNCHANGED <<limit, stopped, seq, reported, sent, sentLate>>

(* while (not stopped_)                                                    *)
TestFlag ==
  /\ stopped \/ Bounded
  /\ IF stopped THEN Goto("while", "report") ELSE Goto("while", "send")
  /\ UNCHANGED <<limit, stopped, seq, reported, sent, sentLate>>

(* sendto() succeeds.                                                      *)
Send ==
  /\ Goto("send", "count")
  /\ sent' = sent + 1
  /\ sentLate' = sentLate + (IF stopped THEN 1 ELSE 0)
  /\ UNCHANGED <<limit, stopped, seq, reported>>

(* A limit compared with the number of the packet just sent.               *)
CountLate ==
  /\ seq' = seq + 1
  /\ IF limit # 0 /\ seq >= limit THEN Goto("count", "report")
                                  ELSE Goto("count", "sleep")
  /\ UNCHANGED <<limit, stopped, reported, sent, sentLate>>

(* ++seq_, and the end of the loop once the limit is reached.              *)
Count ==
  /\ seq' = seq + 1
  /\ IF limit # 0 /\ seq' >= limit THEN Goto("count", "report")
                                   ELSE Goto("count", "sleep")
  /\ UNCHANGED <<limit, stopped, reported, sent, sentLate>>

(* sleep_for(1s), which a signal does not cut short.                       *)
Sleep ==
  /\ Goto("sleep", "while")
  /\ UNCHANGED <<limit, stopped, seq, reported, sent, sentLate>>

(* run() shows seq_ + 1 packets.                                           *)
Report ==
  /\ Goto("report", "done")
  /\ reported' = seq + 1
  /\ UNCHANGED <<limit, stopped, seq, sent, sentLate>>

Program ==
  \/ Initialise
  \/ TestFlag
  \/ Send
  \/ Count
  \/ Sleep
  \/ Report

Running == pc \notin {"done", "raised"}

(* SIGINT, SIGTERM or SIGHUP set the flag.                                 *)
Signal ==
  /\ Running
  /\ ~stopped
  /\ stopped' = TRUE
  /\ UNCHANGED <<limit, pc, seq, reported, sent, sentLate>>

Next ==
  \/ Program
  \/ Fail
  \/ Signal

Spec == Init /\ [][Next]_vars /\ WF_vars(Program)
-----------------------------------------------------------------------------
(* Every variable has its type.                                            *)
TypeOK ==
  /\ limit \in Limits
  /\ stopped \in BOOLEAN
  /\ pc \in {"init", "while", "send", "count", "sleep", "report", "done",
             "raised"}
  /\ seq \in 0 .. MaxSent
  /\ reported \in -1 .. MaxSent + 1
  /\ sent \in 0 .. MaxSent
  /\ sentLate \in Nat

(* With --count the sender sends exactly that many packets unless it is    *)
(* stopped or fails, and never more (Sender.cpp:71-73).                    *)
LimitExact ==
  limit # 0 =>
    /\ sent <= limit
    /\ pc = "done" /\ ~stopped => sent = limit

(* Once the flag is set at most one more packet is sent (Sender.cpp:61-68).*)
StopsAtOnce == sentLate <= 1

(* A signal ends the run, after the pause it falls in (Sender.cpp:61, 75). *)
StopEndsRun == stopped ~> ~Running

(* The statistics shown at the end are the packets sent (Sender.hpp:15,    *)
(* OutputHandler.hpp:351).                                                 *)
ReportsWhatItSent == pc = "done" => reported = sent
=============================================================================
