-------------------------- MODULE MclstSenderProofs --------------------------
(***************************************************************************)
(* Proofs about the mclst sender: for every value of --count and every     *)
(* moment at which the signal arrives.                                     *)
(***************************************************************************)
EXTENDS MclstSender, TLAPS

(* How far the packets run ahead of Sender::seq_: the one between sendto() *)
(* and ++seq_.                                                             *)
InFlight == IF pc = "count" THEN 1 ELSE 0

InLoop == pc \in {"init", "while", "send", "count", "sleep"}

(* seq_ counts the packets.                                                *)
CountInv == sent = seq + InFlight

(* In the loop the limit is not reached; the loop is left when it is, or   *)
(* when the flag is seen.                                                  *)
LimitInv ==
  limit # 0 =>
    /\ InLoop \/ pc = "raised" => seq < limit
    /\ pc \in {"report", "done"} => seq <= limit
    /\ pc \in {"report", "done"} /\ ~stopped => seq = limit

(* Without a limit the bound on the model keeps sent within MaxSent.       *)
BoundInv == limit = 0 /\ pc = "send" => sent < MaxSent

(* Nothing is sent late before the flag is set, nor before the test that   *)
(* follows: one pass through the loop is all that is left.                 *)
LateInv ==
  /\ ~stopped => sentLate = 0
  /\ pc = "send" => sentLate = 0
  /\ sentLate <= 1

IInv == TypeOK /\ CountInv /\ LimitInv /\ BoundInv /\ LateInv
-----------------------------------------------------------------------------
LEMMA InitIInv == Init => IInv
<1> SUFFICES ASSUME Init PROVE IInv
  OBVIOUS
<1> USE SenderAssumption DEF Init
<1>1. TypeOK
  <2>1. limit \in Limits /\ 0 \in 0 .. MaxSent /\ 0 \in Nat
    OBVIOUS
  <2>2. -1 \in -1 .. MaxSent + 1
    OBVIOUS
  <2> QED
    BY <2>1, <2>2 DEF TypeOK
<1>2. CountInv /\ BoundInv /\ LateInv
  BY DEF CountInv, InFlight, BoundInv, LateInv
<1>3. LimitInv
  BY DEF LimitInv, InLoop
<1> QED
  BY <1>1, <1>2, <1>3 DEF IInv

LEMMA NextIInv == IInv /\ [Next]_vars => IInv'
<1> SUFFICES ASSUME IInv, [Next]_vars PROVE IInv'
  OBVIOUS
<1> USE SenderAssumption
<1> USE DEF IInv, TypeOK, CountInv, InFlight, LimitInv, InLoop, BoundInv,
            LateInv, Goto
<1>1. CASE Initialise
  BY <1>1 DEF Initialise
<1>2. CASE TestFlag
  <2>1. CASE stopped
    BY <1>2, <2>1 DEF TestFlag
  <2>2. CASE ~stopped
    BY <1>2, <2>2 DEF TestFlag, Bounded
  <2> QED
    BY <2>1, <2>2
<1>3. CASE Send
  <2>1. sent < MaxSent
    BY <1>3 DEF Send
  <2> QED
    BY <1>3, <2>1 DEF Send
<1>4. CASE Count
  BY <1>4 DEF Count
<1>5. CASE Sleep
  BY <1>5 DEF Sleep
<1>6. CASE Report
  BY <1>6 DEF Report
<1>7. CASE Fail
  BY <1>7 DEF Fail
<1>8. CASE Signal
  BY <1>8 DEF Signal, Running
<1>9. CASE UNCHANGED vars
  BY <1>9 DEF vars
<1> QED
  BY <1>1, <1>2, <1>3, <1>4, <1>5, <1>6, <1>7, <1>8, <1>9 DEF Next, Program

LEMMA Invariance == Spec => []IInv
BY InitIInv, NextIInv, PTL DEF Spec
-----------------------------------------------------------------------------
(* Every variable of the sender keeps its type; seq_ and the count that    *)
(* showTxStats() gets stay within their bounds (Sender.cpp:58-77).         *)
THEOREM TypeCorrect == Spec => []TypeOK
<1>1. IInv => TypeOK
  BY DEF IInv
<1> QED
  BY <1>1, Invariance, PTL

(* For every value of --count: never a packet more, and exactly that many  *)
(* when sendLoop() ends without a signal (Sender.cpp:71-73).               *)
THEOREM SendsExactlyTheLimit == Spec => []LimitExact
<1>1. IInv => LimitExact
  BY SenderAssumption
     DEF IInv, TypeOK, CountInv, InFlight, LimitInv, InLoop, LimitExact
<1> QED
  BY <1>1, Invariance, PTL

(* Wherever the signal falls in sendLoop(), at most one packet follows it  *)
(* (Sender.cpp:61-68).                                                     *)
THEOREM StopsWithinOnePacket == Spec => []StopsAtOnce
<1>1. IInv => StopsAtOnce
  BY DEF IInv, LateInv, StopsAtOnce
<1> QED
  BY <1>1, Invariance, PTL
=============================================================================
