--------------------------- MODULE IPv4ExecProofs ---------------------------
(***************************************************************************)
(* Theorems about IPv4Exec: its type invariant, and that it implements     *)
(* NeighborSession, for all packets, periods, hold times and bounds.       *)
(*                                                                         *)
(* What makes the refinement work is the order of the two events: both are *)
(* armed from one reading of the clock, the Hello first, and as long as no *)
(* Hello has been sent the updates are not due before it (OrderInv).       *)
(***************************************************************************)
EXTENDS IPv4Exec, TLAPS

(* The packets of a round and the inverse ones are sent one after another. *)
CountInv ==
  /\ pc = "updates" => n <= Len(Updates) + 1
  /\ pc \in {"goodbyeJP", "goodbye", "exited"} => n <= Len(Inverse) + 1

(* No updates before the first Hello.                                      *)
OrderInv ==
  /\ pc = "starting" => ~greeted
  /\ pc = "updates" => greeted
  /\ ~greeted /\ pc \in {"while", "hello", "jp", "sleep"} => helloNext <= jpNext
  /\ ~greeted /\ pc = "jp" => cts < helloNext

EInv == TypeOK /\ CountInv /\ OrderInv
-----------------------------------------------------------------------------
LEMMA ConstantFacts ==
  /\ HelloPeriod \in Nat /\ HelloHold \in Nat /\ JPPeriod \in Nat
  /\ JPHold \in Nat /\ SleepTime \in Nat /\ MaxLoop \in Nat
  /\ MaxLoss \in Nat /\ MaxBack \in Nat /\ MaxAhead \in Nat
  /\ Len(Updates) \in Nat /\ Len(Inverse) \in Nat
BY ExecAssumption

(* What the neighbor hears keeps the types of its variables.               *)
LEMMA NeighborTypes ==
  ASSUME TypeOK
  PROVE  /\ \A hold \in Nat : HearHello(hold) =>
              helloTill' \in Nat /\ losses' = losses /\ joinTill' = joinTill
         /\ \A states : \A till \in Nat : HearUpdate(states, till) =>
              /\ joinTill' \in [States -> Nat]
              /\ losses' = losses /\ helloTill' = helloTill
         /\ Lose => /\ losses' \in 0 .. MaxLoss
                    /\ helloTill' = helloTill /\ joinTill' = joinTill
<1>1. ASSUME NEW hold \in Nat, HearHello(hold)
      PROVE  helloTill' \in Nat /\ losses' = losses /\ joinTill' = joinTill
  BY <1>1 DEF HearHello, TypeOK
<1>2. ASSUME NEW states, NEW till \in Nat, HearUpdate(states, till)
      PROVE  /\ joinTill' \in [States -> Nat]
             /\ losses' = losses /\ helloTill' = helloTill
  BY <1>2 DEF HearUpdate, TypeOK
<1>3. ASSUME Lose
      PROVE  /\ losses' \in 0 .. MaxLoss
             /\ helloTill' = helloTill /\ joinTill' = joinTill
  BY <1>3, ConstantFacts DEF Lose, TypeOK
<1> QED
  BY <1>1, <1>2, <1>3

LEMMA InitEInv == Init => EInv
<1> SUFFICES ASSUME Init PROVE EInv
  OBVIOUS
<1>1. TypeOK
  <2>1. joinTill \in [States -> Nat]
    BY DEF Init
  <2>2. /\ spent \in 0 .. MaxLoop /\ back \in 0 .. MaxBack
        /\ ahead \in 0 .. MaxAhead /\ losses \in 0 .. MaxLoss
        /\ n \in 1 .. Len(Updates) + Len(Inverse) + 1
    BY ConstantFacts DEF Init
  <2>3. /\ now = 1 /\ skew = 0 /\ helloTill = 0 /\ cts = 0 /\ helloNext = 0
        /\ jpNext = 0 /\ pc = "starting"
        /\ stopped \in BOOLEAN /\ greeted \in BOOLEAN
    BY DEF Init
  <2> QED
    BY <2>1, <2>2, <2>3 DEF TypeOK
<1>2. CountInv /\ OrderInv
  BY DEF Init, CountInv, OrderInv
<1> QED
  BY <1>1, <1>2 DEF EInv

LEMMA NextTypeOK == EInv /\ [Next]_vars => TypeOK'
<1> SUFFICES ASSUME EInv, [Next]_vars PROVE TypeOK'
  OBVIOUS
<1> USE ConstantFacts DEF clockVars, neighborVars
<1>1. TypeOK
  BY DEF EInv
<1>2. CASE CreateFails
  BY <1>1, <1>2 DEF CreateFails, TypeOK
<1>3. CASE Create
  BY <1>1, <1>3 DEF Create, TypeOK, Wall
<1>4. CASE EnterLoop
  BY <1>1, <1>4 DEF EnterLoop, TypeOK, Wall
<1>5. CASE HelloNotReady
  BY <1>1, <1>5 DEF HelloNotReady, TypeOK
<1>6. CASE SendHello
  <2>1. helloTill' \in Nat /\ losses' \in 0 .. MaxLoss /\ joinTill' \in [States -> Nat]
    BY <1>1, <1>6, NeighborTypes DEF SendHello, SendFails, TypeOK
  <2>2. helloNext' \in Int
    BY <1>1, <1>6 DEF SendHello, TypeOK
  <2>3. pc' \in {"jp", "failed"} /\ greeted' \in {TRUE, greeted}
    BY <1>6 DEF SendHello, SendFails
  <2>4. UNCHANGED <<clockVars, spent, stopped, cts, jpNext, n>>
    BY <1>6 DEF SendHello
  <2> QED
    BY <1>1, <2>1, <2>2, <2>3, <2>4 DEF TypeOK
<1>7. CASE UpdatesNotReady
  BY <1>1, <1>7 DEF UpdatesNotReady, TypeOK
<1>8. CASE StartRound
  BY <1>1, <1>8 DEF StartRound, TypeOK
<1>9. CASE SendUpdatePacket
  <2>1. helloTill' \in Nat /\ losses' \in 0 .. MaxLoss /\ joinTill' \in [States -> Nat]
    <3>1. now + JPHold \in Nat
      BY <1>1 DEF TypeOK
    <3> QED
      BY <1>1, <1>9, <3>1, NeighborTypes DEF SendUpdatePacket, SendFails, TypeOK
  <2>2. /\ n' \in 1 .. Len(Updates) + Len(Inverse) + 1
        /\ pc' \in {"updates", "failed"}
        /\ UNCHANGED <<clockVars, spent, stopped, cts, helloNext, jpNext, greeted>>
    BY <1>1, <1>9 DEF SendUpdatePacket, SendFails, TypeOK
  <2> QED
    BY <1>1, <2>1, <2>2 DEF TypeOK
<1>10. CASE EndRound
  BY <1>1, <1>10 DEF EndRound, TypeOK
<1>11. CASE WakeUp
  BY <1>1, <1>11 DEF WakeUp, TypeOK
<1>12. CASE LeaveLoop
  BY <1>1, <1>12 DEF LeaveLoop, TypeOK, Wall
<1>13. CASE SendInversePacket
  <2>1. helloTill' \in Nat /\ losses' \in 0 .. MaxLoss /\ joinTill' \in [States -> Nat]
    BY <1>1, <1>13, NeighborTypes DEF SendInversePacket, SendFails, TypeOK
  <2>2. /\ n' \in 1 .. Len(Updates) + Len(Inverse) + 1
        /\ pc' \in {"goodbyeJP", "failed"}
        /\ UNCHANGED <<clockVars, spent, stopped, cts, helloNext, jpNext, greeted>>
    BY <1>1, <1>13 DEF SendInversePacket, SendFails, TypeOK
  <2> QED
    BY <1>1, <2>1, <2>2 DEF TypeOK
<1>14. CASE EndInverse
  BY <1>1, <1>14 DEF EndInverse, TypeOK, Wall
<1>15. CASE SendGoodbye
  <2>1. helloTill' \in Nat /\ losses' \in 0 .. MaxLoss /\ joinTill' \in [States -> Nat]
    BY <1>1, <1>15, NeighborTypes DEF SendGoodbye, SendFails, TypeOK
  <2>2. /\ pc' \in {"exited", "failed"}
        /\ UNCHANGED <<clockVars, spent, stopped, cts, helloNext, jpNext, n, greeted>>
    BY <1>1, <1>15 DEF SendGoodbye, SendFails, TypeOK
  <2> QED
    BY <1>1, <2>1, <2>2 DEF TypeOK
<1>16. CASE Signal
  BY <1>1, <1>16 DEF Signal, TypeOK
<1>17. CASE Tick
  BY <1>1, <1>17 DEF Tick, TypeOK
<1>18. CASE SetClockBack
  BY <1>1, <1>18 DEF SetClockBack, TypeOK
<1>19. CASE SetClockAhead
  BY <1>1, <1>19 DEF SetClockAhead, TypeOK
<1>20. CASE UNCHANGED vars
  BY <1>1, <1>20 DEF vars, TypeOK
<1> QED
  BY <1>2, <1>3, <1>4, <1>5, <1>6, <1>7, <1>8, <1>9, <1>10, <1>11, <1>12, <1>13,
     <1>14, <1>15, <1>16, <1>17, <1>18, <1>19, <1>20 DEF Next, Program

LEMMA NextCountOrder == EInv /\ [Next]_vars => CountInv' /\ OrderInv'
<1> SUFFICES ASSUME EInv, [Next]_vars PROVE CountInv' /\ OrderInv'
  OBVIOUS
<1> USE ConstantFacts DEF clockVars, neighborVars, CountInv, OrderInv
<1>1. /\ CountInv /\ OrderInv
      /\ n \in Nat /\ cts \in Int /\ helloNext \in Int /\ jpNext \in Int
      /\ now \in Nat /\ skew \in Int
  BY DEF EInv, TypeOK
<1>2. CASE CreateFails
  BY <1>1, <1>2 DEF CreateFails
<1>3. CASE Create
  BY <1>1, <1>3 DEF Create, Wall
<1>4. CASE EnterLoop
  BY <1>1, <1>4 DEF EnterLoop
<1>5. CASE HelloNotReady
  BY <1>1, <1>5 DEF HelloNotReady
<1>6. CASE SendHello
  BY <1>1, <1>6 DEF SendHello, SendFails
<1>7. CASE UpdatesNotReady
  BY <1>1, <1>7 DEF UpdatesNotReady
<1>8. CASE StartRound
  BY <1>1, <1>8 DEF StartRound
<1>9. CASE SendUpdatePacket
  BY <1>1, <1>9 DEF SendUpdatePacket, SendFails
<1>10. CASE EndRound
  BY <1>1, <1>10 DEF EndRound
<1>11. CASE WakeUp
  BY <1>1, <1>11 DEF WakeUp
<1>12. CASE LeaveLoop
  BY <1>1, <1>12 DEF LeaveLoop
<1>13. CASE SendInversePacket
  BY <1>1, <1>13 DEF SendInversePacket, SendFails
<1>14. CASE EndInverse
  BY <1>1, <1>14 DEF EndInverse
<1>15. CASE SendGoodbye
  BY <1>1, <1>15 DEF SendGoodbye, SendFails
<1>16. CASE Signal
  BY <1>1, <1>16 DEF Signal
<1>17. CASE Tick
  BY <1>1, <1>17 DEF Tick
<1>18. CASE SetClockBack
  BY <1>1, <1>18 DEF SetClockBack
<1>19. CASE SetClockAhead
  BY <1>1, <1>19 DEF SetClockAhead
<1>20. CASE UNCHANGED vars
  BY <1>1, <1>20 DEF vars
<1> QED
  BY <1>2, <1>3, <1>4, <1>5, <1>6, <1>7, <1>8, <1>9, <1>10, <1>11, <1>12, <1>13,
     <1>14, <1>15, <1>16, <1>17, <1>18, <1>19, <1>20 DEF Next, Program

LEMMA ExecInvariance == Spec => []EInv
<1>1. Init => EInv
  BY InitEInv
<1>2. EInv /\ [Next]_vars => EInv'
  BY NextTypeOK, NextCountOrder DEF EInv
<1> QED
  BY <1>1, <1>2, PTL DEF Spec

(* Every variable of the run keeps its type; in particular the counter of  *)
(* the packets never runs past the end of a round (IPv4JPUpdateEvent.hpp:  *)
(* 55-66, IPv4GoodbyeJPUpdateEvent.hpp:41-52).                             *)
THEOREM ExecTypeCorrect == Spec => []TypeOK
<1>1. EInv => TypeOK
  BY DEF EInv
<1> QED
  BY <1>1, ExecInvariance, PTL
-----------------------------------------------------------------------------
(***************************************************************************)
(* The refinement                                                          *)
(***************************************************************************)

(* The abstract state, place by place.                                     *)
LEMMA MappingFacts ==
  /\ pc = "exited" => phase = "gone" /\ sentPackets = Len(Inverse)
  /\ pc = "failed" => phase = "aborted" /\ sentPackets = 0
  /\ pc = "goodbyeJP" => phase = "leaving" /\ sentPackets = n - 1
  /\ pc = "goodbye" => phase = "leaving" /\ sentPackets = Len(Inverse)
  /\ pc = "updates" =>
       phase = (IF greeted THEN "present" ELSE "silent") /\ sentPackets = n - 1
  /\ pc \in {"starting", "while", "hello", "jp", "sleep"} =>
       phase = (IF greeted THEN "present" ELSE "silent") /\ sentPackets = 0
BY DEF phase, sentPackets

LEMMA InitSession == Init => Session!SInit
BY MappingFacts DEF Init, Session!SInit

LEMMA MappingFactsNext ==
  /\ pc' = "exited" => phase' = "gone" /\ sentPackets' = Len(Inverse)
  /\ pc' = "failed" => phase' = "aborted" /\ sentPackets' = 0
  /\ pc' = "goodbyeJP" => phase' = "leaving" /\ sentPackets' = n' - 1
  /\ pc' = "goodbye" => phase' = "leaving" /\ sentPackets' = Len(Inverse)
  /\ pc' = "updates" =>
       phase' = (IF greeted' THEN "present" ELSE "silent") /\ sentPackets' = n' - 1
  /\ pc' \in {"starting", "while", "hello", "jp", "sleep"} =>
       phase' = (IF greeted' THEN "present" ELSE "silent") /\ sentPackets' = 0
BY DEF phase, sentPackets

(* Every step of the program is a step of the session, or none at all.     *)
LEMMA NextSession == EInv /\ [Next]_vars => [Session!SNext]_(Session!svars)
<1> SUFFICES ASSUME EInv, [Next]_vars PROVE [Session!SNext]_(Session!svars)
  OBVIOUS
<1> USE ConstantFacts, MappingFacts, MappingFactsNext DEF Session!svars
<1>1. /\ n \in 1 .. Len(Updates) + Len(Inverse) + 1 /\ greeted \in BOOLEAN
      /\ pc = "updates" => n <= Len(Updates) + 1
      /\ pc = "goodbyeJP" => n <= Len(Inverse) + 1
      /\ pc = "updates" => greeted
      /\ ~greeted /\ pc = "jp" => helloNext <= jpNext /\ cts < helloNext
      /\ cts \in Int /\ helloNext \in Int /\ jpNext \in Int
  BY DEF EInv, TypeOK, CountInv, OrderInv
(* A step that neither sends nor changes the phase.                        *)
<1>2. ASSUME pc \in {"starting", "while", "hello", "jp", "sleep"},
             pc' \in {"starting", "while", "hello", "jp", "sleep"},
             greeted' = greeted
      PROVE  UNCHANGED Session!svars
  BY <1>2
(* A step that leaves every variable of the mapping as it is.              *)
<1>3. ASSUME UNCHANGED <<pc, n, greeted>>
      PROVE  UNCHANGED Session!svars
  BY <1>3 DEF phase, sentPackets
(* A failure, from any place where the program still runs.                 *)
<1>4. ASSUME pc \notin {"exited", "failed"}, pc' = "failed"
      PROVE  Session!Abort
  BY <1>4 DEF Session!Abort, phase
<1>5. CASE CreateFails
  BY <1>4, <1>5 DEF CreateFails, Session!SNext
<1>6. CASE Create
  BY <1>2, <1>6 DEF Create
<1>7. CASE EnterLoop
  BY <1>2, <1>7 DEF EnterLoop
<1>8. CASE HelloNotReady
  BY <1>2, <1>8 DEF HelloNotReady
<1>9. CASE SendHello
  <2>1. CASE SendFails
    BY <1>4, <1>9, <2>1 DEF SendHello, SendFails, Session!SNext
  <2>2. CASE pc = "hello" /\ pc' = "jp" /\ greeted' = TRUE
    BY <1>1, <2>2 DEF Session!SayHello, Session!SNext
  <2> QED
    BY <1>9, <2>1, <2>2 DEF SendHello
<1>10. CASE UpdatesNotReady
  BY <1>2, <1>10 DEF UpdatesNotReady
<1>11. CASE StartRound
  <2>1. greeted
    BY <1>1, <1>11 DEF StartRound
  <2> QED
    BY <1>11, <2>1 DEF StartRound
<1>12. CASE SendUpdatePacket
  <2>1. CASE SendFails
    BY <1>4, <1>12, <2>1 DEF SendUpdatePacket, SendFails, Session!SNext
  <2>2. CASE /\ pc = "updates" /\ pc' = "updates" /\ greeted' = greeted
             /\ n <= Len(Updates) /\ n' = n + 1
    BY <1>1, <2>2 DEF Session!SendUpdate, Session!SNext
  <2> QED
    BY <1>12, <2>1, <2>2 DEF SendUpdatePacket
<1>13. CASE EndRound
  <2>1. greeted /\ n - 1 = Len(Updates)
    BY <1>1, <1>13 DEF EndRound
  <2> QED
    BY <1>13, <2>1 DEF EndRound, Session!EndRound, Session!SNext
<1>14. CASE WakeUp
  BY <1>2, <1>14 DEF WakeUp
<1>15. CASE LeaveLoop
  BY <1>1, <1>15 DEF LeaveLoop, Session!StartLeaving, Session!SNext
<1>16. CASE SendInversePacket
  <2>1. CASE SendFails
    BY <1>4, <1>16, <2>1 DEF SendInversePacket, SendFails, Session!SNext
  <2>2. CASE /\ pc = "goodbyeJP" /\ pc' = "goodbyeJP"
             /\ n <= Len(Inverse) /\ n' = n + 1
    BY <1>1, <2>2 DEF Session!SendInverseUpdate, Session!SNext
  <2> QED
    BY <1>16, <2>1, <2>2 DEF SendInversePacket
<1>17. CASE EndInverse
  <2>1. n - 1 = Len(Inverse)
    BY <1>1, <1>17 DEF EndInverse
  <2> QED
    BY <1>17, <2>1 DEF EndInverse
<1>18. CASE SendGoodbye
  <2>1. CASE SendFails
    BY <1>4, <1>18, <2>1 DEF SendGoodbye, SendFails, Session!SNext
  <2>2. CASE pc = "goodbye" /\ pc' = "exited"
    BY <2>2 DEF Session!SayGoodbye, Session!SNext
  <2> QED
    BY <1>18, <2>1, <2>2 DEF SendGoodbye
<1>19. CASE Signal
  BY <1>3, <1>19 DEF Signal
<1>20. CASE Tick
  BY <1>3, <1>20 DEF Tick
<1>21. CASE SetClockBack
  BY <1>3, <1>21 DEF SetClockBack
<1>22. CASE SetClockAhead
  BY <1>3, <1>22 DEF SetClockAhead
<1>23. CASE UNCHANGED vars
  BY <1>3, <1>23 DEF vars
<1> QED
  BY <1>5, <1>6, <1>7, <1>8, <1>9, <1>10, <1>11, <1>12, <1>13, <1>14, <1>15,
     <1>16, <1>17, <1>18, <1>19, <1>20, <1>21, <1>22, <1>23 DEF Next, Program

(* Whatever the periods, the hold times, the number of packets, the losses *)
(* and the steps of the clock, pimc behaves towards the link as            *)
(* NeighborSession says: Hello first, whole rounds, inverse updates,       *)
(* Goodbye, silence (IPv4Exec.cpp:64-99, FixedEventQueue.hpp:131-153).     *)
THEOREM SessionTheorem == Spec => ImplementsSession
<1>1. Init => Session!SInit
  BY InitSession
<1>2. EInv /\ [Next]_vars => [Session!SNext]_(Session!svars)
  BY NextSession
<1> QED
  BY <1>1, <1>2, ExecInvariance, PTL DEF Spec, ImplementsSession, Session!SSpec
-----------------------------------------------------------------------------
(***************************************************************************)
(* The hold times                                                          *)
(*                                                                         *)
(* Dates are in real time: an event armed for the wall clock time t is due *)
(* at t - skew.  What is due at the latest at a date d is found ready by   *)
(* the first pass that reads the clock at d or later, and until then every *)
(* pass has read it before d.                                              *)
(***************************************************************************)
Loop == {"while", "hello", "jp", "updates", "sleep"}

(* What the losses have put off the next Hello, or round, by so far.       *)
HelloStep == HelloPeriod + MaxLoop - 1
JPStep == JPPeriod + MaxLoop - 1
HelloLag == losses * HelloStep
JPLag == losses * JPStep

(* When this pass read the clock.                                          *)
ReadAt == now - spent

(* By when the Hello after the last one heard, and the update after the    *)
(* last one heard for state s, are due.                                    *)
HelloBy == helloTill - HelloHold + HelloPeriod + HelloLag + back
JoinBy(s) == joinTill[s] - JPHold + JPPeriod + JPLag + back

ReadInv == pc \in Loop => cts - skew <= now + back

HelloInv ==
  helloTill # 0 =>
    /\ pc # "starting"
    /\ pc \in Loop => helloNext - skew <= HelloBy
    /\ pc \in {"jp", "updates", "sleep", "while"} => ReadAt < HelloBy
    /\ pc = "hello" =>
         /\ cts < helloNext => ReadAt < HelloBy
         /\ ReadAt < HelloBy + MaxLoop
         /\ cts - skew < HelloBy + MaxLoop
    /\ pc = "goodbyeJP" => ReadAt < HelloBy + MaxLoop
    /\ pc = "goodbye" => ReadAt < HelloBy + 2 * MaxLoop

(* The round being sent has still to renew state s.                        *)
Pending(s) == pc = "updates" /\ \E k \in n .. Len(Updates) : s \in Updates[k]

(* The inverse update of state s has been sent.                            *)
Pruned(s) ==
  \/ pc = "goodbyeJP" /\ \E k \in 1 .. n - 1 : s \in Inverse[k]
  \/ pc \in {"goodbye", "exited"}

JoinInv(s) ==
  joinTill[s] # 0 =>
    /\ pc # "starting"
    /\ pc # "exited" => helloTill # 0
    /\ pc \in Loop =>
         jpNext - skew <= JoinBy(s) + (IF Pending(s) THEN JPStep ELSE 0)
    /\ pc \in {"sleep", "while"} \/ (pc = "updates" /\ ~Pending(s)) =>
         ReadAt < JoinBy(s)
    /\ pc \in {"hello", "jp"} =>
         /\ cts < jpNext => ReadAt < JoinBy(s)
         /\ cts - skew < JoinBy(s) + MaxLoop
    /\ pc \in {"hello", "jp", "goodbyeJP"} \/ Pending(s) =>
         ReadAt < JoinBy(s) + MaxLoop
    /\ Pruned(s) => losses # 0
    /\ Pruned(s) /\ pc = "goodbyeJP" =>
         ReadAt < JoinBy(s) - JPStep + MaxLoop
    /\ pc = "goodbye" => ReadAt < JoinBy(s) - JPStep + 2 * MaxLoop

HoldInv ==
  /\ EInv
  /\ pc = "updates" => jpNext = cts + JPPeriod
  /\ pc = "exited" /\ losses = 0 => helloTill = 0
  /\ ReadInv
  /\ HelloInv
  /\ \A s \in States : JoinInv(s)

LEMMA TimesFacts ==
  ASSUME NEW d \in Nat, NEW k \in Nat, NEW m \in Nat, k <= m
  PROVE  k * d \in Nat /\ k * d <= m * d /\ (k + 1) * d = k * d + d
BY SMT

(* The numbers the argument is about.                                      *)
LEMMA HoldTypes ==
  ASSUME HoldTimesSuffice, TypeOK
  PROVE  /\ now \in Nat /\ skew \in Int /\ spent \in Nat /\ spent <= MaxLoop
         /\ back \in Nat /\ back <= MaxBack /\ losses \in Nat
         /\ cts \in Int /\ helloNext \in Int /\ jpNext \in Int
         /\ helloTill \in Nat /\ \A s \in States : joinTill[s] \in Nat
         /\ MaxLoop \in Nat /\ MaxBack \in Nat
         /\ HelloPeriod \in Nat /\ HelloPeriod > 0 /\ HelloHold \in Nat
         /\ JPPeriod \in Nat /\ JPPeriod > 0 /\ JPHold \in Nat
         /\ HelloStep \in Nat /\ HelloStep = HelloPeriod + MaxLoop - 1
         /\ JPStep \in Nat /\ JPStep = JPPeriod + MaxLoop - 1
         /\ HelloLag \in Nat /\ JPLag \in Nat
         /\ HelloPeriod + HelloLag + back + 3 * MaxLoop <= HelloHold
         /\ JPPeriod + JPLag + back + 2 * MaxLoop <= JPHold
<1>1. /\ now \in Nat /\ skew \in Int /\ spent \in Nat /\ spent <= MaxLoop
      /\ back \in Nat /\ back <= MaxBack /\ losses \in Nat /\ losses <= MaxLoss
      /\ cts \in Int /\ helloNext \in Int /\ jpNext \in Int
      /\ helloTill \in Nat /\ \A s \in States : joinTill[s] \in Nat
  BY ConstantFacts DEF TypeOK
<1>2. /\ MaxLoop \in Nat /\ MaxBack \in Nat /\ MaxLoss \in Nat
      /\ HelloPeriod \in Nat /\ HelloPeriod > 0 /\ HelloHold \in Nat
      /\ JPPeriod \in Nat /\ JPPeriod > 0 /\ JPHold \in Nat
  BY ConstantFacts DEF HoldTimesSuffice
<1>3. /\ HelloStep \in Nat /\ HelloStep = HelloPeriod + MaxLoop - 1
      /\ JPStep \in Nat /\ JPStep = JPPeriod + MaxLoop - 1
  BY <1>2 DEF HelloStep, JPStep
<1>4. /\ HelloLag \in Nat /\ HelloLag <= MaxLoss * HelloStep
      /\ JPLag \in Nat /\ JPLag <= MaxLoss * JPStep
      /\ MaxLoss * HelloStep \in Nat /\ MaxLoss * JPStep \in Nat
  BY <1>1, <1>2, <1>3, TimesFacts DEF HelloLag, JPLag
<1>5. /\ HelloPeriod + MaxLoss * HelloStep + MaxBack + 3 * MaxLoop <= HelloHold
      /\ JPPeriod + MaxLoss * JPStep + MaxBack + 2 * MaxLoop <= JPHold
  BY DEF HoldTimesSuffice, HelloStep, JPStep
<1> QED
  BY <1>1, <1>2, <1>3, <1>4, <1>5

(* A loss puts the next Hello and the next round off by a period and a     *)
(* pass; nothing else puts them off.                                       *)
LEMMA LagSteps ==
  ASSUME HoldTimesSuffice, TypeOK
  PROVE  /\ losses' = losses => HelloLag' = HelloLag /\ JPLag' = JPLag
         /\ losses' = losses + 1 =>
              HelloLag' = HelloLag + HelloStep /\ JPLag' = JPLag + JPStep
<1>1. /\ (losses + 1) * HelloStep = losses * HelloStep + HelloStep
      /\ (losses + 1) * JPStep = losses * JPStep + JPStep
  <2>1. losses \in Nat /\ HelloStep \in Nat /\ JPStep \in Nat
    BY HoldTypes
  <2> QED
    BY <2>1, TimesFacts
<1>2. HelloStep' = HelloStep /\ JPStep' = JPStep
  BY DEF HelloStep, JPStep
<1> QED
  BY <1>1, <1>2 DEF HelloLag, JPLag

(* Until pimc says Goodbye, a neighbor that has heard a Hello knows it.    *)
LEMMA HelloKept ==
  ASSUME HoldTimesSuffice, HoldInv, Running, helloTill # 0
  PROVE  now < helloTill
<1>1. pc \in {"while", "hello", "jp", "updates", "sleep", "goodbyeJP", "goodbye"}
  BY DEF HoldInv, EInv, TypeOK, Running, HelloInv
<1>2. ReadAt < HelloBy + 2 * MaxLoop
  BY <1>1, HoldTypes DEF HoldInv, EInv, HelloInv, HelloBy, ReadAt
<1> QED
  BY <1>2, HoldTypes DEF HoldInv, EInv, HelloBy, ReadAt

(* And it keeps the states it has heard joined.                            *)
LEMMA JoinKept ==
  ASSUME HoldTimesSuffice, HoldInv, Running, NEW s \in States, joinTill[s] # 0
  PROVE  now < joinTill[s]
<1>1. pc \in {"while", "hello", "jp", "updates", "sleep", "goodbyeJP", "goodbye"}
  BY DEF HoldInv, EInv, TypeOK, Running, JoinInv
<1>2. JoinBy(s) \in Int /\ ReadAt \in Int
  BY HoldTypes DEF HoldInv, EInv, JoinBy, ReadAt
<1>3. \/ ReadAt < JoinBy(s)
      \/ ReadAt < JoinBy(s) + MaxLoop
      \/ ReadAt < JoinBy(s) - JPStep + 2 * MaxLoop
  BY <1>1 DEF HoldInv, JoinInv
<1>4. ReadAt < JoinBy(s) + MaxLoop
  BY <1>2, <1>3, HoldTypes DEF HoldInv, EInv
<1> QED
  BY <1>4, HoldTypes DEF HoldInv, EInv, JoinBy, ReadAt

LEMMA InitHoldInv == ASSUME HoldTimesSuffice, Init PROVE HoldInv
<1>1. EInv
  BY InitEInv
<1>2. ReadInv /\ HelloInv /\ \A s \in States : JoinInv(s)
  BY DEF Init, ReadInv, Loop, HelloInv, JoinInv
<1> QED
  BY <1>1, <1>2 DEF Init, HoldInv

(* A Hello sent from the reading of this pass, heard or lost, keeps the    *)
(* date by which the next one is due.                                      *)
LEMMA HelloInvStep ==
  ASSUME HoldTimesSuffice, HoldInv, [Next]_vars
  PROVE  ReadInv' /\ HelloInv'
<1> USE HoldTypes, LagSteps
<1> USE DEF HoldInv, EInv, ReadInv, HelloInv, HelloBy, ReadAt, Loop, clockVars,
            neighborVars
<1>1. CASE CreateFails \/ HelloNotReady \/ UpdatesNotReady \/ StartRound
             \/ EndRound \/ WakeUp \/ Signal \/ UNCHANGED vars
  BY <1>1 DEF CreateFails, HelloNotReady, UpdatesNotReady, StartRound, EndRound,
              WakeUp, Signal, vars
<1>2. CASE Create
  BY <1>2 DEF Create, Wall
<1>3. CASE EnterLoop
  BY <1>3 DEF EnterLoop, Wall
<1>4. CASE SendHello
  <2>1. /\ pc = "hello" /\ helloNext' = cts + HelloPeriod
        /\ UNCHANGED <<now, skew, back, spent, cts>>
    BY <1>4 DEF SendHello
  <2>2. CASE pc' = "jp" /\ HearHello(HelloHold)
    <3>1. helloTill' = now + HelloHold /\ losses' = losses
      BY <2>2 DEF HearHello
    <3> QED
      BY <2>1, <2>2, <3>1
  <2>3. CASE pc' = "jp" /\ Lose
    <3>1. helloTill' = helloTill /\ losses' = losses + 1
      BY <2>3 DEF Lose
    <3> QED
      BY <2>1, <2>3, <3>1
  <2>4. CASE SendFails
    BY <2>1, <2>4 DEF SendFails
  <2> QED
    BY <1>4, <2>2, <2>3, <2>4 DEF SendHello
<1>5. CASE SendUpdatePacket \/ SendInversePacket
  <2>1. /\ pc \in {"updates", "goodbyeJP"} /\ helloTill' = helloTill
        /\ UNCHANGED <<now, skew, back, spent, cts, helloNext>>
        /\ pc' = pc \/ pc' = "failed"
        /\ losses' = losses \/ losses' = losses + 1
    BY <1>5 DEF SendUpdatePacket, SendInversePacket, HearUpdate, Lose, SendFails
  <2> QED
    BY <2>1
<1>6. CASE LeaveLoop
  BY <1>6 DEF LeaveLoop
<1>7. CASE EndInverse
  <2>1. /\ pc = "goodbyeJP" /\ pc' = "goodbye" /\ spent' = 0
        /\ UNCHANGED <<now, back, losses, helloTill>>
    BY <1>7 DEF EndInverse
  <2> QED
    BY <2>1
<1>8. CASE SendGoodbye
  <2>1. pc' \in {"exited", "failed"}
    BY <1>8 DEF SendGoodbye, SendFails
  <2> QED
    BY <2>1
<1>9. CASE Tick
  <2>1. /\ now' = now + 1 /\ spent' = spent + 1
        /\ UNCHANGED <<pc, skew, back, cts, helloNext, losses, helloTill>>
    BY <1>9 DEF Tick
  <2> QED
    BY <2>1
<1>10. CASE SetClockBack
  BY <1>10 DEF SetClockBack
<1>11. CASE SetClockAhead
  BY <1>11 DEF SetClockAhead
<1> QED
  BY <1>1, <1>2, <1>3, <1>4, <1>5, <1>6, <1>7, <1>8, <1>9, <1>10, <1>11
     DEF Next, Program

(* A step that leaves the round, the inverse updates and the neighbor's    *)
(* states alone.                                                           *)
LEMMA SameStates ==
  ASSUME UNCHANGED <<pc, n, joinTill, losses>>, NEW s
  PROVE  /\ Pending(s)' = Pending(s) /\ Pruned(s)' = Pruned(s)
BY DEF Pending, Pruned

(* A state the neighbor has not heard of again is due when it was, or a    *)
(* period and a pass later when a packet was lost.                         *)
LEMMA JoinDates ==
  ASSUME HoldTimesSuffice, TypeOK, NEW s \in States,
         joinTill'[s] = joinTill[s], back' = back
  PROVE  /\ JoinBy(s) \in Int
         /\ losses' = losses => JoinBy(s)' = JoinBy(s)
         /\ losses' = losses + 1 => JoinBy(s)' = JoinBy(s) + JPStep
<1>1. /\ joinTill[s] \in Int /\ JPHold \in Int /\ JPPeriod \in Int
      /\ JPLag \in Int /\ back \in Int /\ JPStep \in Int
  BY HoldTypes
<1>2. /\ losses' = losses => JPLag' = JPLag
      /\ losses' = losses + 1 => JPLag' = JPLag + JPStep
  BY LagSteps
<1> QED
  BY <1>1, <1>2 DEF JoinBy

(* A round sent from the reading of this pass keeps the dates by which the *)
(* next update of each state is due, and an inverse update that is heard   *)
(* ends the state.                                                         *)
LEMMA JoinInvStep ==
  ASSUME HoldTimesSuffice, HoldInv, [Next]_vars, NEW s \in States
  PROVE  JoinInv(s)'
<1> USE HoldTypes, LagSteps
<1> USE DEF HoldInv, EInv, ReadInv, JoinInv, JoinBy, ReadAt, Loop, clockVars,
            neighborVars
<1>0. JPStep' = JPStep
  BY DEF JPStep
<1>t. /\ JoinBy(s) \in Int /\ ReadAt \in Int /\ joinTill[s] \in Nat
      /\ JPStep \in Nat /\ MaxLoop \in Nat /\ helloTill \in Nat /\ now \in Nat
  OBVIOUS
<1>u. DOMAIN Updates = 1 .. Len(Updates) /\ Len(Updates) \in Nat
  BY ConstantFacts
<1>i. DOMAIN Inverse = 1 .. Len(Inverse) /\ Len(Inverse) \in Nat
  BY ConstantFacts
<1>1. CASE CreateFails
  BY <1>1 DEF CreateFails, Pending, Pruned
<1>2. CASE Create
  BY <1>2 DEF Create
<1>3. CASE EnterLoop
  BY <1>3 DEF EnterLoop, Wall, Pending, Pruned
<1>4. CASE HelloNotReady
  BY <1>4 DEF HelloNotReady, Pending, Pruned
<1>5. CASE SendHello
  <2>1. /\ pc = "hello" /\ joinTill' = joinTill
        /\ UNCHANGED <<now, skew, back, spent, cts, jpNext>>
        /\ \/ pc' = "jp" /\ helloTill' = now + HelloHold /\ losses' = losses
           \/ pc' = "jp" /\ helloTill' = helloTill /\ losses' = losses + 1
           \/ pc' = "failed" /\ helloTill' = helloTill /\ losses' = losses
    BY <1>5 DEF SendHello, HearHello, Lose, SendFails
  <2>2. ~Pending(s) /\ ~Pending(s)' /\ ~Pruned(s)'
    BY <2>1 DEF Pending, Pruned
  <2>3. helloTill # 0 => helloTill' # 0
    <3>1. HelloHold \in Nat /\ HelloHold > 0
      OBVIOUS
    <3> QED
      BY <1>t, <2>1, <3>1
  <2> HIDE HoldTypes, LagSteps DEF JoinBy, ReadAt
  <2>4. ReadAt' = ReadAt
    BY <2>1 DEF ReadAt
  <2>5. JoinBy(s)' \in Int /\ JoinBy(s)' >= JoinBy(s)
    BY <1>t, <2>1, JoinDates
  <2>6. CASE pc' = "failed"
    BY <2>1, <2>2, <2>3, <2>6
  <2>7. CASE pc' = "jp"
    <3>1. SUFFICES ASSUME joinTill[s] # 0 PROVE JoinInv(s)'
      BY <2>1
    <3>2. /\ helloTill # 0 /\ jpNext - skew <= JoinBy(s)
          /\ cts < jpNext => ReadAt < JoinBy(s)
          /\ cts - skew < JoinBy(s) + MaxLoop /\ ReadAt < JoinBy(s) + MaxLoop
      BY <1>t, <2>1, <2>2, <3>1
    <3>3. jpNext - skew \in Int /\ cts - skew \in Int
      BY HoldTypes
    <3>4. /\ helloTill' # 0 /\ jpNext' - skew' <= JoinBy(s)'
          /\ cts' < jpNext' => ReadAt' < JoinBy(s)'
          /\ cts' - skew' < JoinBy(s)' + MaxLoop
          /\ ReadAt' < JoinBy(s)' + MaxLoop
      BY <1>t, <2>1, <2>3, <2>4, <2>5, <3>2, <3>3
    <3> HIDE DEF HoldInv
    <3> QED
      BY <1>t, <2>2, <2>5, <2>7, <3>4
  <2> QED
    BY <2>1, <2>6, <2>7
<1>6. CASE UpdatesNotReady
  BY <1>6 DEF UpdatesNotReady, Pending, Pruned
<1>7. CASE StartRound
  <2>1. /\ pc = "jp" /\ pc' = "updates" /\ n' = 1
        /\ jpNext' = cts + JPPeriod
        /\ UNCHANGED <<now, skew, back, spent, cts, losses, helloTill, joinTill>>
    BY <1>7 DEF StartRound
  <2>2. Pending(s)'
    <3>1. PICK k \in DOMAIN Updates : s \in Updates[k]
      BY DEF States
    <3> QED
      BY <1>u, <2>1, <3>1 DEF Pending
  <2>3. ~Pruned(s)'
    BY <2>1 DEF Pruned
  <2> QED
    BY <1>0, <2>1, <2>2, <2>3
<1>8. CASE SendUpdatePacket
  <2>1. /\ pc = "updates" /\ n <= Len(Updates) /\ n \in Nat
        /\ jpNext = cts + JPPeriod /\ cts - skew <= now + back
        /\ UNCHANGED <<now, skew, back, spent, cts, jpNext, helloTill>>
    BY <1>8 DEF SendUpdatePacket, HearUpdate, Lose, SendFails, TypeOK
  <2>2. CASE pc' = "updates" /\ n' = n + 1 /\ HearUpdate(Updates[n], now + JPHold)
    <3>1. ~Pruned(s)' /\ losses' = losses
      BY <2>2 DEF Pruned, HearUpdate
    <3>2. CASE Knows /\ s \in Updates[n]
      <4>1. joinTill'[s] = now + JPHold
        BY <2>2, <3>2 DEF HearUpdate
      <4>2. helloTill' # 0
        BY <1>t, <2>1, <3>2 DEF Knows
      <4> HIDE HoldTypes, LagSteps DEF JoinBy, ReadAt, HoldInv
      <4>3. JPLag' = JPLag
        BY <3>1, LagSteps DEF HoldInv
      <4>n. /\ now \in Nat /\ skew \in Int /\ spent \in Nat /\ back \in Nat
            /\ cts \in Int /\ JPPeriod \in Nat /\ JPPeriod > 0
            /\ JPLag \in Nat /\ JPHold \in Nat
        BY HoldTypes DEF HoldInv
      <4>4. jpNext' - skew' <= JoinBy(s)' /\ ReadAt' < JoinBy(s)'
        BY <2>1, <4>1, <4>3, <4>n DEF JoinBy, ReadAt
      <4>5. ReadAt' \in Int /\ JoinBy(s)' \in Int /\ jpNext' - skew' \in Int
        BY <2>1, <4>1, <4>3, <4>n DEF JoinBy, ReadAt
      <4> QED
        BY <1>0, <1>t, <2>2, <3>1, <4>2, <4>4, <4>5
    <3>3. CASE ~(Knows /\ s \in Updates[n])
      <4>1. joinTill'[s] = joinTill[s]
        BY <2>2, <3>3 DEF HearUpdate
      <4>2. joinTill[s] # 0 => Knows
        <5>1. joinTill[s] # 0 => helloTill # 0 /\ Running
          BY <2>1 DEF Running
        <5> QED
          BY <5>1, HelloKept DEF Knows
      <4>3. SUFFICES ASSUME joinTill[s] # 0 PROVE JoinInv(s)'
        BY <4>1
      <4>4. Pending(s)' <=> Pending(s)
        <5>1. s \notin Updates[n]
          BY <3>3, <4>2, <4>3
        <5>2. \A k \in n .. Len(Updates) : k = n \/ k \in n + 1 .. Len(Updates)
          BY <1>u, <2>1
        <5>3. \A k \in n + 1 .. Len(Updates) : k \in n .. Len(Updates)
          BY <1>u, <2>1
        <5> HIDE HoldTypes, LagSteps DEF HoldInv
        <5> QED
          BY <2>1, <2>2, <5>1, <5>2, <5>3 DEF Pending
      <4> HIDE HoldTypes, LagSteps DEF JoinBy, ReadAt
      <4>5. ReadAt' = ReadAt /\ JoinBy(s)' = JoinBy(s)
        BY <2>1, <3>1, <4>1, JoinDates DEF ReadAt
      <4> QED
        BY <1>0, <1>t, <2>1, <2>2, <3>1, <4>1, <4>4, <4>5
    <3> QED
      BY <3>2, <3>3
  <2>3. CASE pc' = "updates" /\ n' = n + 1 /\ Lose
    <3>1. ~Pruned(s)' /\ losses' = losses + 1 /\ joinTill' = joinTill
      BY <2>3 DEF Pruned, Lose
    <3> HIDE HoldTypes, LagSteps DEF JoinBy, ReadAt
    <3>2. /\ ReadAt' = ReadAt
          /\ JoinBy(s)' = JoinBy(s) + JPStep
          /\ JPStep >= MaxLoop
      <4>1. JPStep >= MaxLoop
        BY HoldTypes
      <4> QED
        BY <2>1, <3>1, <4>1, JoinDates DEF ReadAt
    <3>3. jpNext' - skew' = jpNext - skew /\ jpNext - skew \in Int
      <4>1. jpNext - skew \in Int
        BY HoldTypes
      <4> HIDE DEF HoldInv
      <4> QED
        BY <2>1, <4>1
    <3>4. SUFFICES ASSUME joinTill[s] # 0 PROVE JoinInv(s)'
      BY <3>1
    <3>5. jpNext - skew <= JoinBy(s) + JPStep /\ ReadAt < JoinBy(s) + MaxLoop
      BY <1>t, <2>1, <3>3, <3>4
    <3> QED
      BY <1>0, <1>t, <2>1, <2>3, <3>1, <3>2, <3>3, <3>4, <3>5
  <2>4. CASE SendFails
    BY <2>1, <2>4 DEF SendFails, Pending, Pruned
  <2> QED
    BY <1>8, <2>1, <2>2, <2>3, <2>4 DEF SendUpdatePacket
<1>9. CASE EndRound
  <2>1. /\ pc = "updates" /\ pc' = "sleep" /\ n > Len(Updates) /\ n \in Nat
        /\ UNCHANGED <<now, skew, back, spent, cts, jpNext, losses, helloTill,
                       joinTill>>
    BY <1>9 DEF EndRound, TypeOK
  <2>2. ~Pending(s) /\ ~Pending(s)' /\ ~Pruned(s)'
    BY <2>1, ConstantFacts DEF Pending, Pruned
  <2> QED
    BY <2>1, <2>2
<1>10. CASE WakeUp
  BY <1>10 DEF WakeUp, Pending, Pruned
<1>11. CASE LeaveLoop
  <2>1. /\ pc = "while" /\ pc' = "goodbyeJP" /\ spent' = 0 /\ n' = 1
        /\ UNCHANGED <<now, back, losses, helloTill, joinTill>>
    BY <1>11 DEF LeaveLoop
  <2>2. ~Pending(s)' /\ ~Pruned(s)'
    BY <2>1 DEF Pending, Pruned
  <2> QED
    BY <2>1, <2>2
<1>12. CASE SendInversePacket
  <2>1. /\ pc = "goodbyeJP" /\ n <= Len(Inverse) /\ n \in Nat
        /\ UNCHANGED <<now, skew, back, spent, helloTill>>
    BY <1>12 DEF SendInversePacket, HearUpdate, Lose, SendFails, TypeOK
  <2>2. CASE pc' = "goodbyeJP" /\ n' = n + 1 /\ HearUpdate(Inverse[n], 0)
    <3>1. ~Pending(s)' /\ losses' = losses
      BY <2>2 DEF Pending, HearUpdate
    <3>2. SUFFICES ASSUME joinTill'[s] # 0 PROVE JoinInv(s)'
      OBVIOUS
    <3>3. joinTill'[s] = joinTill[s] /\ ~(Knows /\ s \in Inverse[n])
      BY <2>2, <3>2 DEF HearUpdate
    <3>4. Knows
      <4>1. helloTill # 0 /\ Running
        BY <2>1, <3>2, <3>3 DEF Running
      <4> QED
        BY <4>1, HelloKept DEF Knows
    <3>5. Pruned(s)' => Pruned(s)
      <4>1. s \notin Inverse[n]
        BY <3>3, <3>4
      <4>2. \A k \in 1 .. n : k = n \/ k \in 1 .. n - 1
        BY <2>1
      <4>3. n' - 1 = n
        BY <2>1, <2>2
      <4> HIDE HoldTypes, LagSteps DEF HoldInv
      <4> QED
        BY <2>1, <2>2, <4>1, <4>2, <4>3 DEF Pruned
    <3> HIDE HoldTypes, LagSteps DEF JoinBy, ReadAt
    <3>6. ReadAt' = ReadAt /\ JoinBy(s)' = JoinBy(s)
      BY <2>1, <3>1, <3>3, JoinDates DEF ReadAt
    <3> QED
      BY <1>0, <1>t, <2>1, <2>2, <3>1, <3>3, <3>5, <3>6
  <2>3. CASE pc' = "goodbyeJP" /\ n' = n + 1 /\ Lose
    <3>1. ~Pending(s)' /\ losses' = losses + 1 /\ joinTill' = joinTill
      BY <2>3 DEF Pending, Lose
    <3> HIDE HoldTypes, LagSteps DEF JoinBy, ReadAt
    <3>2. /\ ReadAt' = ReadAt
          /\ JoinBy(s)' = JoinBy(s) + JPStep
          /\ JPStep >= MaxLoop /\ losses' # 0
      <4>1. JPStep >= MaxLoop /\ losses \in Nat
        BY HoldTypes
      <4> QED
        BY <2>1, <3>1, <4>1, JoinDates DEF ReadAt
    <3> QED
      BY <1>0, <1>t, <2>1, <2>3, <3>1, <3>2
  <2>4. CASE SendFails
    BY <2>1, <2>4 DEF SendFails, Pending, Pruned
  <2> QED
    BY <1>12, <2>2, <2>3, <2>4 DEF SendInversePacket
<1>13. CASE EndInverse
  <2>1. /\ pc = "goodbyeJP" /\ pc' = "goodbye" /\ spent' = 0
        /\ n > Len(Inverse) /\ n \in Nat
        /\ UNCHANGED <<now, back, losses, helloTill, joinTill>>
    BY <1>13 DEF EndInverse, TypeOK
  <2>2. Pruned(s)
    <3>1. PICK k \in DOMAIN Inverse : s \in Inverse[k]
      BY ExecAssumption
    <3>2. k \in 1 .. n - 1
      BY <1>i, <2>1, <3>1
    <3> QED
      BY <2>1, <3>1, <3>2 DEF Pruned
  <2>3. ~Pending(s)'
    BY <2>1 DEF Pending
  <2> HIDE HoldTypes, LagSteps DEF JoinBy, ReadAt
  <2>4. spent \in Nat /\ spent <= MaxLoop
    BY HoldTypes
  <2>5. ReadAt' = ReadAt + spent /\ JoinBy(s)' = JoinBy(s)
    <3>1. JoinBy(s)' = JoinBy(s)
      BY <2>1, JoinDates
    <3> QED
      BY <1>t, <2>1, <2>4, <3>1 DEF ReadAt
  <2> QED
    BY <1>0, <1>t, <2>1, <2>2, <2>3, <2>4, <2>5
<1>14. CASE SendGoodbye
  <2>1. /\ pc = "goodbye" /\ pc' \in {"exited", "failed"}
        /\ joinTill' = joinTill
        /\ losses' = losses \/ losses' = losses + 1
        /\ pc' = "failed" => helloTill' = helloTill
    BY <1>14 DEF SendGoodbye, SendFails, HearHello, Lose
  <2>2. Pruned(s)
    BY <2>1 DEF Pruned
  <2>3. ~Pending(s)'
    BY <2>1 DEF Pending
  <2> QED
    BY <2>1, <2>2, <2>3
<1>15. CASE Tick
  <2>1. /\ now' = now + 1 /\ spent' = spent + 1
        /\ UNCHANGED <<pc, n, skew, back, cts, jpNext, losses, helloTill, joinTill>>
    BY <1>15 DEF Tick
  <2> QED
    BY <1>0, <2>1, SameStates
<1>16. CASE SetClockBack
  <2>1. /\ back' = back + 1 /\ skew' = skew - 1
        /\ UNCHANGED <<pc, n, now, spent, cts, jpNext, losses, helloTill, joinTill>>
    BY <1>16 DEF SetClockBack
  <2> QED
    BY <1>0, <2>1, SameStates
<1>17. CASE SetClockAhead
  <2>1. /\ skew' = skew + 1
        /\ UNCHANGED <<pc, n, now, back, spent, cts, jpNext, losses, helloTill,
                       joinTill>>
    BY <1>17 DEF SetClockAhead
  <2> QED
    BY <1>0, <2>1, SameStates
<1>18. CASE Signal \/ UNCHANGED vars
  <2>1. UNCHANGED <<pc, n, now, skew, back, spent, cts, jpNext, losses,
                    helloTill, joinTill>>
    BY <1>18 DEF Signal, vars
  <2> QED
    BY <1>0, <2>1, SameStates
<1> QED
  BY <1>1, <1>2, <1>3, <1>4, <1>5, <1>6, <1>7, <1>8, <1>9, <1>10, <1>11, <1>12,
     <1>13, <1>14, <1>15, <1>16, <1>17, <1>18 DEF Next, Program

LEMMA HoldInvariance == ASSUME HoldTimesSuffice PROVE Spec => []HoldInv
<1>1. Init => HoldInv
  BY InitHoldInv
<1>2. HoldInv /\ [Next]_vars => HoldInv'
  <2> SUFFICES ASSUME HoldInv, [Next]_vars PROVE HoldInv'
    OBVIOUS
  <2>1. EInv'
    BY NextTypeOK, NextCountOrder DEF HoldInv, EInv
  <2>2. ReadInv' /\ HelloInv'
    BY HelloInvStep
  <2>3. (\A s \in States : JoinInv(s))'
    BY JoinInvStep
  <2>4. (pc = "updates" => jpNext = cts + JPPeriod)'
    BY DEF HoldInv, Next, Program, CreateFails, Create, EnterLoop, HelloNotReady,
           SendHello, UpdatesNotReady, StartRound, SendUpdatePacket, EndRound,
           WakeUp, LeaveLoop, SendInversePacket, EndInverse, SendGoodbye, Signal,
           Tick, SetClockBack, SetClockAhead, SendFails, vars
  <2>5. (pc = "exited" /\ losses = 0 => helloTill = 0)'
    <3>1. CASE SendGoodbye
      <4>1. losses' = 0 /\ pc' = "exited" => HearHello(0)
        BY <3>1 DEF SendGoodbye, SendFails, Lose, HoldInv, EInv, TypeOK
      <4> QED
        BY <3>1, <4>1 DEF HearHello
    <3>2. CASE ~SendGoodbye
      <4>1. pc' = "exited" => pc = "exited" /\ UNCHANGED <<losses, helloTill>>
        BY <3>2 DEF Next, Program, CreateFails, Create, EnterLoop, HelloNotReady,
           SendHello, UpdatesNotReady, StartRound, SendUpdatePacket, EndRound,
           WakeUp, LeaveLoop, SendInversePacket, EndInverse, Signal, Running,
           Tick, SetClockBack, SetClockAhead, SendFails, vars, neighborVars
      <4> QED
        BY <4>1 DEF HoldInv
    <3> QED
      BY <3>1, <3>2
  <2> QED
    BY <2>1, <2>2, <2>3, <2>4, <2>5 DEF HoldInv
<1> QED
  BY <1>1, <1>2, PTL DEF Spec

(* Whatever the packets and the bounds, as long as the hold times leave    *)
(* room for the losses and the steps of the clock: the neighbor never      *)
(* forgets pimc, nor a state it has joined, before the Goodbye             *)
(* (IPv4Exec.cpp:71-95, IPv4HelloEvent.hpp:30-37, IPv4JPUpdateEvent.hpp:   *)
(* 46-53).                                                                 *)
THEOREM NeighborKeepsStateTheorem ==
  ASSUME HoldTimesSuffice PROVE Spec => []NeighborKeepsState
<1>1. HoldInv => NeighborKeepsState
  BY HelloKept, JoinKept DEF NeighborKeepsState
<1> QED
  BY <1>1, HoldInvariance, PTL

(* And a run that has left in order, nothing lost, leaves nothing behind:  *)
(* the inverse updates find a neighbor that still knows pimc               *)
(* (IPv4Exec.cpp:83-95).                                                   *)
THEOREM LeavesNothingBehindTheorem ==
  ASSUME HoldTimesSuffice PROVE Spec => []LeavesNothingBehind
<1>1. HoldInv => LeavesNothingBehind
  BY DEF HoldInv, JoinInv, Pruned, LeavesNothingBehind
<1> QED
  BY <1>1, HoldInvariance, PTL
=============================================================================
