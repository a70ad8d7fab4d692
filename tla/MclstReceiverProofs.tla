------------------------- MODULE MclstReceiverProofs -------------------------
(***************************************************************************)
(* Theorems about MclstReceiver: the receiver's statistics and its packet  *)
(* limit are exact and a signal is heeded after at most one packet, for    *)
(* every limit, timeout and socket buffer.                                 *)
(***************************************************************************)
EXTENDS MclstReceiver, SequenceTheorems, TLAPS

(* count lags behind the packets of interest by the one being handled, and *)
(* stays below the limit until the loop is left because of it.             *)
CountInv ==
  limit # 0 =>
    /\ ofInterest = count + (IF pc \in {"show", "limit"} THEN 1 ELSE 0)
    /\ IF pc = "done" THEN count <= limit /\ (~stopped => count = limit)
                      ELSE count < limit

(* A pass begun before the flag was set has taken no packet since.         *)
LateInv ==
  /\ takenLate <= 1
  /\ ~stopped \/ pc \in {"enter", "select", "woken"} => takenLate = 0

(* Real time stays below the modulus of the timestamps: the last pass is   *)
(* begun before the horizon, and select() does not outlast its timeout.    *)
ClockInv ==
  LET latest == Horizon + MaxBack IN
  /\ ~stopped \/ pc = "configure" => now <= latest
  /\ pc = "enter" => now <= latest + lag
  /\ pc = "while" => now <= latest + lag \/ now <= due + lag
  /\ pc \in {"select", "woken", "show", "limit"} => now <= due + lag
  /\ due <= latest + MaxLag + Timeout

(* What a report that the wall clock made the Timer withhold can cost:     *)
(* select() had waited, but less than Timeout had passed by a clock that   *)
(* has been set back by no more than back.                                 *)
Withheld == IF back = 0 THEN 0 ELSE Timeout + back - 1

(* How long the silence has lasted at each point of a pass.  The Timer     *)
(* never starts later than the silence does.                               *)
SilenceInv ==
  /\ startNs <= quietSince
  /\ quietSince <= now
  /\ pc = "woken" => timestampNs <= quietSince
  /\ pc \in {"woken", "show", "limit"} => now - quietSince <= lag
  /\ pc = "enter" \/ (pc = "while" /\ ~stopped) =>
       now - quietSince <= Withheld + lag
  /\ pc = "while" => now - quietSince <= Withheld + Timeout + MaxLag + lag
  /\ pc = "select" =>
       /\ quietSince + Timeout <= due
       /\ due - quietSince <= Withheld + Timeout + MaxLag

IInv ==
  /\ TypeOK
  /\ now >= MaxBack
  /\ StatsExact
  /\ CountInv
  /\ LateInv
  /\ ClockInv
  /\ SilenceInv
-----------------------------------------------------------------------------
(* What is left in the socket after a packet has been taken.               *)
LEMMA TakeFacts ==
  ASSUME TypeOK, pc = "woken", Take
  PROVE  /\ Head(socket) \in Packets
         /\ socket' \in Seq(Packets) /\ Len(socket') <= RcvBuf
         /\ pktInfo' \in Packets
         /\ taken' \in [Flows -> Nat] /\ ofInterest' \in Nat /\ takenLate' \in Nat
<1>1. socket \in Seq(Packets) /\ socket # << >> /\ Len(socket) <= RcvBuf
  BY DEF TypeOK
<1>2. Head(socket) \in Packets /\ Tail(socket) \in Seq(Packets)
      /\ Len(Tail(socket)) = Len(socket) - 1 /\ Len(socket) \in Nat
  BY <1>1, HeadTailProperties
<1>3. socket' = Tail(socket) /\ pktInfo' = Head(socket)
  BY DEF Take
<1>4. Len(socket') <= RcvBuf
  BY <1>1, <1>2, <1>3, ReceiverAssumption
<1>5. taken' \in [Flows -> Nat] /\ ofInterest' \in Nat /\ takenLate' \in Nat
  BY DEF Take, TypeOK
<1> QED
  BY <1>2, <1>3, <1>4, <1>5

(* The wall clock never reads before the epoch.                            *)
LEMMA WallFacts ==
  ASSUME IInv
  PROVE  Wall \in Nat
BY ReceiverAssumption DEF IInv, TypeOK, Wall

(* No step takes a variable out of its type.                               *)
LEMMA TypeStep ==
  ASSUME IInv, [Next]_vars
  PROVE  TypeOK' /\ (now >= MaxBack)'
<1> USE DEF IInv
<1>1. CASE Configure
  BY <1>1, WallFacts DEF Configure, TypeOK, loopVars
<1>2. CASE Fail
  BY <1>2 DEF Fail, TypeOK, timerVars, loopVars, historyVars
<1>3. CASE EnterLoop
  BY <1>3 DEF EnterLoop, TypeOK, timerVars, loopVars, historyVars
<1>4. CASE EnterSelect
  BY <1>4, ReceiverAssumption DEF EnterSelect, TypeOK, timerVars, historyVars
<1>5. CASE LeaveLoop
  BY <1>5 DEF LeaveLoop, TypeOK, timerVars, loopVars, historyVars
<1>6. CASE SelectTimesOut
  BY <1>6, WallFacts DEF SelectTimesOut, TypeOK, loopVars
<1>7. CASE SelectReadable
  BY <1>7, WallFacts DEF SelectReadable, TypeOK, loopVars
<1>8. CASE ReceiveFiltered
  BY <1>8, TakeFacts DEF ReceiveFiltered, TypeOK, timerVars
<1>9. CASE ReceiveAccepted
  <2>1. pktInfo' = Head(socket)
    BY <1>9 DEF ReceiveAccepted, Take
  <2>2. pc' = "show" => pktInfo' \in Flows
    BY <1>9, <2>1, TakeFacts, ReceiverAssumption DEF ReceiveAccepted, Packets
  <2> QED
    BY <1>9, <2>2, TakeFacts DEF ReceiveAccepted, TypeOK
<1>10. CASE Show
  BY <1>10 DEF Show, TypeOK, timerVars, historyVars
<1>11. CASE CheckLimit
  BY <1>11 DEF CheckLimit, TypeOK, timerVars, historyVars
<1>12. CASE Arrive
  <2>1. PICK p \in Packets :
          socket' = IF Len(socket) < RcvBuf THEN Append(socket, p) ELSE socket
    BY <1>12 DEF Arrive
  <2>2. socket \in Seq(Packets) /\ Len(socket) \in Nat /\ RcvBuf \in Nat
        /\ Len(socket) <= RcvBuf
    BY ReceiverAssumption DEF TypeOK
  <2>3. Append(socket, p) \in Seq(Packets)
        /\ Len(Append(socket, p)) = Len(socket) + 1 /\ Append(socket, p) # << >>
    BY <2>2, AppendProperties
  <2>4. socket' \in Seq(Packets) /\ Len(socket') <= RcvBuf
        /\ (socket # << >> => socket' # << >>)
    BY <2>1, <2>2, <2>3
  <2>5. arrived' \in 0 .. MaxPackets
    BY <1>12, ReceiverAssumption DEF Arrive, TypeOK
  <2> QED
    BY <1>12, <2>4, <2>5 DEF Arrive, TypeOK, timerVars, loopVars, historyVars
<1>13. CASE Signal
  BY <1>13, WallFacts DEF Signal, TypeOK, loopVars, historyVars
<1>14. CASE Tick
  BY <1>14, ReceiverAssumption DEF Tick, TypeOK, timerVars, loopVars, historyVars
<1>15. CASE SetClockBack
  BY <1>15, ReceiverAssumption DEF SetClockBack, TypeOK, timerVars, loopVars, historyVars
<1>16. CASE UNCHANGED vars
  BY <1>16 DEF vars, TypeOK, timerVars, loopVars, historyVars
<1> QED
  BY <1>1, <1>2, <1>3, <1>4, <1>5, <1>6, <1>7, <1>8, <1>9, <1>10, <1>11, <1>12,
     <1>13, <1>14, <1>15, <1>16 DEF Next, Program
-----------------------------------------------------------------------------
(* Steps that leave the packets alone.                                     *)
Quiet ==
  UNCHANGED <<limit, stopped, pktInfo, count, rxStats, taken, ofInterest, takenLate>>

LEMMA QuietSteps ==
  /\ Configure \/ Fail \/ EnterLoop \/ EnterSelect \/ LeaveLoop
       \/ SelectTimesOut \/ SelectReadable => Quiet
  /\ Arrive \/ Tick \/ SetClockBack \/ UNCHANGED vars => Quiet /\ pc' = pc
BY DEF Configure, Fail, EnterLoop, EnterSelect, LeaveLoop, SelectTimesOut,
       SelectReadable, Arrive, Tick, SetClockBack, Quiet, vars, timerVars,
       loopVars, historyVars

(* A packet taken and the packet counted are the same.                     *)
LEMMA StatsStep ==
  ASSUME IInv, [Next]_vars
  PROVE  StatsExact'
<1> USE DEF IInv
<1>1. CASE Configure \/ Fail \/ EnterLoop \/ EnterSelect \/ LeaveLoop
             \/ SelectTimesOut \/ SelectReadable
  <2>1. pc # "show" /\ pc' # "show"
    BY <1>1 DEF Configure, Fail, EnterLoop, EnterSelect, LeaveLoop,
                SelectTimesOut, SelectReadable
  <2> QED
    BY <1>1, <2>1, QuietSteps DEF Quiet, StatsExact
<1>2. CASE ReceiveFiltered
  BY <1>2, ReceiverAssumption DEF ReceiveFiltered, Take, StatsExact, TypeOK
<1>3. CASE ReceiveAccepted
  <2>1. Head(socket) # "noshow" => pc' = "show"
    BY <1>3 DEF ReceiveAccepted
  <2>2. Head(socket) = "noshow" => pc' = "limit" /\ Head(socket) \notin Flows
    BY <1>3, ReceiverAssumption DEF ReceiveAccepted
  <2>3. pktInfo' = Head(socket) /\ rxStats' = rxStats /\ pc = "woken"
        /\ taken' = [f \in Flows |->
                       taken[f] + (IF f = Head(socket) THEN 1 ELSE 0)]
    BY <1>3 DEF ReceiveAccepted, Take
  <2>4. ASSUME NEW f \in Flows
        PROVE  taken'[f] = rxStats'[f]
                 + (IF pc' = "show" /\ pktInfo' = f THEN 1 ELSE 0)
    BY <2>1, <2>2, <2>3, <2>4 DEF StatsExact, TypeOK
  <2> QED
    BY <2>4 DEF StatsExact
<1>4. CASE Show
  BY <1>4 DEF Show, historyVars, StatsExact, TypeOK
<1>5. CASE CheckLimit
  BY <1>5 DEF CheckLimit, historyVars, StatsExact, TypeOK
<1>6. CASE Signal
  BY <1>6 DEF Signal, loopVars, historyVars, StatsExact
<1>7. CASE Arrive \/ Tick \/ SetClockBack \/ UNCHANGED vars
  BY <1>7, QuietSteps DEF Quiet, StatsExact
<1> QED
  BY <1>1, <1>2, <1>3, <1>4, <1>5, <1>6, <1>7 DEF Next, Program

(* The count keeps step with the packets of interest up to the limit.      *)
LEMMA CountStep ==
  ASSUME IInv, [Next]_vars
  PROVE  CountInv'
<1> USE DEF IInv
<1>1. CASE Configure \/ Fail \/ EnterLoop \/ EnterSelect
             \/ SelectTimesOut \/ SelectReadable
  <2>1. pc \notin {"show", "limit", "done"} /\ pc' \notin {"show", "limit", "done"}
    BY <1>1 DEF Configure, Fail, EnterLoop, EnterSelect, SelectTimesOut,
                SelectReadable
  <2> QED
    BY <1>1, <2>1, QuietSteps DEF Quiet, CountInv
<1>2. CASE LeaveLoop
  <2>1. pc = "while" /\ pc' = "done" /\ stopped
    BY <1>2 DEF LeaveLoop
  <2> QED
    BY <1>2, <2>1, QuietSteps, ReceiverAssumption DEF Quiet, CountInv, TypeOK
<1>3. CASE ReceiveFiltered
  BY <1>3 DEF ReceiveFiltered, Take, CountInv, TypeOK
<1>4. CASE ReceiveAccepted
  BY <1>4 DEF ReceiveAccepted, Take, CountInv, TypeOK
<1>5. CASE Show
  BY <1>5 DEF Show, historyVars, CountInv
<1>6. CASE CheckLimit
  BY <1>6, ReceiverAssumption
  DEF CheckLimit, Reached, historyVars, CountInv, TypeOK
<1>7. CASE Signal
  BY <1>7 DEF Signal, Running, loopVars, historyVars, CountInv
<1>8. CASE Arrive \/ Tick \/ SetClockBack \/ UNCHANGED vars
  BY <1>8, QuietSteps DEF Quiet, CountInv
<1> QED
  BY <1>1, <1>2, <1>3, <1>4, <1>5, <1>6, <1>7, <1>8 DEF Next, Program

(* A pass with the flag set takes a packet only if it began without.       *)
LEMMA LateStep ==
  ASSUME IInv, [Next]_vars
  PROVE  LateInv'
<1> USE DEF IInv
<1>1. CASE Configure \/ Fail \/ EnterLoop \/ EnterSelect \/ LeaveLoop
             \/ SelectTimesOut \/ SelectReadable
  <2>1. pc' \in {"enter", "select", "woken"} =>
          ~stopped \/ pc \in {"enter", "select", "woken"}
    BY <1>1 DEF Configure, Fail, EnterLoop, EnterSelect, LeaveLoop,
                SelectTimesOut, SelectReadable
  <2> QED
    BY <1>1, <2>1, QuietSteps DEF Quiet, LateInv
<1>2. CASE ReceiveFiltered \/ ReceiveAccepted
  <2>1. takenLate = 0 /\ pc' \notin {"enter", "select", "woken"}
        /\ stopped' = stopped
        /\ takenLate' = takenLate + (IF stopped THEN 1 ELSE 0)
    BY <1>2 DEF ReceiveFiltered, ReceiveAccepted, Take, LateInv
  <2> QED
    BY <2>1 DEF LateInv
<1>3. CASE Show \/ CheckLimit
  BY <1>3 DEF Show, CheckLimit, historyVars, LateInv
<1>4. CASE Signal
  BY <1>4 DEF Signal, historyVars, LateInv
<1>5. CASE Arrive \/ Tick \/ SetClockBack \/ UNCHANGED vars
  BY <1>5, QuietSteps DEF Quiet, LateInv
<1> QED
  BY <1>1, <1>2, <1>3, <1>4, <1>5 DEF Next, Program

-----------------------------------------------------------------------------
(***************************************************************************)
(* The two clocks                                                          *)
(***************************************************************************)

(* What the invariant says of the numbers.                                 *)
LEMMA TimeTypes ==
  ASSUME TypeOK
  PROVE  /\ now \in Nat /\ back \in Nat /\ back <= MaxBack
         /\ lag \in Nat /\ lag <= MaxLag
         /\ due \in Nat /\ startNs \in Nat /\ timestampNs \in Nat
         /\ quietSince \in Nat
         /\ Timeout \in Nat /\ Timeout > 0 /\ NanosMod \in Nat
         /\ MaxLag \in Nat /\ MaxBack \in Nat /\ Horizon \in Nat
BY ReceiverAssumption DEF TypeOK

(* A difference of timestamps taken modulo 2^64.                           *)
LEMMA ModFacts ==
  ASSUME NEW N \in Nat \ {0}, NEW d \in Int
  PROVE  /\ 0 <= d /\ d < N => d % N = d
         /\ -N <= d /\ d < 0 => d % N = d + N
BY SMT

(* In a pass of the loop real time is below the modulus.                   *)
LEMMA NowBelowMod ==
  ASSUME TypeOK, ClockInv, Running
  PROVE  now < NanosMod
<1>1. pc \in {"while", "enter", "select", "woken", "show", "limit"}
  BY DEF TypeOK, Running
<1>2. \/ now <= Horizon + MaxBack + lag
      \/ now <= due + lag /\ due <= Horizon + MaxBack + MaxLag + Timeout
  BY <1>1 DEF ClockInv
<1>3. Horizon + MaxBack + Timeout + 2 * MaxLag < NanosMod
  BY NanosAssumption
<1> QED
  BY <1>2, <1>3, TimeTypes

(* A timeout that the Timer does not confirm: less than Timeout has passed *)
(* by the wall clock, which has been set back since.                       *)
LEMMA WithheldFacts ==
  ASSUME TypeOK, ClockInv, SilenceInv, pc = "select", now >= due,
         ~TimedOut(Wall)
  PROVE  back # 0 /\ now - quietSince <= Timeout + back - 1
<1> DEFINE d == now - back - startNs
<1>1. startNs <= quietSince /\ quietSince <= now /\ quietSince + Timeout <= due
  BY DEF SilenceInv
<1>2. now < NanosMod /\ MaxBack + Timeout < NanosMod
  <2>1. Running
    BY DEF Running
  <2> QED
    BY <2>1, NowBelowMod, NanosAssumption, TimeTypes
<1>3. d \in Int /\ -MaxBack <= d /\ d < NanosMod /\ NanosMod \in Nat \ {0}
  BY <1>1, <1>2, TimeTypes
<1>4. ~(d % NanosMod >= Timeout)
  BY DEF TimedOut, Elapsed, Wall
<1> HIDE DEF d
<1>5. d >= 0
  <2>1. SUFFICES ASSUME d < 0 PROVE FALSE
    BY <1>3
  <2>2. d % NanosMod = d + NanosMod
    BY <1>2, <1>3, <2>1, ModFacts, TimeTypes
  <2> QED
    BY <1>2, <1>3, <1>4, <2>2, TimeTypes
<1>6. d < Timeout
  <2>1. d % NanosMod = d
    BY <1>3, <1>5, ModFacts
  <2> QED
    BY <1>3, <1>4, <2>1, TimeTypes
<1> QED
  BY <1>1, <1>6, TimeTypes DEF d

(* Real time does not run away from the program.                           *)
LEMMA ClockStep ==
  ASSUME IInv, [Next]_vars
  PROVE  ClockInv'
<1> USE TimeTypes DEF IInv, ClockInv
<1>1. CASE Configure \/ Fail \/ EnterLoop \/ LeaveLoop \/ SelectTimesOut
             \/ SelectReadable
  BY <1>1 DEF Configure, Fail, EnterLoop, LeaveLoop, SelectTimesOut,
              SelectReadable, timerVars, loopVars
<1>2. CASE EnterSelect
  BY <1>2 DEF EnterSelect
<1>3. CASE ReceiveFiltered \/ ReceiveAccepted
  BY <1>3 DEF ReceiveFiltered, ReceiveAccepted
<1>4. CASE Show \/ CheckLimit
  BY <1>4 DEF Show, CheckLimit
<1>5. CASE Arrive \/ SetClockBack \/ UNCHANGED vars
  BY <1>5 DEF Arrive, SetClockBack, vars, loopVars
<1>6. CASE Signal
  BY <1>6 DEF Signal, Running, loopVars
<1>7. CASE Tick
  <2>1. /\ now' = now + 1
        /\ now < Horizon \/ stopped
        /\ stopped' = stopped /\ pc' = pc /\ due' = due /\ pc # "configure"
    BY <1>7 DEF Tick, Running, loopVars
  <2>2. \/ pc = "select" /\ now < due /\ lag' = lag
        \/ lag' = lag + 1
    BY <1>7 DEF Tick
  <2> QED
    BY <2>1, <2>2
<1> QED
  BY <1>1, <1>2, <1>3, <1>4, <1>5, <1>6, <1>7 DEF Next, Program

(* The silence lasts no longer than SilenceInv allows.                     *)
LEMMA SilenceStep ==
  ASSUME IInv, [Next]_vars
  PROVE  SilenceInv'
<1> USE TimeTypes DEF IInv, SilenceInv, Withheld
<1>1. CASE Configure
  BY <1>1 DEF Configure, Wall
<1>2. CASE Fail \/ EnterLoop \/ LeaveLoop
  BY <1>2 DEF Fail, EnterLoop, LeaveLoop, timerVars, historyVars
<1>3. CASE EnterSelect
  BY <1>3 DEF EnterSelect, timerVars, historyVars
<1>4. CASE SelectTimesOut
  <2>1. CASE TimedOut(Wall)
    BY <1>4, <2>1 DEF SelectTimesOut, Wall
  <2>2. CASE ~TimedOut(Wall)
    <3>1. back # 0 /\ now - quietSince <= Timeout + back - 1
      BY <1>4, <2>2, WithheldFacts DEF SelectTimesOut, WaitedLongEnough
    <3> QED
      BY <1>4, <2>2, <3>1 DEF SelectTimesOut
  <2> QED
    BY <2>1, <2>2
<1>5. CASE SelectReadable
  <2>1. /\ pc' = "woken" /\ quietSince' = now /\ timestampNs' = now - back
        /\ startNs' = startNs /\ now' = now /\ lag' = lag
    BY <1>5 DEF SelectReadable, Wall
  <2> QED
    BY <2>1
<1>6. CASE ReceiveFiltered
  BY <1>6 DEF ReceiveFiltered, timerVars
<1>7. CASE ReceiveAccepted
  BY <1>7 DEF ReceiveAccepted
<1>8. CASE Show \/ CheckLimit
  BY <1>8 DEF Show, CheckLimit, timerVars, historyVars
<1>9. CASE Arrive \/ UNCHANGED vars
  BY <1>9 DEF Arrive, vars, timerVars, loopVars, historyVars
<1>10. CASE SetClockBack
  BY <1>10 DEF SetClockBack, timerVars, loopVars, historyVars
<1>11. CASE Signal
  BY <1>11 DEF Signal, Running, ClockInv, loopVars, historyVars
<1>12. CASE Tick
  <2>1. /\ now' = now + 1 /\ back' = back /\ stopped' = stopped /\ pc' = pc
        /\ due' = due /\ startNs' = startNs /\ timestampNs' = timestampNs
        /\ quietSince' = quietSince
    BY <1>12 DEF Tick, timerVars, loopVars, historyVars
  <2>2. \/ pc = "select" /\ now < due /\ lag' = lag
        \/ lag' = lag + 1
    BY <1>12 DEF Tick
  <2> QED
    BY <2>1, <2>2
<1> QED
  BY <1>1, <1>2, <1>3, <1>4, <1>5, <1>6, <1>7, <1>8, <1>9, <1>10, <1>11, <1>12
     DEF Next, Program
-----------------------------------------------------------------------------
LEMMA InitIInv == Init => IInv
<1> SUFFICES ASSUME Init PROVE IInv
  OBVIOUS
<1>1. TypeOK
  <2>1. << >> \in Seq(Packets) /\ Len(<< >>) = 0
    OBVIOUS
  <2>2. {MaxBack, MaxLag, MaxPackets, RcvBuf} \subseteq Nat
    BY ReceiverAssumption
  <2>3. socket \in Seq(Packets) /\ Len(socket) <= RcvBuf
    BY <2>1, <2>2 DEF Init
  <2>4. /\ limit \in Limits /\ now \in Nat /\ back \in 0 .. MaxBack
        /\ lag \in 0 .. MaxLag /\ arrived \in 0 .. MaxPackets
        /\ due \in Nat /\ startNs \in Nat /\ timestampNs \in Nat /\ count \in Nat
        /\ ofInterest \in Nat /\ takenLate \in Nat
        /\ quietSince \in Nat /\ heardAt \in Nat
    BY <2>2 DEF Init
  <2>5. rxStats \in [Flows -> Nat] /\ taken \in [Flows -> Nat]
    BY DEF Init
  <2>6. pc = "configure" /\ stopped \in BOOLEAN
        /\ pktInfo \in Packets \cup {"none"}
    BY DEF Init
  <2> QED
    BY <2>3, <2>4, <2>5, <2>6 DEF TypeOK
<1>2. now >= MaxBack
  BY ReceiverAssumption DEF Init
<1>3. StatsExact /\ CountInv /\ LateInv
  BY ReceiverAssumption DEF Init, StatsExact, CountInv, LateInv
<1>4. ClockInv /\ SilenceInv
  BY ReceiverAssumption DEF Init, ClockInv, SilenceInv
<1> QED
  BY <1>1, <1>2, <1>3, <1>4 DEF IInv

LEMMA Inductive == Spec => []IInv
<1>1. IInv /\ [Next]_vars => IInv'
  BY TypeStep, StatsStep, CountStep, LateStep, ClockStep, SilenceStep
     DEF IInv
<1> QED
  BY InitIInv, <1>1, PTL DEF Spec
-----------------------------------------------------------------------------
(* The variables of the receive loop keep their types; in particular a     *)
(* packet is read only from a socket that has one, and only a flow's       *)
(* packet is counted.                                                      *)
THEOREM TypeCorrect == Spec => []TypeOK
<1>1. IInv => TypeOK
  BY DEF IInv
<1> QED
  BY Inductive, <1>1, PTL

(* Every packet that can be shown is counted once, for its flow, whenever  *)
(* a signal or the limit ends the loop (ReceiverBase.hpp:289-305).         *)
THEOREM StatsTheorem == Spec => []StatsExact
<1>1. IInv => StatsExact
  BY DEF IInv
<1> QED
  BY Inductive, <1>1, PTL

(* Exactly as many packets of interest are received as --count asks        *)
(* (ReceiverBase.hpp:36-45, 305).                                          *)
THEOREM LimitTheorem == Spec => []LimitExact
<1>1. IInv => LimitExact
  BY ReceiverAssumption DEF IInv, TypeOK, CountInv, LimitExact
<1> QED
  BY Inductive, <1>1, PTL

(* After the signal at most one packet is received, however many wait      *)
(* (ReceiverBase.hpp:266).                                                 *)
THEOREM StopsAtOnceTheorem == Spec => []StopsAtOnce
<1>1. IInv => StopsAtOnce
  BY DEF IInv, LateInv, StopsAtOnce
<1> QED
  BY Inductive, <1>1, PTL

(* (1 + b) * (t + m) + m is enough for a report withheld once.             *)
LEMMA PatienceFacts ==
  ASSUME NEW b \in Nat, NEW t \in Nat \ {0}, NEW m \in Nat
  PROVE  /\ (1 + 0) * (t + m) + m = t + 2 * m
         /\ b # 0 => (t + b - 1) + t + 2 * m <= (1 + b) * (t + m) + m
<1>1. (1 + 0) * (t + m) + m = t + 2 * m
  OBVIOUS
<1>2. ASSUME b # 0
      PROVE  (t + b - 1) + t + 2 * m <= (1 + b) * (t + m) + m
  <2>1. PICK a \in Nat : b = a + 1
    <3>1. b - 1 \in Nat /\ b = (b - 1) + 1
      BY <1>2
    <3> QED
      BY <3>1
  <2>2. PICK s \in Nat : t = s + 1
    <3>1. t - 1 \in Nat /\ t = (t - 1) + 1
      OBVIOUS
    <3> QED
      BY <3>1
  <2>3. a * s \in Nat /\ a * m \in Nat
    BY SMT
  <2>4. (1 + b) * (t + m) + m = 2 * s + 2 + 3 * m + a * s + a + a * m
    BY <2>1, <2>2
  <2> QED
    BY <2>1, <2>2, <2>3, <2>4
<1> QED
  BY <1>1, <1>2

(* For every timeout and however often the wall clock is set back under    *)
(* the Timer, a silence is reported within Patience                        *)
(* (ReceiverBase.hpp:268-286, Timer.hpp:43-45).                            *)
THEOREM SilenceTheorem == Spec => []SilenceReported
<1>1. IInv => SilenceReported
  <2>1. SUFFICES ASSUME IInv, Running PROVE now - quietSince <= Patience
    BY DEF SilenceReported
  <2>2. pc \in {"while", "enter", "select", "woken", "show", "limit"}
    BY <2>1 DEF IInv, TypeOK, Running
  <2>3. now - quietSince <= Withheld + Timeout + 2 * MaxLag
    BY <2>1, <2>2, TimeTypes DEF IInv, SilenceInv, ClockInv, Withheld
  <2>4. Withheld + Timeout + 2 * MaxLag <= Patience
    <3>1. /\ (1 + 0) * (Timeout + MaxLag) + MaxLag = Timeout + 2 * MaxLag
          /\ back # 0 => (Timeout + back - 1) + Timeout + 2 * MaxLag <= Patience
      BY <2>1, TimeTypes, PatienceFacts DEF IInv, Patience
    <3> QED
      BY <2>1, <3>1, TimeTypes DEF IInv, Withheld, Patience
  <2>5. Patience \in Int /\ Withheld \in Int
    BY <2>1, TimeTypes DEF IInv, Withheld, Patience
  <2> QED
    BY <2>1, <2>3, <2>4, <2>5, TimeTypes DEF IInv
<1> QED
  BY Inductive, <1>1, PTL
=============================================================================
