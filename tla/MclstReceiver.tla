---------------------------- MODULE MclstReceiver ----------------------------
(***************************************************************************)
(* mclst as a receiver: receiveLoop() of apps/mclst/ReceiverBase.hpp with  *)
(* its Timer, its packet limit and its statistics, the signal that stops   *)
(* it, and the socket the kernel fills on the other side of select().      *)
(*                                                                         *)
(* A packet is abstracted to what processPacket() makes of it: its flow    *)
(* when it is accepted and shown, "noshow" when it is accepted but cannot  *)
(* be dissected, "filtered" when it is not for the group.  The last two    *)
(* exist for the raw receiver only.                                        *)
(***************************************************************************)
EXTENDS Integers, Sequences

CONSTANTS
  Flows,     \* (source, source port, destination port)
  Others,    \* which of "noshow" and "filtered" the receiver can meet
  Limits,    \* the values of cfg.count() looked at; 0 is no limit
  Timeout,   \* cfg.timeoutSec(), in ticks
  NanosMod,  \* the modulus of the timestamps (2^64; any bound above them)
  RcvBuf,    \* bound: packets the socket buffers, more are dropped
  MaxPackets,\* bound: packets that ever arrive
  MaxLag,    \* bound: ticks a pass of the loop takes beside waiting
  MaxBack,   \* bound: ticks the wall clock is ever set back
  Horizon    \* bound: real time stops here unless mclst has to stop

Packets == Flows \cup Others

ASSUME ReceiverAssumption ==
  /\ Others \subseteq {"noshow", "filtered"}
  /\ Flows \cap {"noshow", "filtered"} = {}
  /\ Limits \subseteq Nat
  /\ Timeout \in Nat \ {0}
  /\ {NanosMod, RcvBuf, MaxPackets, MaxLag, MaxBack, Horizon} \subseteq Nat

(* The timestamps, 64 bits of nanoseconds since 1970, do not wrap around.  *)
ASSUME NanosAssumption == Horizon + MaxBack + Timeout + 2 * MaxLag < NanosMod

VARIABLES
  limit,     \* cfg.count()
  now,       \* real time; select() measures it
  back,      \* how far the wall clock, which the Timer reads, is behind
  lag,       \* ticks this pass of the loop has taken beside waiting
  socket,    \* the packets waiting in the socket
  arrived,   \* how many packets have arrived
  stopped,   \* the flag the signal handler sets
  pc,        \* "configure", "while", "enter", "select", "woken", "show",
             \* "limit", "done", "raised"
  due,       \* when select() gives up waiting
  startNs,   \* Timer: the last packet of interest or reported timeout
  timestampNs, \* Timer: the wall clock when select() returned
  pktInfo,   \* the packet received last, "none" before
  count,     \* LimitedPackets::count_
  rxStats,   \* the packets counted for each flow
  taken,     \* history: the packets to be shown received, for each flow
  ofInterest,\* history: all packets received but the filtered ones
  takenLate, \* history: the packets received since the flag was set
  quietSince,\* history: real time of the last packet or reported timeout
  heardAt    \* history: that of the last packet of interest or timeout

timerVars == <<startNs, timestampNs>>
historyVars == <<taken, ofInterest, takenLate, quietSince, heardAt>>
loopVars == <<limit, due, pktInfo, count, rxStats>>
vars == <<now, back, lag, socket, arrived, stopped, pc, timerVars, loopVars,
          historyVars>>

Wall == now - back

Init ==
  /\ limit \in Limits
  /\ now = MaxBack
  /\ back = 0
  /\ lag = 0
  /\ socket = << >>
  /\ arrived = 0
  /\ stopped = FALSE
  /\ pc = "configure"
  /\ due = 0
  /\ startNs = 0
  /\ timestampNs = 0
  /\ pktInfo = "none"
  /\ count = 0
  /\ rxStats = [f \in Flows |-> 0]
  /\ taken = [f \in Flows |-> 0]
  /\ ofInterest = 0
  /\ takenLate = 0
  /\ quietSince = 0
  /\ heardAt = 0
-----------------------------------------------------------------------------
(***************************************************************************)
(* The Timer                                                               *)
(***************************************************************************)

(* The elapsed time is unsigned: after a clock set back it may wrap.       *)
Elapsed(ts) == (ts - startNs) % NanosMod

(* A timeout() that the last tick of the timeout does not yet satisfy.     *)
TimedOutLate(ts) == Elapsed(ts) > Timeout

(* timeout(), with this timestampNs_.                                      *)
TimedOut(ts) == Elapsed(ts) >= Timeout
-----------------------------------------------------------------------------
(***************************************************************************)
(* The program                                                             *)
(***************************************************************************)

(* configure() and join() succeed, the Timer starts.                       *)
Configure ==
  /\ pc = "configure"
  /\ pc' = "while"
  /\ startNs' = Wall
  /\ timestampNs' = Wall
  /\ quietSince' = now
  /\ heardAt' = now
  /\ UNCHANGED <<now, back, lag, socket, arrived, stopped, loopVars, taken,
                 ofInterest, takenLate>>

(* configure() or join() throws, select() or recvmsg() fails: run() is left*)
(* without statistics.  recvmsg() fails, with EAGAIN, also when the packet *)
(* that woke select() turns out to be damaged.                             *)
Fail ==
  /\ pc \in {"configure", "select", "woken"}
  /\ pc' = "raised"
  /\ UNCHANGED <<now, back, lag, socket, arrived, stopped, timerVars, loopVars,
                 historyVars>>

(* while (not stopped_) ... the flag is looked at, once a pass.            *)
EnterLoop ==
  /\ pc = "while"
  /\ ~stopped
  /\ pc' = "enter"
  /\ UNCHANGED <<now, back, lag, socket, arrived, stopped, timerVars, loopVars,
                 historyVars>>

(* select() is entered with the full timeout, whatever the flag says now.  *)
EnterSelect ==
  /\ pc = "enter"
  /\ due' = now + Timeout
  /\ lag' = 0
  /\ pc' = "select"
  /\ UNCHANGED <<now, back, socket, arrived, stopped, timerVars, limit,
                 pktInfo, count, rxStats, historyVars>>

LeaveLoop ==
  /\ pc = "while"
  /\ stopped
  /\ pc' = "done"
  /\ UNCHANGED <<now, back, lag, socket, arrived, stopped, timerVars, loopVars,
                 historyVars>>

(* A select() without a timeout, left to the signal to interrupt.          *)
WaitedForEver == FALSE

WaitedLongEnough == socket = << >> /\ now >= due

(* select() returns 0; a timeout is reported if the Timer agrees.          *)
SelectTimesOut ==
  /\ pc = "select"
  /\ WaitedLongEnough
  /\ timestampNs' = Wall
  /\ IF TimedOut(Wall)
     THEN startNs' = Wall /\ quietSince' = now /\ heardAt' = now
     ELSE UNCHANGED <<startNs, quietSince, heardAt>>
  /\ pc' = "while"
  /\ UNCHANGED <<now, back, lag, socket, arrived, stopped, loopVars, taken,
                 ofInterest, takenLate>>

(* select() finds the socket readable.                                     *)
SelectReadable ==
  /\ pc = "select"
  /\ socket # << >>
  /\ timestampNs' = Wall
  /\ quietSince' = now
  /\ pc' = "woken"
  /\ UNCHANGED <<now, back, lag, socket, arrived, stopped, startNs, loopVars,
                 taken, ofInterest, takenLate, heardAt>>

Take ==
  /\ pktInfo' = Head(socket)
  /\ socket' = Tail(socket)
  /\ taken' = [f \in Flows |-> taken[f] + (IF f = Head(socket) THEN 1 ELSE 0)]
  /\ ofInterest' = ofInterest + (IF Head(socket) = "filtered" THEN 0 ELSE 1)
  /\ takenLate' = takenLate + (IF stopped THEN 1 ELSE 0)

(* A loop that reads the socket empty before it looks at the flag again.   *)
ReceiveFilteredDrain ==
  /\ pc = "woken"
  /\ Head(socket) = "filtered"
  /\ Take
  /\ pc' = IF Tail(socket) = << >> THEN "while" ELSE "woken"
  /\ UNCHANGED <<now, back, lag, arrived, stopped, timerVars, limit, due, count,
                 rxStats, quietSince, heardAt>>

(* receive() takes a packet that is not for the group: it neither resets   *)
(* the Timer nor counts.                                                   *)
ReceiveFiltered ==
  /\ pc = "woken"
  /\ Head(socket) = "filtered"
  /\ Take
  /\ pc' = "while"
  /\ UNCHANGED <<now, back, lag, arrived, stopped, timerVars, limit, due, count,
                 rxStats, quietSince, heardAt>>

(* A receiver that looks at the flag again before it counts a packet.      *)
ReceiveUnlessStopped ==
  /\ pc = "woken"
  /\ Head(socket) # "filtered"
  /\ Take
  /\ startNs' = timestampNs
  /\ heardAt' = quietSince
  /\ pc' = IF stopped THEN "while"
           ELSE IF Head(socket) = "noshow" THEN "limit" ELSE "show"
  /\ UNCHANGED <<now, back, lag, arrived, stopped, timestampNs, limit, due,
                 count, rxStats, quietSince>>

(* A packet counted that could not be dissected.                           *)
ReceiveShowAll ==
  /\ pc = "woken"
  /\ Head(socket) # "filtered"
  /\ Take
  /\ startNs' = timestampNs
  /\ heardAt' = quietSince
  /\ pc' = "show"
  /\ UNCHANGED <<now, back, lag, arrived, stopped, timestampNs, limit, due,
                 count, rxStats, quietSince>>

(* receive() takes a packet of interest: the Timer restarts.               *)
ReceiveAccepted ==
  /\ pc = "woken"
  /\ Head(socket) # "filtered"
  /\ Take
  /\ startNs' = timestampNs
  /\ heardAt' = quietSince
  /\ pc' = IF Head(socket) = "noshow" THEN "limit" ELSE "show"
  /\ UNCHANGED <<now, back, lag, arrived, stopped, timestampNs, limit, due,
                 count, rxStats, quietSince>>

(* A packet is shown and counted for its flow.                             *)
Show ==
  /\ pc = "show"
  /\ rxStats' = [rxStats EXCEPT ![pktInfo] = @ + 1]
  /\ pc' = "limit"
  /\ UNCHANGED <<now, back, lag, socket, arrived, stopped, timerVars, limit,
                 due, pktInfo, count, historyVars>>

(* A reached() that compares before it counts.                             *)
ReachedLate == count >= limit

(* LimitedPackets::reached(), of the packet being counted.                 *)
Reached == count + 1 >= limit

(* Without a limit nothing is counted and the loop goes on; after the last *)
(* packet it is left, whether or not the flag is set.                      *)
CheckLimit ==
  /\ pc = "limit"
  /\ count' = IF limit = 0 THEN count ELSE count + 1
  /\ pc' = IF limit # 0 /\ Reached THEN "done" ELSE "while"
  /\ UNCHANGED <<now, back, lag, socket, arrived, stopped, timerVars, limit,
                 due, pktInfo, rxStats, historyVars>>

Program ==
  \/ Configure
  \/ EnterLoop
  \/ EnterSelect
  \/ LeaveLoop
  \/ SelectTimesOut
  \/ SelectReadable
  \/ ReceiveFiltered
  \/ ReceiveAccepted
  \/ Show
  \/ CheckLimit
-----------------------------------------------------------------------------
(***************************************************************************)
(* The environment                                                         *)
(***************************************************************************)
Running == pc \notin {"configure", "done", "raised"}

(* A packet arrives; a full socket buffer drops it.                        *)
Arrive ==
  /\ Running
  /\ arrived < MaxPackets
  /\ arrived' = arrived + 1
  /\ \E p \in Packets :
       socket' = IF Len(socket) < RcvBuf THEN Append(socket, p) ELSE socket
  /\ UNCHANGED <<now, back, lag, stopped, pc, timerVars, loopVars, historyVars>>

(* SIGINT, SIGTERM or SIGHUP.  select() is interrupted (EINTR) when the    *)
(* program is in it: timer.save(), continue.  Anywhere else only the flag  *)
(* is set.                                                                 *)
Signal ==
  /\ Running
  /\ ~stopped
  /\ stopped' = TRUE
  /\ IF pc = "select"
     THEN pc' = "while" /\ timestampNs' = Wall
     ELSE UNCHANGED <<pc, timestampNs>>
  /\ UNCHANGED <<now, back, lag, socket, arrived, startNs, loopVars, historyVars>>

(* Time passes while select() waits, and MaxLag ticks a pass elsewhere.    *)
Tick ==
  /\ Running
  /\ now < Horizon \/ stopped
  /\ \/ pc = "select" /\ socket = << >> /\ now < due /\ UNCHANGED lag
     \/ lag < MaxLag /\ lag' = lag + 1
  /\ now' = now + 1
  /\ UNCHANGED <<back, socket, arrived, stopped, pc, timerVars, loopVars,
                 historyVars>>

SetClockBack ==
  /\ Running
  /\ back < MaxBack
  /\ back' = back + 1
  /\ UNCHANGED <<now, lag, socket, arrived, stopped, pc, timerVars, loopVars,
                 historyVars>>

Next ==
  \/ Program
  \/ Fail
  \/ Arrive
  \/ Signal
  \/ Tick
  \/ SetClockBack

Spec == Init /\ [][Next]_vars /\ WF_vars(Program) /\ WF_vars(Tick)
-----------------------------------------------------------------------------
(***************************************************************************)
(* Properties                                                              *)
(***************************************************************************)

(* Every variable has its type.                                            *)
TypeOK ==
  /\ limit \in Limits /\ now \in Nat /\ back \in 0 .. MaxBack
  /\ lag \in 0 .. MaxLag
  /\ socket \in Seq(Packets) /\ Len(socket) <= RcvBuf
  /\ arrived \in 0 .. MaxPackets
  /\ stopped \in BOOLEAN
  /\ pc \in {"configure", "while", "enter", "select", "woken", "show",
             "limit", "done", "raised"}
  /\ pc = "woken" => socket # << >>
  /\ pc = "show" => pktInfo \in Flows
  /\ due \in Nat /\ startNs \in Nat /\ timestampNs \in Nat
  /\ pktInfo \in Packets \cup {"none"}
  /\ count \in Nat
  /\ rxStats \in [Flows -> Nat]
  /\ taken \in [Flows -> Nat] /\ ofInterest \in Nat /\ takenLate \in Nat
  /\ quietSince \in Nat /\ heardAt \in Nat

(* How long a silence may go unreported: a timeout, and another one each   *)
(* time the wall clock is set back under the Timer, with the lag of the    *)
(* passes that takes.                                                      *)
Patience == (1 + back) * (Timeout + MaxLag) + MaxLag

(* While nothing arrives at all, the timeouts are reported in time, in     *)
(* spite of the two clocks: select() waits by one, Timer::timeout() judges *)
(* by the other (ReceiverBase.hpp:268-286, Timer.hpp:43-45).               *)
SilenceReported == Running => now - quietSince <= Patience

(* The same counted from the last packet of interest, which is what        *)
(* Timer.hpp:12-20 says the Timer is for and docs/man-source/mclst.rst:165 *)
(* promises.                                                               *)
TimeoutReported == Running => now - heardAt <= Patience

(* A packet received that can be shown is counted, once and for its flow,  *)
(* even when the signal or the limit ends the loop in between, and nothing *)
(* else is counted (ReceiverBase.hpp:289-305).                             *)
StatsExact ==
  \A f \in Flows :
    taken[f] = rxStats[f] + (IF pc = "show" /\ pktInfo = f THEN 1 ELSE 0)

(* With --count the receiver takes exactly that many packets of interest   *)
(* unless it is stopped or fails, and never more; filtered ones do not     *)
(* count (ReceiverBase.hpp:36-45, 305).                                    *)
LimitExact ==
  limit # 0 =>
    /\ ofInterest <= limit
    /\ pc = "done" /\ ~stopped => ofInterest = limit

(* Once the flag is set at most one more packet is received, whatever      *)
(* waits in the socket (ReceiverBase.hpp:266).                             *)
StopsAtOnce == takenLate <= 1

(* A signal ends the run.  It may come between the test of the flag and    *)
(* select(), which then is not interrupted: it is the timeout that ends    *)
(* the wait (ReceiverBase.hpp:266-270).                                    *)
StopEndsRun == stopped ~> ~Running
=============================================================================
