------------------------------ MODULE IPv4Exec ------------------------------
(***************************************************************************)
(* The running pimc: ipv4exec() (apps/pimc/scheduler/IPv4Exec.cpp) with    *)
(* the two timed events of its queue, the goodbye events, the Timer, the   *)
(* signal that stops it, and the PIM neighbor on the other side of a link  *)
(* that may lose packets.                                                  *)
(*                                                                         *)
(* Time is real time in ticks (now); the program reads a wall clock        *)
(* (gethostnanos() is CLOCK_REALTIME) that is off by skew and that an      *)
(* administrator or NTP may step.  Between two readings of the clock       *)
(* (timer.update()) at most MaxLoop ticks pass, sleep_for() included.      *)
(* The neighbor is external: it is modelled by what pimc relies on, the    *)
(* hold times announced to it.                                             *)
(***************************************************************************)
EXTENDS Integers, Sequences

CONSTANTS
  Updates,      \* the packets of IPv4JPUpdateEvent: the states each one joins
  Inverse,      \* the packets of IPv4GoodbyeJPUpdateEvent: those it prunes
  HelloPeriod, HelloHold,   \* helloPeriod() and helloHoldtime()
  JPPeriod, JPHold,         \* jpPeriod() and jpHoldtime()
  SleepTime,    \* the pause of the event loop (100 ms)
  MaxLoop,      \* bound: ticks between two timer.update()
  MaxLoss,      \* bound: packets the link loses
  MaxBack,      \* bound: ticks the wall clock is ever set back, in all
  MaxAhead,     \* bound: ticks the wall clock is ever set ahead, in all
  Horizon       \* bound: the clock stops here

States == UNION { Updates[k] : k \in DOMAIN Updates }

ASSUME ExecAssumption ==
  /\ { HelloPeriod, HelloHold, JPPeriod, JPHold, SleepTime, MaxLoop,
       MaxLoss, MaxBack, MaxAhead, Horizon } \subseteq Nat
  /\ SleepTime <= MaxLoop
  /\ Updates \in Seq(SUBSET States)
  /\ Inverse \in Seq(SUBSET States)
  /\ UNION { Inverse[k] : k \in DOMAIN Inverse } = States

VARIABLES
  now,        \* real time
  skew,       \* the wall clock shows now + skew
  back, ahead,\* ticks the wall clock has been set back and ahead so far
  spent,      \* ticks since the last timer.update()
  stopped,    \* the flag the signal handler sets
  pc,         \* where the program is
  cts,        \* timer.cts(): the wall clock at the last timer.update()
  helloNext,  \* nextEventTime_ of the Hello event
  jpNext,     \* nextEventTime_ of the Join/Prune event
  n,          \* the packet of a round that is sent next
  greeted,    \* history: a Hello has been sent
  losses,     \* packets the link has lost
  helloTill,  \* the neighbor knows pimc until then; 0 when it does not
  joinTill    \* it keeps the state of this joined until then; 0 when not

clockVars == <<now, skew, back, ahead>>
neighborVars == <<losses, helloTill, joinTill>>
vars == <<clockVars, spent, stopped, pc, cts, helloNext, jpNext, n, greeted,
          neighborVars>>

Wall == now + skew

Init ==
  /\ now = 1
  /\ skew = 0
  /\ back = 0
  /\ ahead = 0
  /\ spent = 0
  /\ stopped = FALSE
  /\ pc = "starting"
  /\ cts = 0
  /\ helloNext = 0
  /\ jpNext = 0
  /\ n = 1
  /\ greeted = FALSE
  /\ losses = 0
  /\ helloTill = 0
  /\ joinTill = [s \in States |-> 0]
-----------------------------------------------------------------------------
(***************************************************************************)
(* The neighbor, and the outcomes of sending it a packet                   *)
(***************************************************************************)
Knows == now < helloTill

(* A Hello with this hold time arrives; 0 is a Goodbye.                    *)
HearHello(hold) ==
  /\ helloTill' = IF hold = 0 THEN 0 ELSE now + hold
  /\ UNCHANGED <<losses, joinTill>>

(* A J/P update arrives: joined states are kept JPHold from now, pruned    *)
(* states are dropped.  From a stranger it is ignored.                     *)
HearUpdate(states, till) ==
  /\ joinTill' = [s \in States |->
                    IF Knows /\ s \in states THEN till ELSE joinTill[s]]
  /\ UNCHANGED <<losses, helloTill>>

Lose ==
  /\ losses < MaxLoss
  /\ losses' = losses + 1
  /\ UNCHANGED <<helloTill, joinTill>>

(* sendto() fails: the error goes up through runOnce() or send() and       *)
(* ipv4exec() returns false at once.                                       *)
SendFails == pc' = "failed" /\ UNCHANGED neighborVars
-----------------------------------------------------------------------------
(***************************************************************************)
(* The program                                                             *)
(***************************************************************************)

(* IPv4PIMIntf::create() fails.                                            *)
CreateFails ==
  /\ pc = "starting"
  /\ pc' = "failed"
  /\ UNCHANGED <<clockVars, spent, stopped, cts, helloNext, jpNext, n,
                 greeted, neighborVars>>

(* The Timer and the event queue are constructed: the first Hello is due   *)
(* at once, the first updates a period later.                              *)
Create ==
  /\ pc = "starting"
  /\ cts' = Wall
  /\ spent' = 0
  /\ helloNext' = Wall
  /\ jpNext' = Wall + JPPeriod
  /\ pc' = "while"
  /\ UNCHANGED <<clockVars, stopped, n, greeted, neighborVars>>

(* while (not stopped) timer.update();                                     *)
EnterLoop ==
  /\ pc = "while"
  /\ ~stopped
  /\ cts' = Wall
  /\ spent' = 0
  /\ pc' = "hello"
  /\ UNCHANGED <<clockVars, stopped, helloNext, jpNext, n, greeted, neighborVars>>

(* IPv4HelloEvent is not ready.                                            *)
HelloNotReady ==
  /\ pc = "hello"
  /\ cts < helloNext
  /\ pc' = "jp"
  /\ UNCHANGED <<clockVars, spent, stopped, cts, helloNext, jpNext, n,
                 greeted, neighborVars>>

(* A Hello event that arms the next Hello from the time it is sent, not    *)
(* from the reading of the clock that made it ready.                       *)
SendHelloArmLate ==
  /\ pc = "hello"
  /\ cts >= helloNext
  /\ helloNext' = Wall + HelloPeriod
  /\ \/ /\ pc' = "jp"
        /\ greeted' = TRUE
        /\ HearHello(HelloHold) \/ Lose
     \/ SendFails /\ UNCHANGED greeted
  /\ UNCHANGED <<clockVars, spent, stopped, cts, jpNext, n>>

(* It is: ready() arms the next Hello before fire() sends this one.        *)
SendHello ==
  /\ pc = "hello"
  /\ cts >= helloNext
  /\ helloNext' = cts + HelloPeriod
  /\ \/ /\ pc' = "jp"
        /\ greeted' = TRUE
        /\ HearHello(HelloHold) \/ Lose
     \/ SendFails /\ UNCHANGED greeted
  /\ UNCHANGED <<clockVars, spent, stopped, cts, jpNext, n>>

(* A ready() that arms the next round whether or not this one is due.      *)
UpdatesNotReadyRearm ==
  /\ pc = "jp"
  /\ cts < jpNext
  /\ jpNext' = cts + JPPeriod
  /\ pc' = "sleep"
  /\ UNCHANGED <<clockVars, spent, stopped, cts, helloNext, n, greeted,
                 neighborVars>>

(* IPv4JPUpdateEvent is not ready.                                         *)
UpdatesNotReady ==
  /\ pc = "jp"
  /\ cts < jpNext
  /\ pc' = "sleep"
  /\ UNCHANGED <<clockVars, spent, stopped, cts, helloNext, jpNext, n,
                 greeted, neighborVars>>

(* A round that counts its packets from 0.                                 *)
StartRoundAtZero ==
  /\ pc = "jp"
  /\ cts >= jpNext
  /\ jpNext' = cts + JPPeriod
  /\ n' = 0
  /\ pc' = "updates"
  /\ UNCHANGED <<clockVars, spent, stopped, cts, helloNext, greeted, neighborVars>>

(* It is: the next round is armed and this one starts.                     *)
StartRound ==
  /\ pc = "jp"
  /\ cts >= jpNext
  /\ jpNext' = cts + JPPeriod
  /\ n' = 1
  /\ pc' = "updates"
  /\ UNCHANGED <<clockVars, spent, stopped, cts, helloNext, greeted, neighborVars>>

(* fire() sends the packets of the round, up to the first that fails.      *)
SendUpdatePacket ==
  /\ pc = "updates"
  /\ n <= Len(Updates)
  /\ \/ /\ n' = n + 1
        /\ UNCHANGED pc
        /\ HearUpdate(Updates[n], now + JPHold) \/ Lose
     \/ SendFails /\ UNCHANGED n
  /\ UNCHANGED <<clockVars, spent, stopped, cts, helloNext, jpNext, greeted>>

(* A round that a signal cuts short.                                       *)
EndRoundOnStop ==
  /\ pc = "updates"
  /\ n > Len(Updates) \/ stopped
  /\ pc' = "sleep"
  /\ UNCHANGED <<clockVars, spent, stopped, cts, helloNext, jpNext, n,
                 greeted, neighborVars>>

(* fire() has sent the whole round.                                        *)
EndRound ==
  /\ pc = "updates"
  /\ n > Len(Updates)
  /\ pc' = "sleep"
  /\ UNCHANGED <<clockVars, spent, stopped, cts, helloNext, jpNext, n,
                 greeted, neighborVars>>

(* A pause that a signal starts over, for ever.                            *)
WakeUpUnstopped ==
  /\ pc = "sleep"
  /\ spent >= SleepTime
  /\ ~stopped
  /\ pc' = "while"
  /\ UNCHANGED <<clockVars, spent, stopped, cts, helloNext, jpNext, n,
                 greeted, neighborVars>>

(* sleep_for() returns; a signal does not cut it short.                    *)
WakeUp ==
  /\ pc = "sleep"
  /\ spent >= SleepTime
  /\ pc' = "while"
  /\ UNCHANGED <<clockVars, spent, stopped, cts, helloNext, jpNext, n,
                 greeted, neighborVars>>

(* A goodbye that goes on counting where the last round stopped.           *)
LeaveLoopKeepCount ==
  /\ pc = "while"
  /\ stopped
  /\ cts' = Wall
  /\ spent' = 0
  /\ pc' = "goodbyeJP"
  /\ UNCHANGED <<clockVars, stopped, helloNext, jpNext, n, greeted, neighborVars>>

(* The loop is left: timer.update(), then the inverse updates.             *)
LeaveLoop ==
  /\ pc = "while"
  /\ stopped
  /\ cts' = Wall
  /\ spent' = 0
  /\ n' = 1
  /\ pc' = "goodbyeJP"
  /\ UNCHANGED <<clockVars, stopped, helloNext, jpNext, greeted, neighborVars>>

SendInversePacket ==
  /\ pc = "goodbyeJP"
  /\ n <= Len(Inverse)
  /\ \/ /\ n' = n + 1
        /\ UNCHANGED pc
        /\ HearUpdate(Inverse[n], 0) \/ Lose
     \/ SendFails /\ UNCHANGED n
  /\ UNCHANGED <<clockVars, spent, stopped, cts, helloNext, jpNext, greeted>>

EndInverse ==
  /\ pc = "goodbyeJP"
  /\ n > Len(Inverse)
  /\ cts' = Wall
  /\ spent' = 0
  /\ pc' = "goodbye"
  /\ UNCHANGED <<clockVars, stopped, helloNext, jpNext, n, greeted, neighborVars>>

(* A Hello with hold time 0 ends the run.                                  *)
SendGoodbye ==
  /\ pc = "goodbye"
  /\ \/ pc' = "exited" /\ (HearHello(0) \/ Lose)
     \/ SendFails
  /\ UNCHANGED <<clockVars, spent, stopped, cts, helloNext, jpNext, n, greeted>>

Program ==
  \/ CreateFails
  \/ Create
  \/ EnterLoop
  \/ HelloNotReady
  \/ SendHello
  \/ UpdatesNotReady
  \/ StartRound
  \/ SendUpdatePacket
  \/ EndRound
  \/ WakeUp
  \/ LeaveLoop
  \/ SendInversePacket
  \/ EndInverse
  \/ SendGoodbye
-----------------------------------------------------------------------------
(***************************************************************************)
(* The environment                                                         *)
(***************************************************************************)
Running == pc \notin {"exited", "failed"}

(* SIGINT, SIGTERM or SIGHUP: the handler sets the flag, at any moment.    *)
Signal ==
  /\ Running
  /\ ~stopped
  /\ stopped' = TRUE
  /\ UNCHANGED <<clockVars, spent, pc, cts, helloNext, jpNext, n, greeted,
                 neighborVars>>

Tick ==
  /\ Running
  /\ spent < MaxLoop
  /\ now < Horizon \/ stopped
  /\ now' = now + 1
  /\ spent' = spent + 1
  /\ UNCHANGED <<skew, back, ahead, stopped, pc, cts, helloNext, jpNext, n,
                 greeted, neighborVars>>

(* The wall clock is set back, or ahead.                                   *)
SetClockBack ==
  /\ Running
  /\ back < MaxBack
  /\ back' = back + 1
  /\ skew' = skew - 1
  /\ UNCHANGED <<now, ahead, spent, stopped, pc, cts, helloNext, jpNext, n,
                 greeted, neighborVars>>

SetClockAhead ==
  /\ Running
  /\ ahead < MaxAhead
  /\ ahead' = ahead + 1
  /\ skew' = skew + 1
  /\ UNCHANGED <<now, back, spent, stopped, pc, cts, helloNext, jpNext, n,
                 greeted, neighborVars>>

Next ==
  \/ Program
  \/ Signal
  \/ Tick
  \/ SetClockBack
  \/ SetClockAhead

Spec == Init /\ [][Next]_vars /\ WF_vars(Program) /\ WF_vars(Tick)
-----------------------------------------------------------------------------
(***************************************************************************)
(* Properties                                                              *)
(***************************************************************************)

(* Every variable has its type.                                            *)
TypeOK ==
  /\ now \in Nat /\ skew \in Int /\ spent \in 0 .. MaxLoop
  /\ back \in 0 .. MaxBack /\ ahead \in 0 .. MaxAhead
  /\ stopped \in BOOLEAN /\ greeted \in BOOLEAN
  /\ pc \in {"starting", "while", "hello", "jp", "updates", "sleep",
             "goodbyeJP", "goodbye", "exited", "failed"}
  /\ cts \in Int /\ helloNext \in Int /\ jpNext \in Int
  /\ n \in 1 .. Len(Updates) + Len(Inverse) + 1
  /\ losses \in 0 .. MaxLoss
  /\ helloTill \in Nat
  /\ joinTill \in [States -> Nat]

(* The hold times leave room for the losses, for the steps of the clock    *)
(* and for the passes of the loop: a Hello goes out, at the latest, a      *)
(* period and a pass after the one before, and leaving takes three passes, *)
(* the updates being needed for two.  The code has 30s and 105s, 60s and   *)
(* 210s (PIMSMConfigLoader.hpp:22-25): room for two losses in a row.       *)
HoldTimesSuffice ==
  /\ HelloPeriod # 0 /\ JPPeriod # 0
  /\ HelloPeriod + MaxLoss * (HelloPeriod + MaxLoop - 1) + MaxBack
       + 3 * MaxLoop <= HelloHold
  /\ JPPeriod + MaxLoss * (JPPeriod + MaxLoop - 1) + MaxBack
       + 2 * MaxLoop <= JPHold

(* While pimc runs and until it says Goodbye, the neighbor that has heard  *)
(* it never forgets it, nor any state it has joined: each Hello and each   *)
(* round of updates is out before the hold time of the last one that got   *)
(* through is over, in spite of the pauses of the loop, of packets lost    *)
(* and of a wall clock set back (IPv4Exec.cpp:71-81; ready() in            *)
(* IPv4HelloEvent.hpp:30-37, IPv4JPUpdateEvent.hpp:46-53).                 *)
NeighborKeepsState ==
  Running =>
    /\ helloTill # 0 => now < helloTill
    /\ \A s \in States : joinTill[s] # 0 => now < joinTill[s]

(* When pimc has left in order and nothing was lost, the neighbor is left  *)
(* with nothing of it: the inverse updates reach a neighbor that still     *)
(* knows pimc, before the Goodbye (IPv4Exec.cpp:83-95).                    *)
LeavesNothingBehind ==
  pc = "exited" /\ losses = 0 =>
    helloTill = 0 /\ \A s \in States : joinTill[s] = 0

(* The abstract session that the run implements.                           *)
phase ==
  CASE pc = "exited" -> "gone"
    [] pc = "failed" -> "aborted"
    [] pc \in {"goodbyeJP", "goodbye"} -> "leaving"
    [] OTHER -> IF greeted THEN "present" ELSE "silent"

sentPackets ==
  CASE pc \in {"updates", "goodbyeJP"} -> n - 1
    [] pc \in {"goodbye", "exited"} -> Len(Inverse)
    [] OTHER -> 0

Session == INSTANCE NeighborSession
  WITH phase <- phase, sent <- sentPackets,
       NUpdates <- Len(Updates), NInverse <- Len(Inverse)

(* Seen from the link the run is a NeighborSession: no update before the   *)
(* first Hello (the queue asks the Hello event first,                      *)
(* FixedEventQueue.hpp:136-153), rounds neither cut short by a stop nor    *)
(* mixed with Hellos, all inverse updates before the Goodbye, nothing      *)
(* after it, and nothing after a failed send.                              *)
ImplementsSession == Session!SSpec

(* A signal ends the run: the flag is read once per pass of the loop and   *)
(* every pass ends (IPv4Exec.cpp:71-95).                                   *)
StopEndsRun == stopped ~> ~Running

(* A run that is neither stopped nor fails joins all its states.           *)
EventuallyJoined ==
  <>(stopped \/ pc = "failed" \/ \A s \in States : joinTill[s] # 0)
=============================================================================
