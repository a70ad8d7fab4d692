---------------------------- MODULE IPv4PIMIntf -----------------------------
(***************************************************************************)
(* How pimc gets its raw socket (IPv4PIMIntf::create()): it raises two     *)
(* capabilities, opens and configures the socket, and gives every          *)
(* capability up on the way out (CapState.hpp, the build with libcap).     *)
(*                                                                         *)
(* Any system call can fail; failedCalls records which did.  The kernel's  *)
(* part (what a capability is good for) is modelled from how it is used.   *)
(***************************************************************************)
EXTENDS Integers, Sequences

Caps == << "NET_RAW", "NET_BIND_SERVICE" >>

VARIABLES
  permitted,    \* the capabilities the process may raise
  effective,    \* the ones that are raised
  create,       \* where create() is: "idle", "raise", "raised", "socket",
                \* "reuse", "hdrincl", "bind", "intf" or "failed"
  nextCap,      \* the capability raiseImpl() raises next
  rcap,         \* capRaised_ of the CapState create() holds
  socket,       \* "none", "open" or "closed"
  failedCalls   \* the system calls that have failed

intfVars == <<permitted, effective, create, nextCap, rcap, socket, failedCalls>>

IntfInit ==
  /\ permitted \in SUBSET { Caps[k] : k \in DOMAIN Caps }
  /\ effective \in {{}, permitted}
  /\ create = "idle"
  /\ nextCap = 1
  /\ rcap = FALSE
  /\ socket = "none"
  /\ failedCalls = {}

CreateStarts ==
  /\ create = "idle"
  /\ create' = "raise"
  /\ UNCHANGED <<permitted, effective, nextCap, rcap, socket, failedCalls>>
-----------------------------------------------------------------------------
(***************************************************************************)
(* CapState                                                                *)
(***************************************************************************)

(* dropAllCaps(): an empty set replaces them all, the permitted ones too;  *)
(* its failure goes unnoticed.  failed are the calls that failed before.   *)
dropAllCaps(failed) ==
  \/ /\ effective' = {}
     /\ permitted' = {}
     /\ failedCalls' = failedCalls \cup failed
  \/ /\ failedCalls' = failedCalls \cup failed \cup {"drop"}
     /\ UNCHANGED <<effective, permitted>>

(* raiseCap(): cap_get_proc() or cap_set_flag() fails.  create() returns   *)
(* the error; what was raised before stays raised.                         *)
RaiseFailsEarly ==
  /\ create = "raise"
  /\ nextCap \in DOMAIN Caps
  /\ failedCalls' = failedCalls \cup {"get"}
  /\ create' = "failed"
  /\ UNCHANGED <<permitted, effective, nextCap, rcap, socket>>

(* raiseCap(): cap_set_proc() fails, with EPERM if the capability is not   *)
(* permitted, and all of them are dropped.                                 *)
RaiseRefused ==
  /\ create = "raise"
  /\ nextCap \in DOMAIN Caps
  /\ dropAllCaps({"set"})
  /\ create' = "failed"
  /\ UNCHANGED <<nextCap, rcap, socket>>

(* raiseCap() raises the capability, and may then fail to free its memory. *)
RaiseCap ==
  /\ create = "raise"
  /\ nextCap \in DOMAIN Caps
  /\ Caps[nextCap] \in permitted
  /\ effective' = effective \cup {Caps[nextCap]}
  /\ \/ nextCap' = nextCap + 1 /\ UNCHANGED <<create, failedCalls>>
     \/ create' = "failed" /\ failedCalls' = failedCalls \cup {"free"} /\ UNCHANGED nextCap
  /\ UNCHANGED <<permitted, rcap, socket>>

(* A move of a CapState that leaves the source armed.                      *)
MovedArmed(rhs) == [lhs |-> rhs, rhs |-> rhs]

(* CapState(CapState&&): the one moved from drops nothing any more.        *)
Moved(rhs) == [lhs |-> rhs, rhs |-> FALSE]

(* raiseImpl() made a CapState and raise() returns it: it is moved into    *)
(* the result, and the one moved from is destroyed.                        *)
RaiseReturns ==
  /\ create = "raise"
  /\ nextCap > Len(Caps)
  /\ rcap' = Moved(TRUE).lhs
  /\ create' = "raised"
  /\ IF Moved(TRUE).rhs
     THEN dropAllCaps({})
     ELSE UNCHANGED <<permitted, effective, failedCalls>>
  /\ UNCHANGED <<nextCap, socket>>
-----------------------------------------------------------------------------
(***************************************************************************)
(* The socket                                                              *)
(***************************************************************************)

(* create() returns: ~CapState() drops the capabilities.                   *)
Return(outcome, failed) ==
  /\ create' = outcome
  /\ rcap' = FALSE
  /\ IF rcap
     THEN dropAllCaps(failed)
     ELSE failedCalls' = failedCalls \cup failed /\ UNCHANGED <<permitted, effective>>

(* openIPv4PIMSocket(): a raw socket takes CAP_NET_RAW.                    *)
OpenSocket ==
  /\ create = "raised"
  /\ "NET_RAW" \in effective
  /\ socket' = "open"
  /\ create' = "reuse"
  /\ UNCHANGED <<permitted, effective, nextCap, rcap, failedCalls>>

OpenFails ==
  /\ create = "raised"
  /\ Return("failed", {"socket"})
  /\ UNCHANGED <<nextCap, socket>>

AllowReuse ==
  /\ create = "reuse"
  /\ create' = "hdrincl"
  /\ UNCHANGED <<permitted, effective, nextCap, rcap, socket, failedCalls>>

(* allowReuse() fails before the deferred close of the socket is set up.   *)
AllowReuseFails ==
  /\ create = "reuse"
  /\ Return("failed", {"reuse"})
  /\ UNCHANGED <<nextCap, socket>>

SetHdrIncl ==
  /\ create = "hdrincl"
  /\ create' = "bind"
  /\ UNCHANGED <<permitted, effective, nextCap, rcap, socket, failedCalls>>

(* IP_HDRINCL or bindToDevice() fails: the deferred close runs.            *)
ConfigureFails ==
  /\ create \in {"hdrincl", "bind"}
  /\ socket' = "closed"
  /\ Return("failed", {create})
  /\ UNCHANGED nextCap

(* bindToDevice() succeeds, the deferred close is cancelled, the interface *)
(* is returned with the socket.                                            *)
BindAndReturn ==
  /\ create = "bind"
  /\ Return("intf", {})
  /\ UNCHANGED <<nextCap, socket>>

IntfNext ==
  \/ RaiseFailsEarly
  \/ RaiseRefused
  \/ RaiseCap
  \/ RaiseReturns
  \/ OpenSocket
  \/ OpenFails
  \/ AllowReuse
  \/ AllowReuseFails
  \/ SetHdrIncl
  \/ ConfigureFails
  \/ BindAndReturn
-----------------------------------------------------------------------------
(***************************************************************************)
(* Properties                                                              *)
(***************************************************************************)

(* The capabilities are there when they are needed and gone when they are  *)
(* not: both are raised until the socket is bound, and once create() has   *)
(* returned none is left and a socket it does not hand out is closed.      *)
(* What stays behind is named: a capability only where dropAllCaps() fails *)
(* or raise() fails without calling it (CapState.hpp:104-112, 124), the    *)
(* socket only where allowReuse() fails (IPv4PIMIntf.cpp:30-34).           *)
PrivilegesContained ==
  /\ create \in {"raised", "reuse", "hdrincl", "bind"} =>
       rcap /\ effective = { Caps[k] : k \in DOMAIN Caps }
  /\ create \in {"intf", "failed"} =>
       /\ effective # {} => failedCalls \cap {"drop", "get", "free"} # {}
       /\ socket = "open" => create = "intf" \/ failedCalls \cap {"reuse"} # {}
  /\ create = "intf" => socket = "open"
=============================================================================
