-------------------------------- MODULE Texts -------------------------------
(***************************************************************************)
(* The texts both programs are given, in a file or on the command line,    *)
(* and what the parsers of lib/pimc/parsers and the host make of them.     *)
(* Two texts can stand for one address: 10.1.1.1 and 10.1.1.01.            *)
(***************************************************************************)
EXTENDS Naturals

CONSTANTS
  AddressOf,   \* what parseIPv4Address() makes of a text; it rejects others
  ClassOf,     \* "unicast", "mcast", "loopback", "default", "broadcast"
  NumberOf,    \* what parseDecimalUInt32() makes of a text; it rejects others
  Halves,      \* of a text with a ':', what stands before and behind it
  IntfTable    \* the address of each host interface, or NoAddress

NoAddress == "no address"

ASSUME TextsAssumption ==
  /\ \A t \in DOMAIN AddressOf : AddressOf[t] \in DOMAIN ClassOf
  /\ \A a \in DOMAIN ClassOf :
       ClassOf[a] \in {"unicast", "mcast", "loopback", "default", "broadcast"}
  /\ NoAddress \notin DOMAIN ClassOf
  /\ \A t \in DOMAIN NumberOf : NumberOf[t] \in Nat
  /\ DOMAIN Halves \cap DOMAIN AddressOf = {}
=============================================================================
