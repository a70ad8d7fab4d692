------------------------------ MODULE MclstMain -----------------------------
(***************************************************************************)
(* The start of mclst: Config::fromArgs() and main() up to the choice of   *)
(* the receiver or sender it runs (modules MclstReceiver and MclstSender). *)
(***************************************************************************)
EXTENDS GetOptLong, Texts

VARIABLES
  mclst,       \* "args", "config", "ended", or what main() runs
  mclstCfg,    \* what fromArgs() returns
  mclstStatus  \* the exit status

mclstVars == <<mclst, mclstCfg, mclstStatus>>

MaxPort == 65535

(* The options fromArgs() declares, in this order.                         *)
MclstOptions ==
  LET o1 == optional(GetOptLong, "Interface", 105, "interface")
      o2 == optional(o1, "SourceOfG", 83, "source")
      o3 == optional(o2, "Timeout", 116, "timeout")
      o4 == flag(o3, "ShowPayload", 88, "hex-ascii")
      o5 == flag(o4, "Sender", 115, "sender")
      o6 == optional(o5, "SetTTL", LongOnly, "ttl")
      o7 == optional(o6, "Count", 99, "count")
      o8 == flag(o7, "NoColors", LongOnly, "no-colors")
      o9 == flag(o8, "ShowConfig", LongOnly, "show-config")
  IN  flag(o9, "ShowVersion", 118, "version")

MclstInit(commandLine) ==
  /\ GolInit(MclstOptions, commandLine)
  /\ mclst = "args"
  /\ mclstCfg = << >>
  /\ mclstStatus = "none"

(* main() catches every runtime_error, a wrong command line included, with *)
(* status 1.                                                               *)
MclstExit(s) ==
  /\ mclst' = "ended"
  /\ mclstStatus' = s
-----------------------------------------------------------------------------
(***************************************************************************)
(* The values of the options; Bad stands for the CommandLineError raised   *)
(***************************************************************************)
Bad == -1

(* A number of the range lo .. hi.                                         *)
InRange(text, lo, hi) ==
  IF text \in DOMAIN NumberOf /\ NumberOf[text] >= lo /\ NumberOf[text] <= hi
  THEN NumberOf[text] ELSE Bad

(* parseIPv4Address().                                                     *)
parseIPv4Address(text) == IF text \in DOMAIN AddressOf THEN AddressOf[text] ELSE NoAddress

(* parseGroupPort(): group:port, or a group alone for every port.  That    *)
(* the group is multicast is not asked.                                    *)
parseGroupPort(word) ==
  IF word \in DOMAIN Halves
  THEN LET port == InRange(Halves[word][2], 1, MaxPort) IN
         [ok |-> Halves[word][1] \in DOMAIN AddressOf /\ port # Bad,
          group |-> parseIPv4Address(Halves[word][1]), dport |-> port, wildcard |-> FALSE]
  ELSE [ok |-> word \in DOMAIN AddressOf,
        group |-> parseIPv4Address(word), dport |-> 0, wildcard |-> TRUE]

(* parseSourceOfG(): loopback is allowed here.                             *)
parseSourceOfG(texts) ==
  \/ texts = << >>
  \/ /\ texts[1] \in DOMAIN AddressOf
     /\ ClassOf[AddressOf[texts[1]]] \notin {"mcast", "default", "broadcast"}

parseTimeoutSecs(texts) == IF texts = << >> THEN 5 ELSE InRange(texts[1], 1, 600)

(* parseTTL(): the option belongs to the sender.                           *)
parseTTL(texts, sender) ==
  IF ~sender THEN (IF texts = << >> THEN 0 ELSE Bad)
  ELSE IF texts = << >> THEN 255 ELSE InRange(texts[1], 1, 255)

(* parseCount(): 0, the default and allowed as a value, is no limit.       *)
parseCount(texts) ==
  IF texts = << >> THEN 0
  ELSE IF texts[1] \in DOMAIN NumberOf THEN NumberOf[texts[1]] ELSE Bad
-----------------------------------------------------------------------------
MclstParseArgs ==
  /\ mclst = "args"
  /\ GolNext
  /\ UNCHANGED mclstVars

MclstArgsEnd ==
  /\ mclst = "args"
  /\ parse \in {"help", "error", "fatal"}
  /\ MclstExit(CASE parse = "help" -> "0" [] parse = "error" -> "1" [] parse = "fatal" -> "abort")
  /\ UNCHANGED <<mclstCfg, golVars>>

(* fromArgs(): the version first; one group, an interface that exists and  *)
(* has an address, then the options; a sender needs a port.  The colors    *)
(* are off when the output is no terminal.                                 *)
FromArgs ==
  /\ mclst = "args"
  /\ parse = "result"
  /\ LET gp == parseGroupPort(positional[1])
         intf == values["Interface"]
         sender == flagValue["Sender"]
         timeoutSecs == parseTimeoutSecs(values["Timeout"])
         count == parseCount(values["Count"])
         ttl == parseTTL(values["SetTTL"], sender)
         good == /\ Len(positional) = 1
                 /\ intf # << >>
                 /\ gp.ok
                 /\ intf[1] \in DOMAIN IntfTable
                 /\ IntfTable[intf[1]] # NoAddress
                 /\ parseSourceOfG(values["SourceOfG"])
                 /\ timeoutSecs # Bad
                 /\ count # Bad
                 /\ ttl # Bad
                 /\ ~(sender /\ gp.wildcard)
     IN  IF flagValue["ShowVersion"] THEN MclstExit("0") /\ UNCHANGED mclstCfg
         ELSE IF ~good THEN MclstExit("1") /\ UNCHANGED mclstCfg
         ELSE /\ \E tty \in BOOLEAN :
                   mclstCfg' = [group |-> gp.group, dport |-> gp.dport,
                                wildcard |-> gp.wildcard, intf |-> intf[1],
                                intfAddr |-> IntfTable[intf[1]],
                                source |-> values["SourceOfG"],
                                timeoutSecs |-> timeoutSecs, sender |-> sender,
                                ttl |-> ttl, count |-> count,
                                showPayload |-> flagValue["ShowPayload"],
                                colors |-> tty /\ ~flagValue["NoColors"]]
              /\ mclst' = "config"
              /\ UNCHANGED mclstStatus
  /\ UNCHANGED golVars

(* IntfTable::newTable() can fail, too.                                    *)
NoIntfTable ==
  /\ mclst = "args"
  /\ parse = "result"
  /\ ~flagValue["ShowVersion"]
  /\ MclstExit("1")
  /\ UNCHANGED <<mclstCfg, golVars>>

(* main(): --show-config, or one of the five things mclst can run.         *)
MclstRun ==
  /\ mclst = "config"
  /\ IF flagValue["ShowConfig"] THEN MclstExit("0")
     ELSE /\ mclst' = IF mclstCfg.sender THEN "sender"
                      ELSE IF mclstCfg.count = 0
                      THEN (IF mclstCfg.wildcard THEN "raw receiver" ELSE "receiver")
                      ELSE (IF mclstCfg.wildcard THEN "limited raw receiver"
                                                 ELSE "limited receiver")
          /\ UNCHANGED mclstStatus
  /\ UNCHANGED <<mclstCfg, golVars>>

MclstNext ==
  \/ MclstParseArgs
  \/ MclstArgsEnd
  \/ FromArgs
  \/ NoIntfTable
  \/ MclstRun
-----------------------------------------------------------------------------
(***************************************************************************)
(* Properties                                                              *)
(***************************************************************************)

(* The element of the command line names the option.                       *)
Names(e, short, long) ==
  \/ e.kind = "short" /\ e.short = short
  \/ e.kind = "long" /\ e.long = long

(* The arguments given to an option, by its names.                         *)
ArgsOf(short, long) == { argv[j].arg : j \in { k \in Seen : Names(argv[k], short, long) } }

(* What mclst runs is what its command line asks for (Config.cpp:149-274,  *)
(* Main.cpp:19-51): it sends exactly if -s is given, and then to one port  *)
(* and with a TTL from 1 to 255, --ttl if given; a receiver was given no   *)
(* --ttl, is limited exactly if a count above 0 is given and raw exactly   *)
(* if no port is; the timeout is from 1 to 600 seconds.  Status 0 without  *)
(* running is only for the options that ask for it.                        *)
MclstAsAsked ==
  LET sends == ArgsOf(115, "sender") # {}
      counts == { NumberOf[a] : a \in ArgsOf(99, "count") }
      ttls == { NumberOf[a] : a \in ArgsOf(0, "ttl") }
  IN  /\ mclst \notin {"args", "config", "ended"} =>
           /\ mclst = "sender" <=> sends
           /\ sends => mclstCfg.dport \in 1 .. MaxPort /\ mclstCfg.ttl \in 1 .. 255
           /\ IF sends THEN ttls \subseteq {mclstCfg.ttl} ELSE ttls = {}
           /\ ~sends =>
                /\ mclst \in {"limited receiver", "limited raw receiver"} <=>
                     counts \notin {{}, {0}}
                /\ mclst \in {"raw receiver", "limited raw receiver"} <=> mclstCfg.dport = 0
           /\ mclstCfg.timeoutSecs \in 1 .. 600
           /\ ArgsOf(118, "version") = {}
      /\ mclstStatus = "0" =>
           \/ \E j \in DOMAIN argv : Names(argv[j], 104, "none")
           \/ ArgsOf(118, "version") \cup ArgsOf(0, "show-config") # {}
=============================================================================
