------------------------------ MODULE MCStartup -----------------------------
(***************************************************************************)
(* Every start of pimc and mclst over small command lines and files.  The  *)
(* command lines of pimc are all those of up to three elements, with one   *)
(* good file; the files are variations of a good one, section by section,  *)
(* each read by a plain "pimc config.yml"; the command lines of mclst hold *)
(* a group, an interface and up to two more options in several orders.     *)
(* MaxPruneSGrptLen is 1, so that a list of two prunes is too long.        *)
(***************************************************************************)
EXTENDS PimcMain, MclstMain

CONSTANTS
  Files,        \* the configuration files that are read
  PimcLines,    \* the command lines of pimc
  MclstLines,   \* the command lines of mclst
  YamlNodes     \* the nodes of the files

ASSUME LinesAssumption == \A l \in PimcLines \cup MclstLines : IsCommandLine(l)

VARIABLE program

allVars == <<program, golVars, intfVars, pimcVars, mclstVars>>
-----------------------------------------------------------------------------
(* 10.0.0.01 is another text for 10.0.0.1, 239.1.1.01 for 239.1.1.1.       *)
MCAddressOf ==
  [t \in {"10.0.0.1", "10.0.0.01", "10.0.0.2", "10.0.0.3", "127.0.0.1", "0.0.0.0",
          "255.255.255.255", "239.1.1.1", "239.1.1.01", "239.1.1.2"} |->
     CASE t = "10.0.0.01" -> "10.0.0.1" [] t = "239.1.1.01" -> "239.1.1.1" [] OTHER -> t]

MCClassOf ==
  [a \in {"10.0.0.1", "10.0.0.2", "10.0.0.3", "127.0.0.1", "0.0.0.0",
          "255.255.255.255", "239.1.1.1", "239.1.1.2"} |->
     CASE a \in {"239.1.1.1", "239.1.1.2"} -> "mcast"
       [] a = "127.0.0.1" -> "loopback"
       [] a = "0.0.0.0" -> "default"
       [] a = "255.255.255.255" -> "broadcast"
       [] OTHER -> "unicast"]

MCNumberOf ==
  [t \in {"0", "1", "256", "600", "601", "65535", "65536"} |->
     CASE t = "0" -> 0 [] t = "1" -> 1 [] t = "256" -> 256 [] t = "600" -> 600
       [] t = "601" -> 601 [] t = "65535" -> 65535 [] t = "65536" -> 65536]

MCHalves ==
  [t \in {"239.1.1.1:65535", "239.1.1.1:65536", "239.1.1.1:0", "x:1"} |->
     CASE t = "239.1.1.1:65535" -> << "239.1.1.1", "65535" >>
       [] t = "239.1.1.1:65536" -> << "239.1.1.1", "65536" >>
       [] t = "239.1.1.1:0" -> << "239.1.1.1", "0" >>
       [] t = "x:1" -> << "x", "1" >>]

MCIntfTable ==
  [t \in {"eth0", "tun0"} |-> IF t = "eth0" THEN "10.0.0.3" ELSE NoAddress]

MCLevelOf == [t \in {"debug", "DEBUG"} |-> "Debug"]
-----------------------------------------------------------------------------
Word(w) == [kind |-> "word", short |-> 0, long |-> "", arg |-> w]
Short(c, a) == [kind |-> "short", short |-> c, long |-> "", arg |-> a]
Long(l, a) == [kind |-> "long", short |-> 0, long |-> l, arg |-> a]

UpTo(n, S) == UNION { [1 .. k -> S] : k \in 0 .. n }

PimcElements ==
  { Word(ConfigFile), Word("other.yml"), Short(104, NoArg), Short(118, NoArg),
    Short(122, NoArg), Long("help", NoArg), Long("show-config", NoArg),
    Long("show-config", "x"), Long("bogus", NoArg) }

MCPimcLines == UpTo(3, PimcElements)

MclstWords == { Word(w) : w \in DOMAIN MCHalves \cup {"239.1.1.1", "x"} }
MclstIntfs == { Short(105, "eth0"), Long("interface", "tun0"), Short(105, "wlan0") }
MclstOthers ==
  { Short(83, "10.0.0.1"), Short(83, "239.1.1.1"), Short(116, "600"), Short(116, "601"),
    Short(116, "0"), Short(88, NoArg), Short(115, NoArg), Long("sender", NoArg),
    Long("ttl", "1"), Long("ttl", "256"), Short(99, "0"), Short(99, "1"), Short(99, "x"),
    Long("no-colors", NoArg), Long("show-config", NoArg), Short(118, NoArg),
    Short(104, NoArg), Long("help", NoArg) }
MissingArgs == { Short(105, NoArg), Long("ttl", NoArg) }

MCMclstLines ==
  UpTo(1, MclstWords \cup MclstIntfs \cup MclstOthers)
    \cup { << w, e >> : w \in MclstWords, e \in MclstIntfs \cup MclstOthers \cup MissingArgs }
    \cup { << e, w, f >> : w \in MclstWords, e \in MclstIntfs, f \in MclstOthers \cup MissingArgs }
    \cup { << f, w, e, g >> : w \in MclstWords, e \in MclstIntfs,
                              f \in MclstOthers, g \in MclstOthers }
-----------------------------------------------------------------------------
GoodGroup == Map(<< Pair("Join", Sequence(<< Scalar("10.0.0.1") >>)) >>)
GoodPim == Map(<< Pair("neighbor", Scalar("10.0.0.2")), Pair("interface", Scalar("eth0")) >>)
GoodMulticast == Map(<< Pair("239.1.1.1", GoodGroup) >>)

Config(pim, multicast) == Map(<< Pair("pim", pim), Pair("multicast", multicast) >>)

(* Every way to write the value of a field, or not to have the field.      *)
FieldIs(name, nodes) == { << >> } \cup { << Pair(name, n) >> : n \in nodes }

SourceTexts == {"10.0.0.1", "10.0.0.01", "10.0.0.2"}
BadTexts == {"x", "127.0.0.1", "0.0.0.0", "255.255.255.255", "239.1.1.1"}
ScalarLists(T) == { Sequence([k \in DOMAIN s |-> Scalar(s[k])]) : s \in UpTo(2, T) }
Extras == { << >>, << Pair("RP", Scalar("10.0.0.3")) >>, << Pair("bogus", Null) >>,
            << [key |-> Null, value |-> Null] >> }

RPTs ==
  { Map(rp \o prune) :
      rp \in FieldIs("RP", { Scalar(t) : t \in SourceTexts \cup {"x"} }),
      prune \in FieldIs("Prune", ScalarLists(SourceTexts)) }
    \cup { Map(<< Pair("RP", Scalar("10.0.0.1")) >> \o e) : e \in Extras }
    \cup { Map(<< Pair("RP", n) >>) :
             n \in { Scalar(t) : t \in BadTexts } \cup { Null, Sequence(<< >>) } }
    \cup { Map(<< Pair("RP", Scalar("10.0.0.1")), Pair("Prune", n) >>) :
             n \in { Null, Map(<< >>), Sequence(<< Null >>) } }
    \cup { Null, Scalar("x") }

SPTs == ScalarLists(SourceTexts) \cup { Null, Sequence(<< Map(<< >>) >>) }

Groups ==
  { Map(rpt \o spt) : rpt \in FieldIs("Join*", RPTs), spt \in FieldIs("Join", SPTs) }
    \cup { Null, Map(<< Pair("Join", Sequence(<< >>)), Pair("Join", Sequence(<< >>)) >>),
           Map(<< Pair("bogus", Null) >>) }

SomeGroups ==
  { GoodGroup, Map(<< >>),
    Map(<< Pair("Join", Sequence(<< Scalar("10.0.0.1"), Scalar("10.0.0.2") >>)) >>),
    Map(<< Pair("Join*", Map(<< Pair("RP", Scalar("10.0.0.3")) >>)) >>),
    Map(<< Pair("Join", Sequence(<< >>)) >>) }

(* One group, two of them, and two that do not ascend.                     *)
Multicasts ==
  { Map(<< Pair("239.1.1.1", g) >>) : g \in Groups }
    \cup { Map(<< Pair(t, g), Pair(u, h) >>) :
             t \in {"239.1.1.1", "10.0.0.1"}, u \in {"239.1.1.2", "239.1.1.01", "x"},
             g \in SomeGroups, h \in SomeGroups }
    \cup { Map(<< Pair("239.1.1.2", g), Pair("239.1.1.1", h) >>) :
             g \in SomeGroups, h \in SomeGroups }
    \cup { Null, Map(<< >>), Map(<< [key |-> Null, value |-> GoodGroup] >>) }

Pims ==
  { Map(n \o i \o e) :
      n \in FieldIs("neighbor", { Scalar(t) : t \in {"10.0.0.1", "10.0.0.01"} \cup BadTexts }
                                  \cup { Null }),
      i \in FieldIs("interface", { Scalar(t) : t \in {"eth0", "tun0", "wlan0"} } \cup { Null }),
      e \in { << >>, << Pair("bogus", Null) >>, << Pair("interface", Scalar("eth0")) >> } }
    \cup { Null }

Loggings ==
  { Map(l \o d \o e) :
      l \in FieldIs("level", { Scalar("debug"), Scalar("DEBUG"), Scalar("x"), Null }),
      d \in FieldIs("dir", { Scalar("/var/log"), Scalar("x"), Sequence(<< >>) }),
      e \in { << >>, << Pair("bogus", Null) >>, << Pair("dir", Scalar("/var/log")) >> } }
    \cup { Null }

MCFiles ==
  { << Config(GoodPim, m) >> : m \in Multicasts }
    \cup { << Config(p, GoodMulticast) >> : p \in Pims }
    \cup { << Map(<< Pair("logging", l), Pair("pim", GoodPim),
                     Pair("multicast", GoodMulticast) >>) >> : l \in Loggings }
    \cup { << Map(<< Pair("multicast", GoodMulticast) >>) >>, << Map(<< >>) >>, << Null >>,
           << Map(<< Pair("pim", GoodPim) >>) >>, << >>,
           << Config(GoodPim, GoodMulticast), Null >>,
           << Map(<< Pair("pim", GoodPim), Pair("multicast", GoodMulticast),
                     Pair("pim", GoodPim) >>) >> }

(* The nodes, and what is inside them.                                     *)
WithItems(nodes) ==
  nodes
    \cup UNION { RangeOf(n.items) : n \in { m \in nodes : m.type = "Sequence" } }
    \cup UNION { { p.key : p \in RangeOf(n.items) } \cup { p.value : p \in RangeOf(n.items) } :
                   n \in { m \in nodes : m.type = "Map" } }

MCYamlNodes ==
  LET roots == UNION { RangeOf(f) : f \in MCFiles } IN
    WithItems(WithItems(WithItems(WithItems(WithItems(roots)))))

GoodFile == << Config(GoodPim, GoodMulticast) >>

ASSUME FilesAssumption ==
  IsYaml(YamlNodes) /\ Files \cup {GoodFile} \subseteq Seq(YamlNodes)
-----------------------------------------------------------------------------
IdlePimc == docs = << >> /\ stage = "idle" /\ config = << >> /\ status = "none"
IdleMclst == mclst = "idle" /\ mclstCfg = << >> /\ mclstStatus = "none"
AllPermitted == permitted = { Caps[k] : k \in DOMAIN Caps } /\ effective = {}

MCInit ==
  /\ IntfInit
  /\ \/ /\ program = "pimc"
        /\ \/ PimcInit(<< Word(ConfigFile) >>, GoodFile)
           \/ AllPermitted /\ \E f \in Files : PimcInit(<< Word(ConfigFile) >>, f)
           \/ AllPermitted /\ \E l \in PimcLines : PimcInit(l, GoodFile)
        /\ IdleMclst
     \/ /\ program = "mclst"
        /\ AllPermitted
        /\ \E l \in MclstLines : MclstInit(l)
        /\ IdlePimc

MCNext ==
  \/ program = "pimc" /\ PimcNext /\ UNCHANGED <<program, mclstVars>>
  \/ program = "mclst" /\ MclstNext /\ UNCHANGED <<program, pimcVars, intfVars>>

MCSpec == MCInit /\ [][MCNext]_allVars

(* How the start of either program ends, its event loop, receiver or       *)
(* sender included, is what its command line and file call for (Main.cpp   *)
(* of both).                                                               *)
StartupOutcome ==
  IF program = "pimc" THEN PimcOutcome ELSE MclstAsAsked
=============================================================================
