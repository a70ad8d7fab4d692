---------------------------- MODULE ConfigLoader ----------------------------
(***************************************************************************)
(* How pimc reads its configuration file once yaml-cpp has parsed it:      *)
(* loadPIMCConfig() and the loaders of its three sections (apps/pimc/      *)
(* config/*Loader.hpp).  A loader reads on after an error and collects     *)
(* them all; the configuration is built only if there are none.            *)
(***************************************************************************)
EXTENDS Structured, Texts, FiniteSets

Lists == INSTANCE SequencesExt

CONSTANTS
  LevelOf,       \* the logging level a text names, in upper or lower case
  Directories,   \* the texts that are existing directories
  MaxPruneSGrptLen

ASSUME MaxPruneAssumption == MaxPruneSGrptLen \in Nat

NoDir == "no dir"
-----------------------------------------------------------------------------
(* ucAddr(): the text of a unicast address.                                *)
ucAddr(text) ==
  IF text \notin DOMAIN AddressOf THEN Fail(text, "invalid")
  ELSE IF ClassOf[AddressOf[text]] # "unicast"
       THEN Fail(text, ClassOf[AddressOf[text]])
       ELSE Ok(AddressOf[text])

(* grpAddr(): the text of a group address.                                 *)
grpAddr(text) ==
  IF text \notin DOMAIN AddressOf THEN Fail(text, "invalid")
  ELSE IF ClassOf[AddressOf[text]] # "mcast"
       THEN Fail(text, "not multicast")
       ELSE Ok(AddressOf[text])

(* A scalar node that holds the address of a source or an RP.              *)
scalarAddr(node) == flatMap(getScalar(node), ucAddr)
-----------------------------------------------------------------------------
(***************************************************************************)
(* The multicast section                                                   *)
(***************************************************************************)

(* GroupConfigBuilder: what has been accepted of a group, the sources seen *)
(* so far in any role, and the errors.                                     *)
GroupConfigBuilder(ga) ==
  [group |-> ga, rp |-> NoAddress, prunes |-> {}, joins |-> {},
   sources |-> {}, errors |-> {}]

WithErrors(b, es) == [b EXCEPT !.errors = @ \cup es]
WithError(b, e) == WithErrors(b, {e})

(* A chkSrc() that knows the sources of the lists and not the RP.          *)
ChkSrcInLists(b, src) == src \notin b.prunes \cup b.joins

(* chkSrc(): a source occurs once in a group, in whatever role.            *)
chkSrc(b, src) == src \notin b.sources

acceptRP(b, sa) == [b EXCEPT !.rp = sa]

(* The length of the list is looked at when the source is registered.      *)
acceptPruneSGrpt(b, sa) ==
  IF Cardinality(b.prunes) >= MaxPruneSGrptLen
  THEN WithError(b, ErrorContext(sa, "too many prunes"))
  ELSE [b EXCEPT !.prunes = @ \cup {sa}]

acceptJoinSG(b, sa) == [b EXCEPT !.joins = @ \cup {sa}]

(* The address in r is registered with chkSrc() and accepted.              *)
acceptSource(b, r, accept(_, _)) ==
  IF ~r.ok THEN WithError(b, r.error)
  ELSE IF ~chkSrc(b, r.value) THEN WithError(b, ErrorContext(r.value, "duplicate"))
  ELSE accept([b EXCEPT !.sources = @ \cup {r.value}], r.value)

(* Every element of a list is accepted or complained about.                *)
acceptList(b, list, accept(_, _)) ==
  IF list.ok
  THEN Lists!FoldLeft(LAMBDA c, node : acceptSource(c, scalarAddr(node), accept), b, list.value)
  ELSE WithError(b, list.error)

(* loadRPTConfig(): the "Join*" entry, its RP and then its prunes.         *)
loadRPTFields(b, pairs) ==
  WithErrors(
    LET withRP == acceptSource(b, flatMap(required(pairs, "RP"), scalarAddr), acceptRP) IN
      optionalField(pairs, "Prune", withRP,
        LAMBDA node : acceptList(withRP, getSequence(node), acceptPruneSGrpt)),
    extraneous(pairs, {"RP", "Prune"}))

loadRPTConfig(b, m) == IF m.ok THEN loadRPTFields(b, m.value) ELSE WithError(b, m.error)

(* loadSPTConfig(): the "Join" entry.                                      *)
loadSPTConfig(b, node) == acceptList(b, getSequence(node), acceptJoinSG)

(* The "Join*" entry of a group if it has one, and then the "Join" entry.  *)
loadRptPart(b, pairs) ==
  optionalField(pairs, "Join*", b, LAMBDA node : loadRPTConfig(b, getMapping(node)))

loadSptPart(b, pairs) ==
  optionalField(pairs, "Join", b, LAMBDA node : loadSPTConfig(b, node))

(* loadGroupConfig(): a group must have one of the two entries.            *)
loadGroupConfig(b, m) ==
  IF ~m.ok THEN WithError(b, m.error)
  ELSE WithErrors(
         loadSptPart(loadRptPart(b, m.value), m.value),
         extraneous(m.value, {"Join*", "Join"})
           \cup IF Under(m.value, "Join*") \cup Under(m.value, "Join") = {}
                THEN {ErrorContext(b.group, "empty")} ELSE {})

AddGroup(acc, b) == [groups |-> Append(acc.groups, b), errors |-> acc.errors \cup b.errors]

(* The loop of loadMulticastConfig() at one entry of the mapping: the      *)
(* group must be new, as an address and not only as a text.                *)
loadGroup(acc, g, node) ==
  IF ~g.ok
  THEN WithError(acc, g.error)
  ELSE IF \E k \in DOMAIN acc.groups : acc.groups[k].group = g.value
  THEN WithError(acc, ErrorContext(g.value, "duplicate group"))
  ELSE AddGroup(acc, loadGroupConfig(GroupConfigBuilder(g.value), getMapping(node)))

NoGroups == [groups |-> << >>, errors |-> {}]

loadMulticastConfig(m) ==
  IF ~m.ok THEN WithError(NoGroups, m.error)
  ELSE IF m.value = << >> THEN WithError(NoGroups, ErrorContext("", "no groups"))
  ELSE Lists!FoldLeft(
         LAMBDA acc, p : loadGroup(acc, flatMap(getScalar(p.key), grpAddr), p.value),
         NoGroups, m.value)

(* JPGroupConfigBuilder::build(): the prunes belong to the RPT and are     *)
(* gone without an RP.                                                     *)
buildGroup(b) ==
  [group |-> b.group, rp |-> b.rp, joins |-> b.joins,
   prunes |-> IF b.rp = NoAddress THEN {} ELSE b.prunes]

(* MulticastConfigBuilder::build(): the groups in the order of the file.   *)
buildGroups(acc) ==
  [errors |-> acc.errors,
   value |-> [k \in DOMAIN acc.groups |-> buildGroup(acc.groups[k])]]

loadJPConfig(node) == buildGroups(loadMulticastConfig(getMapping(node)))
-----------------------------------------------------------------------------
(***************************************************************************)
(* The pim and logging sections                                            *)
(***************************************************************************)
Failed(e) == [errors |-> {e}, value |-> << >>]

(* The interface must exist and have an address.                           *)
interface(text) ==
  IF text \notin DOMAIN IntfTable THEN Fail(text, "unknown interface")
  ELSE IF IntfTable[text] = NoAddress THEN Fail(text, "no IPv4 address") ELSE Ok(text)

(* PIMSMConfigLoader::build().                                             *)
buildPIMSM(neighbor, intf, unwanted) ==
  [errors |-> chk(neighbor) \cup chk(intf) \cup unwanted,
   value |-> IF neighbor.ok /\ intf.ok
             THEN [neighbor |-> neighbor.value, intfName |-> intf.value,
                   intfAddr |-> IntfTable[intf.value]]
             ELSE << >>]

loadPIMSMConfig(m) ==
  IF ~m.ok THEN Failed(m.error)
  ELSE buildPIMSM(
         flatMap(required(m.value, "neighbor"), scalarAddr),
         flatMap(flatMap(required(m.value, "interface"), getScalar), interface),
         extraneous(m.value, {"neighbor", "interface"}))

getLevel(text) == IF text \in DOMAIN LevelOf THEN Ok(LevelOf[text]) ELSE Fail(text, "level")

getDir(text) == IF text \in Directories THEN Ok(text) ELSE Fail(text, "not a directory")

(* LoggingConfigLoader::build().                                           *)
buildLogging(level, dir, unwanted) ==
  [errors |-> chk(level) \cup chk(dir) \cup unwanted,
   value |-> IF level.ok /\ dir.ok THEN [level |-> level.value, dir |-> dir.value] ELSE << >>]

(* loadLoggingConfig(): both fields may be missing.                        *)
loadLoggingConfig(m) ==
  IF ~m.ok THEN Failed(m.error)
  ELSE buildLogging(
         optionalField(m.value, "level", Ok("Info"),
                       LAMBDA node : flatMap(getScalar(node), getLevel)),
         optionalField(m.value, "dir", Ok(NoDir),
                       LAMBDA node : flatMap(getScalar(node), getDir)),
         extraneous(m.value, {"level", "dir"}))
-----------------------------------------------------------------------------
(* A required section, read by load if it is there.                        *)
loadSection(section, load(_)) ==
  IF section.ok THEN load(section.value) ELSE Failed(section.error)

(* The errors of all the sections, the values of those that had none.      *)
combine(logging, pimsm, jp, unwanted) ==
  [errors |-> logging.errors \cup pimsm.errors \cup jp.errors \cup unwanted,
   value |-> [logging |-> logging.value, pimsm |-> pimsm.value, jp |-> jp.value]]

loadSections(m) ==
  IF ~m.ok THEN Failed(m.error)
  ELSE combine(
         optionalField(m.value, "logging", buildLogging(Ok("Info"), Ok(NoDir), {}),
                       LAMBDA node : loadLoggingConfig(getMapping(node))),
         loadSection(required(m.value, "pim"),
                     LAMBDA node : loadPIMSMConfig(getMapping(node))),
         loadSection(required(m.value, "multicast"), loadJPConfig),
         extraneous(m.value, {"logging", "pim", "multicast"}))

(* loadPIMCConfig(): the configuration is good only if there is no error.  *)
loadPIMCConfig(root) == loadSections(getMapping(root))
=============================================================================
