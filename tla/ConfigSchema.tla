---------------------------- MODULE ConfigSchema ----------------------------
(***************************************************************************)
(* What a configuration file of pimc must look like and what it means,     *)
(* stated without the order in which the loaders read it: the yardstick    *)
(* for ConfigLoader.                                                       *)
(***************************************************************************)
EXTENDS ConfigLoader

Keys(node) == { node.items[i].key.text : i \in DOMAIN node.items }

(* A mapping of scalar fields, each once, among allowed and with needed.   *)
IsRecord(node, allowed, needed) ==
  /\ node.type = "Map"
  /\ \A i \in DOMAIN node.items : node.items[i].key.type = "Scalar"
  /\ \A i, j \in DOMAIN node.items : i # j => node.items[i].key # node.items[j].key
  /\ needed \subseteq Keys(node) /\ Keys(node) \subseteq allowed

(* The value of a field a record has.                                      *)
At(node, field) ==
  node.items[CHOOSE i \in DOMAIN node.items : node.items[i].key.text = field].value

IsAddress(node, class) ==
  /\ node.type = "Scalar"
  /\ node.text \in DOMAIN AddressOf
  /\ ClassOf[AddressOf[node.text]] = class

IsSourceList(node) ==
  node.type = "Sequence" /\ \A i \in DOMAIN node.items : IsAddress(node.items[i], "unicast")

Sources(node) == [i \in DOMAIN node.items |-> AddressOf[node.items[i].text]]

(* The RP, the prunes and the joins of a group that has the right shape.   *)
RPOf(node) ==
  IF "Join*" \in Keys(node) THEN << AddressOf[At(At(node, "Join*"), "RP").text] >> ELSE << >>
PrunesOf(node) ==
  IF "Join*" \in Keys(node) /\ "Prune" \in Keys(At(node, "Join*"))
  THEN Sources(At(At(node, "Join*"), "Prune")) ELSE << >>
JoinsOf(node) == IF "Join" \in Keys(node) THEN Sources(At(node, "Join")) ELSE << >>

IsRPT(node) ==
  /\ IsRecord(node, {"RP", "Prune"}, {"RP"})
  /\ IsAddress(At(node, "RP"), "unicast")
  /\ "Prune" \in Keys(node) => IsSourceList(At(node, "Prune"))

(* A group: an RPT, a list of joins or both, no address twice in any role, *)
(* and no more prunes than fit into one update.                            *)
IsGroup(node) ==
  /\ IsRecord(node, {"Join*", "Join"}, {})
  /\ Keys(node) # {}
  /\ "Join*" \in Keys(node) => IsRPT(At(node, "Join*"))
  /\ "Join" \in Keys(node) => IsSourceList(At(node, "Join"))
  /\ LET all == RPOf(node) \o PrunesOf(node) \o JoinsOf(node) IN
       \A i, j \in DOMAIN all : i # j => all[i] # all[j]
  /\ Len(PrunesOf(node)) <= MaxPruneSGrptLen

IsMulticast(node) ==
  /\ node.type = "Map"
  /\ node.items # << >>
  /\ \A i \in DOMAIN node.items :
       IsAddress(node.items[i].key, "mcast") /\ IsGroup(node.items[i].value)
  /\ \A i, j \in DOMAIN node.items : i # j =>
       AddressOf[node.items[i].key.text] # AddressOf[node.items[j].key.text]

IsPIM(node) ==
  /\ IsRecord(node, {"neighbor", "interface"}, {"neighbor", "interface"})
  /\ IsAddress(At(node, "neighbor"), "unicast")
  /\ At(node, "interface").type = "Scalar"
  /\ At(node, "interface").text \in DOMAIN IntfTable
  /\ IntfTable[At(node, "interface").text] # NoAddress

IsLogging(node) ==
  /\ IsRecord(node, {"level", "dir"}, {})
  /\ \A i \in DOMAIN node.items :
       /\ node.items[i].value.type = "Scalar"
       /\ node.items[i].value.text \in
            IF node.items[i].key.text = "level" THEN DOMAIN LevelOf ELSE Directories

IsConfig(root) ==
  /\ IsRecord(root, {"logging", "pim", "multicast"}, {"pim", "multicast"})
  /\ "logging" \in Keys(root) => IsLogging(At(root, "logging"))
  /\ IsPIM(At(root, "pim"))
  /\ IsMulticast(At(root, "multicast"))
-----------------------------------------------------------------------------
RangeOf(s) == { s[i] : i \in DOMAIN s }

(* A group may have nothing to join: an empty "Join" list is a list.       *)
IsEmptyGroup(node) == RPOf(node) \o JoinsOf(node) = << >>

GroupMeaning(pair) ==
  [group |-> AddressOf[pair.key.text],
   rp |-> IF RPOf(pair.value) = << >> THEN NoAddress ELSE RPOf(pair.value)[1],
   prunes |-> RangeOf(PrunesOf(pair.value)),
   joins |-> RangeOf(JoinsOf(pair.value))]

LoggingMeaning(root) ==
  LET Set(field) == "logging" \in Keys(root) /\ field \in Keys(At(root, "logging"))
      Text(field) == At(At(root, "logging"), field).text
  IN  [level |-> IF Set("level") THEN LevelOf[Text("level")] ELSE "Info",
       dir |-> IF Set("dir") THEN Text("dir") ELSE NoDir]

ConfigMeaning(root) ==
  LET pim == At(root, "pim")
      groups == At(root, "multicast").items
  IN  [logging |-> LoggingMeaning(root),
       pimsm |-> [neighbor |-> AddressOf[At(pim, "neighbor").text],
                  intfName |-> At(pim, "interface").text,
                  intfAddr |-> IntfTable[At(pim, "interface").text]],
       jp |-> [i \in DOMAIN groups |-> GroupMeaning(groups[i])]]
=============================================================================
