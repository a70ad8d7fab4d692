----------------------------- MODULE Structured -----------------------------
(***************************************************************************)
(* The structured view of a YAML document (lib/pimc/yaml/Structured): what *)
(* the loaders ask of a node, and the errors they get for an answer.       *)
(*                                                                         *)
(* A node has a type, the text of a scalar, and the elements of a sequence *)
(* or the key/value pairs of a mapping in the order of the file; yaml-cpp  *)
(* keeps a key that occurs twice.  An error is the text it is about and    *)
(* what is wrong with it; its line and the names of the nodes above it are *)
(* left out.                                                               *)
(***************************************************************************)
EXTENDS Integers, Sequences

Sets == INSTANCE FiniteSetsExt

Node(type, text, items) == [type |-> type, text |-> text, items |-> items]

Scalar(text) == Node("Scalar", text, << >>)
Sequence(items) == Node("Sequence", "", items)
Map(pairs) == Node("Map", "", pairs)
Null == Node("Null", "", << >>)

Pair(key, value) == [key |-> Scalar(key), value |-> value]

(* The nodes of documents as yaml-cpp makes them: with every node, what it *)
(* holds.                                                                  *)
IsYaml(nodes) ==
  \A n \in nodes :
    /\ n.type \in {"Scalar", "Sequence", "Map", "Null"}
    /\ n.type = "Scalar" => n = Scalar(n.text)
    /\ n.type = "Sequence" => n.items \in Seq(nodes)
    /\ n.type = "Map" => n.items \in Seq([key : nodes, value : nodes])

(* The Result of a query: a value or an ErrorContext.                      *)
Ok(v) == [ok |-> TRUE, value |-> v]
ErrorContext(about, what) == [about |-> about, what |-> what]
Fail(about, what) == [ok |-> FALSE, error |-> ErrorContext(about, what)]

(* r.flatMap(f): f of the value, or the error as it is.                    *)
flatMap(r, f(_)) == IF r.ok THEN f(r.value) ELSE r

(* BuilderBase::chk(): the error of r, if it has one, is consumed.         *)
chk(r) == IF r.ok THEN {} ELSE {r.error}
-----------------------------------------------------------------------------
getScalar(node) ==
  IF node.type = "Scalar" THEN Ok(node.text) ELSE Fail(node.type, "not a scalar")

getMapping(node) ==
  IF node.type = "Map" THEN Ok(node.items) ELSE Fail(node.type, "not a mapping")

getSequence(node) ==
  IF node.type = "Sequence" THEN Ok(node.items) ELSE Fail(node.type, "not a sequence")

(* node_[field] of yaml-cpp: of the pairs with that key the first is taken. *)
Under(pairs, field) == { i \in DOMAIN pairs : pairs[i].key = Scalar(field) }

First(pairs, field) == pairs[Sets!Min(Under(pairs, field))].value

(* MappingContext::required().                                             *)
required(pairs, field) ==
  IF Under(pairs, field) = {} THEN Fail(field, "required") ELSE Ok(First(pairs, field))

(* MappingContext::optional(), with f applied to the value if there is     *)
(* one, and default in its place if there is none.                         *)
optionalField(pairs, field, default, f(_)) ==
  IF Under(pairs, field) = {} THEN default ELSE f(First(pairs, field))

(* MappingContext::extraneous(): keys that are no scalars, fields nobody   *)
(* has asked for before, and fields that occur twice.                      *)
extraneous(pairs, knownFields) ==
  LET named == { i \in DOMAIN pairs : pairs[i].key.type = "Scalar" } IN
    { ErrorContext(pairs[i].key.type, "bad key") : i \in DOMAIN pairs \ named }
      \cup { ErrorContext(pairs[i].key.text, "unrecognized field") :
               i \in { j \in named : pairs[j].key.text \notin knownFields } }
      \cup { ErrorContext(pairs[i].key.text, "duplicate field") :
               i \in { j \in named : \E k \in named : k < j /\ pairs[k].key = pairs[j].key } }
=============================================================================
