--------------------------- MODULE UpdateBuilders ---------------------------
(***************************************************************************)
(* The bookkeeping both packers of pimc share: the Join/Prune update under *)
(* construction, which counts the bytes its group entries take             *)
(* (UpdateBuilderImpl in Pack.hpp, InverseUpdateBuilderImpl in             *)
(* InversePack.hpp: the same code twice), and the queue of such updates    *)
(* with the cursor that walks it (UBCursor.hpp).                           *)
(*                                                                         *)
(* A group entry is abstracted to what the packers decide about it: the    *)
(* index of its group in the configuration, the interval first..last of    *)
(* SPT source indices it carries, whether it carries the RP, and how many  *)
(* (S,G,rpt) prunes come with the RP.  Deque indices start at 1 here.      *)
(***************************************************************************)
EXTENDS Integers, Sequences

CONSTANTS
  JPCapacity,   \* bytes a J/P update has for its group entries (1466)
  GrpHdrSize,   \* bytes of a group header                      (12)
  SrcASize,     \* bytes of an encoded source                   (8)
  SizeMod,      \* the modulus of size_t (2^64; any bound above JPCapacity)
  MaxPruneSGrptLen,  \* limit the configuration loader puts on the prunes (180)
  Configs            \* the configurations (JPConfig) that are packed

(* params<V>::MinEntrySize: a group header and one source.                 *)
MinEntrySize == GrpHdrSize + SrcASize

ASSUME SizesAssumption ==
  /\ JPCapacity \in Nat
  /\ GrpHdrSize \in Nat \ {0}
  /\ SrcASize \in Nat \ {0}
  /\ SizeMod \in Nat
  /\ MinEntrySize <= JPCapacity
  /\ JPCapacity < SizeMod

(* GroupConfig of JPConfig.hpp: how many SPT sources the group joins,      *)
(* whether it has an RP, and how many (S,G,rpt) prunes go with the RP.     *)
GroupConfig == [spt : Nat, rpt : BOOLEAN, prunes : 0 .. MaxPruneSGrptLen]

ASSUME ConfigsAssumption ==
  /\ MaxPruneSGrptLen \in Nat
  /\ Configs \subseteq Seq(GroupConfig)
-----------------------------------------------------------------------------
Entry == [group : Nat \ {0}, first : Nat, last : Nat, rp : BOOLEAN, prunes : Nat]

Builder == [size : Nat, entries : Seq(Entry)]

EmptyBuilder == [size |-> 0, entries |-> << >>]

(* The SPT sources an entry carries.                                       *)
SptSources(e) == e.first .. e.last

(* How many sources the entry holds in all, the RP and its prunes included.*)
SourceCount(e) == (e.last - e.first + 1) + (IF e.rp THEN 1 + e.prunes ELSE 0)

(* GroupEntryBuilderImpl::size().                                          *)
EntrySize(e) == GrpHdrSize + SrcASize * SourceCount(e)

(* Subtraction of two size_t values: it wraps below zero.                  *)
SizeSub(a, b) == IF b <= a THEN a - b ELSE SizeMod + a - b

Remaining(b) == SizeSub(JPCapacity, b.size)

(* A remainder this small has no room for another entry.                   *)
Full(b) == Remaining(b) < MinEntrySize

(* A maxSources() that forgets the group header it must leave room for.    *)
MaxSourcesNoHeader(rem) ==
  IF rem <= GrpHdrSize THEN 0 ELSE rem \div SrcASize

(* maxSources(): how many sources an entry of rem bytes can hold.          *)
MaxSources(rem) ==
  IF rem <= GrpHdrSize THEN 0 ELSE (rem - GrpHdrSize) \div SrcASize

Least(a, b) == IF a <= b THEN a ELSE b

(* chkSz() raises std::logic_error when the entry overflows the update.    *)
Overflows(b, e) == b.size + EntrySize(e) > JPCapacity

WithEntry(b, e) ==
  [size |-> b.size + EntrySize(e), entries |-> Append(b.entries, e)]

(* add() on the update at index i of the queue q.                          *)
Store(q, i, e) == [q EXCEPT ![i] = WithEntry(@, e)]
-----------------------------------------------------------------------------
(* A cursor whose test for the end of the queue is off by one.             *)
GrownLate(q, i) == IF i > Len(q) + 1 THEN Append(q, EmptyBuilder) ELSE q

(* A cursor that appends a fresh update before the end is reached.         *)
GrownEarly(q, i) == IF i >= Len(q) THEN Append(q, EmptyBuilder) ELSE q

(* operator++ of the cursor: the queue after a move to index i.            *)
Grown(q, i) == IF i > Len(q) THEN Append(q, EmptyBuilder) ELSE q

(* An updateStart() that moves on without asking whether updates are full. *)
NewStartsUnasked(q, s, i) == { i + 1 }

(* updateStart() with the cursor at i: starting from s, start moves over   *)
(* the full updates up to i and stays on the last of them; it does not     *)
(* move at all when update s still has room.  The set has one member.      *)
NewStarts(q, s, i) ==
  { t \in s .. i :
      IF Full(q[s])
      THEN /\ \A j \in s .. t : Full(q[j])
           /\ t < i => ~Full(q[t + 1])
      ELSE t = s }
-----------------------------------------------------------------------------
(***************************************************************************)
(* What the properties of both packers say of the queue                    *)
(***************************************************************************)
WithinCapacity(q) == \A k \in DOMAIN q : q[k].size <= JPCapacity

LastAloneEmpty(q) == \A k \in 1 .. Len(q) - 1 : q[k].entries # << >>

AscendingGroups(q) ==
  \A k \in DOMAIN q : \A m, n \in DOMAIN q[k].entries :
    m < n => q[k].entries[m].group < q[k].entries[n].group

FullBefore(q, k) == \A j \in 1 .. k - 1 : Full(q[j])

SpillsFromFull(q) ==
  \A k \in DOMAIN q :
    (\E m \in DOMAIN q[k].entries : SptSources(q[k].entries[m]) # {})
      => FullBefore(q, k)

(* Some entry of the packed updates u carries source s of group g.         *)
CarriesSource(u, g, s) ==
  \E k \in DOMAIN u : \E m \in DOMAIN u[k] :
    u[k][m].group = g /\ s \in SptSources(u[k][m])

(* Some entry of the packed updates u carries the RP of group g.           *)
CarriesRp(u, g) ==
  \E k \in DOMAIN u : \E m \in DOMAIN u[k] : u[k][m].group = g /\ u[k][m].rp

(* Two entries share neither a source of one group nor its RP.             *)
Apart(e1, e2) ==
  e1.group = e2.group =>
    SptSources(e1) \cap SptSources(e2) = {} /\ ~(e1.rp /\ e2.rp)

(* No source of a group, and no RP, is in two entries.                     *)
NothingTwice(u) ==
  \A k1, k2 \in DOMAIN u : \A m1 \in DOMAIN u[k1], m2 \in DOMAIN u[k2] :
    k1 # k2 \/ m1 # m2 => Apart(u[k1][m1], u[k2][m2])
=============================================================================
