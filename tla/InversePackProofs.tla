-------------------------- MODULE InversePackProofs --------------------------
(***************************************************************************)
(* Theorems about InversePack: its type invariant and its safety           *)
(* properties hold for all sizes and for every configuration.              *)
(*                                                                         *)
(* The inductive invariant IInv is built as the one of PackProofs.  What   *)
(* is new is the account of the RPs: the RP of a group that has been left  *)
(* is either pruned by an entry or was dropped (the continue of            *)
(* InversePack.hpp:132), and then its first SPT prune fills an update; in  *)
(* between, the update at the cursor has room for exactly that prune.      *)
(* So a group that lost its RP occurs in the updates all the same, and     *)
(* verifyInverseUpdates() can tell (InverseVerifyExact).                   *)
(***************************************************************************)
EXTENDS MCInversePack, UpdateBuildersLemmas

(* Is something of the group still to be placed?                           *)
Unfinished == pruneRP \/ srci < Group.spt

PositionInv ==
  pc = "fitGroup" =>
    /\ gi \in DOMAIN jpCfg
    /\ start <= i
    /\ srci <= Group.spt
    /\ pruneRP => Group.rpt /\ srci = 0

(* All prunes before the cursor's update are in full updates.              *)
FullInv ==
  /\ FullBefore(ubq, start)
  /\ pc = "fitGroup" /\ srci < Group.spt => FullBefore(ubq, i)

(* The groups of updates k0, k0+1, ... of the queue come before g.         *)
GroupsBelow(q, k0, g) == \A e \in EntriesFrom(q, k0) : e.group < g

GroupsInv ==
  /\ GroupsBelow(ubq, 1, gi + 1)
  /\ pc = "group" => GroupsBelow(ubq, 1, gi)
  /\ pc = "fitGroup" /\ Unfinished => GroupsBelow(ubq, i, gi)

(* An entry takes back something, and nothing its group is not configured  *)
(* with.                                                                   *)
SoundEntry(e) ==
  /\ CarriesSomething(e)
  /\ e.group \in DOMAIN jpCfg
  /\ SptSources(e) \subseteq 1 .. jpCfg[e.group].spt
  /\ e.rp => jpCfg[e.group].rpt

(* The first n SPT prunes of group g have been placed.                     *)
PrunesPlaced(q, g, n) ==
  \A s \in 1 .. n : \E e \in Entries(q) : e.group = g /\ s \in SptSources(e)

RPPlaced(q, g) == \E e \in Entries(q) : e.group = g /\ e.rp

(* The first SPT prune of group g stands alone at the end of update k,     *)
(* which it fills.                                                         *)
FilledByFirst(q, g, k) ==
  /\ q[k].entries # << >>
  /\ LET e == q[k].entries[Len(q[k].entries)] IN
       e.group = g /\ e.first = 1 /\ e.last = 1
  /\ Full(q[k])

RPAccounted(q, g) ==
  RPPlaced(q, g) \/ \E k \in DOMAIN q : FilledByFirst(q, g, k)

(* Between the continue that drops the RP and the next pass of the loop.   *)
RPDropped ==
  /\ srci = 0
  /\ srci < Group.spt
  /\ MaxSources(Remaining(ubq[i])) = 1

(* Of the group being fitted nothing has been placed that is still to come.*)
NotYet(e) == e.group = gi => e.last <= srci /\ (e.rp => ~pruneRP)

ContentInv ==
  /\ \A e \in Entries(ubq) : SoundEntry(e)
  /\ \A g \in DOMAIN jpCfg : g < gi =>
       /\ PrunesPlaced(ubq, g, jpCfg[g].spt)
       /\ jpCfg[g].rpt => RPAccounted(ubq, g)
  /\ pc = "fitGroup" =>
       /\ PrunesPlaced(ubq, gi, srci)
       /\ Group.rpt /\ ~pruneRP => RPAccounted(ubq, gi) \/ RPDropped
       /\ \A e \in Entries(ubq) : NotYet(e)

(* What inversePack() returns has no empty update and no empty entry,      *)
(* prunes every SPT join and loses an RP in one place only.                *)
ResultInv ==
  /\ \A k \in DOMAIN updates : updates[k] # << >>
  /\ \A k \in DOMAIN updates : \A m \in DOMAIN updates[k] :
       CarriesSomething(updates[k][m])
  /\ SptLossless
  /\ RPLostOnlyInOneSlot

IInv ==
  /\ TypeOK
  /\ pc # "raised"
  /\ QueueOK(ubq)
  /\ PositionInv
  /\ FullInv
  /\ GroupsInv
  /\ ContentInv
  /\ ResultInv
-----------------------------------------------------------------------------
(***************************************************************************)
(* The entry that is added next                                            *)
(***************************************************************************)

LEMMA GroupFacts ==
  ASSUME TypeOK, gi \in DOMAIN jpCfg
  PROVE  Group.spt \in Nat /\ Group.rpt \in BOOLEAN
<1>1. Group \in GroupConfig
  BY DEF TypeOK, Group
<1> QED
  BY <1>1 DEF GroupConfig

(* The RP counts as one source when it is still to be pruned.              *)
RPCount == IF pruneRP THEN 1 ELSE 0

(* The entry takes back the next n joins and, once, the RP.                *)
LEMMA NextEntryFacts ==
  ASSUME TypeOK, NEW n \in Nat
  PROVE  LET e == NextEntry(n) IN
             /\ e \in Entry
             /\ e.group = gi
             /\ e.first = srci + 1
             /\ e.last = srci + n
             /\ e.rp = pruneRP
             /\ SptSources(e) = srci + 1 .. srci + n
             /\ EntrySize(e) = GrpHdrSize + SrcASize * (n + RPCount)
<1> DEFINE e == NextEntry(n)
<1>1. srci \in Nat /\ gi \in Nat \ {0} /\ pruneRP \in BOOLEAN
  BY DEF TypeOK
<1>2. /\ e \in Entry
      /\ e.group = gi
      /\ e.first = srci + 1
      /\ e.last = srci + n
      /\ e.rp = pruneRP
      /\ e.prunes = 0
  BY <1>1 DEF NextEntry, Entry
<1> HIDE DEF e
<1>3. SourceCount(e) = n + RPCount
  BY <1>1, <1>2 DEF SourceCount, RPCount
<1> QED
  BY <1>2, <1>3 DEF EntrySize, SptSources, e

(* The room the cursor's update has is a number of bytes.                  *)
LEMMA RoomFacts ==
  ASSUME IInv, NEW k \in DOMAIN ubq
  PROVE  /\ Remaining(ubq[k]) \in Nat
         /\ Remaining(ubq[k]) = JPCapacity - ubq[k].size
         /\ ubq[k].size \in Nat
         /\ MaxSources(Remaining(ubq[k])) \in Nat
<1>1. ubq[k] \in Builder
  BY DEF IInv, TypeOK
<1>2. ubq[k].size <= JPCapacity
  BY DEF IInv, QueueOK, Sized
<1>3. /\ Remaining(ubq[k]) \in Nat
      /\ Remaining(ubq[k]) = JPCapacity - ubq[k].size
      /\ ubq[k].size \in Nat
  BY <1>1, <1>2, RemainingFacts DEF Builder
<1>4. CASE GrpHdrSize <= Remaining(ubq[k])
  BY <1>3, <1>4, MaxSourcesFits
<1>5. CASE ~(GrpHdrSize <= Remaining(ubq[k]))
  BY <1>3, <1>5, SizesAssumption DEF MaxSources
<1> QED
  BY <1>3, <1>4, <1>5

(* An entry of c sources fits where c are allowed, and fills the update    *)
(* when c is all that is allowed.                                          *)
LEMMA FitFacts ==
  ASSUME IInv, NEW k \in DOMAIN ubq,
         NEW c \in Nat \ {0}, c <= MaxSources(Remaining(ubq[k]))
  PROVE  LET size == GrpHdrSize + SrcASize * c
             rem == Remaining(ubq[k])
         IN  /\ size \in Nat /\ MinEntrySize <= size /\ size <= rem
             /\ c = MaxSources(rem) => rem - size < SrcASize
             /\ ~Full(ubq[k])
<1> DEFINE size == GrpHdrSize + SrcASize * c
           rem == Remaining(ubq[k])
<1>1. rem \in Nat /\ MaxSources(rem) \in Nat
  BY RoomFacts
<1>2. GrpHdrSize <= rem
  <2>1. ASSUME rem < GrpHdrSize PROVE FALSE
    <3>1. MaxSources(rem) = 0
      BY <1>1, <2>1, SizesAssumption DEF MaxSources
    <3> QED
      BY <3>1
  <2> QED
    BY <1>1, <2>1, SizesAssumption
<1>3. /\ size <= rem
      /\ c = MaxSources(rem) => rem - size < SrcASize
  BY <1>1, <1>2, MaxSourcesFits
<1>4. SrcASize * 1 <= SrcASize * c /\ SrcASize * c \in Nat /\ SrcASize * 1 = SrcASize
  BY TimesMonotonic, SizesAssumption
<1>5. size \in Nat /\ MinEntrySize <= size /\ MinEntrySize \in Nat
  BY <1>4, SizesAssumption DEF MinEntrySize
<1> HIDE DEF size
<1>6. ~(rem < MinEntrySize)
  BY <1>1, <1>3, <1>5
<1> QED
  BY <1>3, <1>5, <1>6 DEF Full, size
-----------------------------------------------------------------------------
(***************************************************************************)
(* What the operations on the queue keep                                   *)
(***************************************************************************)

(* add() at an update with room touches no update that is full, so what is *)
(* known of an RP stays known.                                             *)
LEMMA StoreKeepsRP ==
  ASSUME IInv, NEW k \in DOMAIN ubq, ~Full(ubq[k]),
         NEW e \in Entry, EntrySize(e) \in Nat,
         NEW g, RPAccounted(ubq, g)
  PROVE  RPAccounted(Store(ubq, k, e), g)
<1> DEFINE r == Store(ubq, k, e)
<1>1. ubq \in Seq(Builder)
  BY DEF IInv, TypeOK
<1>2. /\ DOMAIN r = DOMAIN ubq
      /\ \A j \in DOMAIN ubq : j # k => r[j] = ubq[j]
      /\ Entries(ubq) \subseteq Entries(r)
  BY <1>1, StoreFacts, StoreEntries
<1> HIDE DEF r
<1>3. CASE RPPlaced(ubq, g)
  BY <1>2, <1>3 DEF RPPlaced, RPAccounted, r
<1>4. CASE \E j \in DOMAIN ubq : FilledByFirst(ubq, g, j)
  <2>1. PICK j \in DOMAIN ubq : FilledByFirst(ubq, g, j)
    BY <1>4
  <2>2. j # k
    BY <2>1 DEF FilledByFirst
  <2>3. r[j] = ubq[j] /\ j \in DOMAIN r
    BY <1>2, <2>2
  <2>4. FilledByFirst(r, g, j)
    BY <2>1, <2>3 DEF FilledByFirst
  <2> QED
    BY <2>3, <2>4 DEF RPAccounted, r
<1> QED
  BY <1>3, <1>4 DEF RPAccounted

(* ++ of the cursor only adds an empty update.                             *)
LEMMA GrownKeepsRP ==
  ASSUME NEW q, QueueOK(q), NEW j \in 1 .. Len(q) + 1,
         j = Len(q) + 1 => q[Len(q)].entries # << >>,
         NEW g, RPAccounted(q, g)
  PROVE  RPAccounted(Grown(q, j), g)
<1> DEFINE r == Grown(q, j)
<1>1. q \in Seq(Builder)
  BY DEF QueueOK
<1>2. /\ DOMAIN q \subseteq DOMAIN r
      /\ \A k \in DOMAIN q : r[k] = q[k]
  <2>1. /\ Len(q) \in Nat /\ Len(r) \in Nat /\ Len(q) <= Len(r)
        /\ DOMAIN q = 1 .. Len(q) /\ DOMAIN r = 1 .. Len(r)
        /\ \A k \in DOMAIN q : r[k] = q[k]
    BY <1>1, GrownFacts
  <2> HIDE DEF r
  <2> QED
    BY <2>1
<1>3. Entries(r) = Entries(q)
  BY GrownKeepsOrder DEF Entries
<1> HIDE DEF r
<1>4. CASE RPPlaced(q, g)
  BY <1>3, <1>4 DEF RPPlaced, RPAccounted, r
<1>5. CASE \E k \in DOMAIN q : FilledByFirst(q, g, k)
  <2>1. PICK k \in DOMAIN q : FilledByFirst(q, g, k)
    BY <1>5
  <2>2. FilledByFirst(r, g, k) /\ k \in DOMAIN r
    BY <1>2, <2>1 DEF FilledByFirst
  <2> QED
    BY <2>2 DEF RPAccounted, r
<1> QED
  BY <1>4, <1>5 DEF RPAccounted
-----------------------------------------------------------------------------
(***************************************************************************)
(* The steps, one lemma for each                                           *)
(***************************************************************************)

(* Both ways fitGroup() adds an entry (InversePack.hpp:122-152): n SPT     *)
(* prunes and the RP if it is still to be pruned, n + RPCount sources in   *)
(* all.  They fit, and when prunes remain they are all that fit.           *)
LEMMA AddStep ==
  ASSUME IInv, pc = "fitGroup",
         NEW n \in Nat, n <= Group.spt - srci,
         NEW move \in BOOLEAN, move \/ srci + n = Group.spt,
         n + RPCount # 0,
         n + RPCount <= MaxSources(Remaining(ubq[i])),
         n < Group.spt - srci => n + RPCount = MaxSources(Remaining(ubq[i])),
         AddEntry(n, move),
         pruneRP' = FALSE,
         UNCHANGED <<jpCfg, gi, updates>>
  PROVE  IInv'
<1> DEFINE e == NextEntry(n)
           q == Store(ubq, i, e)
           j == IF move THEN i + 1 ELSE i
<1>1. /\ gi \in DOMAIN jpCfg /\ start <= i /\ srci <= Group.spt
      /\ pruneRP => Group.rpt /\ srci = 0
  BY DEF IInv, PositionInv
<1>2. Group.spt \in Nat /\ Group.rpt \in BOOLEAN
  BY <1>1, GroupFacts DEF IInv
<1>3. /\ ubq \in Seq(Builder) /\ i \in DOMAIN ubq /\ ubq[i] \in Builder
      /\ srci \in Nat /\ gi \in Nat /\ start \in Nat \ {0} /\ i \in Nat \ {0}
      /\ pruneRP \in BOOLEAN /\ i <= Len(ubq) /\ Len(ubq) \in Nat
  BY DEF IInv, TypeOK
<1>4. /\ e \in Entry
      /\ e.group = gi
      /\ e.first = srci + 1
      /\ e.last = srci + n
      /\ e.rp = pruneRP
      /\ SptSources(e) = srci + 1 .. srci + n
      /\ EntrySize(e) = GrpHdrSize + SrcASize * (n + RPCount)
  BY NextEntryFacts DEF IInv
<1> HIDE DEF e
<1>5. n + RPCount \in Nat \ {0}
  BY <1>3 DEF RPCount
<1>6. /\ EntrySize(e) \in Nat /\ MinEntrySize <= EntrySize(e)
      /\ EntrySize(e) <= Remaining(ubq[i])
      /\ n + RPCount = MaxSources(Remaining(ubq[i])) =>
           Remaining(ubq[i]) - EntrySize(e) < SrcASize
      /\ ~Full(ubq[i])
  BY <1>3, <1>4, <1>5, FitFacts
<1>7. EntrySize(e) > 0
  BY <1>6, SizesAssumption DEF MinEntrySize
<1>8. /\ ubq[i].size \in Nat /\ Remaining(ubq[i]) = JPCapacity - ubq[i].size
  BY <1>3, RoomFacts
<1>9. ~Overflows(ubq[i], e)
  BY <1>6, <1>8, SizesAssumption DEF Overflows
<1>10. /\ q \in Seq(Builder)
       /\ Len(q) = Len(ubq) /\ DOMAIN q = DOMAIN ubq
       /\ \A k \in DOMAIN ubq : k # i => q[k] = ubq[k]
       /\ q[i].size = ubq[i].size + EntrySize(e)
       /\ q[i].entries = Append(ubq[i].entries, e)
  BY <1>3, <1>4, <1>6, StoreFacts
<1>11. /\ ubq' = Grown(q, j)
       /\ start' \in NewStarts(q, start, i)
       /\ i' = j
       /\ srci' = srci + n
       /\ pc' = "fitGroup"
  <2>1. /\ ubq' = IF move THEN Grown(q, i + 1) ELSE q
        /\ start' \in NewStarts(q, start, i)
        /\ i' = IF move THEN i + 1 ELSE i
        /\ srci' = srci + n
        /\ pc' = "fitGroup"
    BY <1>9 DEF AddEntry, e
  <2>2. Grown(q, i) = q
    <3>1. i \in Nat /\ Len(q) \in Nat /\ i <= Len(q)
      BY <1>3, <1>10
    <3> HIDE DEF q
    <3> QED
      BY <3>1 DEF Grown
  <2> QED
    BY <2>1, <2>2
<1>12. n # 0 => FullBefore(ubq, i)
  BY <1>2, <1>3 DEF IInv, FullInv
<1>13. Unfinished
  BY <1>2, <1>3 DEF Unfinished, RPCount
<1>14. \A f \in Entries(ubq) : Apart(e, f)
  <2>1. SUFFICES ASSUME NEW f \in Entries(ubq), f.group = gi
                 PROVE  SptSources(e) \cap SptSources(f) = {} /\ ~(e.rp /\ f.rp)
    BY <1>4 DEF Apart
  <2>2. f.last <= srci /\ (f.rp => ~pruneRP)
    BY <2>1 DEF IInv, ContentInv, NotYet
  <2>3. f \in Entry
    BY <1>3, EntriesFacts DEF Entries
  <2>4. f.first \in Nat /\ f.last \in Nat
    BY <2>3 DEF Entry
  <2>5. SptSources(e) \cap SptSources(f) = {}
    <3>1. f.last <= srci /\ SptSources(f) = f.first .. f.last
      BY <2>2 DEF SptSources
    <3>2. SptSources(e) = srci + 1 .. srci + n
      BY <1>4
    <3> QED
      BY <1>3, <2>4, <3>1, <3>2
  <2> QED
    BY <1>4, <2>2, <2>5
<1>15. \A m \in DOMAIN ubq[i].entries : ubq[i].entries[m].group < e.group
  <2>1. GroupsBelow(ubq, i, gi)
    BY <1>13 DEF IInv, GroupsInv
  <2>2. \A m \in DOMAIN ubq[i].entries : ubq[i].entries[m] \in EntriesFrom(ubq, i)
    BY <1>3 DEF EntriesFrom
  <2> QED
    BY <1>4, <2>1, <2>2 DEF GroupsBelow
<1>16. QueueOK(q)
  <2>1. SptSources(e) # {} => FullBefore(ubq, i)
    BY <1>3, <1>4, <1>12
  <2> QED
    BY <1>3, <1>4, <1>6, <1>7, <1>9, <1>14, <1>15, <2>1, StoreKeepsOrder DEF IInv
<1>17. j \in 1 .. Len(q) + 1 /\ i <= j
  BY <1>3, <1>10
<1>18. j = Len(q) + 1 => q[Len(q)].entries # << >>
  <2>1. ubq[i].entries \in Seq(Entry)
    BY <1>3 DEF Builder
  <2>2. Append(ubq[i].entries, e) # << >>
    BY <1>4, <2>1, AppendFacts
  <2> QED
    BY <1>3, <1>10, <2>2
<1>19. /\ QueueOK(ubq')
       /\ \A k0 \in Nat : EntriesFrom(ubq', k0) = EntriesFrom(q, k0)
       /\ \A k \in 1 .. Len(q) + 1 : FullBefore(q, k) => FullBefore(ubq', k)
  BY <1>11, <1>16, <1>17, <1>18, GrownKeepsOrder
<1>20. /\ ubq' \in Seq(Builder)
       /\ Len(q) \in Nat /\ Len(ubq') \in Nat /\ Len(q) <= Len(ubq')
       /\ DOMAIN q = 1 .. Len(q) /\ DOMAIN ubq' = 1 .. Len(ubq')
       /\ j \in DOMAIN ubq'
       /\ \A k \in DOMAIN q : ubq'[k] = q[k]
  BY <1>10, <1>11, <1>17, GrownFacts
<1>21. \A k \in DOMAIN ubq : FullBefore(ubq, k) => FullBefore(q, k)
  <2>1. SUFFICES ASSUME NEW k \in DOMAIN ubq, FullBefore(ubq, k),
                        NEW m \in 1 .. k - 1
                 PROVE  Full(q[m])
    BY DEF FullBefore
  <2>2. m \in DOMAIN ubq /\ Full(ubq[m])
    BY <1>3, <2>1 DEF FullBefore
  <2> QED
    BY <1>3, <1>4, <1>6, <1>9, <2>2, StoreKeepsFull DEF IInv, QueueOK
<1>22. start' \in 1 .. i /\ FullBefore(q, start')
  <2>1. start \in 1 .. i
    BY <1>1, <1>3
  <2>2. FullBefore(q, start)
    BY <1>1, <1>3, <1>21 DEF IInv, FullInv
  <2> QED
    BY <1>3, <1>10, <1>11, <2>1, <2>2, NewStartsFacts
<1>23. n + RPCount = MaxSources(Remaining(ubq[i])) => Full(q[i])
  <2>1. SUFFICES ASSUME Remaining(ubq[i]) - EntrySize(e) < SrcASize
                 PROVE  Full(q[i])
    BY <1>6
  <2>2. q[i] \in Builder
    BY <1>3, <1>10
  <2>3. q[i].size <= JPCapacity
    BY <1>3, <1>10, <1>16 DEF QueueOK, Sized
  <2>4. Remaining(q[i]) = JPCapacity - q[i].size
    BY <2>2, <2>3, RemainingFacts
  <2> QED
    BY <1>6, <1>8, <1>10, <2>1, <2>4, SizesAssumption DEF Full, MinEntrySize
<1>24. \A g : RPAccounted(ubq, g) => RPAccounted(ubq', g)
  <2>1. SUFFICES ASSUME NEW g, RPAccounted(ubq, g)
                 PROVE  RPAccounted(ubq', g)
    OBVIOUS
  <2>2. RPAccounted(q, g)
    BY <1>3, <1>4, <1>6, <2>1, StoreKeepsRP
  <2> QED
    BY <1>11, <1>16, <1>17, <1>18, <2>2, GrownKeepsRP
<1>25. /\ \A k0 \in Nat : \A f \in EntriesFrom(ubq', k0) :
            f \in EntriesFrom(ubq, k0) \/ (f = e /\ k0 <= i)
       /\ Entries(ubq) \subseteq Entries(ubq')
       /\ e \in Entries(ubq')
  BY <1>3, <1>4, <1>6, <1>19, StoreEntries DEF Entries, q
<1> HIDE DEF q
<1>26. TypeOK'
  <2>1. start' \in 1 .. Len(ubq')
    BY <1>3, <1>10, <1>20, <1>22
  <2>2. i' \in 1 .. Len(ubq')
    BY <1>11, <1>20
  <2>3. srci' \in Nat /\ pc' = "fitGroup"
    BY <1>3, <1>11
  <2>4. pruneRP' \in BOOLEAN
    OBVIOUS
  <2> HIDE DEF j
  <2> QED
    BY <1>20, <2>1, <2>2, <2>3, <2>4 DEF IInv, TypeOK
<1>27. Group' = Group
  BY DEF Group
<1>28. PositionInv'
  BY <1>1, <1>2, <1>3, <1>11, <1>17, <1>22, <1>27 DEF PositionInv
<1>29. FullInv'
  <2>1. FullBefore(ubq', start')
    BY <1>3, <1>10, <1>19, <1>22
  <2>2. ASSUME srci' < Group'.spt
        PROVE  FullBefore(ubq', i')
    <3>1. n < Group.spt - srci /\ move
      BY <1>2, <1>3, <1>11, <1>27, <2>2
    <3>2. Full(q[i])
      BY <1>23, <3>1
    <3>3. FullBefore(q, i)
      <4>1. FullBefore(ubq, i)
        BY <1>2, <1>3, <3>1 DEF IInv, FullInv
      <4> QED
        BY <1>3, <1>21, <4>1
    <3>4. FullBefore(q, i + 1)
      BY <1>3, <3>2, <3>3 DEF FullBefore
    <3> QED
      BY <1>11, <1>17, <1>19, <3>1, <3>4
  <2> QED
    BY <2>1, <2>2 DEF FullInv
<1>30. GroupsInv'
  <2>1. \A f \in EntriesFrom(ubq, 1) : f.group < gi + 1
    BY DEF IInv, GroupsInv, GroupsBelow
  <2>2. GroupsBelow(ubq', 1, gi' + 1)
    BY <1>3, <1>4, <1>25, <2>1 DEF GroupsBelow
  <2>3. \A f \in EntriesFrom(ubq, i + 1) : f.group < gi
    <3>1. \A f \in EntriesFrom(ubq, i) : f.group < gi
      BY <1>13 DEF IInv, GroupsInv, GroupsBelow
    <3> QED
      BY <1>3, <3>1, EntriesFacts
  <2>4. ASSUME Unfinished' PROVE GroupsBelow(ubq', i', gi')
    <3>1. i' = i + 1
      BY <1>2, <1>3, <1>11, <1>27, <2>4 DEF Unfinished
    <3> QED
      BY <1>3, <1>25, <2>3, <3>1 DEF GroupsBelow
  <2> QED
    BY <1>11, <2>2, <2>4 DEF GroupsInv
<1>31. ContentInv'
  <2>1. \A f \in Entries(ubq') : f \in Entries(ubq) \/ f = e
    BY <1>25 DEF Entries
  <2>2. SoundEntry(e)
    <3>1. e.rp \/ SptSources(e) # {}
      <4>1. n # 0 => srci + 1 \in srci + 1 .. srci + n
        BY <1>3
      <4>2. n = 0 => pruneRP
        BY <1>5 DEF RPCount
      <4> QED
        BY <1>4, <4>1, <4>2
    <3> QED
      BY <1>1, <1>2, <1>3, <1>4, <3>1 DEF SoundEntry, CarriesSomething, Group
  <2>3. (\A f \in Entries(ubq) : SoundEntry(f))'
    <3>1. \A f \in Entries(ubq) : SoundEntry(f)
      BY DEF IInv, ContentInv
    <3> QED
      BY <2>1, <2>2, <3>1 DEF SoundEntry
  <2>4. \A g, m : PrunesPlaced(ubq, g, m) => PrunesPlaced(ubq', g, m)
    BY <1>25 DEF PrunesPlaced
  <2>5. \A g \in DOMAIN jpCfg : g < gi =>
          /\ PrunesPlaced(ubq', g, jpCfg[g].spt)
          /\ jpCfg[g].rpt => RPAccounted(ubq', g)
    BY <1>24, <2>4 DEF IInv, ContentInv
  <2>6. PrunesPlaced(ubq', gi, srci + n)
    <3>1. SUFFICES ASSUME NEW s \in 1 .. srci + n
                   PROVE  \E f \in Entries(ubq') :
                            f.group = gi /\ s \in SptSources(f)
      BY DEF PrunesPlaced
    <3>2. CASE s \in 1 .. srci
      BY <1>25, <3>2 DEF IInv, ContentInv, PrunesPlaced
    <3>3. CASE s \notin 1 .. srci
      BY <1>3, <1>4, <1>25, <3>3
    <3> QED
      BY <3>2, <3>3
  <2>7. Group.rpt => RPAccounted(ubq', gi)
    <3>1. CASE pruneRP
      BY <1>4, <1>25, <3>1 DEF RPPlaced, RPAccounted
    <3>2. CASE Group.rpt /\ ~pruneRP /\ RPAccounted(ubq, gi)
      BY <1>24, <3>2
    <3>3. CASE ~pruneRP /\ RPDropped
      <4>1. n = 1 /\ srci = 0 /\ n + RPCount = MaxSources(Remaining(ubq[i]))
        BY <1>5, <3>3 DEF RPDropped, RPCount
      <4>2. e.group = gi /\ e.first = 1 /\ e.last = 1
        BY <1>4, <4>1
      <4>3. ubq'[i] = q[i] /\ i \in DOMAIN ubq'
        BY <1>3, <1>10, <1>20
      <4>4. ubq[i].entries \in Seq(Entry)
        BY <1>3 DEF Builder
      <4>5. /\ Append(ubq[i].entries, e) # << >>
            /\ Append(ubq[i].entries, e)[Len(Append(ubq[i].entries, e))] = e
        BY <1>4, <4>4
      <4>6. FilledByFirst(ubq', gi, i)
        BY <1>10, <1>23, <4>1, <4>2, <4>3, <4>5 DEF FilledByFirst
      <4> QED
        BY <4>3, <4>6 DEF RPAccounted
    <3> QED
      BY <1>3, <3>1, <3>2, <3>3 DEF IInv, ContentInv
  <2>8. (\A f \in Entries(ubq) : NotYet(f))'
    <3>1. SUFFICES ASSUME NEW f \in Entries(ubq'), f.group = gi
                   PROVE  f.last <= srci'
      BY DEF NotYet
    <3>2. CASE f \in Entries(ubq)
      <4>1. f.last <= srci
        BY <3>1, <3>2 DEF IInv, ContentInv, NotYet
      <4>2. f \in Entry
        BY <1>3, <3>2, EntriesFacts DEF Entries
      <4>3. f.last \in Nat
        BY <4>2 DEF Entry
      <4> QED
        BY <1>3, <1>11, <4>1, <4>3
    <3>3. CASE f = e
      BY <1>3, <1>4, <1>11, <3>3
    <3> QED
      BY <2>1, <3>2, <3>3
  <2> QED
    BY <1>11, <1>27, <2>3, <2>5, <2>6, <2>7, <2>8 DEF ContentInv
<1>32. ResultInv'
  BY <1>11 DEF IInv, ResultInv, SptLossless, RPLostOnlyInOneSlot
<1> QED
  BY <1>11, <1>19, <1>26, <1>28, <1>29, <1>30, <1>31, <1>32 DEF IInv

(* ++c at an update without room (InversePack.hpp:140 and 148): the update *)
(* is full, so it is not empty.                                            *)
LEMMA MoveStep ==
  ASSUME IInv, pc = "fitGroup", Unfinished,
         MaxSources(Remaining(ubq[i])) = 0,
         i' = i + 1,
         ubq' = Grown(ubq, i + 1),
         UNCHANGED <<jpCfg, start, gi, srci, pruneRP, pc, updates>>
  PROVE  IInv'
<1>1. /\ ubq \in Seq(Builder) /\ i \in DOMAIN ubq /\ ubq[i] \in Builder
      /\ i \in Nat \ {0} /\ start \in 1 .. Len(ubq)
      /\ i \in 1 .. Len(ubq) /\ gi \in Nat /\ srci \in Nat
  BY DEF IInv, TypeOK
<1>2. Full(ubq[i])
  BY <1>1, RoomFacts, NoRoomIsFull DEF Full
<1>3. ubq[i].entries # << >>
  <2>1. ubq[i].entries = << >> => ubq[i].size = 0
    BY <1>1 DEF IInv, QueueOK, Sized
  <2>2. Remaining(ubq[i]) = JPCapacity - ubq[i].size
    BY <1>1, RoomFacts
  <2>3. Remaining(ubq[i]) < MinEntrySize
    BY <1>2 DEF Full
  <2> QED
    BY <2>1, <2>2, <2>3, SizesAssumption DEF MinEntrySize
<1>4. i + 1 \in 1 .. Len(ubq) + 1
  BY <1>1
<1>5. i + 1 = Len(ubq) + 1 => ubq[Len(ubq)].entries # << >>
  BY <1>1, <1>3
<1>6. /\ QueueOK(ubq')
      /\ \A k0 \in Nat : EntriesFrom(ubq', k0) = EntriesFrom(ubq, k0)
      /\ \A k \in 1 .. Len(ubq) + 1 : FullBefore(ubq, k) => FullBefore(ubq', k)
  BY <1>4, <1>5, GrownKeepsOrder DEF IInv
<1>7. \A g : RPAccounted(ubq, g) => RPAccounted(ubq', g)
  BY <1>4, <1>5, GrownKeepsRP DEF IInv
<1>8. /\ ubq' \in Seq(Builder)
      /\ Len(ubq) \in Nat /\ Len(ubq') \in Nat /\ Len(ubq) <= Len(ubq')
      /\ DOMAIN ubq = 1 .. Len(ubq) /\ DOMAIN ubq' = 1 .. Len(ubq')
      /\ i + 1 \in DOMAIN ubq'
  BY <1>1, <1>4, GrownFacts
<1>9. TypeOK'
  BY <1>1, <1>8 DEF IInv, TypeOK
<1>10. Group' = Group
  BY DEF Group
<1>11. PositionInv'
  BY <1>1, <1>10 DEF IInv, PositionInv
<1>12. FullInv'
  <2>1. FullBefore(ubq', start')
    BY <1>1, <1>6 DEF IInv, FullInv
  <2>2. ASSUME srci' < Group'.spt
        PROVE  FullBefore(ubq', i')
    <3>1. FullBefore(ubq, i)
      BY <1>10, <2>2 DEF IInv, FullInv
    <3>2. FullBefore(ubq, i + 1)
      BY <1>1, <1>2, <3>1 DEF FullBefore
    <3> QED
      BY <1>4, <1>6, <3>2
  <2> QED
    BY <2>1, <2>2 DEF FullInv
<1>13. GroupsInv'
  <2>1. GroupsBelow(ubq, 1, gi + 1) /\ GroupsBelow(ubq, i, gi)
    BY DEF IInv, GroupsInv
  <2>2. EntriesFrom(ubq, i + 1) \subseteq EntriesFrom(ubq, i)
    BY <1>1, EntriesFacts
  <2>3. GroupsBelow(ubq', 1, gi + 1) /\ GroupsBelow(ubq', i + 1, gi)
    BY <1>1, <1>6, <2>1, <2>2 DEF GroupsBelow
  <2> QED
    BY <2>3 DEF GroupsInv
<1>14. ContentInv'
  <2>1. Entries(ubq') = Entries(ubq)
    BY <1>6 DEF Entries
  <2>2. ~RPDropped
    BY DEF RPDropped
  <2>3. Group.rpt /\ ~pruneRP => RPAccounted(ubq', gi)
    BY <1>7, <2>2 DEF IInv, ContentInv
  <2>4. \A g \in DOMAIN jpCfg : g < gi /\ jpCfg[g].rpt => RPAccounted(ubq', g)
    BY <1>7 DEF IInv, ContentInv
  <2> QED
    BY <1>10, <2>1, <2>3, <2>4
       DEF IInv, ContentInv, SoundEntry, PrunesPlaced, NotYet
<1>15. ResultInv'
  BY DEF IInv, ResultInv, SptLossless, RPLostOnlyInOneSlot
<1> QED
  BY <1>6, <1>9, <1>11, <1>12, <1>13, <1>14, <1>15 DEF IInv

LEMMA StepStartGroup == ASSUME IInv, StartGroup PROVE IInv'
<1> USE DEF StartGroup
<1>1. /\ gi \in DOMAIN jpCfg /\ start \in 1 .. Len(ubq) /\ gi \in Nat
      /\ Len(ubq) \in Nat /\ ubq \in Seq(Builder) /\ jpCfg \in Seq(GroupConfig)
  BY DEF IInv, TypeOK
<1>2. Group.spt \in Nat /\ Group.rpt \in BOOLEAN
  BY <1>1, GroupFacts DEF IInv
<1>3. TypeOK'
  BY <1>1, <1>2 DEF IInv, TypeOK
<1>4. Group' = Group
  BY DEF Group
<1>5. PositionInv'
  BY <1>1, <1>2, <1>4 DEF PositionInv
<1>6. FullInv'
  BY DEF IInv, FullInv
<1>7. GroupsInv'
  <2>1. GroupsBelow(ubq, 1, gi) /\ GroupsBelow(ubq, 1, gi + 1)
    BY DEF IInv, GroupsInv
  <2>2. EntriesFrom(ubq, start) \subseteq EntriesFrom(ubq, 1)
    BY <1>1, EntriesFacts
  <2>3. GroupsBelow(ubq, start, gi)
    BY <2>1, <2>2 DEF GroupsBelow
  <2> QED
    BY <2>1, <2>3 DEF GroupsInv
<1>8. ContentInv'
  <2>1. \A e \in Entries(ubq) : e.group # gi
    <3>1. \A e \in Entries(ubq) : e.group < gi
      BY DEF IInv, GroupsInv, GroupsBelow, Entries
    <3> QED
      BY <1>1, <3>1
  <2>2. PrunesPlaced(ubq, gi, 0)
    BY DEF PrunesPlaced
  <2>3. (Group.rpt /\ ~pruneRP)' => FALSE
    BY <1>4
  <2> QED
    BY <1>4, <2>1, <2>2, <2>3
       DEF IInv, ContentInv, SoundEntry, PrunesPlaced, RPPlaced, RPAccounted,
           FilledByFirst, NotYet
<1>9. ResultInv'
  BY DEF IInv, ResultInv, SptLossless, RPLostOnlyInOneSlot
<1> QED
  BY <1>3, <1>5, <1>6, <1>7, <1>8, <1>9 DEF IInv

(* What the loop knows of the update at the cursor.                        *)
LEMMA CursorFacts ==
  ASSUME IInv, pc = "fitGroup"
  PROVE  /\ i \in DOMAIN ubq /\ gi \in DOMAIN jpCfg
         /\ srci \in Nat /\ Group.spt \in Nat /\ srci <= Group.spt
         /\ RPCount \in {0, 1}
         /\ MaxSources(Remaining(ubq[i])) \in Nat
         /\ Fitting = Least(MaxSources(Remaining(ubq[i])),
                            RPCount + (Group.spt - srci))
         /\ SptCount = Fitting - RPCount
<1>1. /\ i \in DOMAIN ubq /\ gi \in DOMAIN jpCfg
      /\ srci \in Nat /\ srci <= Group.spt /\ pruneRP \in BOOLEAN
  BY DEF IInv, PositionInv, TypeOK
<1>2. Group.spt \in Nat /\ MaxSources(Remaining(ubq[i])) \in Nat
  BY <1>1, GroupFacts, RoomFacts DEF IInv
<1>3. RPCount \in {0, 1}
  BY DEF RPCount
<1>4. RPCount + Group.spt - srci = RPCount + (Group.spt - srci)
  BY <1>1, <1>2, <1>3
<1> QED
  BY <1>1, <1>2, <1>3, <1>4 DEF Fitting, SptCount, RPCount

LEMMA StepPassUpdate == ASSUME IInv, PassUpdate PROVE IInv'
<1>1. MaxSources(Remaining(ubq[i])) = 0
  BY CursorFacts DEF PassUpdate, Least
<1> QED
  BY <1>1, MoveStep DEF PassUpdate, Unfinished

LEMMA StepDropRP == ASSUME IInv, DropRP PROVE IInv'
<1> USE DEF DropRP
<1>1. /\ pruneRP /\ srci = 0 /\ MaxSources(Remaining(ubq[i])) = 1
  <2>1. RPCount = 1 /\ MaxSources(Remaining(ubq[i])) = 1
    BY CursorFacts DEF Least
  <2>2. pruneRP
    BY <2>1 DEF RPCount
  <2> QED
    BY <2>1, <2>2 DEF IInv, PositionInv
<1>2. Group' = Group
  BY DEF Group
<1>3. pruneRP' \in BOOLEAN
  OBVIOUS
<1>4. TypeOK'
  BY <1>3 DEF IInv, TypeOK
<1>5. PositionInv' /\ FullInv' /\ ResultInv'
  BY <1>2 DEF IInv, PositionInv, FullInv, ResultInv, SptLossless,
              RPLostOnlyInOneSlot
<1>6. GroupsInv'
  BY <1>1 DEF IInv, GroupsInv, Unfinished
<1>7. ContentInv'
  <2>1. RPDropped'
    BY <1>1, <1>2 DEF RPDropped
  <2> QED
    BY <1>2, <2>1
       DEF IInv, ContentInv, SoundEntry, PrunesPlaced, RPPlaced, RPAccounted,
           FilledByFirst, NotYet
<1> QED
  BY <1>4, <1>5, <1>6, <1>7 DEF IInv

LEMMA StepFitPrunes == ASSUME IInv, FitPrunes PROVE IInv'
<1> DEFINE n == SptCount
<1>1. /\ n \in Nat /\ n # 0 /\ n <= Group.spt - srci
      /\ n + RPCount # 0
      /\ n + RPCount <= MaxSources(Remaining(ubq[i]))
      /\ n < Group.spt - srci => n + RPCount = MaxSources(Remaining(ubq[i]))
  BY CursorFacts DEF FitPrunes, Least
<1>2. /\ pc = "fitGroup" /\ AddEntry(n, TRUE) /\ pruneRP' = FALSE
      /\ UNCHANGED <<jpCfg, gi, updates>>
  BY DEF FitPrunes
<1> HIDE DEF n
<1> QED
  BY <1>1, <1>2, AddStep

LEMMA StepSeekRoomForRP == ASSUME IInv, SeekRoomForRP PROVE IInv'
BY MoveStep DEF SeekRoomForRP, Unfinished

LEMMA StepFitRPOnly == ASSUME IInv, FitRPOnly PROVE IInv'
<1>1. RPCount = 1 /\ srci + 0 = Group.spt /\ 0 <= Group.spt - srci
      /\ 0 + RPCount <= MaxSources(Remaining(ubq[i]))
  BY CursorFacts DEF FitRPOnly, RPCount
<1>2. ~(0 < Group.spt - srci) /\ 0 + RPCount # 0
  BY <1>1, CursorFacts DEF FitRPOnly
<1>3. /\ pc = "fitGroup" /\ AddEntry(0, FALSE) /\ pruneRP' = FALSE
      /\ UNCHANGED <<jpCfg, gi, updates>>
  BY DEF FitRPOnly
<1> QED
  BY <1>1, <1>2, <1>3, AddStep

LEMMA StepEndGroup == ASSUME IInv, EndGroup PROVE IInv'
<1> USE DEF EndGroup
<1>1. /\ gi \in DOMAIN jpCfg /\ gi \in Nat /\ DOMAIN jpCfg \subseteq Nat
      /\ jpCfg \in Seq(GroupConfig) /\ ubq \in Seq(Builder)
      /\ srci \in Nat /\ Group.spt <= srci /\ srci <= Group.spt
  BY DEF IInv, PositionInv, TypeOK
<1>2. Group.spt \in Nat
  BY <1>1, GroupFacts DEF IInv
<1>3. TypeOK'
  BY <1>1 DEF IInv, TypeOK
<1>4. PositionInv'
  BY DEF PositionInv
<1>5. FullInv'
  BY DEF IInv, FullInv
<1>6. GroupsInv'
  <2>1. \A f \in EntriesFrom(ubq, 1) : f.group < gi + 1
    BY DEF IInv, GroupsInv, GroupsBelow
  <2>2. \A f \in EntriesFrom(ubq, 1) : f.group \in Nat
    <3>1. \A f \in EntriesFrom(ubq, 1) : f \in Entry
      BY <1>1, EntriesFacts
    <3> QED
      BY <3>1 DEF Entry
  <2>3. \A f \in EntriesFrom(ubq, 1) : f.group < gi + 1 + 1
    BY <1>1, <2>1, <2>2
  <2> QED
    BY <2>1, <2>3 DEF GroupsInv, GroupsBelow
<1>7. ContentInv'
  <2>1. srci = jpCfg[gi].spt /\ ~(srci < Group.spt)
    BY <1>1, <1>2 DEF Group
  <2>2. /\ PrunesPlaced(ubq, gi, jpCfg[gi].spt)
        /\ jpCfg[gi].rpt => RPAccounted(ubq, gi)
    BY <2>1 DEF IInv, ContentInv, Group, RPDropped
  <2>3. \A g \in DOMAIN jpCfg : g < gi + 1 => g = gi \/ g < gi
    BY <1>1
  <2>4. \A g \in DOMAIN jpCfg : g < gi + 1 =>
          /\ PrunesPlaced(ubq, g, jpCfg[g].spt)
          /\ jpCfg[g].rpt => RPAccounted(ubq, g)
    BY <2>2, <2>3 DEF IInv, ContentInv
  <2> QED
    BY <2>4 DEF IInv, ContentInv, SoundEntry
<1>8. ResultInv'
  BY DEF IInv, ResultInv, SptLossless, RPLostOnlyInOneSlot
<1> QED
  BY <1>3, <1>4, <1>5, <1>6, <1>7, <1>8 DEF IInv

LEMMA StepBuild == ASSUME IInv, Build PROVE IInv'
<1> DEFINE n == IF ubq[Len(ubq)].entries = << >> THEN Len(ubq) - 1 ELSE Len(ubq)
<1>1. /\ QueueOK(ubq) /\ Len(ubq) # 0
      /\ jpCfg \in Seq(GroupConfig) /\ gi \in Nat /\ Len(jpCfg) \in Nat
      /\ DOMAIN jpCfg = 1 .. Len(jpCfg) /\ Len(jpCfg) < gi
  BY DEF Build, IInv, TypeOK
<1>2. /\ updates' = [k \in 1 .. n |-> ubq[k].entries]
      /\ pc' = "done"
      /\ UNCHANGED <<jpCfg, ubq, start, gi, i, srci, pruneRP>>
  BY DEF Build
<1>3. ubq \in Seq(Builder) /\ Len(ubq) \in Nat
  BY <1>1 DEF IInv, TypeOK
<1> DEFINE last == ubq[Len(ubq)].entries
<1>4. /\ last = << >> => n = Len(ubq) - 1
      /\ last # << >> => n = Len(ubq)
  OBVIOUS
<1> HIDE DEF n
<1>5. n \in Nat /\ n <= Len(ubq) /\ Len(ubq) <= n + 1
  <2>1. n = Len(ubq) - 1 \/ n = Len(ubq)
    BY <1>4
  <2> HIDE DEF last
  <2> QED
    BY <1>1, <1>3, <2>1
<1>6. \A k \in DOMAIN ubq : ubq[k].entries # << >> => k <= n
  <2>1. SUFFICES ASSUME NEW k \in 1 .. Len(ubq), ubq[k].entries # << >>
                 PROVE  k <= n
    BY <1>3
  <2>2. CASE k = Len(ubq)
    BY <1>3, <1>4, <2>1, <2>2
  <2>3. CASE k # Len(ubq)
    <3>1. k \in Nat /\ Len(ubq) \in Nat /\ k < Len(ubq)
      BY <1>3, <2>3
    <3> QED
      BY <1>5, <3>1
  <2> QED
    BY <2>2, <2>3
<1>7. n # 0 => ubq[n].entries # << >>
  <2>1. CASE last = << >>
    <3>1. n = Len(ubq) - 1
      BY <1>4, <2>1
    <3>2. n # 0 => n \in 1 .. Len(ubq) - 1
      BY <1>5, <3>1
    <3> QED
      BY <1>1, <3>2 DEF QueueOK, LastAloneEmpty
  <2>2. CASE last # << >>
    BY <1>4, <2>2
  <2> QED
    BY <2>1, <2>2
<1> DEFINE u == [k \in 1 .. n |-> ubq[k].entries]
<1>8. /\ u \in Seq(Seq(Entry))
      /\ \A k \in DOMAIN u : u[k] # << >>
      /\ \A k \in DOMAIN u : \A m \in DOMAIN u[k] : u[k][m] \in Entries(ubq)
      /\ \A e \in Entries(ubq) :
           \E k \in DOMAIN u : \E m \in DOMAIN u[k] : e = u[k][m]
      /\ NothingTwice(u)
  <2> HIDE DEF last
  <2> QED
    BY <1>1, <1>3, <1>5, <1>6, <1>7, BuildFacts
<1>9. updates' = u
  BY <1>2
<1> HIDE DEF u, last
<1>10. TypeOK'
  BY <1>2, <1>8, <1>9 DEF IInv, TypeOK
<1>11. PositionInv' /\ FullInv' /\ GroupsInv'
  BY <1>2 DEF IInv, PositionInv, FullInv, GroupsInv
<1>12. ContentInv'
  BY <1>2 DEF IInv, ContentInv, SoundEntry
<1>13. (\A k \in DOMAIN updates : \A m \in DOMAIN updates[k] :
          CarriesSomething(updates[k][m]))'
  <2>1. \A k \in DOMAIN u : \A m \in DOMAIN u[k] : CarriesSomething(u[k][m])
    BY <1>8 DEF IInv, ContentInv, SoundEntry
  <2> QED
    BY <1>9, <2>1
<1>14. SptLossless'
  <2>1. \A k \in DOMAIN u : \A m \in DOMAIN u[k] : SoundEntry(u[k][m])
    BY <1>8 DEF IInv, ContentInv
  <2>2. \A g \in DOMAIN jpCfg : PrunesPlaced(ubq, g, jpCfg[g].spt)
    <3>1. \A g \in DOMAIN jpCfg : g < gi
      BY <1>1
    <3> QED
      BY <3>1 DEF IInv, ContentInv
  <2>3. ASSUME NEW g \in DOMAIN jpCfg, NEW s \in 1 .. jpCfg[g].spt
        PROVE  CarriesSource(u, g, s)
    <3>1. PICK e \in Entries(ubq) : e.group = g /\ s \in SptSources(e)
      BY <2>2 DEF PrunesPlaced
    <3> QED
      BY <1>8, <3>1 DEF CarriesSource
  <2>4. jpCfg' = jpCfg
    BY <1>2
  <2>5. (\A k \in DOMAIN updates : \A m \in DOMAIN updates[k] :
           LET e == updates[k][m] IN
             /\ e.group \in DOMAIN jpCfg
             /\ SptSources(e) \subseteq 1 .. jpCfg[e.group].spt
             /\ e.rp => jpCfg[e.group].rpt)'
    BY <1>9, <2>1, <2>4 DEF SoundEntry
  <2>6. (\A g \in DOMAIN jpCfg : \A s \in 1 .. jpCfg[g].spt :
           CarriesSource(updates, g, s))'
    BY <1>9, <2>3, <2>4
  <2>7. NothingTwice(updates)'
    BY <1>8, <1>9
  <2> QED
    BY <2>5, <2>6, <2>7 DEF SptLossless
<1>15. RPLostOnlyInOneSlot'
  <2>1. ASSUME NEW g \in DOMAIN jpCfg, jpCfg[g].rpt
        PROVE  \/ CarriesRp(u, g)
               \/ \E k \in DOMAIN u :
                    LET e == u[k][Len(u[k])] IN
                      /\ e.group = g
                      /\ e.first = 1 /\ e.last = 1
                      /\ Full(ubq[k])
    <3>1. RPAccounted(ubq, g)
      <4>1. g < gi
        BY <1>1
      <4> QED
        BY <2>1, <4>1 DEF IInv, ContentInv
    <3>2. CASE RPPlaced(ubq, g)
      <4>1. PICK e \in Entries(ubq) : e.group = g /\ e.rp
        BY <3>2 DEF RPPlaced
      <4> QED
        BY <1>8, <4>1 DEF CarriesRp
    <3>3. CASE \E k \in DOMAIN ubq : FilledByFirst(ubq, g, k)
      <4>1. PICK k \in DOMAIN ubq : FilledByFirst(ubq, g, k)
        BY <3>3
      <4>2. k \in 1 .. n
        BY <1>3, <1>5, <1>6, <4>1 DEF FilledByFirst
      <4>3. k \in DOMAIN u /\ u[k] = ubq[k].entries
        BY <4>2 DEF u
      <4> QED
        BY <4>1, <4>3 DEF FilledByFirst
    <3> QED
      BY <3>1, <3>2, <3>3 DEF RPAccounted
  <2>2. jpCfg' = jpCfg /\ ubq' = ubq
    BY <1>2
  <2> QED
    BY <1>9, <2>1, <2>2 DEF RPLostOnlyInOneSlot
<1> QED
  BY <1>1, <1>2, <1>8, <1>9, <1>10, <1>11, <1>12, <1>13, <1>14, <1>15
     DEF IInv, ResultInv
-----------------------------------------------------------------------------
(***************************************************************************)
(* The theorems                                                            *)
(***************************************************************************)

LEMMA InitIInv == Init => IInv
<1> SUFFICES ASSUME Init PROVE IInv
  OBVIOUS
<1> USE DEF Init
<1>1. EmptyBuilder \in Builder
  <2>1. << >> \in Seq(Entry)
    OBVIOUS
  <2> QED
    BY <2>1 DEF EmptyBuilder, Builder
<1>2. jpCfg \in Seq(GroupConfig) /\ Len(jpCfg) \in Nat
  <2>1. jpCfg \in Seq(GroupConfig)
    BY ConfigsAssumption
  <2> QED
    BY <2>1
<1>3. /\ ubq \in Seq(Builder) /\ Len(ubq) = 1 /\ DOMAIN ubq = {1}
      /\ ubq[1] = EmptyBuilder
  BY <1>1
<1>4. DOMAIN ubq[1].entries = {} /\ ubq[1].size = 0
  BY <1>3 DEF EmptyBuilder
<1>5. TypeOK
  <2>1. << >> \in Seq(Seq(Entry))
    OBVIOUS
  <2>2. pruneRP \in BOOLEAN
    OBVIOUS
  <2>3. gi \in 1 .. Len(jpCfg) + 1
    BY <1>2
  <2> QED
    BY <1>2, <1>3, <2>1, <2>2, <2>3 DEF TypeOK
<1>6. QueueOK(ubq)
  <2>1. Sized(ubq) /\ AscendingGroups(ubq) /\ SpillsFromFull(ubq)
    BY <1>3, <1>4, SizesAssumption DEF Sized, AscendingGroups, SpillsFromFull
  <2>2. LastAloneEmpty(ubq)
    BY <1>3 DEF LastAloneEmpty
  <2>3. NothingTwice(Packed(ubq))
    BY <1>3, <1>4 DEF NothingTwice, Packed
  <2> QED
    BY <1>3, <2>1, <2>2, <2>3 DEF QueueOK
<1>7. \A k0 \in Nat : EntriesFrom(ubq, k0) = {}
  BY <1>3, <1>4 DEF EntriesFrom
<1>8. PositionInv /\ FullInv
  BY DEF PositionInv, FullInv, FullBefore
<1>9. GroupsInv
  BY <1>7 DEF GroupsInv, GroupsBelow
<1>10. ContentInv
  <2>1. \A g \in DOMAIN jpCfg : ~(g < gi)
    BY <1>2
  <2> QED
    BY <1>7, <2>1 DEF ContentInv, Entries
<1>11. ResultInv
  BY DEF ResultInv, SptLossless, RPLostOnlyInOneSlot
<1> QED
  BY <1>5, <1>6, <1>8, <1>9, <1>10, <1>11 DEF IInv

LEMMA NextIInv == IInv /\ [Next]_vars => IInv'
<1> SUFFICES ASSUME IInv, [Next]_vars PROVE IInv'
  OBVIOUS
<1>1. CASE StartGroup
  BY <1>1, StepStartGroup
<1>2. CASE PassUpdate
  BY <1>2, StepPassUpdate
<1>3. CASE DropRP
  BY <1>3, StepDropRP
<1>4. CASE FitPrunes
  BY <1>4, StepFitPrunes
<1>5. CASE SeekRoomForRP
  BY <1>5, StepSeekRoomForRP
<1>6. CASE FitRPOnly
  BY <1>6, StepFitRPOnly
<1>7. CASE EndGroup
  BY <1>7, StepEndGroup
<1>8. CASE Build
  BY <1>8, StepBuild
<1>9. CASE UNCHANGED vars
  BY <1>9 DEF vars, IInv, TypeOK, PositionInv, FullInv, GroupsInv, ContentInv,
              ResultInv, SptLossless, RPLostOnlyInOneSlot, SoundEntry, NotYet,
              Unfinished, RPDropped, Group
<1> QED
  BY <1>1, <1>2, <1>3, <1>4, <1>5, <1>6, <1>7, <1>8, <1>9 DEF Next

(* IInv holds in every state the packer reaches.                           *)
THEOREM Invariance == Spec => []IInv
<1>1. Init => IInv
  BY InitIInv
<1>2. IInv /\ [Next]_vars => IInv'
  BY NextIInv
<1> QED
  BY <1>1, <1>2, PTL DEF Spec

(* Every variable of inversePack() keeps its type, for all sizes and       *)
(* configurations: the cursor and start stay inside the queue.             *)
THEOREM TypeCorrect == Spec => []TypeOK
<1>1. IInv => TypeOK
  BY DEF IInv
<1> QED
  BY <1>1, Invariance, PTL

(* chkSz() (InversePack.hpp:77-82) never raises, whatever is configured.   *)
THEOREM CapacityTheorem == Spec => []CapacityRespected
<1>1. IInv => CapacityRespected
  BY DEF IInv, CapacityRespected, WithinCapacity, QueueOK, Sized
<1> QED
  BY <1>1, Invariance, PTL

(* The packing is dense and tidy for every configuration, also over the    *)
(* continue that drops an RP (InversePack.hpp:116-164).                    *)
THEOREM WellPackedTheorem == Spec => []WellPacked
<1>1. IInv => WellPacked
  BY DEF IInv, WellPacked, FullInv, QueueOK, ResultInv
<1> QED
  BY <1>1, Invariance, PTL

(* For every configuration what inversePack() returns takes back each SPT  *)
(* join exactly once, and nothing that was not joined                      *)
(* (InversePackSanityCheck.hpp:164-204).                                   *)
THEOREM SptLosslessTheorem == Spec => []SptLossless
<1>1. IInv => SptLossless
  BY DEF IInv, ResultInv
<1> QED
  BY <1>1, Invariance, PTL

(* The continue of InversePack.hpp:132 is the only way to lose the prune   *)
(* of an RP, and it leaves a trace: an update that the group's first SPT   *)
(* prune fills to the end.  For every configuration and all sizes.         *)
THEOREM RPLostTheorem == Spec => []RPLostOnlyInOneSlot
<1>1. IInv => RPLostOnlyInOneSlot
  BY DEF IInv, ResultInv
<1> QED
  BY <1>1, Invariance, PTL
-----------------------------------------------------------------------------
(***************************************************************************)
(* verifyInverseUpdates() on what inversePack() returns                    *)
(***************************************************************************)

(* What a converter can hold.                                             *)
Converter ==
  [joins : SUBSET Nat, rp : BOOLEAN, failed : BOOLEAN]

LEMMA AddType ==
  ASSUME NEW c \in Converter, NEW e \in Entry
  PROVE  inverseAdd(c, e) \in Converter
<1>1. SptSources(e) \subseteq Nat
  BY DEF SptSources, Entry
<1> QED
  BY <1>1 DEF inverseAdd, Converter, Entry

LEMMA AddEntryFacts ==
  ASSUME NEW G, NEW m \in [G -> Converter], NEW e \in Entry, e.group \in G
  PROVE  /\ inverseAddEntry(m, e) \in [G -> Converter]
         /\ inverseAddEntry(m, e)[e.group] = inverseAdd(m[e.group], e)
         /\ \A g \in G : g # e.group => inverseAddEntry(m, e)[g] = m[g]
<1>1. inverseAdd(m[e.group], e) \in Converter
  BY AddType
<1> QED
  BY <1>1 DEF inverseAddEntry

(* One converter reads after another entry of an update.                   *)
LEMMA UpdateRead ==
  ASSUME NEW G, NEW m0 \in [G -> Converter], NEW u \in Seq(Entry),
         \A k \in 1 .. Len(u) : u[k].group \in G
  PROVE  \E f \in [0 .. Len(u) -> [G -> Converter]] :
           /\ f[0] = m0
           /\ \A k \in 1 .. Len(u) : f[k] = inverseAddEntry(f[k - 1], u[k])
           /\ f[Len(u)] = inverseAddUpdate(m0, u)
<1>0. PICK N, M, B : N = Len(u) /\ M = [G -> Converter] /\ B = { e \in Entry : e.group \in G }
  OBVIOUS
<1>1. N \in Nat /\ DOMAIN u = 1 .. N /\ m0 \in M /\ \A k \in 1 .. N : u[k] \in B
  BY <1>0
<1>2. \A m \in M, e \in B : inverseAddEntry(m, e) \in M
  BY <1>0, AddEntryFacts
<1>3. PICK F \in [M \X B -> M] : \A m \in M, e \in B : F[<<m, e>>] = inverseAddEntry(m, e)
  <2> DEFINE F == [p \in M \X B |-> inverseAddEntry(p[1], p[2])]
  <2>1. F \in [M \X B -> M] /\ \A m \in M, e \in B : F[<<m, e>>] = inverseAddEntry(m, e)
    BY <1>2
  <2> QED
    BY <2>1, Zenon
<1>4. PICK g \in [SUBSET (1 .. N) -> M] : FoldsBy(g, F, m0, u, N)
  <2>1. F \in [M \X B -> M] /\ m0 \in M /\ N \in Nat /\ u \in [1 .. N -> B]
    BY <1>1
  <2> QED
    BY <2>1, FoldExists, Zenon
<1> DEFINE Eq(h) == h = [S \in SUBSET (1 .. N) |->
                           IF S = {} THEN m0
                           ELSE inverseAddEntry(h[S \ {Seqs!Max(S)}], u[Seqs!Max(S)])]
           h0 == CHOOSE h : Eq(h)
<1>5. Eq(g)
  <2>1. ASSUME NEW S \in SUBSET (1 .. N)
        PROVE  g[S] = IF S = {} THEN m0 ELSE inverseAddEntry(g[S \ {Seqs!Max(S)}], u[Seqs!Max(S)])
    <3>1. CASE S = {}
      BY <1>4, <3>1, Zenon DEF FoldsBy
    <3>2. CASE S # {}
      <4> PICK x : x = Seqs!Max(S)
        OBVIOUS
      <4>1. x \in 1 .. N
        BY <1>1, <3>2, MaxIn
      <4>2. u[x] \in B /\ g[S \ {x}] \in M
        BY <1>1, <1>4, <4>1
      <4>3. g[S] = F[<<g[S \ {x}], u[x]>>]
        BY <1>4, <3>2, Zenon DEF FoldsBy
      <4> QED
        BY <1>3, <3>2, <4>2, <4>3, Zenon
    <3> QED
      BY <3>1, <3>2
  <2> QED
    BY <1>4, <2>1
<1>6. Eq(h0)
  BY <1>5
<1>7. inverseAddUpdate(m0, u) = h0[1 .. N]
  BY <1>1 DEF inverseAddUpdate, Seqs!FoldLeft, Seqs!MapThenFoldSet
<1> HIDE DEF h0
<1>8. \A S \in SUBSET (1 .. N) :
        h0[S] = IF S = {} THEN m0 ELSE inverseAddEntry(h0[S \ {Seqs!Max(S)}], u[Seqs!Max(S)])
  BY <1>6
<1> DEFINE f == [k \in 0 .. N |-> h0[1 .. k]]
<1>9. f[0] = m0 /\ f[N] = h0[1 .. N]
  <2>1. 1 .. 0 = {} /\ {} \in SUBSET (1 .. N) /\ 0 \in 0 .. N /\ N \in 0 .. N
    BY <1>1
  <2> QED
    BY <1>8, <2>1
<1>10. ASSUME NEW k \in 1 .. N PROVE f[k] = inverseAddEntry(f[k - 1], u[k])
  <2>1. k \in Nat \ {0} /\ 1 .. k \in SUBSET (1 .. N) /\ k - 1 \in 0 .. N /\ k \in 0 .. N
    BY <1>1
  <2>2. Seqs!Max(1 .. k) = k /\ (1 .. k) \ {k} = 1 .. k - 1 /\ 1 .. k # {}
    BY <2>1, FoldSteps
  <2>3. h0[1 .. k] = inverseAddEntry(h0[1 .. k - 1], u[k])
    BY <1>8, <2>1, <2>2
  <2> QED
    BY <2>1, <2>3
<1> HIDE DEF f
<1>11. \A k \in 0 .. N : f[k] \in M
  <2> DEFINE K == { k \in 0 .. N : f[k] \in M }
  <2>1. 0 \in K
    BY <1>1, <1>9
  <2>2. \A k \in 1 .. N : k - 1 \in K => k \in K
    <3>1. ASSUME NEW k \in 1 .. N, f[k - 1] \in M PROVE f[k] \in M
      BY <1>1, <1>2, <1>10, <3>1, Zenon
    <3>2. \A k \in 1 .. N : k \in 0 .. N
      BY <1>1
    <3> QED
      BY <3>1, <3>2
  <2> HIDE DEF K
  <2>3. \A k \in 0 .. N : k \in K
    BY <1>1, <2>1, <2>2, FromZero
  <2> QED
    BY <2>3 DEF K
<1>12. f \in [0 .. N -> M]
  BY <1>11 DEF f
<1> QED
  BY <1>0, <1>7, <1>9, <1>10, <1>12, Zenon

LEMMA UpdateType ==
  ASSUME NEW G, NEW m0 \in [G -> Converter], NEW u \in Seq(Entry),
         \A k \in 1 .. Len(u) : u[k].group \in G
  PROVE  inverseAddUpdate(m0, u) \in [G -> Converter]
<1>1. Len(u) \in 0 .. Len(u)
  OBVIOUS
<1> QED
  BY <1>1, UpdateRead

(* Only groups of G occur.                                                 *)
Within(us, G) == \A k \in 1 .. Len(us) : \A j \in 1 .. Len(us[k]) : us[k][j].group \in G

(* One update is read after the other.                                     *)
LEMMA UpdatesRead ==
  ASSUME NEW G, NEW m0 \in [G -> Converter], NEW u \in Seq(Seq(Entry)),
         Within(u, G)
  PROVE  \E f \in [0 .. Len(u) -> [G -> Converter]] :
           /\ f[0] = m0
           /\ \A k \in 1 .. Len(u) : f[k] = inverseAddUpdate(f[k - 1], u[k])
           /\ f[Len(u)] = inverseAddUpdates(m0, u)
<1>0. PICK N, M, B :
        /\ N = Len(u) /\ M = [G -> Converter]
        /\ B = { w \in Seq(Entry) : \A j \in 1 .. Len(w) : w[j].group \in G }
  OBVIOUS
<1>1. N \in Nat /\ DOMAIN u = 1 .. N /\ m0 \in M /\ \A k \in 1 .. N : u[k] \in B
  BY <1>0 DEF Within
<1>2. \A m \in M, e \in B : inverseAddUpdate(m, e) \in M
  BY <1>0, UpdateType
<1>3. PICK F \in [M \X B -> M] : \A m \in M, e \in B : F[<<m, e>>] = inverseAddUpdate(m, e)
  <2> DEFINE F == [p \in M \X B |-> inverseAddUpdate(p[1], p[2])]
  <2>1. F \in [M \X B -> M] /\ \A m \in M, e \in B : F[<<m, e>>] = inverseAddUpdate(m, e)
    BY <1>2
  <2> QED
    BY <2>1, Zenon
<1>4. PICK g \in [SUBSET (1 .. N) -> M] : FoldsBy(g, F, m0, u, N)
  <2>1. F \in [M \X B -> M] /\ m0 \in M /\ N \in Nat /\ u \in [1 .. N -> B]
    BY <1>1
  <2> QED
    BY <2>1, FoldExists, Zenon
<1> DEFINE Eq(h) == h = [S \in SUBSET (1 .. N) |->
                           IF S = {} THEN m0
                           ELSE inverseAddUpdate(h[S \ {Seqs!Max(S)}], u[Seqs!Max(S)])]
           h0 == CHOOSE h : Eq(h)
<1>5. Eq(g)
  <2>1. ASSUME NEW S \in SUBSET (1 .. N)
        PROVE  g[S] = IF S = {} THEN m0 ELSE inverseAddUpdate(g[S \ {Seqs!Max(S)}], u[Seqs!Max(S)])
    <3>1. CASE S = {}
      BY <1>4, <3>1, Zenon DEF FoldsBy
    <3>2. CASE S # {}
      <4> PICK x : x = Seqs!Max(S)
        OBVIOUS
      <4>1. x \in 1 .. N
        BY <1>1, <3>2, MaxIn
      <4>2. u[x] \in B /\ g[S \ {x}] \in M
        BY <1>1, <1>4, <4>1
      <4>3. g[S] = F[<<g[S \ {x}], u[x]>>]
        BY <1>4, <3>2, Zenon DEF FoldsBy
      <4> QED
        BY <1>3, <3>2, <4>2, <4>3, Zenon
    <3> QED
      BY <3>1, <3>2
  <2> QED
    BY <1>4, <2>1
<1>6. Eq(h0)
  BY <1>5
<1>7. inverseAddUpdates(m0, u) = h0[1 .. N]
  BY <1>1 DEF inverseAddUpdates, Seqs!FoldLeft, Seqs!MapThenFoldSet
<1> HIDE DEF h0
<1>8. \A S \in SUBSET (1 .. N) :
        h0[S] = IF S = {} THEN m0 ELSE inverseAddUpdate(h0[S \ {Seqs!Max(S)}], u[Seqs!Max(S)])
  BY <1>6
<1> DEFINE f == [k \in 0 .. N |-> h0[1 .. k]]
<1>9. f[0] = m0 /\ f[N] = h0[1 .. N]
  <2>1. 1 .. 0 = {} /\ {} \in SUBSET (1 .. N) /\ 0 \in 0 .. N /\ N \in 0 .. N
    BY <1>1
  <2> QED
    BY <1>8, <2>1
<1>10. ASSUME NEW k \in 1 .. N PROVE f[k] = inverseAddUpdate(f[k - 1], u[k])
  <2>1. k \in Nat \ {0} /\ 1 .. k \in SUBSET (1 .. N) /\ k - 1 \in 0 .. N /\ k \in 0 .. N
    BY <1>1
  <2>2. Seqs!Max(1 .. k) = k /\ (1 .. k) \ {k} = 1 .. k - 1 /\ 1 .. k # {}
    BY <2>1, FoldSteps
  <2>3. h0[1 .. k] = inverseAddUpdate(h0[1 .. k - 1], u[k])
    BY <1>8, <2>1, <2>2
  <2> QED
    BY <2>1, <2>3
<1> HIDE DEF f
<1>11. \A k \in 0 .. N : f[k] \in M
  <2> DEFINE K == { k \in 0 .. N : f[k] \in M }
  <2>1. 0 \in K
    BY <1>1, <1>9
  <2>2. \A k \in 1 .. N : k - 1 \in K => k \in K
    <3>1. ASSUME NEW k \in 1 .. N, f[k - 1] \in M PROVE f[k] \in M
      BY <1>1, <1>2, <1>10, <3>1, Zenon
    <3>2. \A k \in 1 .. N : k \in 0 .. N
      BY <1>1
    <3> QED
      BY <3>1, <3>2
  <2> HIDE DEF K
  <2>3. \A k \in 0 .. N : k \in K
    BY <1>1, <2>1, <2>2, FromZero
  <2> QED
    BY <2>3 DEF K
<1>12. f \in [0 .. N -> M]
  BY <1>11 DEF f
<1> QED
  BY <1>0, <1>7, <1>9, <1>10, <1>12, Zenon

(* What the converter of group g holds once the entries E have been read.  *)
HasRead(c, g, E) ==
  /\ \A s : s \in c.joins <=> \E e \in E : e.group = g /\ s \in SptSources(e)
  /\ c.rp <=> \E e \in E : e.group = g /\ e.rp

AllHaveRead(m, G, E) == \A g \in G : HasRead(m[g], g, E)

NoneFailed(m, G) == \A g \in G : ~m[g].failed

LEMMA AddReads ==
  ASSUME NEW c \in Converter, NEW g, NEW E \in SUBSET Entry, NEW e \in Entry,
         e.group = g, HasRead(c, g, E)
  PROVE  /\ HasRead(inverseAdd(c, e), g, E \cup {e})
         /\ ~c.failed /\ (\A d \in E : Apart(d, e)) => ~inverseAdd(c, e).failed
<1> PICK a : a = inverseAdd(c, e)
  OBVIOUS
<1>1. /\ a.joins = c.joins \cup SptSources(e)
      /\ a.rp = (c.rp \/ e.rp)
      /\ a.failed = (\/ c.failed
                     \/ c.rp /\ e.rp
                     \/ c.joins \cap SptSources(e) # {})
  BY DEF inverseAdd
<1>2. HasRead(a, g, E \cup {e})
  BY <1>1, Zenon DEF HasRead
<1>3. ASSUME ~c.failed, \A d \in E : Apart(d, e) PROVE ~a.failed
  <2>1. \A d \in E : d.group = g =>
          SptSources(d) \cap SptSources(e) = {} /\ ~(d.rp /\ e.rp)
    BY <1>3, Zenon DEF Apart
  <2>2. ~(c.rp /\ e.rp)
    BY <2>1, Zenon DEF HasRead
  <2>3. c.joins \cap SptSources(e) = {}
    BY <2>1, Zenon DEF HasRead
  <2> QED
    BY <1>1, <1>3, <2>2, <2>3, Zenon
<1> QED
  BY <1>2, <1>3

LEMMA AddEntryReads ==
  ASSUME NEW G, NEW m \in [G -> Converter], NEW E \in SUBSET Entry, NEW e \in Entry,
         e.group \in G, AllHaveRead(m, G, E)
  PROVE  /\ AllHaveRead(inverseAddEntry(m, e), G, E \cup {e})
         /\ NoneFailed(m, G) /\ (\A d \in E : Apart(d, e)) => NoneFailed(inverseAddEntry(m, e), G)
<1> PICK a : a = inverseAddEntry(m, e)
  OBVIOUS
<1>1. a[e.group] = inverseAdd(m[e.group], e) /\ \A g \in G : g # e.group => a[g] = m[g]
  BY AddEntryFacts
<1>2. HasRead(m[e.group], e.group, E)
  BY Zenon DEF AllHaveRead
<1>3. /\ HasRead(a[e.group], e.group, E \cup {e})
      /\ ~m[e.group].failed /\ (\A d \in E : Apart(d, e)) => ~a[e.group].failed
  BY <1>1, <1>2, AddReads
<1>4. ASSUME NEW g \in G, g # e.group PROVE HasRead(a[g], g, E \cup {e})
  <2>1. a[g] = m[g] /\ HasRead(m[g], g, E)
    BY <1>1, <1>4, Zenon DEF AllHaveRead
  <2>2. \A d \in E \cup {e} : d.group = g => d \in E
    BY <1>4
  <2> QED
    BY <2>1, <2>2, Zenon DEF HasRead
<1>5. AllHaveRead(a, G, E \cup {e})
  BY <1>3, <1>4, Zenon DEF AllHaveRead
<1>6. NoneFailed(m, G) /\ (\A d \in E : Apart(d, e)) => NoneFailed(a, G)
  BY <1>1, <1>3, Zenon DEF NoneFailed
<1> QED
  BY <1>5, <1>6

(* The converters after one more update.                                   *)
LEMMA AddUpdateReads ==
  ASSUME NEW G, NEW m \in [G -> Converter], NEW E \in SUBSET Entry, NEW u \in Seq(Entry),
         AllHaveRead(m, G, E),
         \A k \in 1 .. Len(u) : u[k].group \in G
  PROVE  /\ AllHaveRead(inverseAddUpdate(m, u), G, E \cup FirstEntries(u, Len(u)))
         /\ /\ NoneFailed(m, G)
            /\ \A k \in 1 .. Len(u) : \A d \in E : Apart(d, u[k])
            /\ \A j, k \in 1 .. Len(u) : j < k => Apart(u[j], u[k])
            => NoneFailed(inverseAddUpdate(m, u), G)
<1>0. PICK N \in Nat : N = Len(u)
  OBVIOUS
<1>1. PICK f \in [0 .. N -> [G -> Converter]] :
        /\ f[0] = m
        /\ \A k \in 1 .. N : f[k] = inverseAddEntry(f[k - 1], u[k])
        /\ f[N] = inverseAddUpdate(m, u)
  BY <1>0, UpdateRead
<1>2. \A k \in 1 .. N : u[k] \in Entry /\ k - 1 \in 0 .. N /\ k \in 0 .. N
  BY <1>0
<1>3. ASSUME NEW k \in 1 .. N
      PROVE  /\ E \cup FirstEntries(u, k) = (E \cup FirstEntries(u, k - 1)) \cup {u[k]}
             /\ E \cup FirstEntries(u, k - 1) \in SUBSET Entry
  <2>1. 1 .. k = (1 .. k - 1) \cup {k} /\ 1 .. k - 1 \subseteq 1 .. N
    OBVIOUS
  <2>2. FirstEntries(u, k) = FirstEntries(u, k - 1) \cup {u[k]}
    BY <2>1, Zenon DEF FirstEntries
  <2>3. FirstEntries(u, k - 1) \in SUBSET Entry
    BY <1>0, <1>2, <2>1, Zenon DEF FirstEntries
  <2> QED
    BY <1>0, <2>2, <2>3, Zenon
<1> DEFINE Reads == { k \in 0 .. N : AllHaveRead(f[k], G, E \cup FirstEntries(u, k)) }
<1>4. 0 \in Reads
  <2>1. FirstEntries(u, 0) = {}
    BY DEF FirstEntries
  <2>2. E \cup FirstEntries(u, 0) = E /\ 0 \in 0 .. N
    BY <2>1
  <2> QED
    BY <1>1, <2>2, Zenon
<1>5. ASSUME NEW k \in 1 .. N, k - 1 \in Reads PROVE k \in Reads
  <2>1. f[k] = inverseAddEntry(f[k - 1], u[k]) /\ f[k - 1] \in [G -> Converter]
    BY <1>1, <1>2
  <2>2. u[k] \in Entry /\ u[k].group \in G /\ AllHaveRead(f[k - 1], G, E \cup FirstEntries(u, k - 1))
    BY <1>0, <1>2, <1>5
  <2> PICK D, d0, e : D = E \cup FirstEntries(u, k - 1) /\ d0 = f[k - 1] /\ e = u[k]
    OBVIOUS
  <2>3. /\ d0 \in [G -> Converter] /\ D \in SUBSET Entry /\ e \in Entry /\ e.group \in G
        /\ AllHaveRead(d0, G, D)
    BY <1>3, <2>1, <2>2, Zenon
  <2>4. AllHaveRead(inverseAddEntry(d0, e), G, D \cup {e})
    BY <2>3, AddEntryReads
  <2> QED
    BY <1>2, <1>3, <2>1, <2>4
<1>6. \A k \in 0 .. N : AllHaveRead(f[k], G, E \cup FirstEntries(u, k))
  <2>1. \A k \in 1 .. N : k - 1 \in Reads => k \in Reads
    BY <1>5
  <2> HIDE DEF Reads
  <2>2. \A k \in 0 .. N : k \in Reads
    BY <1>4, <2>1, FromZero
  <2> QED
    BY <2>2 DEF Reads
<1>7. AllHaveRead(inverseAddUpdate(m, u), G, E \cup FirstEntries(u, Len(u)))
  BY <1>0, <1>1, <1>6
<1>8. ASSUME NoneFailed(m, G),
             \A k \in 1 .. Len(u) : \A d \in E : Apart(d, u[k]),
             \A j, k \in 1 .. Len(u) : j < k => Apart(u[j], u[k])
      PROVE  NoneFailed(inverseAddUpdate(m, u), G)
  <2> DEFINE K == { k \in 0 .. N : NoneFailed(f[k], G) }
  <2>1. 0 \in K
    BY <1>0, <1>1, <1>8
  <2>2. ASSUME NEW k \in 1 .. N, k - 1 \in K PROVE k \in K
    <3>1. f[k] = inverseAddEntry(f[k - 1], u[k]) /\ f[k - 1] \in [G -> Converter]
      BY <1>1, <1>2
    <3>2. u[k] \in Entry /\ u[k].group \in G /\ AllHaveRead(f[k - 1], G, E \cup FirstEntries(u, k - 1))
      BY <1>0, <1>2, <1>6
    <3>3. \A d \in E \cup FirstEntries(u, k - 1) : Apart(d, u[k])
      <4>1. \A j \in 1 .. k - 1 : Apart(u[j], u[k])
        BY <1>0, <1>8
      <4>2. \A d \in E : Apart(d, u[k])
        BY <1>0, <1>8
      <4> QED
        BY <4>1, <4>2, Zenon DEF FirstEntries
    <3>4. NoneFailed(f[k - 1], G)
      BY <2>2
    <3> PICK D, d0, e : D = E \cup FirstEntries(u, k - 1) /\ d0 = f[k - 1] /\ e = u[k]
      OBVIOUS
    <3>5. /\ d0 \in [G -> Converter] /\ D \in SUBSET Entry /\ e \in Entry /\ e.group \in G
          /\ AllHaveRead(d0, G, D)
          /\ NoneFailed(d0, G) /\ \A d \in D : Apart(d, e)
      BY <1>3, <3>1, <3>2, <3>3, <3>4, Zenon
    <3>6. NoneFailed(inverseAddEntry(d0, e), G)
      BY <3>5, AddEntryReads
    <3> QED
      BY <1>2, <3>1, <3>6
  <2>3. \A k \in 1 .. N : k - 1 \in K => k \in K
    BY <2>2
  <2> HIDE DEF K
  <2>4. \A k \in 0 .. N : k \in K
    BY <2>1, <2>3, FromZero
  <2>5. NoneFailed(f[N], G)
    BY <2>4 DEF K
  <2> QED
    BY <1>1, <2>5
<1> QED
  BY <1>7, <1>8

(* After each update the converters hold what has been read, and none of   *)
(* them has failed if there is nothing twice.                              *)
LEMMA ConversionReads ==
  ASSUME NEW us \in Seq(Seq(Entry)), NEW G, Within(us, G)
  PROVE  \E f \in [0 .. Len(us) -> [G -> Converter]] :
           /\ \A k \in 1 .. Len(us) : f[k] = inverseAddUpdate(f[k - 1], us[k])
           /\ f[Len(us)] = inverseAddUpdates([g \in G |-> InverseGroupEntryConverter], us)
           /\ \A k \in 0 .. Len(us) : AllHaveRead(f[k], G, FirstUpdates(us, k))
           /\ NothingTwice(us) => NoneFailed(f[Len(us)], G)
<1>0. PICK N \in Nat : N = Len(us)
  OBVIOUS
<1>1. InverseGroupEntryConverter \in Converter
  BY DEF InverseGroupEntryConverter, Converter
<1>2. PICK m \in [G -> Converter] :
        /\ m = [g \in G |-> InverseGroupEntryConverter]
        /\ \A g \in G : m[g] = InverseGroupEntryConverter
  <2> PICK c \in Converter : c = InverseGroupEntryConverter
    BY <1>1
  <2>1. [g \in G |-> c] \in [G -> Converter]
    OBVIOUS
  <2> QED
    BY <2>1
<1>3. \A k \in 1 .. N : /\ us[k] \in Seq(Entry)
                        /\ \A j \in 1 .. Len(us[k]) : us[k][j] \in Entry
                        /\ k - 1 \in 0 .. N /\ k \in 0 .. N
  <2>1. \A k \in 1 .. N : us[k] \in Seq(Entry) /\ k - 1 \in 0 .. N /\ k \in 0 .. N
    BY <1>0
  <2> QED
    BY <2>1
<1>4. PICK f \in [0 .. N -> [G -> Converter]] :
        /\ f[0] = m
        /\ \A k \in 1 .. N : f[k] = inverseAddUpdate(f[k - 1], us[k])
        /\ f[N] = inverseAddUpdates(m, us)
  <2>1. Within(us, G)
    BY Zenon DEF Within
  <2>2. \E f \in [0 .. Len(us) -> [G -> Converter]] :
           /\ f[0] = m
           /\ \A k \in 1 .. Len(us) : f[k] = inverseAddUpdate(f[k - 1], us[k])
           /\ f[Len(us)] = inverseAddUpdates(m, us)
    BY <2>1, UpdatesRead
  <2> QED
    BY <1>0, <2>2
<1> DEFINE Reads == { k \in 0 .. N : AllHaveRead(f[k], G, FirstUpdates(us, k)) }
<1>5. 0 \in Reads
  <2>1. FirstUpdates(us, 0) = {}
    BY DEF FirstUpdates
  <2>2. \A g \in G : HasRead(m[g], g, {})
    BY <1>2 DEF HasRead, InverseGroupEntryConverter
  <2>3. AllHaveRead(f[0], G, FirstUpdates(us, 0))
    BY <1>4, <2>1, <2>2, Zenon DEF AllHaveRead
  <2> QED
    BY <2>3
<1>6. ASSUME NEW k \in 1 .. N
      PROVE  LET D == FirstUpdates(us, k - 1) IN
               /\ f[k] = inverseAddUpdate(f[k - 1], us[k]) /\ f[k - 1] \in [G -> Converter]
               /\ D \in SUBSET Entry /\ us[k] \in Seq(Entry)
               /\ FirstUpdates(us, k) = D \cup FirstEntries(us[k], Len(us[k]))
               /\ \A j \in 1 .. Len(us[k]) : us[k][j].group \in G
  <2>1. /\ FirstUpdates(us, k) = FirstUpdates(us, k - 1) \cup FirstEntries(us[k], Len(us[k]))
        /\ FirstUpdates(us, k - 1) \in SUBSET Entry
        /\ \A e : e \in FirstUpdates(us, k - 1) <=>
             \E l \in 1 .. k - 1 : \E j \in 1 .. Len(us[l]) : e = us[l][j]
    BY <1>0, FirstUpdatesFacts
  <2>2. 1 .. k - 1 \subseteq 1 .. N
    OBVIOUS
  <2>4. \A j \in 1 .. Len(us[k]) : us[k][j].group \in G
    BY <1>0, Zenon DEF Within
  <2> QED
    BY <1>3, <1>4, <2>1, <2>4, Zenon
<1>7. ASSUME NEW k \in 1 .. N, k - 1 \in Reads PROVE k \in Reads
  <2> PICK D, d0, u : D = FirstUpdates(us, k - 1) /\ d0 = f[k - 1] /\ u = us[k]
    OBVIOUS
  <2>1. /\ d0 \in [G -> Converter] /\ D \in SUBSET Entry /\ u \in Seq(Entry)
        /\ AllHaveRead(d0, G, D)
        /\ \A j \in 1 .. Len(u) : u[j].group \in G
    BY <1>6, <1>7, Zenon
  <2>2. AllHaveRead(inverseAddUpdate(d0, u), G, D \cup FirstEntries(u, Len(u)))
    BY <2>1, AddUpdateReads
  <2> QED
    BY <1>3, <1>6, <2>2
<1>8. \A k \in 0 .. N : AllHaveRead(f[k], G, FirstUpdates(us, k))
  <2>1. \A k \in 1 .. N : k - 1 \in Reads => k \in Reads
    BY <1>7
  <2> HIDE DEF Reads
  <2>2. \A k \in 0 .. N : k \in Reads
    BY <1>5, <2>1, FromZero
  <2> QED
    BY <2>2 DEF Reads
<1>9. ASSUME NothingTwice(us) PROVE NoneFailed(f[N], G)
  <2> DEFINE K == { k \in 0 .. N : NoneFailed(f[k], G) }
  <2>1. 0 \in K
    <3>1. ~InverseGroupEntryConverter.failed
      BY DEF InverseGroupEntryConverter
    <3>2. NoneFailed(f[0], G)
      BY <1>2, <1>4, <3>1, Zenon DEF NoneFailed
    <3> QED
      BY <3>2
  <2>2. ASSUME NEW k \in 1 .. N, k - 1 \in K PROVE k \in K
    <3> PICK D, d0, u : D = FirstUpdates(us, k - 1) /\ d0 = f[k - 1] /\ u = us[k]
      OBVIOUS
    <3>1. /\ d0 \in [G -> Converter] /\ D \in SUBSET Entry /\ u \in Seq(Entry)
          /\ AllHaveRead(d0, G, D)
          /\ \A j \in 1 .. Len(u) : u[j].group \in G
      BY <1>3, <1>6, <1>8, Zenon
    <3>2. \A j \in 1 .. Len(u) : \A d \in D : Apart(d, u[j])
      <4>1. SUFFICES ASSUME NEW j \in 1 .. Len(u), NEW d \in D PROVE Apart(d, u[j])
        OBVIOUS
      <4>2. PICK l \in 1 .. k - 1 : \E i0 \in 1 .. Len(us[l]) : d = us[l][i0]
        <5>1. k \in 1 .. Len(us) /\ d \in FirstUpdates(us, k - 1)
          BY <1>0
        <5>2. \A e : e \in FirstUpdates(us, k - 1) <=>
                \E l \in 1 .. k - 1 : \E i0 \in 1 .. Len(us[l]) : e = us[l][i0]
          BY <5>1, FirstUpdatesFacts
        <5> QED
          BY <5>1, <5>2, Zenon
      <4>3. PICK i0 \in 1 .. Len(us[l]) : d = us[l][i0]
        BY <4>2
      <4>4. l \in 1 .. N /\ l # k /\ us[l] \in Seq(Entry) /\ us[k] \in Seq(Entry)
        BY <1>3
      <4>5. l \in DOMAIN us /\ k \in DOMAIN us /\ i0 \in DOMAIN us[l] /\ j \in DOMAIN us[k]
        BY <1>0, <4>4
      <4> QED
        BY <1>9, <4>3, <4>4, <4>5, Zenon DEF NothingTwice
    <3>3. \A j, l \in 1 .. Len(u) : j < l => Apart(u[j], u[l])
      <4>1. SUFFICES ASSUME NEW j \in 1 .. Len(u), NEW l \in 1 .. Len(u), j < l
                     PROVE  Apart(u[j], u[l])
        OBVIOUS
      <4>2. k \in DOMAIN us /\ j \in DOMAIN us[k] /\ l \in DOMAIN us[k] /\ j # l
        <5>1. us[k] \in Seq(Entry) /\ j # l
          BY <1>3, <4>1
        <5> QED
          BY <1>0, <5>1
      <4> QED
        BY <1>9, <4>2, Zenon DEF NothingTwice
    <3>4. NoneFailed(d0, G)
      BY <2>2
    <3>5. NoneFailed(inverseAddUpdate(d0, u), G)
      BY <3>1, <3>2, <3>3, <3>4, AddUpdateReads
    <3> QED
      BY <1>3, <1>6, <3>5
  <2>3. \A k \in 1 .. N : k - 1 \in K => k \in K
    BY <2>2
  <2> HIDE DEF K
  <2>4. \A k \in 0 .. N : k \in K
    BY <2>1, <2>3, FromZero
  <2> QED
    BY <2>4 DEF K
<1> QED
  BY <1>0, <1>2, <1>4, <1>8, <1>9

(* The updates carry what the configuration joins, each source once, each  *)
(* RP at most once, and every entry carries something.  A group with an RP *)
(* is there, with the RP or without.                                       *)
SoundPacking(cfg, us) ==
  /\ \A e \in AllEntries(us) :
       /\ e.group \in DOMAIN cfg
       /\ SptSources(e) \subseteq 1 .. cfg[e.group].spt
       /\ e.rp => cfg[e.group].rpt
       /\ e.rp \/ SptSources(e) # {}
  /\ \A g \in DOMAIN cfg :
       /\ \A s \in 1 .. cfg[g].spt : \E e \in AllEntries(us) : e.group = g /\ s \in SptSources(e)
       /\ cfg[g].rpt => \E e \in AllEntries(us) : e.group = g
  /\ NothingTwice(us)

(* What is converted are exactly the groups that occur.                    *)
LEMMA EntriesWithin ==
  ASSUME NEW us \in Seq(Seq(Entry))
  PROVE  Within(us, GroupsIn(us))
<1>1. ASSUME NEW k \in 1 .. Len(us), NEW j \in 1 .. Len(us[k])
      PROVE  us[k][j].group \in GroupsIn(us)
  <2>1. us[k] \in Seq(Entry)
    OBVIOUS
  <2>2. k \in DOMAIN us /\ j \in DOMAIN us[k]
    BY <2>1
  <2>3. us[k][j] \in AllEntries(us)
    BY <2>2, AllEntriesFacts
  <2> QED
    BY <2>3, AllEntriesFacts
<1> QED
  BY <1>1 DEF Within

LEMMA Conversion ==
  ASSUME NEW us \in Seq(Seq(Entry))
  PROVE  /\ convertInverseUpdatesToJPConfig(us) \in [GroupsIn(us) -> Converter]
         /\ AllHaveRead(convertInverseUpdatesToJPConfig(us), GroupsIn(us), AllEntries(us))
         /\ NothingTwice(us) => NoneFailed(convertInverseUpdatesToJPConfig(us), GroupsIn(us))
<1> PICK G : G = GroupsIn(us)
  OBVIOUS
<1>1. Within(us, G)
  BY EntriesWithin
<1>2. PICK f \in [0 .. Len(us) -> [G -> Converter]] :
           /\ \A k \in 1 .. Len(us) : f[k] = inverseAddUpdate(f[k - 1], us[k])
           /\ f[Len(us)] = inverseAddUpdates([g \in G |-> InverseGroupEntryConverter], us)
           /\ \A k \in 0 .. Len(us) : AllHaveRead(f[k], G, FirstUpdates(us, k))
           /\ NothingTwice(us) => NoneFailed(f[Len(us)], G)
  BY <1>1, ConversionReads
<1>3. Len(us) \in 0 .. Len(us)
  OBVIOUS
<1>4. f[Len(us)] = convertInverseUpdatesToJPConfig(us)
  BY <1>2, Zenon DEF convertInverseUpdatesToJPConfig
<1> QED
  BY <1>2, <1>3, <1>4 DEF AllEntries

(* What is read back of a sound packing is the configuration.              *)
LEMMA ReadBack ==
  ASSUME NEW cfg \in Seq(GroupConfig), NEW us \in Seq(Seq(Entry)), SoundPacking(cfg, us)
  PROVE  LET c == convertInverseUpdatesToJPConfig(us) IN
           /\ c \in [GroupsIn(us) -> Converter]
           /\ GroupsIn(us) = { g \in DOMAIN cfg : ~EmptyGroup(cfg[g]) }
           /\ \A g \in GroupsIn(us) :
                /\ ~c[g].failed
                /\ c[g].joins = 1 .. cfg[g].spt
                /\ c[g].rp <=> CarriesRp(us, g)
                /\ c[g].rp => cfg[g].rpt
<1> PICK c : c = convertInverseUpdatesToJPConfig(us)
  OBVIOUS
<1>1. /\ c \in [GroupsIn(us) -> Converter]
      /\ AllHaveRead(c, GroupsIn(us), AllEntries(us))
      /\ NoneFailed(c, GroupsIn(us))
  <2>1. NothingTwice(us)
    BY DEF SoundPacking
  <2> QED
    BY <2>1, Conversion
<1>2. AllEntries(us) \in SUBSET Entry
  BY AllEntriesFacts
<1>3. \A g \in DOMAIN cfg : cfg[g] \in GroupConfig
  OBVIOUS
<1>4. \A g \in DOMAIN cfg : cfg[g].spt \in Nat /\ cfg[g].rpt \in BOOLEAN
  BY <1>3 DEF GroupConfig
<1>5. ASSUME NEW g, g \in GroupsIn(us) PROVE g \in DOMAIN cfg /\ ~EmptyGroup(cfg[g])
  <2>1. PICK e \in AllEntries(us) : e.group = g
    BY <1>5, AllEntriesFacts
  <2>2. /\ g \in DOMAIN cfg /\ SptSources(e) \subseteq 1 .. cfg[g].spt
        /\ e.rp => cfg[g].rpt
        /\ e.rp \/ SptSources(e) # {}
    BY <2>1 DEF SoundPacking
  <2> QED
    BY <1>4, <2>2 DEF EmptyGroup
<1>6. ASSUME NEW g \in DOMAIN cfg, ~EmptyGroup(cfg[g]) PROVE g \in GroupsIn(us)
  <2>1. CASE cfg[g].rpt
    <3>1. \E e \in AllEntries(us) : e.group = g
      BY <2>1 DEF SoundPacking
    <3> QED
      BY <3>1, AllEntriesFacts
  <2>2. CASE cfg[g].spt # 0
    <3>1. 1 \in 1 .. cfg[g].spt
      BY <1>4, <2>2
    <3>2. \E e \in AllEntries(us) : e.group = g
      BY <3>1 DEF SoundPacking
    <3> QED
      BY <3>2, AllEntriesFacts
  <2> QED
    BY <1>6, <2>1, <2>2 DEF EmptyGroup
<1>7. ASSUME NEW g \in GroupsIn(us)
      PROVE  /\ ~c[g].failed
             /\ c[g].joins = 1 .. cfg[g].spt
             /\ c[g].rp <=> CarriesRp(us, g)
             /\ c[g].rp => cfg[g].rpt
  <2>1. HasRead(c[g], g, AllEntries(us)) /\ ~c[g].failed /\ g \in DOMAIN cfg
    BY <1>1, <1>5, Zenon DEF AllHaveRead, NoneFailed
  <2>2. c[g] \in Converter
    BY <1>1
  <2>3. /\ \A s : s \in c[g].joins <=> \E e \in AllEntries(us) : e.group = g /\ s \in SptSources(e)
        /\ c[g].rp <=> \E e \in AllEntries(us) : e.group = g /\ e.rp
    BY <2>1, Zenon DEF HasRead
  <2>4. \A s : s \in c[g].joins <=> s \in 1 .. cfg[g].spt
    <3>1. ASSUME NEW s, s \in c[g].joins PROVE s \in 1 .. cfg[g].spt
      <4>1. PICK e \in AllEntries(us) : e.group = g /\ s \in SptSources(e)
        BY <2>3, <3>1
      <4>2. SptSources(e) \subseteq 1 .. cfg[e.group].spt
        BY DEF SoundPacking
      <4> QED
        BY <4>1, <4>2
    <3>2. \A s \in 1 .. cfg[g].spt : \E e \in AllEntries(us) : e.group = g /\ s \in SptSources(e)
      BY <2>1, Zenon DEF SoundPacking
    <3> QED
      BY <2>3, <3>1, <3>2, Zenon
  <2>5. c[g].rp <=> CarriesRp(us, g)
    <3>1. ASSUME NEW e \in AllEntries(us), e.group = g, e.rp PROVE CarriesRp(us, g)
      <4>1. PICK k \in DOMAIN us : \E m \in DOMAIN us[k] : e = us[k][m]
        BY AllEntriesFacts
      <4> QED
        BY <3>1, <4>1 DEF CarriesRp
    <3>2. ASSUME CarriesRp(us, g) PROVE \E e \in AllEntries(us) : e.group = g /\ e.rp
      <4>1. PICK k \in DOMAIN us : \E m \in DOMAIN us[k] : us[k][m].group = g /\ us[k][m].rp
        BY <3>2 DEF CarriesRp
      <4>2. \A m \in DOMAIN us[k] : us[k][m] \in AllEntries(us)
        BY AllEntriesFacts
      <4> QED
        BY <4>1, <4>2
    <3> QED
      BY <2>3, <3>1, <3>2
  <2>6. c[g].rp => cfg[g].rpt
    BY <2>3, Zenon DEF SoundPacking
  <2> QED
    BY <2>1, <2>4, <2>5, <2>6
<1> QED
  BY <1>1, <1>5, <1>6, <1>7

(* verifyInverseUpdates() of a sound packing: only the groups with nothing *)
(* to join and the RPs that are not pruned are reported.                   *)
LEMMA SoundVerdict ==
  ASSUME NEW cfg \in Seq(GroupConfig), NEW us \in Seq(Seq(Entry)), SoundPacking(cfg, us)
  PROVE  verifyInverseUpdates(cfg, us) =
           { Complaint(g, "missing group") : g \in { h \in DOMAIN cfg : EmptyGroup(cfg[h]) } }
             \cup { Complaint(g, "no RPT") : g \in
                      { h \in DOMAIN cfg : cfg[h].rpt /\ ~CarriesRp(us, h) } }
<1> PICK c : c = convertInverseUpdatesToJPConfig(us)
  OBVIOUS
<1> PICK G : G = GroupsIn(us)
  OBVIOUS
<1>1. /\ c \in [G -> Converter]
      /\ G = { g \in DOMAIN cfg : ~EmptyGroup(cfg[g]) }
      /\ \A g \in G : /\ ~c[g].failed
                      /\ c[g].joins = 1 .. cfg[g].spt
                      /\ c[g].rp <=> CarriesRp(us, g)
                      /\ c[g].rp => cfg[g].rpt
  BY ReadBack
<1>2. DOMAIN c = G /\ { g \in DOMAIN c : c[g].failed } = {}
  BY <1>1
<1>3. verifyInverseUpdates(cfg, us) = compareInverseJPConfigs(cfg, c)
  BY <1>2 DEF verifyInverseUpdates
<1>4. ASSUME NEW g \in G
      PROVE  inverseCompare(g, cfg[g], c[g]) =
               Report(cfg[g].rpt /\ ~CarriesRp(us, g), g, "no RPT")
  <2> PICK a, b, r : a = cfg[g] /\ b = c[g] /\ r = CarriesRp(us, g)
    OBVIOUS
  <2>1. b.joins = 1 .. a.spt /\ (b.rp <=> r) /\ (b.rp => a.rpt)
    BY <1>1, <1>4
  <2>2. inverseCompare(g, a, b) = Report(a.rpt /\ ~r, g, "no RPT")
    BY <2>1 DEF inverseCompare, compareAddrSets, Report
  <2> QED
    BY <2>2
<1>5. DOMAIN cfg \cap DOMAIN c = G
  BY <1>1, <1>2
<1>6. UNION { inverseCompare(g, cfg[g], c[g]) : g \in DOMAIN cfg \cap DOMAIN c } =
        { Complaint(g, "no RPT") : g \in
            { h \in DOMAIN cfg : cfg[h].rpt /\ ~CarriesRp(us, h) } }
  <2>1. \A h \in DOMAIN cfg : cfg[h].rpt => h \in G
    BY <1>1 DEF EmptyGroup
  <2>2. \A x : x \in UNION { inverseCompare(g, cfg[g], c[g]) : g \in G } <=>
          \E g \in G : x \in inverseCompare(g, cfg[g], c[g])
    OBVIOUS
  <2>3. \A x : x \in UNION { inverseCompare(g, cfg[g], c[g]) : g \in G } <=>
          \E g \in G : cfg[g].rpt /\ ~CarriesRp(us, g) /\ x = Complaint(g, "no RPT")
    <3>1. \A x, g : g \in G => (x \in inverseCompare(g, cfg[g], c[g]) <=>
            cfg[g].rpt /\ ~CarriesRp(us, g) /\ x = Complaint(g, "no RPT"))
      BY <1>4, Zenon DEF Report
    <3> QED
      BY <2>2, <3>1, Zenon
  <2>4. \A x : x \in { Complaint(g, "no RPT") : g \in
                        { h \in DOMAIN cfg : cfg[h].rpt /\ ~CarriesRp(us, h) } } <=>
          \E g \in DOMAIN cfg : cfg[g].rpt /\ ~CarriesRp(us, g) /\ x = Complaint(g, "no RPT")
    BY Zenon
  <2>5. G \subseteq DOMAIN cfg
    BY <1>5
  <2>6. \A x : x \in UNION { inverseCompare(g, cfg[g], c[g]) : g \in G } <=>
          x \in { Complaint(g, "no RPT") : g \in
                  { h \in DOMAIN cfg : cfg[h].rpt /\ ~CarriesRp(us, h) } }
    BY <2>1, <2>3, <2>4, <2>5, Zenon
  <2> QED
    BY <1>5, <2>6, Zenon
<1>7. DOMAIN cfg \ DOMAIN c = { h \in DOMAIN cfg : EmptyGroup(cfg[h]) } /\ DOMAIN c \ DOMAIN cfg = {}
  BY <1>1, <1>2
<1>8. groupComplaints(cfg, c) =
        { Complaint(g, "missing group") : g \in { h \in DOMAIN cfg : EmptyGroup(cfg[h]) } }
  BY <1>7 DEF groupComplaints, compareAddrSets
<1> QED
  BY <1>3, <1>6, <1>8 DEF compareInverseJPConfigs

(* An update lost to one entry: what the entry carried is missing.         *)
LEMMA LossNoticed ==
  ASSUME NEW cfg \in Seq(GroupConfig), NEW us \in Seq(Seq(Entry)), SoundPacking(cfg, us),
         NEW k \in DOMAIN us, NEW j \in DOMAIN us[k]
  PROVE  verifyInverseUpdates(cfg, Without(us, k, j)) # {}
<1>0. PICK w, e, g, c : /\ w = Without(us, k, j) /\ e = us[k][j] /\ g = e.group
                        /\ c = convertInverseUpdatesToJPConfig(w)
  OBVIOUS
<1>1. /\ w \in Seq(Seq(Entry))
      /\ \A d \in AllEntries(w) : \E l \in DOMAIN us : \E i0 \in DOMAIN us[l] :
           d = us[l][i0] /\ (l # k \/ i0 # j)
  BY <1>0, WithoutFacts
<1>2. e \in AllEntries(us) /\ AllEntries(us) \in SUBSET Entry
  BY <1>0, AllEntriesFacts
<1>3. \A d \in AllEntries(w) : d \in AllEntries(us) /\ Apart(d, e)
  <2>1. SUFFICES ASSUME NEW d \in AllEntries(w) PROVE d \in AllEntries(us) /\ Apart(d, e)
    OBVIOUS
  <2>2. PICK l \in DOMAIN us : \E i0 \in DOMAIN us[l] : d = us[l][i0] /\ (l # k \/ i0 # j)
    BY <1>1
  <2>3. PICK i0 \in DOMAIN us[l] : d = us[l][i0] /\ (l # k \/ i0 # j)
    BY <2>2
  <2>4. d \in AllEntries(us)
    BY <2>3, AllEntriesFacts
  <2>5. NothingTwice(us)
    BY DEF SoundPacking
  <2>6. Apart(us[l][i0], us[k][j])
    BY <2>3, <2>5, Zenon DEF NothingTwice
  <2> QED
    BY <1>0, <2>3, <2>4, <2>6
<1>5. /\ c \in [GroupsIn(w) -> Converter]
      /\ AllHaveRead(c, GroupsIn(w), AllEntries(w))
  BY <1>0, <1>1, Conversion
<1>6. /\ g \in DOMAIN cfg
      /\ SptSources(e) \subseteq 1 .. cfg[g].spt
      /\ e.rp => cfg[g].rpt
      /\ e.rp \/ SptSources(e) # {}
  BY <1>0, <1>2, Zenon DEF SoundPacking
<1>7. CASE { h \in DOMAIN c : c[h].failed } # {}
  <2>1. verifyInverseUpdates(cfg, w) = { Complaint(h, "failed") : h \in { h \in DOMAIN c : c[h].failed } }
    BY <1>0, <1>7 DEF verifyInverseUpdates
  <2> QED
    BY <1>0, <1>7, <2>1
<1>8. CASE { h \in DOMAIN c : c[h].failed } = {}
  <2>1. verifyInverseUpdates(cfg, w) = compareInverseJPConfigs(cfg, c)
    BY <1>0, <1>8 DEF verifyInverseUpdates
  <2>2. CASE g \notin DOMAIN c
    <3>1. Complaint(g, "missing group") \in groupComplaints(cfg, c)
      BY <1>6, <2>2 DEF groupComplaints, compareAddrSets
    <3> QED
      BY <1>0, <2>1, <3>1 DEF compareInverseJPConfigs
  <2>3. CASE g \in DOMAIN c
    <3> PICK a, b : a = cfg[g] /\ b = c[g]
      OBVIOUS
    <3>1. HasRead(b, g, AllEntries(w))
      BY <1>5, <2>3 DEF AllHaveRead
    <3>2. SUFFICES inverseCompare(g, a, b) # {}
      <4>1. inverseCompare(g, cfg[g], c[g]) \in { inverseCompare(h, cfg[h], c[h]) : h \in DOMAIN cfg \cap DOMAIN c }
        BY <1>6, <2>3
      <4> QED
        BY <1>0, <2>1, <3>2, <4>1 DEF compareInverseJPConfigs
    <3>3. CASE e.rp
      <4>1. ~b.rp
        <5>1. \A d \in AllEntries(w) : ~(d.group = g /\ d.rp)
          BY <1>0, <1>3, <3>3, Zenon DEF Apart
        <5> QED
          BY <3>1, <5>1, Zenon DEF HasRead
      <4>2. a.rpt
        BY <1>6, <3>3
      <4>3. Complaint(g, "no RPT") \in inverseCompare(g, a, b)
        BY <4>1, <4>2 DEF inverseCompare, Report
      <4> QED
        BY <4>3
    <3>4. CASE SptSources(e) # {}
      <4>1. PICK s : s \in SptSources(e)
        BY <3>4
      <4>2. s \notin b.joins
        <5>1. \A d \in AllEntries(w) : ~(d.group = g /\ s \in SptSources(d))
          <6>1. \A d \in AllEntries(w) : d.group = g => SptSources(d) \cap SptSources(e) = {}
            BY <1>0, <1>3, Zenon DEF Apart
          <6> QED
            BY <4>1, <6>1, Zenon
        <5> QED
          BY <3>1, <5>1, Zenon DEF HasRead
      <4>3. (1 .. a.spt) \ b.joins # {}
        BY <1>6, <4>1, <4>2
      <4>4. Complaint(g, "missing SPT joins") \in inverseCompare(g, a, b)
        BY <4>3 DEF inverseCompare, Report, compareAddrSets
      <4> QED
        BY <4>4
    <3> QED
      BY <1>6, <3>3, <3>4
  <2> QED
    BY <2>2, <2>3
<1> QED
  BY <1>7, <1>8

(* An update of one entry is read like that entry.                         *)
LEMMA SingleRead ==
  ASSUME NEW G, NEW m \in [G -> Converter], NEW u \in Seq(Entry), Len(u) = 1,
         \A k \in 1 .. Len(u) : u[k].group \in G
  PROVE  inverseAddUpdate(m, u) = inverseAddEntry(m, u[1])
<1>2. PICK f \in [0 .. Len(u) -> [G -> Converter]] :
        /\ f[0] = m
        /\ \A k \in 1 .. Len(u) : f[k] = inverseAddEntry(f[k - 1], u[k])
        /\ f[Len(u)] = inverseAddUpdate(m, u)
  BY UpdateRead
<1>3. f[1] = inverseAddEntry(f[0], u[1])
  <2>1. 1 \in 1 .. Len(u) /\ 1 - 1 = 0
    OBVIOUS
  <2> QED
    BY <1>2, <2>1
<1> QED
  BY <1>2, <1>3

(* An entry repeated: its converter has read what it carries before.       *)
LEMMA RepeatNoticed ==
  ASSUME NEW cfg \in Seq(GroupConfig), NEW us \in Seq(Seq(Entry)), SoundPacking(cfg, us),
         NEW k \in DOMAIN us, NEW j \in DOMAIN us[k]
  PROVE  verifyInverseUpdates(cfg, Doubled(us, k, j)) # {}
<1>0. PICK w, e, g, c : /\ w = Doubled(us, k, j) /\ e = us[k][j] /\ g = e.group
                        /\ c = convertInverseUpdatesToJPConfig(w)
  OBVIOUS
<1>n. PICK N \in Nat : N = Len(us)
  OBVIOUS
<1>g. PICK G : G = GroupsIn(w)
  OBVIOUS
<1>1. /\ w \in Seq(Seq(Entry)) /\ Len(w) = N + 1 /\ w[N + 1] = << e >>
      /\ e \in FirstUpdates(w, N)
      /\ AllEntries(w) = AllEntries(us)
  BY <1>0, <1>n, DoubledFacts
<1>2. e \in AllEntries(us) /\ AllEntries(us) \in SUBSET Entry
  BY <1>0, AllEntriesFacts
<1>3. e \in Entry /\ g \in G /\ e.group = g /\ (e.rp \/ SptSources(e) # {})
  <2>1. e.rp \/ SptSources(e) # {}
    BY <1>2, Zenon DEF SoundPacking
  <2>2. g \in GroupsIn(w)
    BY <1>0, <1>1, <1>2, AllEntriesFacts
  <2> QED
    BY <1>0, <1>2, <1>g, <2>1, <2>2
<1>4. Within(w, G)
  BY <1>1, <1>g, EntriesWithin
<1>5. PICK f \in [0 .. Len(w) -> [G -> Converter]] :
           /\ \A l \in 1 .. Len(w) : f[l] = inverseAddUpdate(f[l - 1], w[l])
           /\ f[Len(w)] = inverseAddUpdates([h \in G |-> InverseGroupEntryConverter], w)
           /\ \A l \in 0 .. Len(w) : AllHaveRead(f[l], G, FirstUpdates(w, l))
           /\ NothingTwice(w) => NoneFailed(f[Len(w)], G)
  BY <1>1, <1>4, ConversionReads
<1>6. N + 1 \in 1 .. Len(w) /\ (N + 1) - 1 = N /\ N \in 0 .. Len(w) /\ N + 1 = Len(w)
  BY <1>1
<1>7. f[N] \in [G -> Converter] /\ AllHaveRead(f[N], G, FirstUpdates(w, N))
  BY <1>5, <1>6
<1>8. c = inverseAddEntry(f[N], e)
  <2>1. f[N + 1] = inverseAddUpdate(f[N], << e >>)
    BY <1>1, <1>5, <1>6
  <2>2. inverseAddUpdate(f[N], << e >>) = inverseAddEntry(f[N], e)
    <3>0. PICK u : u = << e >>
      OBVIOUS
    <3>1. u \in Seq(Entry) /\ Len(u) = 1 /\ u[1] = e /\ \A l \in 1 .. Len(u) : u[l].group \in G
      BY <1>3, <3>0
    <3>2. inverseAddUpdate(f[N], u) = inverseAddEntry(f[N], u[1])
      BY <1>7, <3>1, SingleRead
    <3> QED
      BY <3>0, <3>1, <3>2
  <2>3. c = f[N + 1]
    BY <1>0, <1>5, <1>6, <1>g DEF convertInverseUpdatesToJPConfig
  <2> QED
    BY <2>1, <2>2, <2>3
<1>b. PICK b : b = f[N][g]
  OBVIOUS
<1>9. c \in [G -> Converter] /\ c[g] = inverseAdd(b, e)
  <2>m. PICK m \in [G -> Converter] : m = f[N]
    BY <1>7
  <2>0. m \in [G -> Converter] /\ e \in Entry /\ e.group \in G
    BY <1>3
  <2>1. inverseAddEntry(m, e) \in [G -> Converter]
    BY <2>0, AddEntryFacts
  <2>2. inverseAddEntry(m, e)[e.group] = inverseAdd(m[e.group], e)
    BY <2>0, AddEntryFacts
  <2> QED
    BY <1>3, <1>8, <1>b, <2>1, <2>2, <2>m
<1>10. HasRead(b, g, FirstUpdates(w, N))
  BY <1>3, <1>7, <1>b DEF AllHaveRead
<1>11. inverseAdd(b, e).failed
  <2>1. CASE e.rp
    <3>1. b.rp
      BY <1>1, <1>3, <1>10, <2>1, Zenon DEF HasRead
    <3> QED
      BY <2>1, <3>1 DEF inverseAdd
  <2>2. CASE SptSources(e) # {}
    <3>1. PICK s : s \in SptSources(e)
      BY <2>2
    <3>2. s \in b.joins
      BY <1>1, <1>3, <1>10, <3>1, Zenon DEF HasRead
    <3>3. b.joins \cap SptSources(e) # {}
      BY <3>1, <3>2
    <3> QED
      BY <3>3 DEF inverseAdd
  <2> QED
    BY <1>3, <2>1, <2>2
<1>12. g \in { h \in DOMAIN c : c[h].failed }
  BY <1>3, <1>9, <1>11
<1>13. verifyInverseUpdates(cfg, w) = { Complaint(h, "failed") : h \in { h \in DOMAIN c : c[h].failed } }
  BY <1>0, <1>12 DEF verifyInverseUpdates
<1> QED
  BY <1>0, <1>12, <1>13

(* verifyInverseUpdates() is exact on a sound packing and tells it from    *)
(* each update with one entry lost or repeated.                            *)
LEMMA ExactVerdict ==
  ASSUME NEW cfg \in Seq(GroupConfig), NEW us \in Seq(Seq(Entry)), SoundPacking(cfg, us)
  PROVE  NoticesTampering(verifyInverseUpdates, cfg, us)
<1>1. ASSUME NEW k \in DOMAIN us, NEW m \in DOMAIN us[k]
      PROVE  /\ verifyInverseUpdates(cfg, Without(us, k, m)) # {}
             /\ verifyInverseUpdates(cfg, Doubled(us, k, m)) # {}
  BY LossNoticed, RepeatNoticed
<1> QED
  BY <1>1, Zenon DEF NoticesTampering

(* What inversePack() returns is a sound packing; a group whose RP it lost *)
(* is there, since the RP is lost only beside the group's first SPT prune. *)
LEMMA PackedSoundly ==
  ASSUME IInv, pc = "done"
  PROVE  SoundPacking(jpCfg, updates)
<1>1. updates \in Seq(Seq(Entry)) /\ jpCfg \in Seq(GroupConfig)
  BY DEF IInv, TypeOK
<1>2. /\ SptLossless /\ RPLostOnlyInOneSlot
      /\ \A k \in DOMAIN updates : updates[k] # << >>
      /\ \A k \in DOMAIN updates : \A m \in DOMAIN updates[k] :
           CarriesSomething(updates[k][m])
  BY DEF IInv, ResultInv
<1>3. \A d : d \in AllEntries(updates) <=>
        \E k \in DOMAIN updates : \E m \in DOMAIN updates[k] : d = updates[k][m]
  BY <1>1, AllEntriesFacts
<1>4. ASSUME NEW e \in AllEntries(updates)
      PROVE  /\ e.group \in DOMAIN jpCfg
             /\ SptSources(e) \subseteq 1 .. jpCfg[e.group].spt
             /\ e.rp => jpCfg[e.group].rpt
             /\ e.rp \/ SptSources(e) # {}
  <2>1. PICK k \in DOMAIN updates : \E m \in DOMAIN updates[k] : e = updates[k][m]
    BY <1>3
  <2>2. PICK m \in DOMAIN updates[k] : e = updates[k][m]
    BY <2>1
  <2>3. CarriesSomething(e)
    BY <1>2, <2>2
  <2> QED
    BY <1>2, <2>2, <2>3 DEF SptLossless, CarriesSomething
<1>5. ASSUME NEW g \in DOMAIN jpCfg, NEW s \in 1 .. jpCfg[g].spt
      PROVE  \E e \in AllEntries(updates) : e.group = g /\ s \in SptSources(e)
  <2>1. CarriesSource(updates, g, s)
    BY <1>2 DEF SptLossless
  <2>2. PICK k \in DOMAIN updates : \E m \in DOMAIN updates[k] :
          updates[k][m].group = g /\ s \in SptSources(updates[k][m])
    BY <2>1 DEF CarriesSource
  <2> QED
    BY <1>3, <2>2
<1>6. ASSUME NEW g \in DOMAIN jpCfg, jpCfg[g].rpt
      PROVE  \E e \in AllEntries(updates) : e.group = g
  <2>1. CASE CarriesRp(updates, g)
    <3>1. PICK k \in DOMAIN updates : \E m \in DOMAIN updates[k] : updates[k][m].group = g
      BY <2>1 DEF CarriesRp
    <3> QED
      BY <1>3, <3>1
  <2>2. CASE ~CarriesRp(updates, g)
    <3>1. PICK k \in DOMAIN updates : updates[k][Len(updates[k])].group = g
      BY <1>2, <1>6, <2>2 DEF RPLostOnlyInOneSlot
    <3>2. updates[k] \in Seq(Entry) /\ updates[k] # << >>
      BY <1>1, <1>2
    <3>3. Len(updates[k]) \in DOMAIN updates[k]
      BY <3>2
    <3> QED
      BY <1>3, <3>1, <3>3
  <2> QED
    BY <2>1, <2>2
<1>7. NothingTwice(updates)
  BY <1>2 DEF SptLossless
<1> QED
  BY <1>4, <1>5, <1>6, <1>7 DEF SoundPacking

(* For every configuration and all sizes verifyInverseUpdates()            *)
(* (InversePackSanityCheck.hpp:208-228) reports of what inversePack()      *)
(* returns the groups with nothing to join and the RPs that are not pruned *)
(* and nothing else, and it notices each single entry taken out or         *)
(* repeated.                                                               *)
THEOREM InverseVerifyTheorem == Spec => []InverseVerifyExact
<1>1. ASSUME IInv PROVE InverseVerifyExact
  <2>1. SUFFICES ASSUME pc = "done"
                 PROVE  /\ verifyInverseUpdates(jpCfg, updates) =
                             { Complaint(g, "missing group") :
                                 g \in { h \in DOMAIN jpCfg : EmptyGroup(jpCfg[h]) } }
                               \cup { Complaint(g, "no RPT") : g \in
                                       { h \in DOMAIN jpCfg :
                                           jpCfg[h].rpt /\ ~CarriesRp(updates, h) } }
                        /\ NoticesTampering(verifyInverseUpdates, jpCfg, updates)
    BY Zenon DEF InverseVerifyExact
  <2>2. /\ jpCfg \in Seq(GroupConfig) /\ updates \in Seq(Seq(Entry))
        /\ SoundPacking(jpCfg, updates)
    BY <1>1, <2>1, PackedSoundly DEF IInv, TypeOK
  <2> QED
    BY <2>2, SoundVerdict, ExactVerdict, Zenon
<1>2. IInv => InverseVerifyExact
  BY <1>1
<1> QED
  BY <1>2, Invariance, PTL
=============================================================================
