----------------------------- MODULE PackProofs -----------------------------
(***************************************************************************)
(* Theorems about Pack: its type invariant and its safety properties hold  *)
(* for all sizes and for every configuration.                              *)
(*                                                                         *)
(* The inductive invariant IInv adds to the properties what connects the   *)
(* queue to the position of the packer: an update without entries has size *)
(* 0; the updates the cursor has left behind are full as long as joins     *)
(* remain; the group being fitted occurs only behind the cursor; the       *)
(* reserved update is not behind it; what has been placed of the group is  *)
(* exactly its first srci joins and, once rptUb is 0, its RPT part.        *)
(*                                                                         *)
(* The verdict of verifyUpdates() (VerifyUpdatesExact) follows from what   *)
(* the updates are when pack() returns, SoundPacking: after any number of  *)
(* entries each converter has read exactly what they say of its group.     *)
(***************************************************************************)
EXTENDS MCPack, UpdateBuildersLemmas

(* The cursor and the reservation are where the code can use them.         *)
PositionInv ==
  /\ pc \in {"findRptUb", "fitGroup"} => gi \in DOMAIN jpCfg /\ start <= i
  /\ pc = "findRptUb" => Group.rpt /\ srci = 0
  /\ pc = "fitGroup" => srci <= Group.spt
  /\ pc = "fitGroup" /\ rptUb # 0 =>
       /\ i <= rptUb
       /\ Group.rpt
       /\ RptSize(Group.prunes) <= Remaining(ubq[rptUb])

(* All joins before the cursor's update are in full updates.               *)
FullInv ==
  /\ FullBefore(ubq, start)
  /\ pc = "fitGroup" /\ srci < Group.spt => FullBefore(ubq, i)

(* The groups of updates k0, k0+1, ... of the queue come before g.         *)
GroupsBelow(q, k0, g) == \A e \in EntriesFrom(q, k0) : e.group < g

GroupsInv ==
  /\ GroupsBelow(ubq, 1, gi + 1)
  /\ pc \in {"group", "findRptUb"} => GroupsBelow(ubq, 1, gi)
  /\ pc = "fitGroup" => GroupsBelow(ubq, i, gi)

(* An entry carries something, and nothing its group is not configured     *)
(* with.                                                                   *)
SoundEntry(e) ==
  /\ CarriesSomething(e)
  /\ e.group \in DOMAIN jpCfg
  /\ SptSources(e) \subseteq 1 .. jpCfg[e.group].spt
  /\ e.rp => jpCfg[e.group].rpt
  /\ e.prunes = IF e.rp THEN jpCfg[e.group].prunes ELSE 0

(* The first n joins of group g have been placed.                          *)
JoinsPlaced(q, g, n) ==
  \A s \in 1 .. n : \E e \in Entries(q) : e.group = g /\ s \in SptSources(e)

RptPlaced(q, g) == \E e \in Entries(q) : e.group = g /\ e.rp

(* Of the group being fitted nothing has been placed that is still to come.*)
NotYet(e) == e.group = gi => e.last <= srci /\ (e.rp => rptUb = 0)

ContentInv ==
  /\ \A e \in Entries(ubq) : SoundEntry(e)
  /\ \A g \in DOMAIN jpCfg : g < gi =>
       /\ JoinsPlaced(ubq, g, jpCfg[g].spt)
       /\ jpCfg[g].rpt => RptPlaced(ubq, g)
  /\ pc = "fitGroup" =>
       /\ JoinsPlaced(ubq, gi, srci)
       /\ Group.rpt /\ rptUb = 0 => RptPlaced(ubq, gi)
       /\ \A e \in Entries(ubq) : NotYet(e)

(* What pack() returns has no empty update and no empty entry, and is      *)
(* lossless.                                                               *)
ResultInv ==
  /\ \A k \in DOMAIN updates : updates[k] # << >>
  /\ \A k \in DOMAIN updates : \A m \in DOMAIN updates[k] :
       CarriesSomething(updates[k][m])
  /\ Lossless

IInv ==
  /\ TypeOK
  /\ pc # "raised"
  /\ QueueOK(ubq)
  /\ PositionInv
  /\ FullInv
  /\ GroupsInv
  /\ ContentInv
  /\ ResultInv
-----------------------------------------------------------------------------
(***************************************************************************)
(* The entry that is added next                                            *)
(***************************************************************************)

LEMMA GroupFacts ==
  ASSUME TypeOK, gi \in DOMAIN jpCfg
  PROVE  /\ Group.spt \in Nat /\ Group.rpt \in BOOLEAN
         /\ Group.prunes \in Nat /\ Group.prunes <= MaxPruneSGrptLen
<1>1. Group \in GroupConfig
  BY DEF TypeOK, Group
<1> QED
  BY <1>1, ConfigsAssumption DEF GroupConfig

(* The entry carries the next n joins; its size (GroupEntryBuilderImpl::   *)
(* size(), Pack.hpp:42-45) counts them and the RPT part.                   *)
LEMMA NextEntryFacts ==
  ASSUME TypeOK, gi \in DOMAIN jpCfg, NEW n \in Nat, NEW withRpt \in BOOLEAN
  PROVE  LET e == NextEntry(n, withRpt)
             rptSize == IF withRpt THEN SrcASize * (Group.prunes + 1) ELSE 0
         IN  /\ e \in Entry
             /\ e.group = gi
             /\ SptSources(e) = srci + 1 .. srci + n
             /\ e.last = srci + n
             /\ e.rp = withRpt
             /\ e.prunes = IF withRpt THEN Group.prunes ELSE 0
             /\ EntrySize(e) \in Nat /\ EntrySize(e) > 0
             /\ EntrySize(e) = GrpHdrSize + SrcASize * n + rptSize
<1> DEFINE e == NextEntry(n, withRpt)
           extra == IF withRpt THEN Group.prunes + 1 ELSE 0
<1>1. Group.prunes \in Nat
  BY GroupFacts
<1>2. srci \in Nat /\ gi \in Nat \ {0}
  BY DEF TypeOK
<1>3. /\ e \in Entry
      /\ e.group = gi
      /\ e.first = srci + 1
      /\ e.last = srci + n
      /\ e.rp = withRpt
      /\ e.prunes = IF withRpt THEN Group.prunes ELSE 0
  BY <1>1, <1>2 DEF NextEntry, Entry
<1> HIDE DEF e
<1>4. SourceCount(e) = n + extra
  BY <1>1, <1>2, <1>3 DEF SourceCount
<1>5. SrcASize * (n + extra) = SrcASize * n + SrcASize * extra
  BY <1>1, TimesDistributes, SizesAssumption
<1>6. SrcASize * n \in Nat /\ SrcASize * extra \in Nat
  BY <1>1, SizesAssumption
<1>7. SrcASize * 0 = 0
  BY SizesAssumption
<1> QED
  BY <1>3, <1>4, <1>5, <1>6, <1>7, SizesAssumption
     DEF EntrySize, SptSources, e
-----------------------------------------------------------------------------
(***************************************************************************)
(* The steps, one lemma for each                                           *)
(***************************************************************************)

(* Both ways the loop of fitGroup() adds an entry (Pack.hpp:140-169): n of *)
(* the joins left, and the RPT part exactly at rptUb.  The entry fits, and *)
(* when joins remain it leaves no room for one more source.                *)
LEMMA AddStep ==
  ASSUME IInv,
         pc = "fitGroup", srci < Group.spt,
         NEW n \in Nat, n <= Group.spt - srci,
         NEW withRpt \in BOOLEAN, withRpt <=> i = rptUb,
         withRpt \/ n # 0,
         EntrySize(NextEntry(n, withRpt)) <= Remaining(ubq[i]),
         n < Group.spt - srci =>
           Remaining(ubq[i]) - EntrySize(NextEntry(n, withRpt)) < SrcASize,
         AddAndAdvance(n, withRpt),
         rptUb' = IF withRpt THEN 0 ELSE rptUb,
         UNCHANGED <<jpCfg, gi, updates>>
  PROVE  IInv'
<1> DEFINE e == NextEntry(n, withRpt)
           q == Store(ubq, i, e)
<1>1. /\ gi \in DOMAIN jpCfg /\ start <= i
      /\ rptUb # 0 => i <= rptUb /\ Group.rpt
                       /\ RptSize(Group.prunes) <= Remaining(ubq[rptUb])
  BY DEF IInv, PositionInv
<1>2. /\ Group.spt \in Nat /\ Group.rpt \in BOOLEAN /\ Group.prunes \in Nat
  BY <1>1, GroupFacts DEF IInv
<1>3. /\ e \in Entry
      /\ e.group = gi
      /\ SptSources(e) = srci + 1 .. srci + n
      /\ e.last = srci + n
      /\ e.rp = withRpt
      /\ e.prunes = IF withRpt THEN Group.prunes ELSE 0
      /\ EntrySize(e) \in Nat /\ EntrySize(e) > 0
  BY <1>1, NextEntryFacts DEF IInv
<1>4. /\ ubq \in Seq(Builder) /\ i \in DOMAIN ubq /\ ubq[i] \in Builder
      /\ srci \in Nat /\ gi \in Nat /\ start \in Nat \ {0} /\ i \in Nat \ {0}
      /\ rptUb \in 0 .. Len(ubq)
  BY DEF IInv, TypeOK
<1> HIDE DEF e
<1>5. ubq[i].size \in Nat /\ ubq[i].size <= JPCapacity
      /\ Remaining(ubq[i]) = JPCapacity - ubq[i].size
  BY <1>4, RemainingFacts DEF IInv, QueueOK, Sized, Builder
<1>6. ~Overflows(ubq[i], e)
  BY <1>3, <1>5, SizesAssumption DEF Overflows, e
<1>7. /\ ubq' = Grown(q, i + 1)
      /\ start' \in NewStarts(q, start, i)
      /\ i' = i + 1
      /\ srci' = srci + n
      /\ pc' = "fitGroup"
  BY <1>6 DEF AddAndAdvance, e
<1>8. FullBefore(ubq, start) /\ FullBefore(ubq, i)
  BY DEF IInv, FullInv
<1>9. /\ q \in Seq(Builder)
      /\ Len(q) = Len(ubq) /\ DOMAIN q = DOMAIN ubq
      /\ \A k \in DOMAIN ubq : k # i => q[k] = ubq[k]
      /\ q[i].size = ubq[i].size + EntrySize(e)
      /\ q[i].entries = Append(ubq[i].entries, e)
  BY <1>3, <1>4, StoreFacts
<1>10. \A f \in Entries(ubq) : Apart(e, f)
  <2>1. SUFFICES ASSUME NEW f \in Entries(ubq), f.group = gi
                 PROVE  SptSources(e) \cap SptSources(f) = {} /\ ~(e.rp /\ f.rp)
    BY <1>3 DEF Apart
  <2>2. f.last <= srci /\ (f.rp => rptUb = 0)
    BY <2>1 DEF IInv, ContentInv, NotYet
  <2>3. f \in Entry
    BY <1>4, EntriesFacts DEF Entries
  <2>4. f.first \in Nat /\ f.last \in Nat
    BY <2>3 DEF Entry
  <2>5. SptSources(e) \cap SptSources(f) = {}
    <3>1. f.last <= srci /\ SptSources(f) = f.first .. f.last
      BY <2>2 DEF SptSources
    <3>2. SptSources(e) = srci + 1 .. srci + n
      BY <1>3
    <3> QED
      BY <1>4, <2>4, <3>1, <3>2
  <2>6. e.rp => rptUb # 0
    BY <1>3, <1>4
  <2> QED
    BY <2>2, <2>5, <2>6
<1>11. \A m \in DOMAIN ubq[i].entries : ubq[i].entries[m].group < e.group
  <2>1. GroupsBelow(ubq, i, gi)
    BY DEF IInv, GroupsInv
  <2>2. \A m \in DOMAIN ubq[i].entries : ubq[i].entries[m] \in EntriesFrom(ubq, i)
    BY <1>4 DEF EntriesFrom
  <2> QED
    BY <1>3, <2>1, <2>2 DEF GroupsBelow
<1>12. QueueOK(q)
  BY <1>3, <1>4, <1>6, <1>8, <1>10, <1>11, StoreKeepsOrder DEF IInv
<1>13. i + 1 \in 1 .. Len(q) + 1
  BY <1>4, <1>9
<1>14. i + 1 = Len(q) + 1 => q[Len(q)].entries # << >>
  <2>1. ubq[i].entries \in Seq(Entry)
    BY <1>4 DEF Builder
  <2>2. Append(ubq[i].entries, e) # << >>
    BY <1>3, <2>1, AppendFacts
  <2> QED
    BY <1>4, <1>9, <2>2
<1>15. /\ QueueOK(ubq')
       /\ \A k0 \in Nat : EntriesFrom(ubq', k0) = EntriesFrom(q, k0)
       /\ \A k \in 1 .. Len(q) + 1 : FullBefore(q, k) => FullBefore(ubq', k)
  BY <1>7, <1>12, <1>13, <1>14, GrownKeepsOrder
<1>16. /\ ubq' \in Seq(Builder)
       /\ Len(q) \in Nat /\ Len(ubq') \in Nat /\ Len(q) <= Len(ubq')
       /\ DOMAIN q = 1 .. Len(q) /\ DOMAIN ubq' = 1 .. Len(ubq')
       /\ i + 1 \in DOMAIN ubq'
       /\ \A k \in DOMAIN q : ubq'[k] = q[k]
  BY <1>7, <1>9, <1>13, GrownFacts
<1>17. \A k \in DOMAIN ubq : FullBefore(ubq, k) => FullBefore(q, k)
  <2>1. SUFFICES ASSUME NEW k \in DOMAIN ubq, FullBefore(ubq, k),
                        NEW j \in 1 .. k - 1
                 PROVE  Full(q[j])
    BY DEF FullBefore
  <2>2. j \in DOMAIN ubq /\ Full(ubq[j])
    BY <1>4, <2>1 DEF FullBefore
  <2> QED
    BY <1>3, <1>4, <1>6, <2>2, StoreKeepsFull DEF IInv, QueueOK
<1>18. start' \in 1 .. i /\ FullBefore(q, start')
  <2>1. FullBefore(q, start)
    BY <1>1, <1>4, <1>8, <1>17
  <2>2. start \in 1 .. i
    BY <1>1, <1>4
  <2> QED
    BY <1>4, <1>7, <1>9, <2>1, <2>2, NewStartsFacts
<1> HIDE DEF q
<1>19. TypeOK'
  BY <1>4, <1>7, <1>9, <1>16, <1>18 DEF IInv, TypeOK
<1>20. Group' = Group
  BY DEF Group
<1>21. PositionInv'
  <2>1. gi' \in DOMAIN jpCfg' /\ start' <= i'
    BY <1>1, <1>4, <1>7, <1>18
  <2>2. srci' <= Group'.spt
    BY <1>2, <1>4, <1>7, <1>20
  <2>3. ASSUME rptUb' # 0
        PROVE  /\ i' <= rptUb'
               /\ Group'.rpt
               /\ RptSize(Group'.prunes) <= Remaining(ubq'[rptUb'])
    <3>1. rptUb' = rptUb /\ i # rptUb /\ rptUb # 0
      BY <2>3
    <3>2. ubq'[rptUb] = ubq[rptUb]
      BY <1>4, <1>9, <1>16, <3>1
    <3> QED
      BY <1>1, <1>4, <1>7, <1>20, <3>1, <3>2
  <2> QED
    BY <1>7, <2>1, <2>2, <2>3, <1>20 DEF PositionInv
<1>22. FullInv'
  <2>1. FullBefore(ubq', start')
    BY <1>4, <1>9, <1>15, <1>18
  <2>2. ASSUME srci' < Group'.spt
        PROVE  FullBefore(ubq', i')
    <3>1. n < Group.spt - srci
      BY <1>2, <1>4, <1>7, <1>20, <2>2
    <3>2. Full(q[i])
      <4>1. q[i] \in Builder
        BY <1>4, <1>9
      <4>2. q[i].size <= JPCapacity
        BY <1>4, <1>9, <1>12 DEF QueueOK, Sized
      <4>3. Remaining(q[i]) = JPCapacity - q[i].size
        BY <4>1, <4>2, RemainingFacts
      <4>4. Remaining(ubq[i]) - EntrySize(e) < SrcASize
        BY <3>1 DEF e
      <4> QED
        BY <1>3, <1>5, <1>9, <4>3, <4>4, SizesAssumption
           DEF Full, MinEntrySize
    <3>3. FullBefore(q, i)
      BY <1>4, <1>8, <1>17
    <3>4. FullBefore(q, i + 1)
      BY <1>4, <3>2, <3>3 DEF FullBefore
    <3> QED
      BY <1>7, <1>13, <1>15, <3>4
  <2> QED
    BY <2>1, <2>2 DEF FullInv
<1>23. /\ \A k0 \in Nat : \A f \in EntriesFrom(ubq', k0) :
            f \in EntriesFrom(ubq, k0) \/ (f = e /\ k0 <= i)
       /\ Entries(ubq) \subseteq Entries(ubq')
       /\ e \in Entries(ubq')
  BY <1>3, <1>4, <1>15, StoreEntries DEF Entries, q
<1>24. GroupsInv'
  <2>1. \A f \in EntriesFrom(ubq, 1) : f.group < gi + 1
    BY DEF IInv, GroupsInv, GroupsBelow
  <2>2. GroupsBelow(ubq', 1, gi' + 1)
    BY <1>3, <1>4, <1>23, <2>1 DEF GroupsBelow
  <2>3. \A f \in EntriesFrom(ubq, i + 1) : f.group < gi
    <3>1. \A f \in EntriesFrom(ubq, i) : f.group < gi
      BY DEF IInv, GroupsInv, GroupsBelow
    <3> QED
      BY <1>4, <3>1, EntriesFacts
  <2>4. GroupsBelow(ubq', i', gi')
    BY <1>4, <1>7, <1>23, <2>3 DEF GroupsBelow
  <2> QED
    BY <1>7, <2>2, <2>4 DEF GroupsInv
<1>25. ContentInv'
  <2>1. \A f \in Entries(ubq') : f \in Entries(ubq) \/ f = e
    BY <1>23 DEF Entries
  <2>2. SoundEntry(e)
    <3>1. e.rp \/ SptSources(e) # {}
      <4>1. n # 0 => srci + 1 \in srci + 1 .. srci + n
        BY <1>4
      <4> QED
        BY <1>3, <4>1
    <3> QED
      BY <1>1, <1>2, <1>3, <1>4, <3>1 DEF SoundEntry, CarriesSomething, Group
  <2>3. (\A f \in Entries(ubq) : SoundEntry(f))'
    <3>1. \A f \in Entries(ubq) : SoundEntry(f)
      BY DEF IInv, ContentInv
    <3> QED
      BY <2>1, <2>2, <3>1 DEF SoundEntry
  <2>4. /\ \A g, m : JoinsPlaced(ubq, g, m) => JoinsPlaced(ubq', g, m)
        /\ \A g : RptPlaced(ubq, g) => RptPlaced(ubq', g)
    BY <1>23 DEF JoinsPlaced, RptPlaced
  <2>5. \A g \in DOMAIN jpCfg : g < gi =>
          /\ JoinsPlaced(ubq', g, jpCfg[g].spt)
          /\ jpCfg[g].rpt => RptPlaced(ubq', g)
    BY <2>4 DEF IInv, ContentInv
  <2>6. JoinsPlaced(ubq', gi, srci + n)
    <3>1. SUFFICES ASSUME NEW s \in 1 .. srci + n
                   PROVE  \E f \in Entries(ubq') :
                            f.group = gi /\ s \in SptSources(f)
      BY DEF JoinsPlaced
    <3>2. CASE s \in 1 .. srci
      BY <1>23, <3>2 DEF IInv, ContentInv, JoinsPlaced
    <3>3. CASE s \notin 1 .. srci
      BY <1>3, <1>4, <1>23, <3>3
    <3> QED
      BY <3>2, <3>3
  <2>7. Group.rpt /\ rptUb' = 0 => RptPlaced(ubq', gi)
    <3>1. CASE withRpt
      BY <1>3, <1>23, <3>1 DEF RptPlaced
    <3>2. CASE ~withRpt
      BY <2>4, <3>2 DEF IInv, ContentInv
    <3> QED
      BY <3>1, <3>2
  <2>8. (\A f \in Entries(ubq) : NotYet(f))'
    <3>1. SUFFICES ASSUME NEW f \in Entries(ubq'), f.group = gi
                   PROVE  f.last <= srci' /\ (f.rp => rptUb' = 0)
      BY DEF NotYet
    <3>2. CASE f \in Entries(ubq)
      <4>1. f.last <= srci /\ (f.rp => rptUb = 0)
        BY <3>1, <3>2 DEF IInv, ContentInv, NotYet
      <4>2. f \in Entry
        BY <1>4, <3>2, EntriesFacts DEF Entries
      <4>3. f.last \in Nat
        BY <4>2 DEF Entry
      <4> QED
        BY <1>4, <1>7, <4>1, <4>3
    <3>3. CASE f = e
      BY <1>3, <1>4, <1>7, <3>3
    <3> QED
      BY <2>1, <3>2, <3>3
  <2> QED
    BY <1>7, <1>20, <2>3, <2>5, <2>6, <2>7, <2>8 DEF ContentInv
<1>26. ResultInv'
  BY <1>7 DEF IInv, ResultInv, Lossless
<1> QED
  BY <1>7, <1>15, <1>19, <1>21, <1>22, <1>24, <1>25, <1>26 DEF IInv

(* Both loops when they leave an update without adding to it (++c in       *)
(* Pack.hpp:123 and 169).  The update is not empty, and in fitGroup() it   *)
(* is full.                                                                *)
LEMMA MoveStep ==
  ASSUME IInv,
         pc \in {"findRptUb", "fitGroup"},
         Remaining(ubq[i]) < JPCapacity,
         pc = "fitGroup" => i # rptUb /\ Full(ubq[i]),
         i' = i + 1,
         ubq' = Grown(ubq, i + 1),
         UNCHANGED <<jpCfg, start, gi, srci, rptUb, pc, updates>>
  PROVE  IInv'
<1>1. /\ ubq \in Seq(Builder) /\ i \in DOMAIN ubq /\ ubq[i] \in Builder
      /\ i \in Nat \ {0} /\ start \in 1 .. Len(ubq) /\ rptUb \in 0 .. Len(ubq)
      /\ i \in 1 .. Len(ubq) /\ gi \in Nat /\ srci \in Nat
  BY DEF IInv, TypeOK
<1>2. ubq[i].entries # << >>
  <2>1. /\ ubq[i].size <= JPCapacity
        /\ ubq[i].entries = << >> => ubq[i].size = 0
    BY <1>1 DEF IInv, QueueOK, Sized
  <2>2. Remaining(ubq[i]) = JPCapacity - ubq[i].size
    BY <1>1, <2>1, RemainingFacts
  <2> QED
    BY <2>1, <2>2, SizesAssumption
<1>3. i + 1 \in 1 .. Len(ubq) + 1
  BY <1>1
<1>4. i + 1 = Len(ubq) + 1 => ubq[Len(ubq)].entries # << >>
  BY <1>1, <1>2
<1>5. /\ QueueOK(ubq')
      /\ \A k0 \in Nat : EntriesFrom(ubq', k0) = EntriesFrom(ubq, k0)
      /\ \A k \in 1 .. Len(ubq) + 1 : FullBefore(ubq, k) => FullBefore(ubq', k)
  BY <1>3, <1>4, GrownKeepsOrder DEF IInv
<1>6. /\ ubq' \in Seq(Builder)
      /\ Len(ubq) \in Nat /\ Len(ubq') \in Nat /\ Len(ubq) <= Len(ubq')
      /\ DOMAIN ubq = 1 .. Len(ubq) /\ DOMAIN ubq' = 1 .. Len(ubq')
      /\ i + 1 \in DOMAIN ubq'
      /\ \A k \in DOMAIN ubq : ubq'[k] = ubq[k]
  BY <1>1, <1>3, GrownFacts
<1>7. TypeOK'
  BY <1>1, <1>6 DEF IInv, TypeOK
<1>8. Group' = Group
  BY DEF Group
<1>9. PositionInv'
  <2>1. pc' \in {"findRptUb", "fitGroup"} =>
          gi' \in DOMAIN jpCfg' /\ start' <= i'
    BY <1>1 DEF IInv, PositionInv
  <2>2. ASSUME pc' = "fitGroup", rptUb' # 0
        PROVE  i' <= rptUb' /\ ubq'[rptUb'] = ubq[rptUb]
    <3>1. i <= rptUb /\ i # rptUb
      BY <2>2 DEF IInv, PositionInv
    <3> QED
      BY <1>1, <1>6, <2>2, <3>1
  <2> QED
    BY <1>8, <2>1, <2>2 DEF IInv, PositionInv
<1>10. FullInv'
  <2>1. FullBefore(ubq', start')
    BY <1>1, <1>5 DEF IInv, FullInv
  <2>2. ASSUME pc' = "fitGroup", srci' < Group'.spt
        PROVE  FullBefore(ubq', i')
    <3>1. FullBefore(ubq, i) /\ Full(ubq[i])
      BY <1>8, <2>2 DEF IInv, FullInv
    <3>2. FullBefore(ubq, i + 1)
      BY <1>1, <3>1 DEF FullBefore
    <3> QED
      BY <1>3, <1>5, <3>2
  <2> QED
    BY <2>1, <2>2 DEF FullInv
<1>11. GroupsInv'
  <2>1. /\ \A g : GroupsBelow(ubq, 1, g) => GroupsBelow(ubq', 1, g)
        /\ \A g : GroupsBelow(ubq, i, g) => GroupsBelow(ubq', i + 1, g)
    <3>1. EntriesFrom(ubq, i + 1) \subseteq EntriesFrom(ubq, i)
      BY <1>1, EntriesFacts
    <3> QED
      BY <1>1, <1>5, <3>1 DEF GroupsBelow
  <2> QED
    BY <2>1 DEF IInv, GroupsInv
<1>12. ContentInv'
  <2>1. Entries(ubq') = Entries(ubq)
    BY <1>5 DEF Entries
  <2> QED
    BY <1>8, <2>1 DEF IInv, ContentInv, SoundEntry, JoinsPlaced, RptPlaced, NotYet
<1>13. ResultInv'
  BY DEF IInv, ResultInv, Lossless
<1> QED
  BY <1>5, <1>7, <1>9, <1>10, <1>11, <1>12, <1>13 DEF IInv

LEMMA StepStartGroup == ASSUME IInv, StartGroup PROVE IInv'
<1> USE DEF StartGroup
<1>1. /\ gi \in DOMAIN jpCfg /\ start \in 1 .. Len(ubq) /\ gi \in Nat
      /\ Len(ubq) \in Nat /\ ubq \in Seq(Builder) /\ jpCfg \in Seq(GroupConfig)
  BY DEF IInv, TypeOK
<1>2. Group.spt \in Nat
  BY <1>1, GroupFacts DEF IInv
<1>3. TypeOK'
  BY <1>1 DEF IInv, TypeOK
<1>4. Group' = Group
  BY DEF Group
<1>5. PositionInv'
  BY <1>1, <1>2, <1>4 DEF PositionInv
<1>6. FullInv'
  BY DEF IInv, FullInv
<1>7. GroupsInv'
  <2>1. GroupsBelow(ubq, 1, gi) /\ GroupsBelow(ubq, 1, gi + 1)
    BY DEF IInv, GroupsInv
  <2>2. EntriesFrom(ubq, start) \subseteq EntriesFrom(ubq, 1)
    BY <1>1, EntriesFacts
  <2>3. GroupsBelow(ubq, start, gi)
    BY <2>1, <2>2 DEF GroupsBelow
  <2> QED
    BY <2>1, <2>3 DEF GroupsInv
<1>8. ContentInv'
  <2>1. \A e \in Entries(ubq) : e.group # gi
    <3>1. \A e \in Entries(ubq) : e.group < gi
      BY DEF IInv, GroupsInv, GroupsBelow, Entries
    <3> QED
      BY <1>1, <3>1
  <2>2. JoinsPlaced(ubq, gi, 0)
    BY DEF JoinsPlaced
  <2>3. pc' = "fitGroup" => ~Group.rpt
    OBVIOUS
  <2> QED
    BY <1>4, <2>1, <2>2, <2>3
       DEF IInv, ContentInv, SoundEntry, JoinsPlaced, RptPlaced, NotYet
<1>9. ResultInv'
  BY DEF IInv, ResultInv, Lossless
<1> QED
  BY <1>3, <1>5, <1>6, <1>7, <1>8, <1>9 DEF IInv

(* The room the cursor's update has is a number of bytes.                  *)
LEMMA RoomFacts ==
  ASSUME IInv, NEW k \in DOMAIN ubq
  PROVE  /\ Remaining(ubq[k]) \in Nat
         /\ Remaining(ubq[k]) = JPCapacity - ubq[k].size
         /\ ubq[k].size \in Nat
<1>1. ubq[k] \in Builder
  BY DEF IInv, TypeOK
<1>2. ubq[k].size <= JPCapacity
  BY DEF IInv, QueueOK, Sized
<1> QED
  BY <1>1, <1>2, RemainingFacts DEF Builder

LEMMA RptSizeFacts ==
  ASSUME NEW n \in Nat, n <= MaxPruneSGrptLen
  PROVE  /\ SrcASize * (n + 1) \in Nat
         /\ RptSize(n) = GrpHdrSize + SrcASize * (n + 1)
         /\ RptSize(n) <= JPCapacity
<1>1. /\ SrcASize * (n + 1) \in Nat
      /\ SrcASize * (MaxPruneSGrptLen + 1) \in Nat
      /\ SrcASize * (n + 1) <= SrcASize * (MaxPruneSGrptLen + 1)
  BY TimesMonotonic, SizesAssumption, ConfigsAssumption
<1> QED
  BY <1>1, SizesAssumption, RptFitsAssumption DEF RptSize

LEMMA StepSkipUpdate == ASSUME IInv, SkipUpdate PROVE IInv'
<1>1. gi \in DOMAIN jpCfg /\ i \in DOMAIN ubq
  BY DEF SkipUpdate, IInv, PositionInv, TypeOK
<1>2. RptSize(Group.prunes) <= JPCapacity /\ RptSize(Group.prunes) \in Nat
  BY <1>1, GroupFacts, RptSizeFacts, SizesAssumption DEF IInv
<1>3. Remaining(ubq[i]) < JPCapacity
  BY <1>1, <1>2, RoomFacts, SizesAssumption DEF SkipUpdate
<1> QED
  BY <1>3, MoveStep DEF SkipUpdate

LEMMA StepReserveUpdate == ASSUME IInv, ReserveUpdate PROVE IInv'
<1> USE DEF ReserveUpdate
<1>1. /\ gi \in DOMAIN jpCfg /\ Group.rpt /\ srci = 0 /\ start <= i
  BY DEF IInv, PositionInv
<1>2. /\ start \in 1 .. Len(ubq) /\ gi \in Nat /\ i \in 1 .. Len(ubq)
      /\ Len(ubq) \in Nat /\ ubq \in Seq(Builder)
  BY DEF IInv, TypeOK
<1>3. Group.spt \in Nat /\ Group.prunes \in Nat
      /\ RptSize(Group.prunes) \in Nat /\ Remaining(ubq[i]) \in Nat
  <2>1. /\ Group.spt \in Nat /\ Group.prunes \in Nat
        /\ Group.prunes <= MaxPruneSGrptLen
    BY <1>1, GroupFacts DEF IInv
  <2>2. RptSize(Group.prunes) \in Nat
    BY <2>1, RptSizeFacts, SizesAssumption
  <2>3. Remaining(ubq[i]) \in Nat
    <3>1. i \in DOMAIN ubq
      BY <1>2
    <3> QED
      BY <3>1, RoomFacts
  <2> QED
    BY <2>1, <2>2, <2>3
<1>4. TypeOK'
  BY <1>2 DEF IInv, TypeOK
<1>5. Group' = Group
  BY DEF Group
<1>6. PositionInv'
  BY <1>1, <1>2, <1>3, <1>5 DEF PositionInv
<1>7. FullInv'
  BY DEF IInv, FullInv
<1>8. GroupsInv'
  <2>1. GroupsBelow(ubq, 1, gi) /\ GroupsBelow(ubq, 1, gi + 1)
    BY DEF IInv, GroupsInv
  <2>2. EntriesFrom(ubq, start) \subseteq EntriesFrom(ubq, 1)
    BY <1>2, EntriesFacts
  <2>3. GroupsBelow(ubq, start, gi)
    BY <2>1, <2>2 DEF GroupsBelow
  <2> QED
    BY <2>1, <2>3 DEF GroupsInv
<1>9. ContentInv'
  <2>1. \A e \in Entries(ubq) : e.group # gi
    <3>1. \A e \in Entries(ubq) : e.group < gi
      BY DEF IInv, GroupsInv, GroupsBelow, Entries
    <3> QED
      BY <1>2, <3>1
  <2>2. JoinsPlaced(ubq, gi, 0)
    BY DEF JoinsPlaced
  <2>3. rptUb' # 0
    BY <1>2
  <2> QED
    BY <1>1, <1>5, <2>1, <2>2, <2>3
       DEF IInv, ContentInv, SoundEntry, JoinsPlaced, RptPlaced, NotYet
<1>10. ResultInv'
  BY DEF IInv, ResultInv, Lossless
<1> QED
  BY <1>4, <1>6, <1>7, <1>8, <1>9, <1>10 DEF IInv

LEMMA StepPassUpdate == ASSUME IInv, PassUpdate PROVE IInv'
<1>1. gi \in DOMAIN jpCfg /\ i \in DOMAIN ubq /\ srci \in Nat
  BY DEF PassUpdate, IInv, PositionInv, TypeOK
<1>2. Group.spt \in Nat /\ Remaining(ubq[i]) \in Nat
  BY <1>1, GroupFacts, RoomFacts DEF IInv
<1>3. MaxSources(Remaining(ubq[i])) = 0
  BY <1>1, <1>2 DEF PassUpdate, Fitting, Least
<1>4. Remaining(ubq[i]) < MinEntrySize
  BY <1>2, <1>3, NoRoomIsFull
<1>5. Remaining(ubq[i]) < JPCapacity
  BY <1>2, <1>4, SizesAssumption DEF MinEntrySize
<1> QED
  BY <1>4, <1>5, MoveStep DEF PassUpdate, Full

LEMMA StepFitJoins == ASSUME IInv, FitJoins PROVE IInv'
<1> DEFINE rem == Remaining(ubq[i])
           n == Fitting(rem)
           e == NextEntry(n, FALSE)
<1>1. gi \in DOMAIN jpCfg /\ i \in DOMAIN ubq /\ srci \in Nat
  BY DEF FitJoins, IInv, PositionInv, TypeOK
<1>2. Group.spt \in Nat /\ rem \in Nat /\ srci < Group.spt
  BY <1>1, GroupFacts, RoomFacts DEF IInv, FitJoins
<1>3. GrpHdrSize <= rem
  <2>1. ASSUME rem < GrpHdrSize PROVE FALSE
    <3>1. MaxSources(rem) = 0
      BY <1>2, <2>1, SizesAssumption DEF MaxSources
    <3> QED
      BY <1>1, <1>2, <3>1 DEF FitJoins, Fitting, Least
  <2> QED
    BY <1>2, <2>1, SizesAssumption
<1>4. MaxSources(rem) \in Nat
  BY <1>2, <1>3, MaxSourcesFits
<1>5. /\ n \in Nat /\ n <= MaxSources(rem) /\ n <= Group.spt - srci
      /\ n < Group.spt - srci => n = MaxSources(rem)
  BY <1>1, <1>2, <1>4 DEF Fitting, Least
<1> HIDE DEF rem, n
<1>6. /\ GrpHdrSize + SrcASize * n <= rem
      /\ n = MaxSources(rem) => rem - (GrpHdrSize + SrcASize * n) < SrcASize
  BY <1>2, <1>3, <1>5, MaxSourcesFits
<1>7. EntrySize(e) = GrpHdrSize + SrcASize * n
  <2>1. EntrySize(e) = GrpHdrSize + SrcASize * n + 0
    BY <1>1, <1>5, NextEntryFacts DEF IInv
  <2>2. SrcASize * n \in Nat
    BY <1>5, SizesAssumption
  <2> HIDE DEF e
  <2> QED
    BY <2>1, <2>2, SizesAssumption
<1> HIDE DEF e
<1>8. EntrySize(e) <= Remaining(ubq[i])
      /\ (n < Group.spt - srci => Remaining(ubq[i]) - EntrySize(e) < SrcASize)
  BY <1>5, <1>6, <1>7 DEF rem
<1>9. /\ pc = "fitGroup" /\ i # rptUb /\ AddAndAdvance(n, FALSE)
      /\ UNCHANGED <<jpCfg, gi, rptUb, updates>>
  BY DEF FitJoins, n, rem
<1>10. n # 0
  BY <1>5 DEF FitJoins, n, rem
<1> QED
  BY <1>2, <1>5, <1>8, <1>9, <1>10, AddStep DEF e

LEMMA StepFitJoinsAndRpt == ASSUME IInv, FitJoinsAndRpt PROVE IInv'
<1> DEFINE rptBytes == SrcASize * (Group.prunes + 1)
           rem == Remaining(ubq[i]) - rptBytes
           n == Fitting(rem)
           e == NextEntry(n, TRUE)
<1>1. gi \in DOMAIN jpCfg /\ i \in DOMAIN ubq /\ srci \in Nat /\ i # 0
  BY DEF FitJoinsAndRpt, IInv, PositionInv, TypeOK
<1>2. /\ Group.spt \in Nat /\ srci < Group.spt
      /\ Remaining(ubq[i]) \in Nat
      /\ Group.prunes \in Nat /\ Group.prunes <= MaxPruneSGrptLen
  BY <1>1, GroupFacts, RoomFacts DEF IInv, FitJoinsAndRpt
<1>3. /\ rptBytes \in Nat
      /\ RptSize(Group.prunes) = GrpHdrSize + rptBytes
  BY <1>2, RptSizeFacts
<1>4. RptSize(Group.prunes) <= Remaining(ubq[i])
  BY <1>1 DEF FitJoinsAndRpt, IInv, PositionInv
<1> HIDE DEF rptBytes
<1>5. /\ rem \in Nat /\ GrpHdrSize <= rem
      /\ SizeSub(Remaining(ubq[i]), rptBytes) = rem
  BY <1>2, <1>3, <1>4, SizesAssumption DEF SizeSub
<1>6. MaxSources(rem) \in Nat
  BY <1>5, MaxSourcesFits
<1>7. /\ n \in Nat /\ n <= MaxSources(rem) /\ n <= Group.spt - srci
      /\ n < Group.spt - srci => n = MaxSources(rem)
  BY <1>1, <1>2, <1>6 DEF Fitting, Least
<1> HIDE DEF n
<1>8. /\ GrpHdrSize + SrcASize * n <= rem
      /\ n = MaxSources(rem) => rem - (GrpHdrSize + SrcASize * n) < SrcASize
  BY <1>5, <1>7, MaxSourcesFits
<1>9. EntrySize(e) = GrpHdrSize + SrcASize * n + rptBytes
  BY <1>1, <1>7, NextEntryFacts DEF IInv, rptBytes
<1>10. SrcASize * n \in Nat
  BY <1>7, SizesAssumption
<1> HIDE DEF e
<1>11. /\ EntrySize(e) <= Remaining(ubq[i])
       /\ n < Group.spt - srci => Remaining(ubq[i]) - EntrySize(e) < SrcASize
  BY <1>2, <1>3, <1>7, <1>8, <1>9, <1>10, SizesAssumption
<1>12. /\ pc = "fitGroup" /\ i = rptUb /\ rptUb' = 0 /\ AddAndAdvance(n, TRUE)
       /\ UNCHANGED <<jpCfg, gi, updates>>
  BY <1>5 DEF FitJoinsAndRpt, n, rptBytes
<1> QED
  BY <1>2, <1>7, <1>11, <1>12, AddStep DEF e

LEMMA StepFitRptOnly == ASSUME IInv, FitRptOnly PROVE IInv'
<1> DEFINE e == NextEntry(0, TRUE)
           r == Store(ubq, rptUb, e)
<1>1. /\ gi \in DOMAIN jpCfg /\ Group.rpt
      /\ i <= rptUb /\ srci <= Group.spt /\ Group.spt <= srci
      /\ RptSize(Group.prunes) <= Remaining(ubq[rptUb])
  BY DEF FitRptOnly, IInv, PositionInv
<1>2. /\ ubq \in Seq(Builder) /\ rptUb \in DOMAIN ubq /\ ubq[rptUb] \in Builder
      /\ srci \in Nat /\ gi \in Nat /\ start \in DOMAIN ubq /\ i \in Nat \ {0}
      /\ rptUb \in Nat /\ jpCfg \in Seq(GroupConfig) /\ DOMAIN jpCfg \subseteq Nat
  BY DEF FitRptOnly, IInv, TypeOK
<1>3. /\ Group.spt \in Nat /\ Group.prunes \in Nat
      /\ Group.prunes <= MaxPruneSGrptLen
  BY <1>1, GroupFacts DEF IInv
<1>4. srci = Group.spt
  BY <1>1, <1>2, <1>3
<1>5. /\ e \in Entry
      /\ e.group = gi
      /\ SptSources(e) = srci + 1 .. srci + 0
      /\ e.rp = TRUE
      /\ e.prunes = Group.prunes
      /\ EntrySize(e) \in Nat /\ EntrySize(e) > 0
      /\ EntrySize(e) = GrpHdrSize + SrcASize * 0 + SrcASize * (Group.prunes + 1)
  BY <1>1, NextEntryFacts DEF IInv
<1> HIDE DEF e
<1>6. SptSources(e) = {}
  BY <1>2, <1>5
<1>7. EntrySize(e) = RptSize(Group.prunes)
  <2>1. SrcASize * 0 = 0 /\ SrcASize * (Group.prunes + 1) \in Nat
    BY <1>3, SizesAssumption
  <2> QED
    BY <1>5, <2>1, SizesAssumption DEF RptSize
<1>8. ~Overflows(ubq[rptUb], e)
  <2>1. /\ Remaining(ubq[rptUb]) = JPCapacity - ubq[rptUb].size
        /\ ubq[rptUb].size \in Nat
    BY <1>2, RoomFacts
  <2> QED
    BY <1>1, <1>5, <1>7, <2>1, SizesAssumption DEF Overflows
<1>9. /\ ubq' = r /\ gi' = gi + 1 /\ pc' = "group"
      /\ UNCHANGED <<jpCfg, start, i, srci, rptUb, updates>>
  BY <1>8 DEF FitRptOnly, e
<1>10. \A f \in Entries(ubq) : Apart(e, f)
  <2>1. SUFFICES ASSUME NEW f \in Entries(ubq), f.group = gi
                 PROVE  ~f.rp
    BY <1>5, <1>6 DEF Apart
  <2>2. NotYet(f) /\ rptUb # 0
    BY <2>1 DEF FitRptOnly, IInv, ContentInv
  <2> QED
    BY <2>1, <2>2 DEF NotYet
<1>11. \A m \in DOMAIN ubq[rptUb].entries :
         ubq[rptUb].entries[m].group < e.group
  <2>1. GroupsBelow(ubq, i, gi)
    BY DEF FitRptOnly, IInv, GroupsInv
  <2>2. \A m \in DOMAIN ubq[rptUb].entries :
          ubq[rptUb].entries[m] \in EntriesFrom(ubq, i)
    BY <1>1, <1>2 DEF EntriesFrom
  <2> QED
    BY <1>5, <2>1, <2>2 DEF GroupsBelow
<1>12. QueueOK(r)
  BY <1>2, <1>5, <1>6, <1>8, <1>10, <1>11, StoreKeepsOrder DEF IInv
<1>13. r \in Seq(Builder) /\ Len(r) = Len(ubq) /\ DOMAIN r = DOMAIN ubq
  BY <1>2, <1>5, StoreFacts
<1>14. FullBefore(r, start)
  <2>1. SUFFICES ASSUME NEW j \in 1 .. start - 1
                 PROVE  Full(r[j])
    BY DEF FullBefore
  <2>2. j \in DOMAIN ubq /\ Full(ubq[j])
    BY <1>2, <2>1 DEF IInv, FullInv, FullBefore
  <2> QED
    BY <1>2, <1>5, <1>8, <2>2, StoreKeepsFull DEF IInv, QueueOK
<1>15. /\ \A f \in Entries(r) : f \in Entries(ubq) \/ f = e
       /\ Entries(ubq) \subseteq Entries(r)
       /\ e \in Entries(r)
  BY <1>2, <1>5, StoreEntries DEF Entries
<1> HIDE DEF r
<1>16. TypeOK'
  BY <1>1, <1>2, <1>9, <1>13 DEF IInv, TypeOK
<1>17. PositionInv'
  BY <1>9 DEF PositionInv
<1>18. FullInv'
  BY <1>9, <1>14 DEF FullInv
<1>19. GroupsInv'
  <2>1. \A f \in Entries(ubq) : f.group < gi + 1
    BY DEF IInv, GroupsInv, GroupsBelow, Entries
  <2>2. \A f \in Entries(ubq) : f.group \in Nat
    <3>1. \A f \in Entries(ubq) : f \in Entry
      BY <1>2, EntriesFacts DEF Entries
    <3> QED
      BY <3>1 DEF Entry
  <2>3. \A f \in Entries(r) : f.group < gi + 1 /\ f.group < gi + 1 + 1
    BY <1>2, <1>5, <1>15, <2>1, <2>2
  <2> QED
    BY <1>9, <2>3 DEF GroupsInv, GroupsBelow, Entries
<1>20. ContentInv'
  <2>1. SoundEntry(e)
    BY <1>1, <1>3, <1>5, <1>6 DEF SoundEntry, CarriesSomething, Group
  <2>2. (\A f \in Entries(ubq) : SoundEntry(f))'
    BY <1>9, <1>15, <2>1 DEF IInv, ContentInv, SoundEntry
  <2>3. /\ \A g, m : JoinsPlaced(ubq, g, m) => JoinsPlaced(r, g, m)
        /\ \A g : RptPlaced(ubq, g) => RptPlaced(r, g)
    BY <1>15 DEF JoinsPlaced, RptPlaced
  <2>4. JoinsPlaced(r, gi, jpCfg[gi].spt) /\ RptPlaced(r, gi)
    <3>1. JoinsPlaced(ubq, gi, srci)
      BY DEF FitRptOnly, IInv, ContentInv
    <3> QED
      BY <1>4, <1>5, <1>15, <2>3, <3>1 DEF Group, RptPlaced
  <2>5. ASSUME NEW g \in DOMAIN jpCfg, g < gi + 1
        PROVE  /\ JoinsPlaced(r, g, jpCfg[g].spt)
               /\ jpCfg[g].rpt => RptPlaced(r, g)
    <3>1. CASE g = gi
      BY <2>4, <3>1
    <3>2. CASE g < gi
      BY <2>3, <3>2 DEF IInv, ContentInv
    <3> QED
      BY <1>2, <2>5, <3>1, <3>2
  <2> QED
    BY <1>9, <2>2, <2>5 DEF ContentInv
<1>21. ResultInv'
  BY <1>9 DEF IInv, ResultInv, Lossless
<1> QED
  BY <1>9, <1>12, <1>16, <1>17, <1>18, <1>19, <1>20, <1>21 DEF IInv

LEMMA StepEndGroup == ASSUME IInv, EndGroup PROVE IInv'
<1> USE DEF EndGroup
<1>1. /\ gi \in DOMAIN jpCfg /\ gi \in Nat /\ DOMAIN jpCfg \subseteq Nat
      /\ jpCfg \in Seq(GroupConfig) /\ ubq \in Seq(Builder)
      /\ srci \in Nat /\ Group.spt <= srci /\ srci <= Group.spt
  BY DEF IInv, PositionInv, TypeOK
<1>2. Group.spt \in Nat
  BY <1>1, GroupFacts DEF IInv
<1>3. TypeOK'
  BY <1>1 DEF IInv, TypeOK
<1>4. PositionInv'
  BY DEF PositionInv
<1>5. FullInv'
  BY DEF IInv, FullInv
<1>6. GroupsInv'
  <2>1. \A f \in EntriesFrom(ubq, 1) : f.group < gi + 1
    BY DEF IInv, GroupsInv, GroupsBelow
  <2>2. \A f \in EntriesFrom(ubq, 1) : f.group \in Nat
    <3>1. \A f \in EntriesFrom(ubq, 1) : f \in Entry
      BY <1>1, EntriesFacts
    <3> QED
      BY <3>1 DEF Entry
  <2>3. \A f \in EntriesFrom(ubq, 1) : f.group < gi + 1 + 1
    BY <1>1, <2>1, <2>2
  <2> QED
    BY <2>1, <2>3 DEF GroupsInv, GroupsBelow
<1>7. ContentInv'
  <2>1. srci = jpCfg[gi].spt
    BY <1>1, <1>2 DEF Group
  <2>2. /\ JoinsPlaced(ubq, gi, jpCfg[gi].spt)
        /\ jpCfg[gi].rpt => RptPlaced(ubq, gi)
    BY <2>1 DEF IInv, ContentInv, Group
  <2>3. \A g \in DOMAIN jpCfg : g < gi + 1 => g = gi \/ g < gi
    BY <1>1
  <2>4. \A g \in DOMAIN jpCfg : g < gi + 1 =>
          /\ JoinsPlaced(ubq, g, jpCfg[g].spt)
          /\ jpCfg[g].rpt => RptPlaced(ubq, g)
    BY <2>2, <2>3 DEF IInv, ContentInv
  <2> QED
    BY <2>4 DEF IInv, ContentInv, SoundEntry
<1>8. ResultInv'
  BY DEF IInv, ResultInv, Lossless
<1> QED
  BY <1>3, <1>4, <1>5, <1>6, <1>7, <1>8 DEF IInv

LEMMA StepBuild == ASSUME IInv, Build PROVE IInv'
<1> DEFINE n == IF ubq[Len(ubq)].entries = << >> THEN Len(ubq) - 1 ELSE Len(ubq)
<1>1. /\ QueueOK(ubq) /\ Len(ubq) # 0
      /\ jpCfg \in Seq(GroupConfig) /\ gi \in Nat /\ Len(jpCfg) \in Nat
      /\ DOMAIN jpCfg = 1 .. Len(jpCfg) /\ Len(jpCfg) < gi
  BY DEF Build, IInv, TypeOK
<1>2. /\ updates' = [k \in 1 .. n |-> ubq[k].entries]
      /\ pc' = "done"
      /\ UNCHANGED <<jpCfg, ubq, start, gi, i, srci, rptUb>>
  BY DEF Build
<1>3. ubq \in Seq(Builder) /\ Len(ubq) \in Nat
  BY <1>1 DEF IInv, TypeOK
<1> DEFINE last == ubq[Len(ubq)].entries
<1>4. /\ last = << >> => n = Len(ubq) - 1
      /\ last # << >> => n = Len(ubq)
  OBVIOUS
<1> HIDE DEF n
<1>5. n \in Nat /\ n <= Len(ubq) /\ Len(ubq) <= n + 1
  <2>1. n = Len(ubq) - 1 \/ n = Len(ubq)
    BY <1>4
  <2> HIDE DEF last
  <2> QED
    BY <1>1, <1>3, <2>1
<1>6. \A k \in DOMAIN ubq : ubq[k].entries # << >> => k <= n
  <2>1. SUFFICES ASSUME NEW k \in 1 .. Len(ubq), ubq[k].entries # << >>
                 PROVE  k <= n
    BY <1>3
  <2>2. CASE k = Len(ubq)
    BY <1>3, <1>4, <2>1, <2>2
  <2>3. CASE k # Len(ubq)
    <3>1. k \in Nat /\ Len(ubq) \in Nat /\ k < Len(ubq)
      BY <1>3, <2>3
    <3> QED
      BY <1>5, <3>1
  <2> QED
    BY <2>2, <2>3
<1>7. n # 0 => ubq[n].entries # << >>
  <2>1. CASE last = << >>
    <3>1. n = Len(ubq) - 1
      BY <1>4, <2>1
    <3>2. n # 0 => n \in 1 .. Len(ubq) - 1
      BY <1>5, <3>1
    <3> QED
      BY <1>1, <3>2 DEF QueueOK, LastAloneEmpty
  <2>2. CASE last # << >>
    BY <1>4, <2>2
  <2> QED
    BY <2>1, <2>2
<1> DEFINE u == [k \in 1 .. n |-> ubq[k].entries]
<1>8. /\ u \in Seq(Seq(Entry))
      /\ \A k \in DOMAIN u : u[k] # << >>
      /\ \A k \in DOMAIN u : \A m \in DOMAIN u[k] : u[k][m] \in Entries(ubq)
      /\ \A e \in Entries(ubq) :
           \E k \in DOMAIN u : \E m \in DOMAIN u[k] : e = u[k][m]
      /\ NothingTwice(u)
  <2> HIDE DEF last
  <2> QED
    BY <1>1, <1>3, <1>5, <1>6, <1>7, BuildFacts
<1>9. updates' = u
  BY <1>2
<1> HIDE DEF u, last
<1>10. TypeOK'
  BY <1>2, <1>8, <1>9 DEF IInv, TypeOK
<1>11. PositionInv' /\ FullInv' /\ GroupsInv'
  BY <1>2 DEF IInv, PositionInv, FullInv, GroupsInv
<1>12. ContentInv'
  BY <1>2 DEF IInv, ContentInv, SoundEntry
<1>13. (\A k \in DOMAIN updates : \A m \in DOMAIN updates[k] :
          CarriesSomething(updates[k][m]))'
  <2>1. \A k \in DOMAIN u : \A m \in DOMAIN u[k] : CarriesSomething(u[k][m])
    BY <1>8 DEF IInv, ContentInv, SoundEntry
  <2> QED
    BY <1>9, <2>1
<1>14. Lossless'
  <2>1. \A k \in DOMAIN u : \A m \in DOMAIN u[k] : SoundEntry(u[k][m])
    BY <1>8 DEF IInv, ContentInv
  <2>2. \A g \in DOMAIN jpCfg :
          /\ JoinsPlaced(ubq, g, jpCfg[g].spt)
          /\ jpCfg[g].rpt => RptPlaced(ubq, g)
    <3>1. \A g \in DOMAIN jpCfg : g < gi
      BY <1>1
    <3> QED
      BY <3>1 DEF IInv, ContentInv
  <2>3. ASSUME NEW g \in DOMAIN jpCfg, NEW s \in 1 .. jpCfg[g].spt
        PROVE  CarriesSource(u, g, s)
    <3>1. PICK e \in Entries(ubq) : e.group = g /\ s \in SptSources(e)
      BY <2>2 DEF JoinsPlaced
    <3> QED
      BY <1>8, <3>1 DEF CarriesSource
  <2>4. ASSUME NEW g \in DOMAIN jpCfg, jpCfg[g].rpt
        PROVE  CarriesRp(u, g)
    <3>1. PICK e \in Entries(ubq) : e.group = g /\ e.rp
      BY <2>2, <2>4 DEF RptPlaced
    <3> QED
      BY <1>8, <3>1 DEF CarriesRp
  <2>5. \A k \in DOMAIN u : \A m \in DOMAIN u[k] :
          LET e == u[k][m] IN
            /\ e.group \in DOMAIN jpCfg
            /\ SptSources(e) \subseteq 1 .. jpCfg[e.group].spt
            /\ e.rp => jpCfg[e.group].rpt
            /\ e.prunes = IF e.rp THEN jpCfg[e.group].prunes ELSE 0
    BY <2>1 DEF SoundEntry
  <2>6. jpCfg' = jpCfg
    BY <1>2
  <2>7. (\A k \in DOMAIN updates : \A m \in DOMAIN updates[k] :
           LET e == updates[k][m] IN
             /\ e.group \in DOMAIN jpCfg
             /\ SptSources(e) \subseteq 1 .. jpCfg[e.group].spt
             /\ e.rp => jpCfg[e.group].rpt
             /\ e.prunes = IF e.rp THEN jpCfg[e.group].prunes ELSE 0)'
    BY <1>9, <2>5, <2>6
  <2>8. (\A g \in DOMAIN jpCfg :
           /\ \A s \in 1 .. jpCfg[g].spt : CarriesSource(updates, g, s)
           /\ jpCfg[g].rpt => CarriesRp(updates, g))'
    BY <1>9, <2>3, <2>4, <2>6
  <2>9. NothingTwice(updates)'
    BY <1>8, <1>9
  <2> QED
    BY <2>7, <2>8, <2>9 DEF Lossless
<1> QED
  BY <1>1, <1>2, <1>8, <1>9, <1>10, <1>11, <1>12, <1>13, <1>14
     DEF IInv, ResultInv
-----------------------------------------------------------------------------
(***************************************************************************)
(* The theorems                                                            *)
(***************************************************************************)

LEMMA InitIInv == Init => IInv
<1> SUFFICES ASSUME Init PROVE IInv
  OBVIOUS
<1> USE DEF Init
<1>1. EmptyBuilder \in Builder
  <2>1. << >> \in Seq(Entry)
    OBVIOUS
  <2> QED
    BY <2>1 DEF EmptyBuilder, Builder
<1>2. jpCfg \in Seq(GroupConfig) /\ Len(jpCfg) \in Nat
  <2>1. jpCfg \in Seq(GroupConfig)
    BY ConfigsAssumption
  <2> QED
    BY <2>1
<1>3. /\ ubq \in Seq(Builder) /\ Len(ubq) = 1 /\ DOMAIN ubq = {1}
      /\ ubq[1] = EmptyBuilder
  BY <1>1
<1>4. DOMAIN ubq[1].entries = {} /\ ubq[1].size = 0
  BY <1>3 DEF EmptyBuilder
<1>5. TypeOK
  <2>1. << >> \in Seq(Seq(Entry))
    OBVIOUS
  <2> QED
    BY <1>2, <1>3, <2>1 DEF TypeOK
<1>6. QueueOK(ubq)
  <2>1. Sized(ubq) /\ AscendingGroups(ubq) /\ SpillsFromFull(ubq)
    BY <1>3, <1>4, SizesAssumption DEF Sized, AscendingGroups, SpillsFromFull
  <2>2. LastAloneEmpty(ubq)
    BY <1>3 DEF LastAloneEmpty
  <2>3. NothingTwice(Packed(ubq))
    BY <1>3, <1>4 DEF NothingTwice, Packed
  <2> QED
    BY <1>3, <2>1, <2>2, <2>3 DEF QueueOK
<1>7. \A k0 \in Nat : EntriesFrom(ubq, k0) = {}
  BY <1>3, <1>4 DEF EntriesFrom
<1>8. PositionInv /\ FullInv
  BY DEF PositionInv, FullInv, FullBefore
<1>9. GroupsInv
  BY <1>7 DEF GroupsInv, GroupsBelow
<1>10. ContentInv
  <2>1. \A g \in DOMAIN jpCfg : ~(g < gi)
    BY <1>2
  <2> QED
    BY <1>7, <2>1 DEF ContentInv, Entries
<1>11. ResultInv
  BY DEF ResultInv, Lossless
<1> QED
  BY <1>5, <1>6, <1>8, <1>9, <1>10, <1>11 DEF IInv

LEMMA NextIInv == IInv /\ [Next]_vars => IInv'
<1> SUFFICES ASSUME IInv, [Next]_vars PROVE IInv'
  OBVIOUS
<1>1. CASE StartGroup
  BY <1>1, StepStartGroup
<1>2. CASE SkipUpdate
  BY <1>2, StepSkipUpdate
<1>3. CASE ReserveUpdate
  BY <1>3, StepReserveUpdate
<1>4. CASE PassUpdate
  BY <1>4, StepPassUpdate
<1>5. CASE FitJoins
  BY <1>5, StepFitJoins
<1>6. CASE FitJoinsAndRpt
  BY <1>6, StepFitJoinsAndRpt
<1>7. CASE FitRptOnly
  BY <1>7, StepFitRptOnly
<1>8. CASE EndGroup
  BY <1>8, StepEndGroup
<1>9. CASE Build
  BY <1>9, StepBuild
<1>10. CASE UNCHANGED vars
  BY <1>10 DEF vars, IInv, TypeOK, PositionInv, FullInv, GroupsInv, ContentInv,
               ResultInv, Lossless, SoundEntry, NotYet, Group
<1> QED
  BY <1>1, <1>2, <1>3, <1>4, <1>5, <1>6, <1>7, <1>8, <1>9, <1>10 DEF Next

(* IInv holds in every state the packer reaches.                           *)
THEOREM Invariance == Spec => []IInv
<1>1. Init => IInv
  BY InitIInv
<1>2. IInv /\ [Next]_vars => IInv'
  BY NextIInv
<1> QED
  BY <1>1, <1>2, PTL DEF Spec

(* Every variable of the packer keeps its type, for all sizes and          *)
(* configurations: its two cursors and rptUb stay inside the queue.        *)
THEOREM TypeCorrect == Spec => []TypeOK
<1>1. IInv => TypeOK
  BY DEF IInv
<1> QED
  BY <1>1, Invariance, PTL

(* chkSz() (Pack.hpp:82-87) never raises, whatever is configured: no       *)
(* update outgrows its packet, and the place reserved for an RPT part is   *)
(* not taken by the joins.                                                 *)
THEOREM CapacityTheorem == Spec => []CapacityRespected
<1>1. IInv => CapacityRespected
  BY DEF IInv, CapacityRespected, WithinCapacity, QueueOK, Sized, PositionInv
<1> QED
  BY <1>1, Invariance, PTL

(* Dropping one empty update in build() (Pack.hpp:183-192) is always       *)
(* enough: no update that is returned is without a group.                  *)
THEOREM OnlyLastEmptyTheorem == Spec => []OnlyLastEmpty
<1>1. IInv => OnlyLastEmpty
  BY DEF IInv, OnlyLastEmpty, QueueOK, ResultInv
<1> QED
  BY <1>1, Invariance, PTL

(* A group occurs at most once in an update, after the groups before it in *)
(* the configuration (Pack.hpp:139-180).                                   *)
THEOREM GroupsAscendTheorem == Spec => []GroupsAscend
<1>1. IInv => GroupsAscend
  BY DEF IInv, GroupsAscend, QueueOK
<1> QED
  BY <1>1, Invariance, PTL

(* All updates before one with SPT joins are full, and so are those that   *)
(* updateStart() (UBCursor.hpp:73-82) takes start past.                    *)
THEOREM SpillsOnlyWhenFullTheorem == Spec => []SpillsOnlyWhenFull
<1>1. IInv => SpillsOnlyWhenFull
  BY DEF IInv, SpillsOnlyWhenFull, QueueOK, FullInv
<1> QED
  BY <1>1, Invariance, PTL

(* The check of verifyUpdates() (PackSanityCheck.hpp:257-276) can never    *)
(* fail on what pack() returns: for every configuration each join, each RP *)
(* and each rpt prune is in exactly one update and nothing else is.        *)
THEOREM LosslessTheorem == Spec => []Lossless
<1>1. IInv => Lossless
  BY DEF IInv, ResultInv
<1> QED
  BY <1>1, Invariance, PTL
-----------------------------------------------------------------------------
(***************************************************************************)
(* verifyUpdates() on what pack() returns                                  *)
(***************************************************************************)

(* What a converter can hold.                                             *)
Converter ==
  [joins : SUBSET Nat, rp : BOOLEAN, prunes : SUBSET Nat, failed : BOOLEAN]

LEMMA AddType ==
  ASSUME NEW c \in Converter, NEW e \in Entry
  PROVE  add(c, e) \in Converter
<1>1. SptSources(e) \subseteq Nat /\ 1 .. e.prunes \subseteq Nat
  BY DEF SptSources, Entry
<1> QED
  BY <1>1 DEF add, Converter, Entry

LEMMA AddEntryFacts ==
  ASSUME NEW G, NEW m \in [G -> Converter], NEW e \in Entry, e.group \in G
  PROVE  /\ addEntry(m, e) \in [G -> Converter]
         /\ addEntry(m, e)[e.group] = add(m[e.group], e)
         /\ \A g \in G : g # e.group => addEntry(m, e)[g] = m[g]
<1>1. add(m[e.group], e) \in Converter
  BY AddType
<1> QED
  BY <1>1 DEF addEntry

(* One converter reads after another entry of an update.                   *)
LEMMA UpdateRead ==
  ASSUME NEW G, NEW m0 \in [G -> Converter], NEW u \in Seq(Entry),
         \A k \in 1 .. Len(u) : u[k].group \in G
  PROVE  \E f \in [0 .. Len(u) -> [G -> Converter]] :
           /\ f[0] = m0
           /\ \A k \in 1 .. Len(u) : f[k] = addEntry(f[k - 1], u[k])
           /\ f[Len(u)] = addUpdate(m0, u)
<1>0. PICK N, M, B : N = Len(u) /\ M = [G -> Converter] /\ B = { e \in Entry : e.group \in G }
  OBVIOUS
<1>1. N \in Nat /\ DOMAIN u = 1 .. N /\ m0 \in M /\ \A k \in 1 .. N : u[k] \in B
  BY <1>0
<1>2. \A m \in M, e \in B : addEntry(m, e) \in M
  BY <1>0, AddEntryFacts
<1>3. PICK F \in [M \X B -> M] : \A m \in M, e \in B : F[<<m, e>>] = addEntry(m, e)
  <2> DEFINE F == [p \in M \X B |-> addEntry(p[1], p[2])]
  <2>1. F \in [M \X B -> M] /\ \A m \in M, e \in B : F[<<m, e>>] = addEntry(m, e)
    BY <1>2
  <2> QED
    BY <2>1, Zenon
<1>4. PICK g \in [SUBSET (1 .. N) -> M] : FoldsBy(g, F, m0, u, N)
  <2>1. F \in [M \X B -> M] /\ m0 \in M /\ N \in Nat /\ u \in [1 .. N -> B]
    BY <1>1
  <2> QED
    BY <2>1, FoldExists, Zenon
<1> DEFINE Eq(h) == h = [S \in SUBSET (1 .. N) |->
                           IF S = {} THEN m0
                           ELSE addEntry(h[S \ {Seqs!Max(S)}], u[Seqs!Max(S)])]
           h0 == CHOOSE h : Eq(h)
<1>5. Eq(g)
  <2>1. ASSUME NEW S \in SUBSET (1 .. N)
        PROVE  g[S] = IF S = {} THEN m0 ELSE addEntry(g[S \ {Seqs!Max(S)}], u[Seqs!Max(S)])
    <3>1. CASE S = {}
      BY <1>4, <3>1, Zenon DEF FoldsBy
    <3>2. CASE S # {}
      <4> PICK x : x = Seqs!Max(S)
        OBVIOUS
      <4>1. x \in 1 .. N
        BY <1>1, <3>2, MaxIn
      <4>2. u[x] \in B /\ g[S \ {x}] \in M
        BY <1>1, <1>4, <4>1
      <4>3. g[S] = F[<<g[S \ {x}], u[x]>>]
        BY <1>4, <3>2, Zenon DEF FoldsBy
      <4> QED
        BY <1>3, <3>2, <4>2, <4>3, Zenon
    <3> QED
      BY <3>1, <3>2
  <2> QED
    BY <1>4, <2>1
<1>6. Eq(h0)
  BY <1>5
<1>7. addUpdate(m0, u) = h0[1 .. N]
  BY <1>1 DEF addUpdate, Seqs!FoldLeft, Seqs!MapThenFoldSet
<1> HIDE DEF h0
<1>8. \A S \in SUBSET (1 .. N) :
        h0[S] = IF S = {} THEN m0 ELSE addEntry(h0[S \ {Seqs!Max(S)}], u[Seqs!Max(S)])
  BY <1>6
<1> DEFINE f == [k \in 0 .. N |-> h0[1 .. k]]
<1>9. f[0] = m0 /\ f[N] = h0[1 .. N]
  <2>1. 1 .. 0 = {} /\ {} \in SUBSET (1 .. N) /\ 0 \in 0 .. N /\ N \in 0 .. N
    BY <1>1
  <2> QED
    BY <1>8, <2>1
<1>10. ASSUME NEW k \in 1 .. N PROVE f[k] = addEntry(f[k - 1], u[k])
  <2>1. k \in Nat \ {0} /\ 1 .. k \in SUBSET (1 .. N) /\ k - 1 \in 0 .. N /\ k \in 0 .. N
    BY <1>1
  <2>2. Seqs!Max(1 .. k) = k /\ (1 .. k) \ {k} = 1 .. k - 1 /\ 1 .. k # {}
    BY <2>1, FoldSteps
  <2>3. h0[1 .. k] = addEntry(h0[1 .. k - 1], u[k])
    BY <1>8, <2>1, <2>2
  <2> QED
    BY <2>1, <2>3
<1> HIDE DEF f
<1>11. \A k \in 0 .. N : f[k] \in M
  <2> DEFINE K == { k \in 0 .. N : f[k] \in M }
  <2>1. 0 \in K
    BY <1>1, <1>9
  <2>2. \A k \in 1 .. N : k - 1 \in K => k \in K
    <3>1. ASSUME NEW k \in 1 .. N, f[k - 1] \in M PROVE f[k] \in M
      BY <1>1, <1>2, <1>10, <3>1, Zenon
    <3>2. \A k \in 1 .. N : k \in 0 .. N
      BY <1>1
    <3> QED
      BY <3>1, <3>2
  <2> HIDE DEF K
  <2>3. \A k \in 0 .. N : k \in K
    BY <1>1, <2>1, <2>2, FromZero
  <2> QED
    BY <2>3 DEF K
<1>12. f \in [0 .. N -> M]
  BY <1>11 DEF f
<1> QED
  BY <1>0, <1>7, <1>9, <1>10, <1>12, Zenon

LEMMA UpdateType ==
  ASSUME NEW G, NEW m0 \in [G -> Converter], NEW u \in Seq(Entry),
         \A k \in 1 .. Len(u) : u[k].group \in G
  PROVE  addUpdate(m0, u) \in [G -> Converter]
<1>1. Len(u) \in 0 .. Len(u)
  OBVIOUS
<1> QED
  BY <1>1, UpdateRead

(* Only groups of G occur.                                                 *)
Within(us, G) == \A k \in 1 .. Len(us) : \A j \in 1 .. Len(us[k]) : us[k][j].group \in G

(* One update is read after the other.                                     *)
LEMMA UpdatesRead ==
  ASSUME NEW G, NEW m0 \in [G -> Converter], NEW u \in Seq(Seq(Entry)),
         Within(u, G)
  PROVE  \E f \in [0 .. Len(u) -> [G -> Converter]] :
           /\ f[0] = m0
           /\ \A k \in 1 .. Len(u) : f[k] = addUpdate(f[k - 1], u[k])
           /\ f[Len(u)] = addUpdates(m0, u)
<1>0. PICK N, M, B :
        /\ N = Len(u) /\ M = [G -> Converter]
        /\ B = { w \in Seq(Entry) : \A j \in 1 .. Len(w) : w[j].group \in G }
  OBVIOUS
<1>1. N \in Nat /\ DOMAIN u = 1 .. N /\ m0 \in M /\ \A k \in 1 .. N : u[k] \in B
  BY <1>0 DEF Within
<1>2. \A m \in M, e \in B : addUpdate(m, e) \in M
  BY <1>0, UpdateType
<1>3. PICK F \in [M \X B -> M] : \A m \in M, e \in B : F[<<m, e>>] = addUpdate(m, e)
  <2> DEFINE F == [p \in M \X B |-> addUpdate(p[1], p[2])]
  <2>1. F \in [M \X B -> M] /\ \A m \in M, e \in B : F[<<m, e>>] = addUpdate(m, e)
    BY <1>2
  <2> QED
    BY <2>1, Zenon
<1>4. PICK g \in [SUBSET (1 .. N) -> M] : FoldsBy(g, F, m0, u, N)
  <2>1. F \in [M \X B -> M] /\ m0 \in M /\ N \in Nat /\ u \in [1 .. N -> B]
    BY <1>1
  <2> QED
    BY <2>1, FoldExists, Zenon
<1> DEFINE Eq(h) == h = [S \in SUBSET (1 .. N) |->
                           IF S = {} THEN m0
                           ELSE addUpdate(h[S \ {Seqs!Max(S)}], u[Seqs!Max(S)])]
           h0 == CHOOSE h : Eq(h)
<1>5. Eq(g)
  <2>1. ASSUME NEW S \in SUBSET (1 .. N)
        PROVE  g[S] = IF S = {} THEN m0 ELSE addUpdate(g[S \ {Seqs!Max(S)}], u[Seqs!Max(S)])
    <3>1. CASE S = {}
      BY <1>4, <3>1, Zenon DEF FoldsBy
    <3>2. CASE S # {}
      <4> PICK x : x = Seqs!Max(S)
        OBVIOUS
      <4>1. x \in 1 .. N
        BY <1>1, <3>2, MaxIn
      <4>2. u[x] \in B /\ g[S \ {x}] \in M
        BY <1>1, <1>4, <4>1
      <4>3. g[S] = F[<<g[S \ {x}], u[x]>>]
        BY <1>4, <3>2, Zenon DEF FoldsBy
      <4> QED
        BY <1>3, <3>2, <4>2, <4>3, Zenon
    <3> QED
      BY <3>1, <3>2
  <2> QED
    BY <1>4, <2>1
<1>6. Eq(h0)
  BY <1>5
<1>7. addUpdates(m0, u) = h0[1 .. N]
  BY <1>1 DEF addUpdates, Seqs!FoldLeft, Seqs!MapThenFoldSet
<1> HIDE DEF h0
<1>8. \A S \in SUBSET (1 .. N) :
        h0[S] = IF S = {} THEN m0 ELSE addUpdate(h0[S \ {Seqs!Max(S)}], u[Seqs!Max(S)])
  BY <1>6
<1> DEFINE f == [k \in 0 .. N |-> h0[1 .. k]]
<1>9. f[0] = m0 /\ f[N] = h0[1 .. N]
  <2>1. 1 .. 0 = {} /\ {} \in SUBSET (1 .. N) /\ 0 \in 0 .. N /\ N \in 0 .. N
    BY <1>1
  <2> QED
    BY <1>8, <2>1
<1>10. ASSUME NEW k \in 1 .. N PROVE f[k] = addUpdate(f[k - 1], u[k])
  <2>1. k \in Nat \ {0} /\ 1 .. k \in SUBSET (1 .. N) /\ k - 1 \in 0 .. N /\ k \in 0 .. N
    BY <1>1
  <2>2. Seqs!Max(1 .. k) = k /\ (1 .. k) \ {k} = 1 .. k - 1 /\ 1 .. k # {}
    BY <2>1, FoldSteps
  <2>3. h0[1 .. k] = addUpdate(h0[1 .. k - 1], u[k])
    BY <1>8, <2>1, <2>2
  <2> QED
    BY <2>1, <2>3
<1> HIDE DEF f
<1>11. \A k \in 0 .. N : f[k] \in M
  <2> DEFINE K == { k \in 0 .. N : f[k] \in M }
  <2>1. 0 \in K
    BY <1>1, <1>9
  <2>2. \A k \in 1 .. N : k - 1 \in K => k \in K
    <3>1. ASSUME NEW k \in 1 .. N, f[k - 1] \in M PROVE f[k] \in M
      BY <1>1, <1>2, <1>10, <3>1, Zenon
    <3>2. \A k \in 1 .. N : k \in 0 .. N
      BY <1>1
    <3> QED
      BY <3>1, <3>2
  <2> HIDE DEF K
  <2>3. \A k \in 0 .. N : k \in K
    BY <1>1, <2>1, <2>2, FromZero
  <2> QED
    BY <2>3 DEF K
<1>12. f \in [0 .. N -> M]
  BY <1>11 DEF f
<1> QED
  BY <1>0, <1>7, <1>9, <1>10, <1>12, Zenon

(* What the converter of group g holds once the entries E have been read.  *)
HasRead(c, g, E) ==
  /\ \A s : s \in c.joins <=> \E e \in E : e.group = g /\ s \in SptSources(e)
  /\ c.rp <=> \E e \in E : e.group = g /\ e.rp
  /\ \A s : s \in c.prunes <=> \E e \in E : e.group = g /\ s \in 1 .. e.prunes

AllHaveRead(m, G, E) == \A g \in G : HasRead(m[g], g, E)

NoneFailed(m, G) == \A g \in G : ~m[g].failed

(* Prunes come with their RP.                                              *)
WithRP(e) == e.prunes > 0 => e.rp

LEMMA AddReads ==
  ASSUME NEW c \in Converter, NEW g, NEW E \in SUBSET Entry, NEW e \in Entry,
         e.group = g, HasRead(c, g, E), \A d \in E \cup {e} : WithRP(d)
  PROVE  /\ HasRead(add(c, e), g, E \cup {e})
         /\ ~c.failed /\ (\A d \in E : Apart(d, e)) => ~add(c, e).failed
<1> PICK a : a = add(c, e)
  OBVIOUS
<1>1. e.rp \in BOOLEAN /\ e.prunes \in Nat
  BY DEF Entry
<1>2. ~(c.rp \/ e.rp) /\ e.prunes > 0 <=> FALSE
  BY <1>1 DEF WithRP
<1>3. /\ a.joins = c.joins \cup SptSources(e)
      /\ a.rp = (c.rp \/ e.rp)
      /\ a.prunes = c.prunes \cup 1 .. e.prunes
      /\ a.failed = (\/ c.failed
                     \/ c.rp /\ e.rp
                     \/ c.joins \cap SptSources(e) # {}
                     \/ c.prunes \cap 1 .. e.prunes # {})
  BY <1>2 DEF add
<1>4. HasRead(a, g, E \cup {e})
  BY <1>3, Zenon DEF HasRead
<1>5. ASSUME ~c.failed, \A d \in E : Apart(d, e) PROVE ~a.failed
  <2>1. \A d \in E : d.group = g =>
          SptSources(d) \cap SptSources(e) = {} /\ ~(d.rp /\ e.rp)
    BY <1>5, Zenon DEF Apart
  <2>2. ~(c.rp /\ e.rp)
    BY <2>1, Zenon DEF HasRead
  <2>3. c.joins \cap SptSources(e) = {}
    BY <2>1, Zenon DEF HasRead
  <2>4. c.prunes \cap 1 .. e.prunes = {}
    <3>1. SUFFICES ASSUME NEW s \in c.prunes, s \in 1 .. e.prunes PROVE FALSE
      BY Zenon
    <3>2. e.rp
      BY <1>1, <3>1 DEF WithRP
    <3>3. PICK d \in E : d.group = g /\ s \in 1 .. d.prunes
      BY <3>1, Zenon DEF HasRead
    <3>4. d.prunes \in Nat /\ d.prunes > 0
      BY <3>3 DEF Entry
    <3>5. d.rp
      BY <3>4 DEF WithRP
    <3> QED
      BY <2>1, <3>2, <3>3, <3>5
  <2> QED
    BY <1>3, <1>5, <2>2, <2>3, <2>4, Zenon
<1> QED
  BY <1>4, <1>5

LEMMA AddEntryReads ==
  ASSUME NEW G, NEW m \in [G -> Converter], NEW E \in SUBSET Entry, NEW e \in Entry,
         e.group \in G, AllHaveRead(m, G, E), \A d \in E \cup {e} : WithRP(d)
  PROVE  /\ AllHaveRead(addEntry(m, e), G, E \cup {e})
         /\ NoneFailed(m, G) /\ (\A d \in E : Apart(d, e)) => NoneFailed(addEntry(m, e), G)
<1> PICK a : a = addEntry(m, e)
  OBVIOUS
<1>1. a[e.group] = add(m[e.group], e) /\ \A g \in G : g # e.group => a[g] = m[g]
  BY AddEntryFacts
<1>2. HasRead(m[e.group], e.group, E)
  BY Zenon DEF AllHaveRead
<1>3. /\ HasRead(a[e.group], e.group, E \cup {e})
      /\ ~m[e.group].failed /\ (\A d \in E : Apart(d, e)) => ~a[e.group].failed
  BY <1>1, <1>2, AddReads
<1>4. ASSUME NEW g \in G, g # e.group PROVE HasRead(a[g], g, E \cup {e})
  <2>1. a[g] = m[g] /\ HasRead(m[g], g, E)
    BY <1>1, <1>4, Zenon DEF AllHaveRead
  <2>2. \A d \in E \cup {e} : d.group = g => d \in E
    BY <1>4
  <2> QED
    BY <2>1, <2>2, Zenon DEF HasRead
<1>5. AllHaveRead(a, G, E \cup {e})
  BY <1>3, <1>4, Zenon DEF AllHaveRead
<1>6. NoneFailed(m, G) /\ (\A d \in E : Apart(d, e)) => NoneFailed(a, G)
  BY <1>1, <1>3, Zenon DEF NoneFailed
<1> QED
  BY <1>5, <1>6

(* The converters after one more update.                                   *)
LEMMA AddUpdateReads ==
  ASSUME NEW G, NEW m \in [G -> Converter], NEW E \in SUBSET Entry, NEW u \in Seq(Entry),
         AllHaveRead(m, G, E), \A d \in E : WithRP(d),
         \A k \in 1 .. Len(u) : u[k].group \in G /\ WithRP(u[k])
  PROVE  /\ AllHaveRead(addUpdate(m, u), G, E \cup FirstEntries(u, Len(u)))
         /\ /\ NoneFailed(m, G)
            /\ \A k \in 1 .. Len(u) : \A d \in E : Apart(d, u[k])
            /\ \A j, k \in 1 .. Len(u) : j < k => Apart(u[j], u[k])
            => NoneFailed(addUpdate(m, u), G)
<1>0. PICK N \in Nat : N = Len(u)
  OBVIOUS
<1>1. PICK f \in [0 .. N -> [G -> Converter]] :
        /\ f[0] = m
        /\ \A k \in 1 .. N : f[k] = addEntry(f[k - 1], u[k])
        /\ f[N] = addUpdate(m, u)
  BY <1>0, UpdateRead
<1>2. \A k \in 1 .. N : u[k] \in Entry /\ k - 1 \in 0 .. N /\ k \in 0 .. N
  BY <1>0
<1>3. ASSUME NEW k \in 1 .. N
      PROVE  /\ E \cup FirstEntries(u, k) = (E \cup FirstEntries(u, k - 1)) \cup {u[k]}
             /\ E \cup FirstEntries(u, k - 1) \in SUBSET Entry
             /\ \A d \in (E \cup FirstEntries(u, k - 1)) \cup {u[k]} : WithRP(d)
  <2>1. 1 .. k = (1 .. k - 1) \cup {k} /\ 1 .. k - 1 \subseteq 1 .. N
    OBVIOUS
  <2>2. FirstEntries(u, k) = FirstEntries(u, k - 1) \cup {u[k]}
    BY <2>1, Zenon DEF FirstEntries
  <2>3. FirstEntries(u, k - 1) \in SUBSET Entry /\ \A d \in FirstEntries(u, k - 1) : WithRP(d)
    BY <1>0, <1>2, <2>1, Zenon DEF FirstEntries
  <2> QED
    BY <1>0, <2>2, <2>3, Zenon
<1> DEFINE Reads == { k \in 0 .. N : AllHaveRead(f[k], G, E \cup FirstEntries(u, k)) }
<1>4. 0 \in Reads
  <2>1. FirstEntries(u, 0) = {}
    BY DEF FirstEntries
  <2>2. E \cup FirstEntries(u, 0) = E /\ 0 \in 0 .. N
    BY <2>1
  <2> QED
    BY <1>1, <2>2, Zenon
<1>5. ASSUME NEW k \in 1 .. N, k - 1 \in Reads PROVE k \in Reads
  <2>1. f[k] = addEntry(f[k - 1], u[k]) /\ f[k - 1] \in [G -> Converter]
    BY <1>1, <1>2
  <2>2. u[k] \in Entry /\ u[k].group \in G /\ AllHaveRead(f[k - 1], G, E \cup FirstEntries(u, k - 1))
    BY <1>0, <1>2, <1>5
  <2> PICK D, d0, e : D = E \cup FirstEntries(u, k - 1) /\ d0 = f[k - 1] /\ e = u[k]
    OBVIOUS
  <2>3. /\ d0 \in [G -> Converter] /\ D \in SUBSET Entry /\ e \in Entry /\ e.group \in G
        /\ AllHaveRead(d0, G, D) /\ \A d \in D \cup {e} : WithRP(d)
    BY <1>3, <2>1, <2>2, Zenon
  <2>4. AllHaveRead(addEntry(d0, e), G, D \cup {e})
    BY <2>3, AddEntryReads
  <2> QED
    BY <1>2, <1>3, <2>1, <2>4
<1>6. \A k \in 0 .. N : AllHaveRead(f[k], G, E \cup FirstEntries(u, k))
  <2>1. \A k \in 1 .. N : k - 1 \in Reads => k \in Reads
    BY <1>5
  <2> HIDE DEF Reads
  <2>2. \A k \in 0 .. N : k \in Reads
    BY <1>4, <2>1, FromZero
  <2> QED
    BY <2>2 DEF Reads
<1>7. AllHaveRead(addUpdate(m, u), G, E \cup FirstEntries(u, Len(u)))
  BY <1>0, <1>1, <1>6
<1>8. ASSUME NoneFailed(m, G),
             \A k \in 1 .. Len(u) : \A d \in E : Apart(d, u[k]),
             \A j, k \in 1 .. Len(u) : j < k => Apart(u[j], u[k])
      PROVE  NoneFailed(addUpdate(m, u), G)
  <2> DEFINE K == { k \in 0 .. N : NoneFailed(f[k], G) }
  <2>1. 0 \in K
    BY <1>0, <1>1, <1>8
  <2>2. ASSUME NEW k \in 1 .. N, k - 1 \in K PROVE k \in K
    <3>1. f[k] = addEntry(f[k - 1], u[k]) /\ f[k - 1] \in [G -> Converter]
      BY <1>1, <1>2
    <3>2. u[k] \in Entry /\ u[k].group \in G /\ AllHaveRead(f[k - 1], G, E \cup FirstEntries(u, k - 1))
      BY <1>0, <1>2, <1>6
    <3>3. \A d \in E \cup FirstEntries(u, k - 1) : Apart(d, u[k])
      <4>1. \A j \in 1 .. k - 1 : Apart(u[j], u[k])
        BY <1>0, <1>8
      <4>2. \A d \in E : Apart(d, u[k])
        BY <1>0, <1>8
      <4> QED
        BY <4>1, <4>2, Zenon DEF FirstEntries
    <3>4. NoneFailed(f[k - 1], G)
      BY <2>2
    <3> PICK D, d0, e : D = E \cup FirstEntries(u, k - 1) /\ d0 = f[k - 1] /\ e = u[k]
      OBVIOUS
    <3>5. /\ d0 \in [G -> Converter] /\ D \in SUBSET Entry /\ e \in Entry /\ e.group \in G
          /\ AllHaveRead(d0, G, D) /\ \A d \in D \cup {e} : WithRP(d)
          /\ NoneFailed(d0, G) /\ \A d \in D : Apart(d, e)
      BY <1>3, <3>1, <3>2, <3>3, <3>4, Zenon
    <3>6. NoneFailed(addEntry(d0, e), G)
      BY <3>5, AddEntryReads
    <3> QED
      BY <1>2, <3>1, <3>6
  <2>3. \A k \in 1 .. N : k - 1 \in K => k \in K
    BY <2>2
  <2> HIDE DEF K
  <2>4. \A k \in 0 .. N : k \in K
    BY <2>1, <2>3, FromZero
  <2>5. NoneFailed(f[N], G)
    BY <2>4 DEF K
  <2> QED
    BY <1>1, <2>5
<1> QED
  BY <1>7, <1>8

(* The entries are of groups in G, and prunes come with their RP.           *)
Readable(us, G) ==
  \A k \in 1 .. Len(us) : \A j \in 1 .. Len(us[k]) : us[k][j].group \in G /\ WithRP(us[k][j])

(* After each update the converters hold what has been read, and none of   *)
(* them has failed if there is nothing twice.                              *)
LEMMA ConversionReads ==
  ASSUME NEW us \in Seq(Seq(Entry)), NEW G, Readable(us, G)
  PROVE  \E f \in [0 .. Len(us) -> [G -> Converter]] :
           /\ \A k \in 1 .. Len(us) : f[k] = addUpdate(f[k - 1], us[k])
           /\ f[Len(us)] = addUpdates([g \in G |-> GroupEntryConverter], us)
           /\ \A k \in 0 .. Len(us) : AllHaveRead(f[k], G, FirstUpdates(us, k))
           /\ NothingTwice(us) => NoneFailed(f[Len(us)], G)
<1>0. PICK N \in Nat : N = Len(us)
  OBVIOUS
<1>1. GroupEntryConverter \in Converter
  BY DEF GroupEntryConverter, Converter
<1>2. PICK m \in [G -> Converter] :
        /\ m = [g \in G |-> GroupEntryConverter]
        /\ \A g \in G : m[g] = GroupEntryConverter
  <2> PICK c \in Converter : c = GroupEntryConverter
    BY <1>1
  <2>1. [g \in G |-> c] \in [G -> Converter]
    OBVIOUS
  <2> QED
    BY <2>1
<1>3. \A k \in 1 .. N : /\ us[k] \in Seq(Entry)
                        /\ \A j \in 1 .. Len(us[k]) : us[k][j] \in Entry
                        /\ k - 1 \in 0 .. N /\ k \in 0 .. N
  <2>1. \A k \in 1 .. N : us[k] \in Seq(Entry) /\ k - 1 \in 0 .. N /\ k \in 0 .. N
    BY <1>0
  <2> QED
    BY <2>1
<1>4. PICK f \in [0 .. N -> [G -> Converter]] :
        /\ f[0] = m
        /\ \A k \in 1 .. N : f[k] = addUpdate(f[k - 1], us[k])
        /\ f[N] = addUpdates(m, us)
  <2>1. Within(us, G)
    BY Zenon DEF Readable, Within
  <2>2. \E f \in [0 .. Len(us) -> [G -> Converter]] :
           /\ f[0] = m
           /\ \A k \in 1 .. Len(us) : f[k] = addUpdate(f[k - 1], us[k])
           /\ f[Len(us)] = addUpdates(m, us)
    BY <2>1, UpdatesRead
  <2> QED
    BY <1>0, <2>2
<1> DEFINE Reads == { k \in 0 .. N : AllHaveRead(f[k], G, FirstUpdates(us, k)) }
<1>5. 0 \in Reads
  <2>1. FirstUpdates(us, 0) = {}
    BY DEF FirstUpdates
  <2>2. \A g \in G : HasRead(m[g], g, {})
    BY <1>2 DEF HasRead, GroupEntryConverter
  <2>3. AllHaveRead(f[0], G, FirstUpdates(us, 0))
    BY <1>4, <2>1, <2>2, Zenon DEF AllHaveRead
  <2> QED
    BY <2>3
<1>6. ASSUME NEW k \in 1 .. N
      PROVE  LET D == FirstUpdates(us, k - 1) IN
               /\ f[k] = addUpdate(f[k - 1], us[k]) /\ f[k - 1] \in [G -> Converter]
               /\ D \in SUBSET Entry /\ us[k] \in Seq(Entry)
               /\ FirstUpdates(us, k) = D \cup FirstEntries(us[k], Len(us[k]))
               /\ \A d \in D : WithRP(d)
               /\ \A j \in 1 .. Len(us[k]) : us[k][j].group \in G /\ WithRP(us[k][j])
  <2>1. /\ FirstUpdates(us, k) = FirstUpdates(us, k - 1) \cup FirstEntries(us[k], Len(us[k]))
        /\ FirstUpdates(us, k - 1) \in SUBSET Entry
        /\ \A e : e \in FirstUpdates(us, k - 1) <=>
             \E l \in 1 .. k - 1 : \E j \in 1 .. Len(us[l]) : e = us[l][j]
    BY <1>0, FirstUpdatesFacts
  <2>2. 1 .. k - 1 \subseteq 1 .. N
    OBVIOUS
  <2>3. ASSUME NEW d \in FirstUpdates(us, k - 1) PROVE WithRP(d)
    <3>1. PICK l \in 1 .. k - 1 : \E j \in 1 .. Len(us[l]) : d = us[l][j]
      BY <2>1, Zenon
    <3>2. PICK j \in 1 .. Len(us[l]) : d = us[l][j]
      BY <3>1
    <3>3. l \in 1 .. N
      BY <2>2
    <3> QED
      BY <1>0, <3>2, <3>3, Zenon DEF Readable
  <2>4. \A j \in 1 .. Len(us[k]) : us[k][j].group \in G /\ WithRP(us[k][j])
    BY <1>0, Zenon DEF Readable
  <2> QED
    BY <1>3, <1>4, <2>1, <2>3, <2>4, Zenon
<1>7. ASSUME NEW k \in 1 .. N, k - 1 \in Reads PROVE k \in Reads
  <2> PICK D, d0, u : D = FirstUpdates(us, k - 1) /\ d0 = f[k - 1] /\ u = us[k]
    OBVIOUS
  <2>1. /\ d0 \in [G -> Converter] /\ D \in SUBSET Entry /\ u \in Seq(Entry)
        /\ AllHaveRead(d0, G, D) /\ \A d \in D : WithRP(d)
        /\ \A j \in 1 .. Len(u) : u[j].group \in G /\ WithRP(u[j])
    BY <1>6, <1>7, Zenon
  <2>2. AllHaveRead(addUpdate(d0, u), G, D \cup FirstEntries(u, Len(u)))
    BY <2>1, AddUpdateReads
  <2> QED
    BY <1>3, <1>6, <2>2
<1>8. \A k \in 0 .. N : AllHaveRead(f[k], G, FirstUpdates(us, k))
  <2>1. \A k \in 1 .. N : k - 1 \in Reads => k \in Reads
    BY <1>7
  <2> HIDE DEF Reads
  <2>2. \A k \in 0 .. N : k \in Reads
    BY <1>5, <2>1, FromZero
  <2> QED
    BY <2>2 DEF Reads
<1>9. ASSUME NothingTwice(us) PROVE NoneFailed(f[N], G)
  <2> DEFINE K == { k \in 0 .. N : NoneFailed(f[k], G) }
  <2>1. 0 \in K
    <3>1. ~GroupEntryConverter.failed
      BY DEF GroupEntryConverter
    <3>2. NoneFailed(f[0], G)
      BY <1>2, <1>4, <3>1, Zenon DEF NoneFailed
    <3> QED
      BY <3>2
  <2>2. ASSUME NEW k \in 1 .. N, k - 1 \in K PROVE k \in K
    <3> PICK D, d0, u : D = FirstUpdates(us, k - 1) /\ d0 = f[k - 1] /\ u = us[k]
      OBVIOUS
    <3>1. /\ d0 \in [G -> Converter] /\ D \in SUBSET Entry /\ u \in Seq(Entry)
          /\ AllHaveRead(d0, G, D) /\ \A d \in D : WithRP(d)
          /\ \A j \in 1 .. Len(u) : u[j].group \in G /\ WithRP(u[j])
      BY <1>3, <1>6, <1>8, Zenon
    <3>2. \A j \in 1 .. Len(u) : \A d \in D : Apart(d, u[j])
      <4>1. SUFFICES ASSUME NEW j \in 1 .. Len(u), NEW d \in D PROVE Apart(d, u[j])
        OBVIOUS
      <4>2. PICK l \in 1 .. k - 1 : \E i0 \in 1 .. Len(us[l]) : d = us[l][i0]
        <5>1. k \in 1 .. Len(us) /\ d \in FirstUpdates(us, k - 1)
          BY <1>0
        <5>2. \A e : e \in FirstUpdates(us, k - 1) <=>
                \E l \in 1 .. k - 1 : \E i0 \in 1 .. Len(us[l]) : e = us[l][i0]
          BY <5>1, FirstUpdatesFacts
        <5> QED
          BY <5>1, <5>2, Zenon
      <4>3. PICK i0 \in 1 .. Len(us[l]) : d = us[l][i0]
        BY <4>2
      <4>4. l \in 1 .. N /\ l # k /\ us[l] \in Seq(Entry) /\ us[k] \in Seq(Entry)
        BY <1>3
      <4>5. l \in DOMAIN us /\ k \in DOMAIN us /\ i0 \in DOMAIN us[l] /\ j \in DOMAIN us[k]
        BY <1>0, <4>4
      <4> QED
        BY <1>9, <4>3, <4>4, <4>5, Zenon DEF NothingTwice
    <3>3. \A j, l \in 1 .. Len(u) : j < l => Apart(u[j], u[l])
      <4>1. SUFFICES ASSUME NEW j \in 1 .. Len(u), NEW l \in 1 .. Len(u), j < l
                     PROVE  Apart(u[j], u[l])
        OBVIOUS
      <4>2. k \in DOMAIN us /\ j \in DOMAIN us[k] /\ l \in DOMAIN us[k] /\ j # l
        <5>1. us[k] \in Seq(Entry) /\ j # l
          BY <1>3, <4>1
        <5> QED
          BY <1>0, <5>1
      <4> QED
        BY <1>9, <4>2, Zenon DEF NothingTwice
    <3>4. NoneFailed(d0, G)
      BY <2>2
    <3>5. NoneFailed(addUpdate(d0, u), G)
      BY <3>1, <3>2, <3>3, <3>4, AddUpdateReads
    <3> QED
      BY <1>3, <1>6, <3>5
  <2>3. \A k \in 1 .. N : k - 1 \in K => k \in K
    BY <2>2
  <2> HIDE DEF K
  <2>4. \A k \in 0 .. N : k \in K
    BY <2>1, <2>3, FromZero
  <2> QED
    BY <2>4 DEF K
<1> QED
  BY <1>0, <1>2, <1>4, <1>8, <1>9

(* The updates carry what the configuration asks for, each source and each *)
(* RP once and the prunes with the RP, and every entry carries something.  *)
SoundPacking(cfg, us) ==
  /\ \A e \in AllEntries(us) :
       /\ e.group \in DOMAIN cfg
       /\ SptSources(e) \subseteq 1 .. cfg[e.group].spt
       /\ e.rp => cfg[e.group].rpt
       /\ e.prunes = IF e.rp THEN cfg[e.group].prunes ELSE 0
       /\ e.rp \/ SptSources(e) # {}
  /\ \A g \in DOMAIN cfg :
       /\ \A s \in 1 .. cfg[g].spt : \E e \in AllEntries(us) : e.group = g /\ s \in SptSources(e)
       /\ cfg[g].rpt => \E e \in AllEntries(us) : e.group = g /\ e.rp
  /\ NothingTwice(us)

LEMMA SoundReads ==
  ASSUME NEW cfg \in Seq(GroupConfig), NEW us \in Seq(Seq(Entry)), SoundPacking(cfg, us)
  PROVE  \A e \in AllEntries(us) : WithRP(e)
<1>1. ASSUME NEW e \in AllEntries(us) PROVE WithRP(e)
  <2>1. e.prunes = IF e.rp THEN cfg[e.group].prunes ELSE 0
    BY DEF SoundPacking
  <2> QED
    BY <2>1 DEF WithRP
<1> QED
  BY <1>1

(* What is converted are exactly the groups that occur.                    *)
LEMMA ReadableEntries ==
  ASSUME NEW us \in Seq(Seq(Entry)), \A e \in AllEntries(us) : WithRP(e)
  PROVE  Readable(us, GroupsIn(us))
<1>1. ASSUME NEW k \in 1 .. Len(us), NEW j \in 1 .. Len(us[k])
      PROVE  us[k][j].group \in GroupsIn(us) /\ WithRP(us[k][j])
  <2>1. us[k] \in Seq(Entry)
    OBVIOUS
  <2>2. k \in DOMAIN us /\ j \in DOMAIN us[k]
    BY <2>1
  <2>3. us[k][j] \in AllEntries(us)
    BY <2>2, AllEntriesFacts
  <2> QED
    BY <2>3, AllEntriesFacts
<1> QED
  BY <1>1 DEF Readable

LEMMA Conversion ==
  ASSUME NEW us \in Seq(Seq(Entry)), \A e \in AllEntries(us) : WithRP(e)
  PROVE  /\ convertUpdatesToJPConfig(us) \in [GroupsIn(us) -> Converter]
         /\ AllHaveRead(convertUpdatesToJPConfig(us), GroupsIn(us), AllEntries(us))
         /\ NothingTwice(us) => NoneFailed(convertUpdatesToJPConfig(us), GroupsIn(us))
<1> PICK G : G = GroupsIn(us)
  OBVIOUS
<1>1. Readable(us, G)
  BY ReadableEntries
<1>2. PICK f \in [0 .. Len(us) -> [G -> Converter]] :
           /\ \A k \in 1 .. Len(us) : f[k] = addUpdate(f[k - 1], us[k])
           /\ f[Len(us)] = addUpdates([g \in G |-> GroupEntryConverter], us)
           /\ \A k \in 0 .. Len(us) : AllHaveRead(f[k], G, FirstUpdates(us, k))
           /\ NothingTwice(us) => NoneFailed(f[Len(us)], G)
  BY <1>1, ConversionReads
<1>3. Len(us) \in 0 .. Len(us)
  OBVIOUS
<1>4. f[Len(us)] = convertUpdatesToJPConfig(us)
  BY <1>2, Zenon DEF convertUpdatesToJPConfig
<1> QED
  BY <1>2, <1>3, <1>4 DEF AllEntries

(* What is read back of a sound packing is the configuration.              *)
LEMMA ReadBack ==
  ASSUME NEW cfg \in Seq(GroupConfig), NEW us \in Seq(Seq(Entry)), SoundPacking(cfg, us)
  PROVE  LET c == convertUpdatesToJPConfig(us) IN
           /\ c \in [GroupsIn(us) -> Converter]
           /\ GroupsIn(us) = { g \in DOMAIN cfg : ~EmptyGroup(cfg[g]) }
           /\ \A g \in GroupsIn(us) :
                /\ ~c[g].failed
                /\ c[g].joins = 1 .. cfg[g].spt
                /\ c[g].rp = cfg[g].rpt
                /\ c[g].rp => c[g].prunes = 1 .. cfg[g].prunes
<1> PICK c : c = convertUpdatesToJPConfig(us)
  OBVIOUS
<1>1. /\ c \in [GroupsIn(us) -> Converter]
      /\ AllHaveRead(c, GroupsIn(us), AllEntries(us))
      /\ NoneFailed(c, GroupsIn(us))
  <2>1. \A e \in AllEntries(us) : WithRP(e)
    BY SoundReads
  <2>2. NothingTwice(us)
    BY DEF SoundPacking
  <2> QED
    BY <2>1, <2>2, Conversion
<1>2. AllEntries(us) \in SUBSET Entry
  BY AllEntriesFacts
<1>3. \A g \in DOMAIN cfg : cfg[g] \in GroupConfig
  OBVIOUS
<1>4. \A g \in DOMAIN cfg : cfg[g].spt \in Nat /\ cfg[g].rpt \in BOOLEAN
  BY <1>3 DEF GroupConfig
<1>5. ASSUME NEW g, g \in GroupsIn(us) PROVE g \in DOMAIN cfg /\ ~EmptyGroup(cfg[g])
  <2>1. PICK e \in AllEntries(us) : e.group = g
    BY <1>5, AllEntriesFacts
  <2>2. /\ g \in DOMAIN cfg /\ SptSources(e) \subseteq 1 .. cfg[g].spt
        /\ e.rp => cfg[g].rpt
        /\ e.rp \/ SptSources(e) # {}
    BY <2>1 DEF SoundPacking
  <2> QED
    BY <1>4, <2>2 DEF EmptyGroup
<1>6. ASSUME NEW g \in DOMAIN cfg, ~EmptyGroup(cfg[g]) PROVE g \in GroupsIn(us)
  <2>1. CASE cfg[g].rpt
    <3>1. \E e \in AllEntries(us) : e.group = g
      BY <2>1 DEF SoundPacking
    <3> QED
      BY <3>1, AllEntriesFacts
  <2>2. CASE cfg[g].spt # 0
    <3>1. 1 \in 1 .. cfg[g].spt
      BY <1>4, <2>2
    <3>2. \E e \in AllEntries(us) : e.group = g
      BY <3>1 DEF SoundPacking
    <3> QED
      BY <3>2, AllEntriesFacts
  <2> QED
    BY <1>6, <2>1, <2>2 DEF EmptyGroup
<1>7. ASSUME NEW g \in GroupsIn(us)
      PROVE  /\ ~c[g].failed
             /\ c[g].joins = 1 .. cfg[g].spt
             /\ c[g].rp = cfg[g].rpt
             /\ c[g].rp => c[g].prunes = 1 .. cfg[g].prunes
  <2>1. HasRead(c[g], g, AllEntries(us)) /\ ~c[g].failed /\ g \in DOMAIN cfg
    BY <1>1, <1>5, Zenon DEF AllHaveRead, NoneFailed
  <2>2. c[g] \in Converter
    BY <1>1
  <2>3. /\ \A s : s \in c[g].joins <=> \E e \in AllEntries(us) : e.group = g /\ s \in SptSources(e)
        /\ c[g].rp <=> \E e \in AllEntries(us) : e.group = g /\ e.rp
        /\ \A s : s \in c[g].prunes <=> \E e \in AllEntries(us) : e.group = g /\ s \in 1 .. e.prunes
    BY <2>1, Zenon DEF HasRead
  <2>4. \A s : s \in c[g].joins <=> s \in 1 .. cfg[g].spt
    <3>1. ASSUME NEW s, s \in c[g].joins PROVE s \in 1 .. cfg[g].spt
      <4>1. PICK e \in AllEntries(us) : e.group = g /\ s \in SptSources(e)
        BY <2>3, <3>1
      <4>2. SptSources(e) \subseteq 1 .. cfg[e.group].spt
        BY DEF SoundPacking
      <4> QED
        BY <4>1, <4>2
    <3>2. \A s \in 1 .. cfg[g].spt : \E e \in AllEntries(us) : e.group = g /\ s \in SptSources(e)
      BY <2>1, Zenon DEF SoundPacking
    <3> QED
      BY <2>3, <3>1, <3>2, Zenon
  <2>5. c[g].rp <=> cfg[g].rpt
    BY <2>1, <2>3, Zenon DEF SoundPacking
  <2>6. c[g].rp \in BOOLEAN /\ cfg[g].rpt \in BOOLEAN
    BY <1>4, <2>1, <2>2 DEF Converter
  <2>7. ASSUME c[g].rp PROVE \A s : s \in c[g].prunes <=> s \in 1 .. cfg[g].prunes
    <3>1. \A e \in AllEntries(us) : e.group = g =>
            e.prunes = IF e.rp THEN cfg[g].prunes ELSE 0
      BY DEF SoundPacking
    <3>2. ASSUME NEW s, s \in c[g].prunes PROVE s \in 1 .. cfg[g].prunes
      <4>1. PICK e \in AllEntries(us) : e.group = g /\ s \in 1 .. e.prunes
        BY <2>3, <3>2
      <4>2. e.prunes # 0
        BY <4>1
      <4> QED
        BY <3>1, <4>1, <4>2
    <3>3. ASSUME NEW s, s \in 1 .. cfg[g].prunes PROVE s \in c[g].prunes
      <4>1. PICK e \in AllEntries(us) : e.group = g /\ e.rp
        BY <2>3, <2>7
      <4> QED
        BY <2>3, <3>1, <3>3, <4>1
    <3> QED
      BY <3>2, <3>3
  <2> QED
    BY <2>1, <2>4, <2>5, <2>6, <2>7
<1> QED
  BY <1>1, <1>5, <1>6, <1>7

(* verifyUpdates() of a sound packing: only the groups with nothing to     *)
(* join are reported.                                                      *)
LEMMA SoundVerdict ==
  ASSUME NEW cfg \in Seq(GroupConfig), NEW us \in Seq(Seq(Entry)), SoundPacking(cfg, us)
  PROVE  verifyUpdates(cfg, us) =
           { Complaint(g, "missing group") : g \in { h \in DOMAIN cfg : EmptyGroup(cfg[h]) } }
<1> PICK c : c = convertUpdatesToJPConfig(us)
  OBVIOUS
<1> PICK G : G = GroupsIn(us)
  OBVIOUS
<1>1. /\ c \in [G -> Converter]
      /\ G = { g \in DOMAIN cfg : ~EmptyGroup(cfg[g]) }
      /\ \A g \in G : /\ ~c[g].failed
                      /\ c[g].joins = 1 .. cfg[g].spt
                      /\ c[g].rp = cfg[g].rpt
                      /\ c[g].rp => c[g].prunes = 1 .. cfg[g].prunes
  BY ReadBack
<1>2. DOMAIN c = G /\ { g \in DOMAIN c : c[g].failed } = {}
  BY <1>1
<1>3. verifyUpdates(cfg, us) = compareJPConfigs(cfg, c)
  BY <1>2 DEF verifyUpdates
<1>4. ASSUME NEW g \in DOMAIN cfg \cap DOMAIN c PROVE compare(g, cfg[g], c[g]) = {}
  <2> PICK a, b : a = cfg[g] /\ b = c[g]
    OBVIOUS
  <2>1. /\ b.joins = 1 .. a.spt /\ b.rp = a.rpt
        /\ b.rp => b.prunes = 1 .. a.prunes
    BY <1>1, <1>2, <1>4
  <2>2. compare(g, a, b) = {}
    BY <2>1 DEF compare, compareAddrSets, Report
  <2> QED
    BY <2>2
<1>5. UNION { compare(g, cfg[g], c[g]) : g \in DOMAIN cfg \cap DOMAIN c } = {}
  <2>1. \A S \in { compare(g, cfg[g], c[g]) : g \in DOMAIN cfg \cap DOMAIN c } : S = {}
    BY <1>4
  <2> QED
    BY <2>1
<1>6. DOMAIN cfg \ DOMAIN c = { h \in DOMAIN cfg : EmptyGroup(cfg[h]) } /\ DOMAIN c \ DOMAIN cfg = {}
  BY <1>1, <1>2
<1>7. groupComplaints(cfg, c) =
        { Complaint(g, "missing group") : g \in { h \in DOMAIN cfg : EmptyGroup(cfg[h]) } }
  BY <1>6 DEF groupComplaints, compareAddrSets
<1> QED
  BY <1>3, <1>5, <1>7 DEF compareJPConfigs

(* An update lost to one entry: what the entry carried is missing.         *)
LEMMA LossNoticed ==
  ASSUME NEW cfg \in Seq(GroupConfig), NEW us \in Seq(Seq(Entry)), SoundPacking(cfg, us),
         NEW k \in DOMAIN us, NEW j \in DOMAIN us[k]
  PROVE  verifyUpdates(cfg, Without(us, k, j)) # {}
<1>0. PICK w, e, g, c : /\ w = Without(us, k, j) /\ e = us[k][j] /\ g = e.group
                        /\ c = convertUpdatesToJPConfig(w)
  OBVIOUS
<1>1. /\ w \in Seq(Seq(Entry))
      /\ \A d \in AllEntries(w) : \E l \in DOMAIN us : \E i0 \in DOMAIN us[l] :
           d = us[l][i0] /\ (l # k \/ i0 # j)
  BY <1>0, WithoutFacts
<1>2. e \in AllEntries(us) /\ AllEntries(us) \in SUBSET Entry
  BY <1>0, AllEntriesFacts
<1>3. \A d \in AllEntries(w) : d \in AllEntries(us) /\ Apart(d, e)
  <2>1. SUFFICES ASSUME NEW d \in AllEntries(w) PROVE d \in AllEntries(us) /\ Apart(d, e)
    OBVIOUS
  <2>2. PICK l \in DOMAIN us : \E i0 \in DOMAIN us[l] : d = us[l][i0] /\ (l # k \/ i0 # j)
    BY <1>1
  <2>3. PICK i0 \in DOMAIN us[l] : d = us[l][i0] /\ (l # k \/ i0 # j)
    BY <2>2
  <2>4. d \in AllEntries(us)
    BY <2>3, AllEntriesFacts
  <2>5. NothingTwice(us)
    BY DEF SoundPacking
  <2>6. Apart(us[l][i0], us[k][j])
    BY <2>3, <2>5, Zenon DEF NothingTwice
  <2> QED
    BY <1>0, <2>3, <2>4, <2>6
<1>4. \A d \in AllEntries(w) : WithRP(d)
  BY <1>3, SoundReads
<1>5. /\ c \in [GroupsIn(w) -> Converter]
      /\ AllHaveRead(c, GroupsIn(w), AllEntries(w))
  BY <1>0, <1>1, <1>4, Conversion
<1>6. /\ g \in DOMAIN cfg
      /\ SptSources(e) \subseteq 1 .. cfg[g].spt
      /\ e.rp => cfg[g].rpt
      /\ e.rp \/ SptSources(e) # {}
  BY <1>0, <1>2, Zenon DEF SoundPacking
<1>7. CASE { h \in DOMAIN c : c[h].failed } # {}
  <2>1. verifyUpdates(cfg, w) = { Complaint(h, "failed") : h \in { h \in DOMAIN c : c[h].failed } }
    BY <1>0, <1>7 DEF verifyUpdates
  <2> QED
    BY <1>0, <1>7, <2>1
<1>8. CASE { h \in DOMAIN c : c[h].failed } = {}
  <2>1. verifyUpdates(cfg, w) = compareJPConfigs(cfg, c)
    BY <1>0, <1>8 DEF verifyUpdates
  <2>2. CASE g \notin DOMAIN c
    <3>1. Complaint(g, "missing group") \in groupComplaints(cfg, c)
      BY <1>6, <2>2 DEF groupComplaints, compareAddrSets
    <3> QED
      BY <1>0, <2>1, <3>1 DEF compareJPConfigs
  <2>3. CASE g \in DOMAIN c
    <3> PICK a, b : a = cfg[g] /\ b = c[g]
      OBVIOUS
    <3>1. HasRead(b, g, AllEntries(w))
      BY <1>5, <2>3 DEF AllHaveRead
    <3>2. SUFFICES compare(g, a, b) # {}
      <4>1. compare(g, cfg[g], c[g]) \in { compare(h, cfg[h], c[h]) : h \in DOMAIN cfg \cap DOMAIN c }
        BY <1>6, <2>3
      <4> QED
        BY <1>0, <2>1, <3>2, <4>1 DEF compareJPConfigs
    <3>3. CASE e.rp
      <4>1. ~b.rp
        <5>1. \A d \in AllEntries(w) : ~(d.group = g /\ d.rp)
          BY <1>0, <1>3, <3>3, Zenon DEF Apart
        <5> QED
          BY <3>1, <5>1, Zenon DEF HasRead
      <4>2. a.rpt
        BY <1>6, <3>3
      <4>3. Complaint(g, "no RPT") \in compare(g, a, b)
        BY <4>1, <4>2 DEF compare, Report
      <4> QED
        BY <4>3
    <3>4. CASE SptSources(e) # {}
      <4>1. PICK s : s \in SptSources(e)
        BY <3>4
      <4>2. s \notin b.joins
        <5>1. \A d \in AllEntries(w) : ~(d.group = g /\ s \in SptSources(d))
          <6>1. \A d \in AllEntries(w) : d.group = g => SptSources(d) \cap SptSources(e) = {}
            BY <1>0, <1>3, Zenon DEF Apart
          <6> QED
            BY <4>1, <6>1, Zenon
        <5> QED
          BY <3>1, <5>1, Zenon DEF HasRead
      <4>3. (1 .. a.spt) \ b.joins # {}
        BY <1>6, <4>1, <4>2
      <4>4. Complaint(g, "missing SPT joins") \in compare(g, a, b)
        BY <4>3 DEF compare, Report, compareAddrSets
      <4> QED
        BY <4>4
    <3> QED
      BY <1>6, <3>3, <3>4
  <2> QED
    BY <2>2, <2>3
<1> QED
  BY <1>7, <1>8

(* An update of one entry is read like that entry.                         *)
LEMMA SingleRead ==
  ASSUME NEW G, NEW m \in [G -> Converter], NEW u \in Seq(Entry), Len(u) = 1,
         \A k \in 1 .. Len(u) : u[k].group \in G
  PROVE  addUpdate(m, u) = addEntry(m, u[1])
<1>2. PICK f \in [0 .. Len(u) -> [G -> Converter]] :
        /\ f[0] = m
        /\ \A k \in 1 .. Len(u) : f[k] = addEntry(f[k - 1], u[k])
        /\ f[Len(u)] = addUpdate(m, u)
  BY UpdateRead
<1>3. f[1] = addEntry(f[0], u[1])
  <2>1. 1 \in 1 .. Len(u) /\ 1 - 1 = 0
    OBVIOUS
  <2> QED
    BY <1>2, <2>1
<1> QED
  BY <1>2, <1>3

(* An entry repeated: its converter has read what it carries before.       *)
LEMMA RepeatNoticed ==
  ASSUME NEW cfg \in Seq(GroupConfig), NEW us \in Seq(Seq(Entry)), SoundPacking(cfg, us),
         NEW k \in DOMAIN us, NEW j \in DOMAIN us[k]
  PROVE  verifyUpdates(cfg, Doubled(us, k, j)) # {}
<1>0. PICK w, e, g, c : /\ w = Doubled(us, k, j) /\ e = us[k][j] /\ g = e.group
                        /\ c = convertUpdatesToJPConfig(w)
  OBVIOUS
<1>n. PICK N \in Nat : N = Len(us)
  OBVIOUS
<1>g. PICK G : G = GroupsIn(w)
  OBVIOUS
<1>1. /\ w \in Seq(Seq(Entry)) /\ Len(w) = N + 1 /\ w[N + 1] = << e >>
      /\ e \in FirstUpdates(w, N)
      /\ AllEntries(w) = AllEntries(us)
  BY <1>0, <1>n, DoubledFacts
<1>2. e \in AllEntries(us) /\ AllEntries(us) \in SUBSET Entry
  BY <1>0, AllEntriesFacts
<1>3. e \in Entry /\ g \in G /\ e.group = g /\ (e.rp \/ SptSources(e) # {})
  <2>1. e.rp \/ SptSources(e) # {}
    BY <1>2, Zenon DEF SoundPacking
  <2>2. g \in GroupsIn(w)
    BY <1>0, <1>1, <1>2, AllEntriesFacts
  <2> QED
    BY <1>0, <1>2, <1>g, <2>1, <2>2
<1>4. Readable(w, G)
  BY <1>1, <1>g, SoundReads, ReadableEntries
<1>5. PICK f \in [0 .. Len(w) -> [G -> Converter]] :
           /\ \A l \in 1 .. Len(w) : f[l] = addUpdate(f[l - 1], w[l])
           /\ f[Len(w)] = addUpdates([h \in G |-> GroupEntryConverter], w)
           /\ \A l \in 0 .. Len(w) : AllHaveRead(f[l], G, FirstUpdates(w, l))
           /\ NothingTwice(w) => NoneFailed(f[Len(w)], G)
  BY <1>1, <1>4, ConversionReads
<1>6. N + 1 \in 1 .. Len(w) /\ (N + 1) - 1 = N /\ N \in 0 .. Len(w) /\ N + 1 = Len(w)
  BY <1>1
<1>7. f[N] \in [G -> Converter] /\ AllHaveRead(f[N], G, FirstUpdates(w, N))
  BY <1>5, <1>6
<1>8. c = addEntry(f[N], e)
  <2>1. f[N + 1] = addUpdate(f[N], << e >>)
    BY <1>1, <1>5, <1>6
  <2>2. addUpdate(f[N], << e >>) = addEntry(f[N], e)
    <3>0. PICK u : u = << e >>
      OBVIOUS
    <3>1. u \in Seq(Entry) /\ Len(u) = 1 /\ u[1] = e /\ \A l \in 1 .. Len(u) : u[l].group \in G
      BY <1>3, <3>0
    <3>2. addUpdate(f[N], u) = addEntry(f[N], u[1])
      BY <1>7, <3>1, SingleRead
    <3> QED
      BY <3>0, <3>1, <3>2
  <2>3. c = f[N + 1]
    BY <1>0, <1>5, <1>6, <1>g DEF convertUpdatesToJPConfig
  <2> QED
    BY <2>1, <2>2, <2>3
<1>b. PICK b : b = f[N][g]
  OBVIOUS
<1>9. c \in [G -> Converter] /\ c[g] = add(b, e)
  <2>m. PICK m \in [G -> Converter] : m = f[N]
    BY <1>7
  <2>0. m \in [G -> Converter] /\ e \in Entry /\ e.group \in G
    BY <1>3
  <2>1. addEntry(m, e) \in [G -> Converter]
    BY <2>0, AddEntryFacts
  <2>2. addEntry(m, e)[e.group] = add(m[e.group], e)
    BY <2>0, AddEntryFacts
  <2> QED
    BY <1>3, <1>8, <1>b, <2>1, <2>2, <2>m
<1>10. HasRead(b, g, FirstUpdates(w, N))
  BY <1>3, <1>7, <1>b DEF AllHaveRead
<1>11. add(b, e).failed
  <2>1. CASE e.rp
    <3>1. b.rp
      BY <1>1, <1>3, <1>10, <2>1, Zenon DEF HasRead
    <3> QED
      BY <2>1, <3>1 DEF add
  <2>2. CASE SptSources(e) # {}
    <3>1. PICK s : s \in SptSources(e)
      BY <2>2
    <3>2. s \in b.joins
      BY <1>1, <1>3, <1>10, <3>1, Zenon DEF HasRead
    <3>3. b.joins \cap SptSources(e) # {}
      BY <3>1, <3>2
    <3> QED
      BY <3>3 DEF add
  <2> QED
    BY <1>3, <2>1, <2>2
<1>12. g \in { h \in DOMAIN c : c[h].failed }
  BY <1>3, <1>9, <1>11
<1>13. verifyUpdates(cfg, w) = { Complaint(h, "failed") : h \in { h \in DOMAIN c : c[h].failed } }
  BY <1>0, <1>12 DEF verifyUpdates
<1> QED
  BY <1>0, <1>12, <1>13

(* verifyUpdates() is exact on a sound packing and tells it from each      *)
(* update with one entry lost or repeated.                                 *)
LEMMA ExactVerdict ==
  ASSUME NEW cfg \in Seq(GroupConfig), NEW us \in Seq(Seq(Entry)), SoundPacking(cfg, us)
  PROVE  NoticesTampering(verifyUpdates, cfg, us)
<1>1. ASSUME NEW k \in DOMAIN us, NEW m \in DOMAIN us[k]
      PROVE  /\ verifyUpdates(cfg, Without(us, k, m)) # {}
             /\ verifyUpdates(cfg, Doubled(us, k, m)) # {}
  BY LossNoticed, RepeatNoticed
<1> QED
  BY <1>1, Zenon DEF NoticesTampering

(* What pack() returns is a sound packing of what it was asked to pack.    *)
LEMMA PackedSoundly ==
  ASSUME IInv, pc = "done"
  PROVE  SoundPacking(jpCfg, updates)
<1>1. updates \in Seq(Seq(Entry))
  BY DEF IInv, TypeOK
<1>2. /\ Lossless
      /\ \A k \in DOMAIN updates : \A m \in DOMAIN updates[k] :
           CarriesSomething(updates[k][m])
  BY DEF IInv, ResultInv
<1>3. \A d : d \in AllEntries(updates) <=>
        \E k \in DOMAIN updates : \E m \in DOMAIN updates[k] : d = updates[k][m]
  BY <1>1, AllEntriesFacts
<1>4. ASSUME NEW e \in AllEntries(updates)
      PROVE  /\ e.group \in DOMAIN jpCfg
             /\ SptSources(e) \subseteq 1 .. jpCfg[e.group].spt
             /\ e.rp => jpCfg[e.group].rpt
             /\ e.prunes = IF e.rp THEN jpCfg[e.group].prunes ELSE 0
             /\ e.rp \/ SptSources(e) # {}
  <2>1. PICK k \in DOMAIN updates : \E m \in DOMAIN updates[k] : e = updates[k][m]
    BY <1>3
  <2>2. PICK m \in DOMAIN updates[k] : e = updates[k][m]
    BY <2>1
  <2>3. CarriesSomething(e)
    BY <1>2, <2>2
  <2> QED
    BY <1>2, <2>2, <2>3 DEF Lossless, CarriesSomething
<1>5. ASSUME NEW g \in DOMAIN jpCfg, NEW s \in 1 .. jpCfg[g].spt
      PROVE  \E e \in AllEntries(updates) : e.group = g /\ s \in SptSources(e)
  <2>1. CarriesSource(updates, g, s)
    BY <1>2 DEF Lossless
  <2>2. PICK k \in DOMAIN updates : \E m \in DOMAIN updates[k] :
          updates[k][m].group = g /\ s \in SptSources(updates[k][m])
    BY <2>1 DEF CarriesSource
  <2> QED
    BY <1>3, <2>2
<1>6. ASSUME NEW g \in DOMAIN jpCfg, jpCfg[g].rpt
      PROVE  \E e \in AllEntries(updates) : e.group = g /\ e.rp
  <2>1. CarriesRp(updates, g)
    BY <1>2, <1>6 DEF Lossless
  <2>2. PICK k \in DOMAIN updates : \E m \in DOMAIN updates[k] :
          updates[k][m].group = g /\ updates[k][m].rp
    BY <2>1 DEF CarriesRp
  <2> QED
    BY <1>3, <2>2
<1>7. NothingTwice(updates)
  BY <1>2 DEF Lossless
<1> QED
  BY <1>4, <1>5, <1>6, <1>7 DEF SoundPacking

(* pimc may trust verifyUpdates() (PackSanityCheck.hpp:256-276) with any   *)
(* configuration and all sizes: of what pack() returns it reports the      *)
(* groups with nothing to join and nothing else, and it notices each       *)
(* single entry that is taken out or repeated.                             *)
THEOREM VerifyUpdatesTheorem == Spec => []VerifyUpdatesExact
<1>1. ASSUME IInv PROVE VerifyUpdatesExact
  <2>1. SUFFICES ASSUME pc = "done"
                 PROVE  /\ verifyUpdates(jpCfg, updates) =
                             { Complaint(g, "missing group") :
                                 g \in { h \in DOMAIN jpCfg : EmptyGroup(jpCfg[h]) } }
                        /\ NoticesTampering(verifyUpdates, jpCfg, updates)
    BY Zenon DEF VerifyUpdatesExact
  <2>2. /\ jpCfg \in Seq(GroupConfig) /\ updates \in Seq(Seq(Entry))
        /\ SoundPacking(jpCfg, updates)
    BY <1>1, <2>1, PackedSoundly DEF IInv, TypeOK
  <2> QED
    BY <2>2, SoundVerdict, ExactVerdict, Zenon
<1>2. IInv => VerifyUpdatesExact
  BY <1>1
<1> QED
  BY <1>2, Invariance, PTL
=============================================================================
