-------------------------------- MODULE Pack --------------------------------
(***************************************************************************)
(* pack(): how pimc distributes the configured groups over PIM-SM          *)
(* Join/Prune updates (UpdatePacker in apps/pimc/pimsm/Pack.hpp).          *)
(*                                                                         *)
(* The groups are fitted one after another.  The RP join and the (S,G,rpt) *)
(* prunes of a group must travel in one update, so a place for them,       *)
(* rptUb, is reserved first; the SPT joins are then poured into the        *)
(* updates from start on, and the RPT part is added when the cursor comes  *)
(* to rptUb, or after the loop if the joins run out before that.           *)
(***************************************************************************)
EXTENDS UpdateBuilders

(* The RP join of a group and its n rpt prunes, in an entry of their own.  *)
RptSize(n) == GrpHdrSize + SrcASize * (n + 1)

ASSUME RptFitsAssumption == RptSize(MaxPruneSGrptLen) <= JPCapacity

VARIABLES
  jpCfg,    \* the configuration being packed; never changes
  ubq,      \* the queue of updates under construction
  start,    \* the first update worth looking at
  gi,       \* the group being fitted
  i,        \* the position of the cursor of findRptUb() or fitGroup()
  srci,     \* how many SPT joins of the group have been placed
  rptUb,    \* the update reserved for the RPT part, 0 for nullptr
  pc,       \* "group", "findRptUb", "fitGroup", "done", "raised"
  updates   \* what pack() returns

vars == <<jpCfg, ubq, start, gi, i, srci, rptUb, pc, updates>>

Group == jpCfg[gi]

Init ==
  /\ jpCfg \in Configs
  /\ ubq = << EmptyBuilder >>
  /\ start = 1
  /\ gi = 1
  /\ i = 1
  /\ srci = 0
  /\ rptUb = 0
  /\ pc = "group"
  /\ updates = << >>
-----------------------------------------------------------------------------
(* Entering fitGroup() with the next group of the configuration.           *)
StartGroup ==
  /\ pc = "group"
  /\ gi <= Len(jpCfg)
  /\ i' = start
  /\ srci' = 0
  /\ rptUb' = 0
  /\ pc' = IF Group.rpt THEN "findRptUb" ELSE "fitGroup"
  /\ UNCHANGED <<jpCfg, ubq, start, gi, updates>>

(* findRptUb(): this update has no room for the RPT part, try the next.    *)
SkipUpdate ==
  /\ pc = "findRptUb"
  /\ Remaining(ubq[i]) < RptSize(Group.prunes)
  /\ i' = i + 1
  /\ ubq' = Grown(ubq, i + 1)
  /\ UNCHANGED <<jpCfg, start, gi, srci, rptUb, pc, updates>>

(* findRptUb(): reserve this update; fitGroup()'s own cursor starts over.  *)
ReserveUpdate ==
  /\ pc = "findRptUb"
  /\ Remaining(ubq[i]) >= RptSize(Group.prunes)
  /\ rptUb' = i
  /\ i' = start
  /\ pc' = "fitGroup"
  /\ UNCHANGED <<jpCfg, ubq, start, gi, srci, updates>>
-----------------------------------------------------------------------------
(* The next n SPT joins of the group, with the RPT part or without it.     *)
NextEntry(n, withRpt) ==
  [group |-> gi, first |-> srci + 1, last |-> srci + n,
   rp |-> withRpt, prunes |-> IF withRpt THEN Group.prunes ELSE 0]

(* c.add(geb); srci += n; ++c.                                             *)
AddAndAdvance(n, withRpt) ==
  LET e == NextEntry(n, withRpt)
      q == Store(ubq, i, e)
  IN  IF Overflows(ubq[i], e)
      THEN /\ pc' = "raised"
           /\ UNCHANGED <<ubq, start, i, srci>>
      ELSE /\ ubq' = Grown(q, i + 1)
           /\ start' \in NewStarts(q, start, i)
           /\ i' = i + 1
           /\ srci' = srci + n
           /\ UNCHANGED pc

(* How many of the joins left fit into rem bytes.                          *)
Fitting(rem) == Least(MaxSources(rem), Group.spt - srci)

(* A loop that takes "no room here" for a reason to try the same update.   *)
RetryUpdate ==
  /\ pc = "fitGroup"
  /\ srci < Group.spt
  /\ i # rptUb
  /\ Fitting(Remaining(ubq[i])) = 0
  /\ UNCHANGED vars

(* The loop of fitGroup() at an update with no room: only ++c.             *)
PassUpdate ==
  /\ pc = "fitGroup"
  /\ srci < Group.spt
  /\ i # rptUb
  /\ Fitting(Remaining(ubq[i])) = 0
  /\ i' = i + 1
  /\ ubq' = Grown(ubq, i + 1)
  /\ UNCHANGED <<jpCfg, start, gi, srci, rptUb, pc, updates>>

(* The loop of fitGroup() at an update other than rptUb.                   *)
FitJoins ==
  /\ pc = "fitGroup"
  /\ srci < Group.spt
  /\ i # rptUb
  /\ Fitting(Remaining(ubq[i])) > 0
  /\ AddAndAdvance(Fitting(Remaining(ubq[i])), FALSE)
  /\ UNCHANGED <<jpCfg, gi, rptUb, updates>>

(* A fitGroup() that forgets that the RPT part has been added.             *)
FitJoinsAndRptTwice ==
  /\ pc = "fitGroup"
  /\ srci < Group.spt
  /\ i = rptUb
  /\ AddAndAdvance(
       Fitting(SizeSub(Remaining(ubq[i]), SrcASize * (Group.prunes + 1))), TRUE)
  /\ UNCHANGED <<jpCfg, gi, rptUb, updates>>

(* The loop of fitGroup() at rptUb: joins, the RP and all the rpt prunes.  *)
FitJoinsAndRpt ==
  /\ pc = "fitGroup"
  /\ srci < Group.spt
  /\ i = rptUb
  /\ rptUb' = 0
  /\ AddAndAdvance(
       Fitting(SizeSub(Remaining(ubq[i]), SrcASize * (Group.prunes + 1))), TRUE)
  /\ UNCHANGED <<jpCfg, gi, updates>>

(* After the loop the RPT part is still to be added: straight to rptUb,    *)
(* with no updateStart().                                                  *)
FitRptOnly ==
  /\ pc = "fitGroup"
  /\ srci >= Group.spt
  /\ rptUb # 0
  /\ LET e == NextEntry(0, TRUE)
     IN  IF Overflows(ubq[rptUb], e)
         THEN /\ pc' = "raised"
              /\ UNCHANGED <<ubq, gi>>
         ELSE /\ ubq' = Store(ubq, rptUb, e)
              /\ gi' = gi + 1
              /\ pc' = "group"
  /\ UNCHANGED <<jpCfg, start, i, srci, rptUb, updates>>

(* A fitGroup() that forgets what is still reserved when the joins run out.*)
EndGroupDropsRpt ==
  /\ pc = "fitGroup"
  /\ srci >= Group.spt
  /\ gi' = gi + 1
  /\ pc' = "group"
  /\ UNCHANGED <<jpCfg, ubq, start, i, srci, rptUb, updates>>

(* After the loop nothing is left of the group.                            *)
EndGroup ==
  /\ pc = "fitGroup"
  /\ srci >= Group.spt
  /\ rptUb = 0
  /\ gi' = gi + 1
  /\ pc' = "group"
  /\ UNCHANGED <<jpCfg, ubq, start, i, srci, rptUb, updates>>

(* build(): every update is returned, a last one left empty is not.        *)
Build ==
  /\ pc = "group"
  /\ gi > Len(jpCfg)
  /\ LET n == IF ubq[Len(ubq)].entries = << >> THEN Len(ubq) - 1 ELSE Len(ubq)
     IN  updates' = [k \in 1 .. n |-> ubq[k].entries]
  /\ pc' = "done"
  /\ UNCHANGED <<jpCfg, ubq, start, gi, i, srci, rptUb>>

Next ==
  \/ StartGroup
  \/ SkipUpdate
  \/ ReserveUpdate
  \/ PassUpdate
  \/ FitJoins
  \/ FitJoinsAndRpt
  \/ FitRptOnly
  \/ EndGroup
  \/ Build

Spec == Init /\ [][Next]_vars /\ WF_vars(Next)
-----------------------------------------------------------------------------
(***************************************************************************)
(* Properties                                                              *)
(***************************************************************************)

(* Every variable has its type.                                            *)
TypeOK ==
  /\ jpCfg \in Seq(GroupConfig)
  /\ ubq \in Seq(Builder)
  /\ gi \in 1 .. Len(jpCfg) + 1
  /\ start \in 1 .. Len(ubq)
  /\ i \in 1 .. Len(ubq)
  /\ srci \in Nat
  /\ rptUb \in 0 .. Len(ubq)
  /\ pc \in {"group", "findRptUb", "fitGroup", "done", "raised"}
  /\ updates \in Seq(Seq(Entry))

(* No update outgrows its packet and chkSz() (Pack.hpp:82-87) never raises:*)
(* what the packer takes for the room left is always really there, the     *)
(* place reserved for the RPT part included, and remaining() never wraps.  *)
CapacityRespected ==
  /\ pc # "raised"
  /\ WithinCapacity(ubq)
  /\ pc = "fitGroup" /\ rptUb # 0 =>
       RptSize(Group.prunes) <= Remaining(ubq[rptUb])

(* Only the last update of the queue can be empty, so dropping one empty   *)
(* update in build() (Pack.hpp:183-192) is enough: no J/P packet without a *)
(* group is ever sent, and no group is dropped with it.                    *)
OnlyLastEmpty ==
  /\ LastAloneEmpty(ubq)
  /\ \A k \in DOMAIN updates : updates[k] # << >>

(* Within an update the groups stand in the order of the configuration and *)
(* each of them once: the RPT part of a group is merged with the SPT joins *)
(* that land in the same update, never added beside them                   *)
(* (Pack.hpp:151-168 against 172-180).                                     *)
GroupsAscend == AscendingGroups(ubq)

(* SPT joins go on to the next update only when no entry fits any more:    *)
(* every update before one that carries SPT joins is full.  This is also   *)
(* what makes it right for updateStart() (UBCursor.hpp:73-82) to move      *)
(* start past the updates it leaves.                                       *)
SpillsOnlyWhenFull == FullBefore(ubq, start) /\ SpillsFromFull(ubq)

(* pack() loses and invents nothing, what verifyUpdates() checks before    *)
(* pimc starts (PackSanityCheck.hpp:257-276): each SPT join of each group  *)
(* is in exactly one update, and the RP is joined in exactly one, together *)
(* with all the rpt prunes of the group, and only where it is configured.  *)
Lossless ==
  pc = "done" =>
    /\ \A k \in DOMAIN updates : \A m \in DOMAIN updates[k] :
         LET e == updates[k][m] IN
           /\ e.group \in DOMAIN jpCfg
           /\ SptSources(e) \subseteq 1 .. jpCfg[e.group].spt
           /\ e.rp => jpCfg[e.group].rpt
           /\ e.prunes = IF e.rp THEN jpCfg[e.group].prunes ELSE 0
    /\ \A g \in DOMAIN jpCfg :
         /\ \A s \in 1 .. jpCfg[g].spt : CarriesSource(updates, g, s)
         /\ jpCfg[g].rpt => CarriesRp(updates, g)
    /\ NothingTwice(updates)

(* pack() comes to an end: findRptUb() (Pack.hpp:116-125) appends updates  *)
(* until the RPT part fits, which it never would if the loader let more    *)
(* prunes through than one update can hold.                                *)
Termination == <>(pc = "done")
=============================================================================
