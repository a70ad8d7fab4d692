---------------------------- MODULE InversePack ----------------------------
(***************************************************************************)
(* inversePack(): the updates that take back, when pimc stops, what the    *)
(* updates of pack() joined (InverseUpdatePacker in                        *)
(* apps/pimc/pimsm/InversePack.hpp).  Every SPT join and every RP join is  *)
(* pruned; the rpt prunes of the configuration need no inverse, so nothing *)
(* has to be kept together and the RP goes first.                          *)
(*                                                                         *)
(* Entry has the same shape as in Pack with every source a prune: the RP   *)
(* with WC and rpt set when rp is TRUE, then the SPT sources first..last.  *)
(***************************************************************************)
EXTENDS UpdateBuilders

VARIABLES
  jpCfg,    \* the configuration being packed; never changes
  ubq,      \* the queue of updates under construction
  start,    \* the first update worth looking at
  gi,       \* the group being fitted
  i,        \* the position of fitGroup()'s cursor
  srci,     \* how many SPT prunes of the group have been placed
  pruneRP,  \* is the RP of the group still to be pruned?
  pc,       \* "group", "fitGroup", "done", "raised"
  updates   \* what inversePack() returns

vars == <<jpCfg, ubq, start, gi, i, srci, pruneRP, pc, updates>>

Group == jpCfg[gi]

Init ==
  /\ jpCfg \in Configs
  /\ ubq = << EmptyBuilder >>
  /\ start = 1
  /\ gi = 1
  /\ i = 1
  /\ srci = 0
  /\ pruneRP = FALSE
  /\ pc = "group"
  /\ updates = << >>
-----------------------------------------------------------------------------
(* Entering fitGroup() with the next group of the configuration.           *)
StartGroup ==
  /\ pc = "group"
  /\ gi <= Len(jpCfg)
  /\ i' = start
  /\ srci' = 0
  /\ pruneRP' = Group.rpt
  /\ pc' = "fitGroup"
  /\ UNCHANGED <<jpCfg, ubq, start, gi, updates>>

(* cnt: how many of the prunes left, the RP's included, fit at the cursor. *)
Fitting ==
  Least(MaxSources(Remaining(ubq[i])),
        (IF pruneRP THEN 1 ELSE 0) + Group.spt - srci)

(* A loop without the --cnt.                                               *)
SptCountBesideRP == Fitting

(* How many SPT prunes that are: one less when the RP takes a place.       *)
SptCount == Fitting - (IF pruneRP THEN 1 ELSE 0)

(* A geb: the RP if it is still to be pruned and the next n SPT prunes.    *)
NextEntry(n) ==
  [group |-> gi, first |-> srci + 1, last |-> srci + n,
   rp |-> pruneRP, prunes |-> 0]

(* c.add(geb) with n SPT prunes, and ++c when move is TRUE.                *)
AddEntry(n, move) ==
  LET e == NextEntry(n)
      q == Store(ubq, i, e)
  IN  IF Overflows(ubq[i], e)
      THEN /\ pc' = "raised"
           /\ UNCHANGED <<ubq, start, i, srci>>
      ELSE /\ ubq' = IF move THEN Grown(q, i + 1) ELSE q
           /\ start' \in NewStarts(q, start, i)
           /\ i' = IF move THEN i + 1 ELSE i
           /\ srci' = srci + n
           /\ UNCHANGED pc
-----------------------------------------------------------------------------
(* A loop that takes "no room here" for a reason to try the same update.   *)
RetryUpdate ==
  /\ pc = "fitGroup"
  /\ srci < Group.spt
  /\ Fitting = 0
  /\ UNCHANGED vars

(* The loop at an update with no room: only ++c.                           *)
PassUpdate ==
  /\ pc = "fitGroup"
  /\ srci < Group.spt
  /\ Fitting = 0
  /\ i' = i + 1
  /\ ubq' = Grown(ubq, i + 1)
  /\ UNCHANGED <<jpCfg, start, gi, srci, pruneRP, pc, updates>>

(* The loop at an update with room for one source while the RP is still to *)
(* be pruned: the RP is put into geb, --cnt is 0, and the continue leaves  *)
(* geb behind, neither added nor kept (lines 127-133).  The cursor stays.  *)
DropRP ==
  /\ pc = "fitGroup"
  /\ srci < Group.spt
  /\ Fitting > 0
  /\ SptCount = 0
  /\ pruneRP' = FALSE
  /\ UNCHANGED <<jpCfg, ubq, start, gi, i, srci, pc, updates>>

(* A loop that leaves pruneRP set after adding the RP.                     *)
FitPrunesKeepRP ==
  /\ pc = "fitGroup"
  /\ srci < Group.spt
  /\ SptCount > 0
  /\ AddEntry(SptCount, TRUE)
  /\ UNCHANGED <<jpCfg, gi, pruneRP, updates>>

(* The loop at any other update: the RP if it is still to be pruned, the   *)
(* SPT prunes that fit beside it; ++c.                                     *)
FitPrunes ==
  /\ pc = "fitGroup"
  /\ srci < Group.spt
  /\ SptCount > 0
  /\ AddEntry(SptCount, TRUE)
  /\ pruneRP' = FALSE
  /\ UNCHANGED <<jpCfg, gi, updates>>

(* After the loop, a group without SPT joins still has its RP to prune:    *)
(* ++c until there is room for it.                                         *)
SeekRoomForRP ==
  /\ pc = "fitGroup"
  /\ srci >= Group.spt
  /\ pruneRP
  /\ MaxSources(Remaining(ubq[i])) = 0
  /\ i' = i + 1
  /\ ubq' = Grown(ubq, i + 1)
  /\ UNCHANGED <<jpCfg, start, gi, srci, pruneRP, pc, updates>>

(* The same, at an update with room.  pruneRP is not read again.           *)
FitRPOnly ==
  /\ pc = "fitGroup"
  /\ srci >= Group.spt
  /\ pruneRP
  /\ MaxSources(Remaining(ubq[i])) > 0
  /\ AddEntry(0, FALSE)
  /\ pruneRP' = FALSE
  /\ UNCHANGED <<jpCfg, gi, updates>>

(* A fitGroup() without its last part, which prunes the RP of a group that *)
(* has no SPT joins.                                                       *)
EndGroupEarly ==
  /\ pc = "fitGroup"
  /\ srci >= Group.spt
  /\ gi' = gi + 1
  /\ pc' = "group"
  /\ UNCHANGED <<jpCfg, ubq, start, i, srci, pruneRP, updates>>

(* Nothing is left of the group.                                           *)
EndGroup ==
  /\ pc = "fitGroup"
  /\ srci >= Group.spt
  /\ ~pruneRP
  /\ gi' = gi + 1
  /\ pc' = "group"
  /\ UNCHANGED <<jpCfg, ubq, start, i, srci, pruneRP, updates>>

(* build(): every update is returned, a last one left empty is not.        *)
Build ==
  /\ pc = "group"
  /\ gi > Len(jpCfg)
  /\ LET n == IF ubq[Len(ubq)].entries = << >> THEN Len(ubq) - 1 ELSE Len(ubq)
     IN  updates' = [k \in 1 .. n |-> ubq[k].entries]
  /\ pc' = "done"
  /\ UNCHANGED <<jpCfg, ubq, start, gi, i, srci, pruneRP>>

Next ==
  \/ StartGroup
  \/ PassUpdate
  \/ DropRP
  \/ FitPrunes
  \/ SeekRoomForRP
  \/ FitRPOnly
  \/ EndGroup
  \/ Build

Spec == Init /\ [][Next]_vars /\ WF_vars(Next)
-----------------------------------------------------------------------------
(***************************************************************************)
(* Properties                                                              *)
(***************************************************************************)

(* Every variable has its type.                                            *)
TypeOK ==
  /\ jpCfg \in Seq(GroupConfig)
  /\ ubq \in Seq(Builder)
  /\ gi \in 1 .. Len(jpCfg) + 1
  /\ start \in 1 .. Len(ubq)
  /\ i \in 1 .. Len(ubq)
  /\ srci \in Nat
  /\ pruneRP \in BOOLEAN
  /\ pc \in {"group", "fitGroup", "done", "raised"}
  /\ updates \in Seq(Seq(Entry))

(* No update outgrows its packet and chkSz() (InversePack.hpp:77-82) never *)
(* raises: the RP and the SPT prunes beside it are counted together.       *)
CapacityRespected == pc # "raised" /\ WithinCapacity(ubq)

(* The packing is dense and tidy, as it is for pack(): prunes go on to the *)
(* next update only from a full one (also over the continue of line 132),  *)
(* groups ascend and occur once in an update, and no update that is        *)
(* returned is empty (InversePack.hpp:116-164).                            *)
WellPacked ==
  /\ FullBefore(ubq, start)
  /\ SpillsFromFull(ubq)
  /\ AscendingGroups(ubq)
  /\ LastAloneEmpty(ubq)
  /\ \A k \in DOMAIN updates : updates[k] # << >>

(* Every SPT join is pruned exactly once and nothing else is; an RP is     *)
(* pruned at most once and only where one is configured                    *)
(* (InversePackSanityCheck.hpp:164-204).                                   *)
SptLossless ==
  pc = "done" =>
    /\ \A k \in DOMAIN updates : \A m \in DOMAIN updates[k] :
         LET e == updates[k][m] IN
           /\ e.group \in DOMAIN jpCfg
           /\ SptSources(e) \subseteq 1 .. jpCfg[e.group].spt
           /\ e.rp => jpCfg[e.group].rpt
    /\ \A g \in DOMAIN jpCfg : \A s \in 1 .. jpCfg[g].spt :
         CarriesSource(updates, g, s)
    /\ NothingTwice(updates)

(* The one place where the prune of an RP gets lost: the group has SPT     *)
(* joins, and when it was reached the first update with any room had room  *)
(* for one source only (lines 127-133), so that its first SPT prune stands *)
(* alone at the end of an update that it fills.  Everywhere else the RP is *)
(* pruned.                                                                 *)
RPLostOnlyInOneSlot ==
  pc = "done" =>
    \A g \in DOMAIN jpCfg :
      jpCfg[g].rpt =>
        \/ CarriesRp(updates, g)
        \/ \E k \in DOMAIN updates :
             LET e == updates[k][Len(updates[k])] IN
               /\ e.group = g
               /\ e.first = 1 /\ e.last = 1
               /\ Full(ubq[k])

(* What verifyInverseUpdates() demands of inversePack(), and               *)
(* tests/PackingTests.cpp:86-93 of every configuration: a configured RP is *)
(* pruned.                                                                 *)
RPPruned ==
  pc = "done" =>
    \A g \in DOMAIN jpCfg : jpCfg[g].rpt => CarriesRp(updates, g)

(* inversePack() comes to an end, over the continue that leaves the cursor *)
(* where it is (InversePack.hpp:132) and the search for room for the RP.   *)
Termination == <>(pc = "done")
=============================================================================
