----------------------------- MODULE SanityCheck ----------------------------
(***************************************************************************)
(* The verification pimc runs on its own packing before it sends anything: *)
(* verifyUpdates() of PackSanityCheck.hpp and verifyInverseUpdates() of    *)
(* InversePackSanityCheck.hpp read the updates back into a configuration   *)
(* and compare it with the original.                                       *)
(*                                                                         *)
(* The sources of a group are its indices, as in UpdateBuilders.  The      *)
(* wildcard and rpt bits are fixed by the constructors the packers use, so *)
(* the complaints about them cannot occur and the entries carry no bits.   *)
(* Joins and prunes of a group are indices of their own: the loader admits *)
(* a source in one role only (chkSrc()), so the complaints that one occurs *)
(* in both cannot be raised by what the packers return.                    *)
(* A complaint is the group it is about and what it says.                  *)
(***************************************************************************)
EXTENDS UpdateBuilders

Seqs == INSTANCE SequencesExt

Complaint(g, what) == [group |-> g, what |-> what]

(* error() of GroupBase: the complaint is recorded if cond holds.          *)
Report(cond, g, what) == IF cond THEN {Complaint(g, what)} ELSE {}

(* The groups that occur in the updates.                                   *)
GroupsIn(updates) ==
  UNION { { updates[k][m].group : m \in DOMAIN updates[k] } : k \in DOMAIN updates }

(* compareAddrSets(): what b lacks of a, and what it has beyond a.         *)
compareAddrSets(a, b) == [missing |-> a \ b, extraneous |-> b \ a]
-----------------------------------------------------------------------------
(***************************************************************************)
(* The forward direction                                                   *)
(***************************************************************************)

(* GroupEntryConverter: what has been read of a group so far, and whether  *)
(* something was wrong with it.                                            *)
GroupEntryConverter == [joins |-> {}, rp |-> FALSE, prunes |-> {}, failed |-> FALSE]

(* An add() that looks for the RP before it reads the joins of the entry.  *)
AddPrunesFirst(c, e) ==
  LET noRP == ~c.rp /\ e.prunes > 0 IN
    [joins |-> c.joins \cup SptSources(e), rp |-> c.rp \/ e.rp,
     prunes |-> c.prunes \cup 1 .. e.prunes, failed |-> c.failed \/ noRP]

(* add(): the RP may be set once, no source may be joined or pruned twice, *)
(* and prunes need an RP, from this entry or an earlier one; without one   *)
(* they are not even recorded.                                             *)
add(c, e) ==
  LET rp == c.rp \/ e.rp
      noRP == ~rp /\ e.prunes > 0
      prunes == IF noRP THEN {} ELSE 1 .. e.prunes
  IN  [joins |-> c.joins \cup SptSources(e),
       rp |-> rp,
       prunes |-> c.prunes \cup prunes,
       failed |-> \/ c.failed
                  \/ c.rp /\ e.rp
                  \/ c.joins \cap SptSources(e) # {}
                  \/ noRP
                  \/ c.prunes \cap prunes # {}]

(* One converter for each group that occurs; an entry is read by the one   *)
(* of its group.  One that failed fails the whole conversion.              *)
addEntry(cvmap, e) == [cvmap EXCEPT ![e.group] = add(@, e)]

addUpdate(cvmap, update) == Seqs!FoldLeft(addEntry, cvmap, update)

addUpdates(cvmap, updates) == Seqs!FoldLeft(addUpdate, cvmap, updates)

convertUpdatesToJPConfig(updates) ==
  addUpdates([g \in GroupsIn(updates) |-> GroupEntryConverter], updates)

(* GroupConfigComparator::compare() of a configured group and the group    *)
(* read back.                                                              *)
compare(g, orig, rslt) ==
  LET spt == compareAddrSets(1 .. orig.spt, rslt.joins)
      prunes == compareAddrSets(1 .. orig.prunes, rslt.prunes)
      both == orig.rpt /\ rslt.rp
  IN  Report(spt.missing # {}, g, "missing SPT joins")
        \cup Report(spt.extraneous # {}, g, "extraneous SPT joins")
        \cup Report(orig.rpt /\ ~rslt.rp, g, "no RPT")
        \cup Report(~orig.rpt /\ rslt.rp, g, "RPT from nowhere")
        \cup Report(both /\ prunes.missing # {}, g, "missing prunes")
        \cup Report(both /\ prunes.extraneous # {}, g, "extraneous prunes")

(* The groups missing from the result or invented by it; both comparisons  *)
(* of configurations (forward and inverse) start with this.                *)
groupComplaints(jpCfg, rslt) ==
  LET groups == compareAddrSets(DOMAIN jpCfg, DOMAIN rslt) IN
    { Complaint(g, "missing group") : g \in groups.missing }
      \cup { Complaint(g, "extraneous group") : g \in groups.extraneous }

compareJPConfigs(jpCfg, rslt) ==
  groupComplaints(jpCfg, rslt)
    \cup UNION { compare(g, jpCfg[g], rslt[g]) : g \in DOMAIN jpCfg \cap DOMAIN rslt }

(* verifyUpdates(): what it reports; the updates are accepted when that is *)
(* nothing.  The comparison is made only if the conversion went through.   *)
verifyUpdates(jpCfg, updates) ==
  LET rslt == convertUpdatesToJPConfig(updates)
      failed == { g \in DOMAIN rslt : rslt[g].failed }
  IN  IF failed # {}
      THEN { Complaint(g, "failed") : g \in failed }
      ELSE compareJPConfigs(jpCfg, rslt)
-----------------------------------------------------------------------------
(***************************************************************************)
(* The inverse direction: all the sources are prunes, the RP among them,   *)
(* and the rpt prunes of the configuration have no part in it.             *)
(***************************************************************************)
InverseGroupEntryConverter == [joins |-> {}, rp |-> FALSE, failed |-> FALSE]

(* An add() that accepts a source pruned twice.                            *)
InverseAddTwice(c, e) ==
  [joins |-> c.joins \cup SptSources(e), rp |-> c.rp \/ e.rp, failed |-> c.failed]

inverseAdd(c, e) ==
  [joins |-> c.joins \cup SptSources(e),
   rp |-> c.rp \/ e.rp,
   failed |-> \/ c.failed
              \/ c.rp /\ e.rp
              \/ c.joins \cap SptSources(e) # {}]

inverseAddEntry(cvmap, e) == [cvmap EXCEPT ![e.group] = inverseAdd(@, e)]

inverseAddUpdate(cvmap, update) == Seqs!FoldLeft(inverseAddEntry, cvmap, update)

inverseAddUpdates(cvmap, updates) == Seqs!FoldLeft(inverseAddUpdate, cvmap, updates)

convertInverseUpdatesToJPConfig(updates) ==
  inverseAddUpdates([g \in GroupsIn(updates) |-> InverseGroupEntryConverter], updates)

(* InverseGroupConfigComparator::compare().                                *)
inverseCompare(g, orig, rslt) ==
  LET spt == compareAddrSets(1 .. orig.spt, rslt.joins) IN
    Report(spt.missing # {}, g, "missing SPT joins")
      \cup Report(spt.extraneous # {}, g, "extraneous SPT joins")
      \cup Report(orig.rpt /\ ~rslt.rp, g, "no RPT")
      \cup Report(~orig.rpt /\ rslt.rp, g, "RPT from nowhere")

compareInverseJPConfigs(jpCfg, rslt) ==
  groupComplaints(jpCfg, rslt)
    \cup UNION { inverseCompare(g, jpCfg[g], rslt[g]) :
                   g \in DOMAIN jpCfg \cap DOMAIN rslt }

verifyInverseUpdates(jpCfg, updates) ==
  LET rslt == convertInverseUpdatesToJPConfig(updates)
      failed == { g \in DOMAIN rslt : rslt[g].failed }
  IN  IF failed # {}
      THEN { Complaint(g, "failed") : g \in failed }
      ELSE compareInverseJPConfigs(jpCfg, rslt)
-----------------------------------------------------------------------------
(***************************************************************************)
(* What the properties of both directions say with                         *)
(***************************************************************************)

(* A group with nothing to join: the loader lets it through.               *)
EmptyGroup(group) == group.spt = 0 /\ ~group.rpt

(* The updates without entry m of update k, and with that entry twice.     *)
Without(updates, k, m) == [updates EXCEPT ![k] = Seqs!RemoveAt(@, m)]
Doubled(updates, k, m) == Append(updates, << updates[k][m] >>)

(* The verification notices each single entry that is lost or repeated.    *)
NoticesTampering(verify(_, _), jpCfg, updates) ==
  \A k \in DOMAIN updates : \A m \in DOMAIN updates[k] :
    /\ verify(jpCfg, Without(updates, k, m)) # {}
    /\ verify(jpCfg, Doubled(updates, k, m)) # {}
=============================================================================
