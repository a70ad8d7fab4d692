------------------------------- MODULE MCPack -------------------------------
(***************************************************************************)
(* Pack on every configuration of up to three groups, scaled down: an      *)
(* update holds 14 bytes, a header takes 3 and a source 2, the proportion  *)
(* of 12 to 8, so that an update holds five sources of one group and a     *)
(* byte is always left over, as with 1466 bytes.  With up to six joins and *)
(* four prunes a group, groups split over updates, stop short of the       *)
(* reserved one, fill it exactly and share it.                             *)
(***************************************************************************)
EXTENDS Pack, SanityCheck

MCGroups(maxSpt, maxPrunes) ==
  [spt : 0 .. maxSpt, rpt : {FALSE}, prunes : {0}]
    \cup [spt : 0 .. maxSpt, rpt : {TRUE}, prunes : 0 .. maxPrunes]

MCConfigs ==
  { << >> }
    \cup { <<a, b>> : a \in MCGroups(6, 4), b \in MCGroups(6, 4) }
    \cup { <<a, b, c>> : a \in MCGroups(3, 3), b \in MCGroups(6, 4),
                         c \in MCGroups(2, 1) }

(* verifyUpdates() (PackSanityCheck.hpp:256-276) is a verdict on pack() one *)
(* can trust, both ways: of what pack() returns it reports the groups with *)
(* nothing to join, which are in no update, and nothing else; and whatever *)
(* single entry is taken out of the updates, or repeated in a further one, *)
(* it notices.                                                             *)
VerifyUpdatesExact ==
  pc = "done" =>
    /\ verifyUpdates(jpCfg, updates) =
         { Complaint(g, "missing group") : g \in { h \in DOMAIN jpCfg : EmptyGroup(jpCfg[h]) } }
    /\ NoticesTampering(verifyUpdates, jpCfg, updates)
=============================================================================
