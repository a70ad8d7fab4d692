---------------------------- MODULE MCInversePack ---------------------------
(***************************************************************************)
(* InversePack scaled down as in MCPack (14 bytes an update, 3 a header, 2 *)
(* a source) on every configuration of up to three groups; and, for the    *)
(* run that loses an RP, two groups with the sizes of the code: 179 joins  *)
(* leave 22 of the 1466 bytes, room for a header and one source.           *)
(***************************************************************************)
EXTENDS InversePack, SanityCheck

MCGroups(maxSpt) == [spt : 0 .. maxSpt, rpt : BOOLEAN, prunes : {0}]

MCConfigs ==
  { << >> }
    \cup { <<a, b, c>> : a \in MCGroups(7), b \in MCGroups(11), c \in MCGroups(7) }
    \cup { <<a, b, c, d>> : a \in MCGroups(5), b \in MCGroups(2),
                            c \in MCGroups(3), d \in MCGroups(3) }

RealConfigs ==
  { << [spt |-> 179, rpt |-> FALSE, prunes |-> 0],
       [spt |-> 2, rpt |-> TRUE, prunes |-> 0] >> }

(* verifyInverseUpdates() (InversePackSanityCheck.hpp:208-228) reports the *)
(* groups with nothing to join and the groups whose RP is not pruned, and  *)
(* nothing else of what inversePack() returns, and it notices each single  *)
(* entry taken out or repeated.                                            *)
InverseVerifyExact ==
  pc = "done" =>
    /\ verifyInverseUpdates(jpCfg, updates) =
         { Complaint(g, "missing group") : g \in { h \in DOMAIN jpCfg : EmptyGroup(jpCfg[h]) } }
           \cup { Complaint(g, "no RPT") : g \in
                    { h \in DOMAIN jpCfg : jpCfg[h].rpt /\ ~CarriesRp(updates, h) } }
    /\ NoticesTampering(verifyInverseUpdates, jpCfg, updates)
=============================================================================
