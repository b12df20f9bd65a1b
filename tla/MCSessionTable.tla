--------------------------- MODULE MCSessionTable ---------------------------
(* Two routers that use the same private address for different customers, and a *)
(* user name that is written in two ways.  At r1 the name goes with the address, *)
(* at r2 with the MAC.                                                        *)
EXTENDS SessionTable, TLC

CONSTANTS r1, r2, home, wan, mac1, ann, Ann, c1, c2

MCLower == [x \in Macs \cup Users |-> IF x = Ann THEN ann ELSE x]
MCOf ==
    [r \in Servers |->
        [x \in Identities |-> IF x = ann \/ (x = home /\ r = r1) \/ (x = mac1 /\ r = r2) THEN c1 ELSE c2]]
=============================================================================
