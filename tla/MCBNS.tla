------------------------------- MODULE MCBNS -------------------------------
(* Instances of BNS for TLC. *)
EXTENDS BNS

CONSTANTS alice, bob, OtherNFT, id1, id2, low

\* The ids agree in their low 160 bits.
MCKey160 == [id \in TokenIds |-> low]
=============================================================================
