--------------------------- MODULE MCDomainBridge ---------------------------
(* Instances of DomainBridge for TLC. *)
EXTENDS DomainBridge

CONSTANTS alice, bob, tab1, tab2
=============================================================================
