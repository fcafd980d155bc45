--------------------------- MODULE MCWormholeMint ---------------------------
(* Instances of WormholeMint for TLC. *)
EXTENDS WormholeMint
=============================================================================
