---------------------------- MODULE MCAssetHooks ----------------------------
(* Instances of AssetHooks for TLC. *)
EXTENDS AssetHooks

CONSTANTS ana, ben, e1, s1, s2
=============================================================================
