------------------------ MODULE MCBridgeNameService ------------------------
(* Instances of BridgeNameService for TLC. *)
EXTENDS BridgeNameService, TLC

CONSTANTS alice, bob, n1, n2, eth, abc

\* The mint of a name is named after it.
MCMintOf == [n \in {n1, n2} |-> n]

\* Wallets, names with their mints, and TLDs are interchangeable.
Symmetry == {p @@ q @@ r : p \in Permutations({alice, bob}),
                           q \in Permutations({n1, n2}),
                           r \in Permutations({abc, eth})}
=============================================================================
