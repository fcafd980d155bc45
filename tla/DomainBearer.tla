---------------------------- MODULE DomainBearer ----------------------------
(***************************************************************************)
(* What the Solana side of the bridge promises about a domain, with none   *)
(* of the accounts it is kept in: a domain that has arrived has one        *)
(* bearer, and it changes only when the domain arrives, when it is given   *)
(* to somebody, and when it departs or is given up. Wrapping, redeeming    *)
(* and minting or burning the ANS NFT are not visible at this level.       *)
(***************************************************************************)
CONSTANTS
    Users,   \* wallets
    Names    \* domain names

VARIABLE bearer  \* bearer[n]: the wallets that can dispose of n

Init == bearer = [n \in Names |-> {}]

\* n is not here, and comes to u.
Arrive(n, u) ==
    /\ bearer[n] = {}
    /\ bearer' = [bearer EXCEPT ![n] = {u}]

\* The one bearer of n gives it to v.
Give(n, u, v) ==
    /\ bearer[n] = {u}
    /\ bearer' = [bearer EXCEPT ![n] = {v}]

\* Domains are sent back or given up by their bearers, or leave the care of the program:
\* one instruction that mixes up two names does so to both.
Depart(S) ==
    /\ \A n \in S : bearer[n] # {}
    /\ bearer' = [n \in Names |-> IF n \in S THEN {} ELSE bearer[n]]

Next ==
    \/ \E n \in Names, u \in Users :
          \/ Arrive(n, u)
          \/ \E v \in Users : Give(n, u, v)
    \/ \E S \in SUBSET Names : Depart(S)

Spec == Init /\ [][Next]_bearer
=============================================================================
