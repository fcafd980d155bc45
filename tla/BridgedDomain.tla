--------------------------- MODULE BridgedDomain ---------------------------
(***************************************************************************)
(* What the whole bridge promises about a domain, with none of the tokens, *)
(* accounts and messages it is kept in: the domain is on one chain or on   *)
(* its way to it, always with one holder. It changes hands only while it   *)
(* is on a chain, and who sends it to the other chain has it there.        *)
(* Wrapping and unwrapping do not move it, and approving, creating and     *)
(* redeeming the ANS NFT are not visible at this level.                    *)
(***************************************************************************)
CONSTANT Users

VARIABLES
    chain,     \* where the domain is, or is going
    underWay,  \* it is on its way there
    holder     \* the user it belongs to

vars == <<chain, underWay, holder>>

Init ==
    /\ chain = "ethereum"
    /\ underWay = FALSE
    /\ holder \in Users

\* The holder sends it to himself on the other chain.
Depart ==
    /\ ~underWay
    /\ underWay' = TRUE
    /\ chain' = IF chain = "ethereum" THEN "solana" ELSE "ethereum"
    /\ UNCHANGED holder

Arrive ==
    /\ underWay
    /\ underWay' = FALSE
    /\ UNCHANGED <<chain, holder>>

\* It comes to belong to u.
Give(u) ==
    /\ ~underWay
    /\ holder' = u
    /\ UNCHANGED <<chain, underWay>>

Next == Depart \/ Arrive \/ \E u \in Users : Give(u)

Spec == Init /\ [][Next]_vars
=============================================================================
