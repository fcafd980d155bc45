----------------------------- MODULE MCNftPage -----------------------------
(* Instances of NftPage for TLC. *)
EXTENDS NftPage

CONSTANT ana

\* A source chain, which swaps the chains; a target chain alone, which swaps them back;
\* a transaction to recover.
MCAddresses ==
    {[page |-> "nft", source |-> "solana", target |-> None],
     [page |-> "nft", source |-> None, target |-> "solana"],
     [page |-> "redeem", source |-> "solana", tx |-> [domain |-> ana, to |-> "ethereum"]]}
=============================================================================
