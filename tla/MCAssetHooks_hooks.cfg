\* Two domains, one account on Ethereum and two on Solana.
CONSTANTS
    ana = ana
    ben = ben
    e1 = e1
    s1 = s1
    s2 = s2
    None = None
    Domains = {ana, ben}
    EthAccounts = {e1}
    SolAccounts = {s1, s2}
SPECIFICATION FairSpec
INVARIANTS TypeOK LookedUp AddressAtRest RecipientFits
PROPERTY AddressComes
