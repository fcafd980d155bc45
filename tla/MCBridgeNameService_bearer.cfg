\* Two names, two TLDs; one name is sold by a TLD house.
CONSTANTS
    alice = alice
    bob = bob
    n1 = n1
    n2 = n2
    abc = abc
    eth = eth
    Vault = Vault
    NoOne = NoOne
    Record = Record
    Users = {alice, bob}
    Names = {n1, n2}
    Mints = {n1, n2}
    MintOf <- MCMintOf
    Tlds = {eth, abc}
    MaxSold = 1
SPECIFICATION Spec
SYMMETRY Symmetry
INVARIANTS TypeOK OneUnit NamesBacked Covered
PROPERTIES NameReleases OneBearer
\* The system may stop: every NFT may have been sent to the vault for nothing.
CHECK_DEADLOCK FALSE
