\* Two users, one page, four transfers through Wormhole, of which the users come back to the newest.
CONSTANTS
    alice = alice
    bob = bob
    tab1 = tab1
    tab2 = tab2
    Domain = Domain
    NFTBridge = NFTBridge
    BNSContract = BNSContract
    ENS = ENS
    BNSToken = BNSToken
    Vault = Vault
    Record = Record
    Eth = Eth
    NoOne = NoOne
    Users = {alice, bob}
    Tabs = {tab1}
    MaxVaas = 4
    MaxLeft = 0
SPECIFICATION FairSpec
INVARIANTS TypeOK Backed OneHolder
PROPERTIES OneDomain Delivered FinishedOnSolana FinishedOnEth
