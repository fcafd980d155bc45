\* One user, one page, transactions that outlive it.
CONSTANTS
    alice = alice
    bob = bob
    tab1 = tab1
    tab2 = tab2
    Domain = Domain
    NFTBridge = NFTBridge
    BNSContract = BNSContract
    ENS = ENS
    BNSToken = BNSToken
    Vault = Vault
    Record = Record
    Eth = Eth
    NoOne = NoOne
    Users = {alice}
    Tabs = {tab1}
    MaxVaas = 3
    MaxLeft = 1
SPECIFICATION Spec
INVARIANT Backed
