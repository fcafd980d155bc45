\* One user, two pages, three transfers, and transactions that outlive their page.
CONSTANTS
    alice = alice
    bob = bob
    tab1 = tab1
    tab2 = tab2
    Domain = Domain
    NFTBridge = NFTBridge
    BNSContract = BNSContract
    ENS = ENS
    BNSToken = BNSToken
    Vault = Vault
    Record = Record
    Eth = Eth
    NoOne = NoOne
    Users = {alice}
    Tabs = {tab1, tab2}
    MaxVaas = 3
    MaxLeft = 1
SPECIFICATION Spec
INVARIANT MovableWhileBacked
PROPERTIES BackedUntilCrossed CrossesOnlyNewer
