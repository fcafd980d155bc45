\* One user, one page, one transfer.
CONSTANTS
    alice = alice
    bob = bob
    tab1 = tab1
    tab2 = tab2
    Domain = Domain
    NFTBridge = NFTBridge
    BNSContract = BNSContract
    ENS = ENS
    BNSToken = BNSToken
    Vault = Vault
    Record = Record
    Eth = Eth
    NoOne = NoOne
    Users = {alice}
    Tabs = {tab1}
    MaxVaas = 1
    MaxLeft = 0
SPECIFICATION Spec
PROPERTY ReceivedOnSolana
