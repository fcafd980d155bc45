\* An account with code and one without, two ids with the same low 160 bits, three nested calls.
CONSTANTS
    alice = alice
    bob = bob
    BNSContract = BNSContract
    NoOne = NoOne
    ENS = ENS
    BNSToken = BNSToken
    id1 = id1
    id2 = id2
    OtherNFT = OtherNFT
    low = low
    Users = {alice, bob}
    Contracts = {alice}
    Tokens = {ENS, BNSToken}
    CallTokens = {ENS, BNSToken}
    Operators = {BNSContract}
    TokenIds = {id1, id2}
    Keys = {low}
    Key160 <- MCKey160
    MaxDepth = 3
SPECIFICATION Spec
INVARIANTS TypeOK WrappedMeansOneMinted Custody
PROPERTIES ReleaseBurns
\* The system may stop: every token may have been sent to the contract unwrapped.
CHECK_DEADLOCK FALSE
