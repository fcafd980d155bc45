\* One domain, whose transfers to both chains are told apart, sent any number of times; two handlers at most; one guardian host as in the code.
CONSTANTS
    ana = ana
    None = None
    Domains = {ana}
    MaxRunning = 2
    Hosts = 1
    Addresses <- MCAddresses
SPECIFICATION FairSpec
INVARIANTS TypeOK OneHandler ShownAsRedeemed LockedByHandler OneRedeem
PROPERTIES OnItsChainUntilSteered LoadingEnds
