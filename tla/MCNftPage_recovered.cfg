\* As MCNftPage_page.
CONSTANTS
    ana = ana
    None = None
    Domains = {ana}
    MaxRunning = 2
    Hosts = 1
    Addresses <- MCAddresses
SPECIFICATION Spec
INVARIANT RecoveredCanBeRedeemed
