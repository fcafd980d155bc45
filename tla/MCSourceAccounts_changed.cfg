\* As MCSourceAccounts_accounts: two accounts in each wallet; up to two lists of a Solana account on their way.
CONSTANTS
    e1 = e1
    e2 = e2
    s1 = s1
    s2 = s2
    None = None
    EthAccounts = {e1, e2}
    SolAccounts = {s1, s2}
    MaxLoads = 2
SPECIFICATION FairSpec
PROPERTY ListResetOnChange
