\* Token ids of three bytes with four values each. A transaction is checked once.
CONSTANTS
    Width = 3
    Base = 4
SPECIFICATION Spec
INVARIANT ClientMintPassesCheck
CHECK_DEADLOCK FALSE
