SPECIFICATION LedgerSpec
CONSTANTS
    MaxEntries = 2
    MaxPayments = 1
    MaxLines = 2
INVARIANTS
    BalancedEntryPosts
CHECK_DEADLOCK FALSE
