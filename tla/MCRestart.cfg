\* Two attempts for one transaction, a process that ends twice.
CONSTANTS
    Requests = {1, 2}
    TimeoutTooLarge = FALSE
    ConnErrors = 0
    TxOf <- OneTx
    MaxCrashes = 2
SPECIFICATION RestartSpec
INVARIANTS
    OneAcceptancePerTx
    SilentAcceptanceExplained
    CollectorsOfThisLife
