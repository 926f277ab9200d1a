CONSTANTS
    token = token
    memo = memo
    mint = mint
    coin = coin
    payer = payer
    payee = payee
    other = other
    from = from
    MaxInstructions = 3
    MaxU64 = 3
    Keys <- MCKeys
    TokenPrograms <- MCTokenPrograms
    Transactions <- MCTransactions
    Bounds <- MCBounds

SPECIFICATION ScanSpec
INVARIANT SignedMovesExactlyTheBound
\* FindTransfer returns: the scan is over and no step follows.
CHECK_DEADLOCK FALSE
