CONSTANTS
    token = token
    memo = memo
    mint = mint
    coin = coin
    payer = payer
    payee = payee
    other = other
    from = from
    MaxInstructions = 3
    MaxU64 = 3
    Keys <- MCKeys
    TokenPrograms <- MCTokenPrograms
    Transactions <- MCTransactions
    Bounds <- MCBounds
    Garbage = Garbage
    P = 13
    MaxY = 15
    MaxBump = 2
    Hashes <- AllHashes
    MaxAmount = 3
    Amounts <- SomeAmounts
    Half = 8
    MaxTokenAgeSecs = 3
    MaxClockSkewSecs = 2
    AttestMsgLen = 2
    HeaderLen = 1
    KeyLen = 1
    SigLen = 1
    MaxU16 = 7
    Tags = {"attest", "cat"}
    Versions = {1, 2}
    DomainTag = "attest"
    LayoutVersion = 1
    Bindings = {"this", "other"}
    Radix = 3
    ByteRadix = 4
    KeyBytes = 2
    Base = 3
    Decimals = 2
    MaxUint = 31
    MaxWhole = 4
    MaxFraction = 3
    MaxLen = 6

SPECIFICATION MCSpec
INVARIANTS
    ScanTypeOK
    ScanFindsTheTransfer
    AcceptedTransferIsTheBound
    BuiltTransferIsAccepted
    FindsTheHighestOffCurve
    CurveTestIsExact
    FromGateIsExact
    FreshnessIsExact
    ParserReadsWhatWasVerified
    DecodesExactly
    ParsesExactly
\* Each scan, search, text and clock comes to its end.
CHECK_DEADLOCK FALSE
