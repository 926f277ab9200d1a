CONSTANTS
    merchant = merchant
    attacker = attacker
    payer = payer
    usdc = usdc
    token = token
    ata = ata
    atMerchant = atMerchant
    atAttacker = atAttacker
    atPayer = atPayer
    stranger = stranger
    NoPayment = NoPayment
    Keys <- MCKeys
    Ata <- MCAta
    Merchant = merchant
    Attacker = attacker
    Payer = payer
    Asset = usdc
    TokenProgram = token
    AtaProgram = ata
    TokenPrograms = {token}
    Resource = "invoice:42"
    Limit = 2
    Funds = 3
    Base = 2
    Decimals = 1
    MaxU64 = 7
    Requests <- AllRequests
    MaxRequests = 2
    Orders <- MCOrders
    Stranger = stranger
    MaxOrders = 1

SPECIFICATION FairWalletSpec
INVARIANTS
    TypeOK
    EveryPaymentIsItsAllow
    SettledMeansPaid
    RefusedMovesNothing
    AnswersFollowRequests
    RunsPayTheirOrder
PROPERTY CallsAreAnswered
\* The input ends and the gateway stops.
CHECK_DEADLOCK FALSE
