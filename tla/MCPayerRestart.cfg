CONSTANTS
    c1 = c1
    c2 = c2
    t1 = t1
    t2 = t2
    shop = shop
    elsewhere = elsewhere
    pricey = pricey
    plus = plus
    foreign = foreign
    stranger = stranger
    coinshop = coinshop
    huge = huge
    merchant = merchant
    rival = rival
    unknown = unknown
    attacker = attacker
    usdc = usdc
    coin = coin
    source = source
    payer = payer
    token = token
    NoCall = NoCall
    Keys <- MCKeys
    TokenPrograms <- MCTokenPrograms
    Payees <- MCPayees
    Demand <- MCDemand
    Calls <- MCCalls
    Before <- InTurn
    Merchant = merchant
    Attacker = attacker
    Asset = usdc
    Source = source
    Payer = payer
    TokenProgram = token
    MaxU64 = 4
    Ceiling = 2
    Clients = {c1, c2}
    HTTPClients = {}
    Tokens = {t1}
    Servers = {shop}
    MaxReceipts = 1
    MaxCopies = 1

SPECIFICATION Spec
INVARIANT TokenReleasesOnce
\* A program ends, and nothing need start another.
CHECK_DEADLOCK FALSE
