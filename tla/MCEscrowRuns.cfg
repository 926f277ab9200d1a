CONSTANTS
    issuer = issuer
    outsider = outsider
    r1 = r1
    r2 = r2
    NoTicket = NoTicket
    NoTx = NoTx
    Issuer = issuer
    Outsider = outsider
    Rogues = {r1}
    Modes = {"all", "release", "refund"}
    MaxIssuers = 2
    MaxTokenAge = 0
    MaxEscrow = 0
    Interrupted = TRUE
    MaxDeposits = 2
    MaxClock = 1

SPECIFICATION Spec
INVARIANTS
    TypeOK
    DoneMeansDone
    TicketNamesAnEscrow
PROPERTIES
    DenialsReleaseNothing
    ImplementsReleaseOnProof
\* The bounds on deposits, keys and time are reached.
CHECK_DEADLOCK FALSE
