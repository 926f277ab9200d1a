CONSTANTS
    issuer = issuer
    outsider = outsider
    r1 = r1
    r2 = r2
    NoTicket = NoTicket
    NoTx = NoTx
    Issuer = issuer
    Outsider = outsider
    Rogues = {r1}
    Modes = {"setup"}
    MaxIssuers = 2
    MaxTokenAge = 1
    MaxEscrow = 1
    Interrupted = FALSE
    MaxDeposits = 1
    MaxClock = 1

SPECIFICATION Spec
INVARIANT SetupIsRepeatable
\* The bounds on deposits, keys and time are reached.
CHECK_DEADLOCK FALSE
