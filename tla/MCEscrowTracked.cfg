CONSTANTS
    issuer = issuer
    outsider = outsider
    r1 = r1
    r2 = r2
    NoTicket = NoTicket
    NoTx = NoTx
    Issuer = issuer
    Outsider = outsider
    Rogues = {r1, r2}
    Modes = {"setup", "deposit", "deny-binding", "deny-issuer", "deny-unpinned", "release", "refund", "all"}
    MaxIssuers = 2
    MaxTokenAge = 1
    MaxEscrow = 1
    Interrupted = FALSE
    MaxDeposits = 2
    MaxClock = 2

SPECIFICATION FairSpec
INVARIANT OpenEscrowIsTracked
PROPERTY HeldIsPaidOut
\* The bounds on deposits, keys and time are reached.
CHECK_DEADLOCK FALSE
