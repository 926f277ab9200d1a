CONSTANTS
    r1 = r1
    r2 = r2
    r3 = r3
    own = own
    absent = absent
    Runs = {r1, r2, r3}
    Own = own
    Absent = absent
    Lengths = {1, 2}
    Roles = {"issuer", "admin"}

SPECIFICATION KeySpec
INVARIANTS
    KeyTypeOK
    OneIdentity
    KeptUnlessMet
\* Each run ends and no program needs to load.
CHECK_DEADLOCK FALSE
