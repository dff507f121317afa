SPECIFICATION Spec
CONSTANTS
    w1 = w1
    w2 = w2
    None = None
    Workers = {w1}
    Ops = {"creds", "delete", "add", "update"}
    Expirations = {0, 1}
    MaxTime = 2
    MaxKeys = 2
    MaxFaults = 2
INVARIANTS
    TypeOK
    LockedOut
PROPERTIES
    RevocationsStay
