SPECIFICATION CreatedSpec
CONSTANTS
    w1 = w1
    w2 = w2
    None = None
    Workers = {w1, w2}
    Ops = {"creds", "delete"}
    Expirations = {0, 1}
    MaxTime = 4
    MaxKeys = 2
    MaxFaults = 0
INVARIANTS  LockedOut
