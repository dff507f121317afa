SPECIFICATION AtOnceSpec
CONSTANTS
    sys = sys
    acc = acc
    push = push
    usr = usr
    k1 = k1
    s1 = s1
    mine = mine
    broken = broken
    dflt = dflt
    None = None
    Workers = {w1, w2}
    Accounts = {sys, acc}
    SysAccount = sys
    Users = {push, usr}
    PushUser = push
    OpKeys = {k1}
    AccKeys = {s1}
    Claims = {mine, dflt, broken}
    Convertible = {mine, dflt}
    DefaultClaims = dflt
    Requests <- AtOnceAll
    Repeat = FALSE
    MaxMint = 2
    MaxFaults = 0
INVARIANTS
    NoAccountLeftUnsigned
    RevokedBeforeErased
    RevocationAhead
