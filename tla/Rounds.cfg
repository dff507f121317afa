SPECIFICATION SignableSpec
CONSTANTS
    Operators <- Two
    Accounts <- Accs
    MaxChanges = 1
    MaxFaults = 1
    None = None
PROPERTIES
    HealthyConverge
INVARIANTS
    TypeOK
    OneRoundRepairs
