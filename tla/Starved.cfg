SPECIFICATION FairSpec
CONSTANTS
    Operators <- Two
    Accounts <- Accs
    MaxChanges = 0
    MaxFaults = 0
    None = None
PROPERTIES
    EveryOperatorPushed
