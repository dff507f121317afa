SPECIFICATION FairSpec
CONSTANTS
    east = east
    west = west
    manager = manager
    client = client
    None = None
    Callers = {manager, client}
    Servers = {east, west}
    Inboxes = {"i1", "i2"}
    Sites <- AllSites
    MaxVersion = 2
INVARIANTS
    TypeOK
    ConfirmedDeletion
PROPERTIES
    SyncSpec
    CallEnds
    Converges
