SPECIFICATION Spec
CONSTANTS
    east = east
    west = west
    manager = manager
    client = client
    None = None
    Callers = {manager, client}
    Servers = {east, west}
    Inboxes = {"i1", "i2"}
    Sites <- Deletion
    MaxVersion = 2
PROPERTIES DeletionLasts
