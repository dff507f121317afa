SPECIFICATION Spec
CONSTANTS
    Types <- SomeTypes
    Durations <- SomeDurations
    Lifetimes <- SomeLifetimes
    Connections <- SomeConnections
    MaxList = 2
    None = None
INVARIANTS
    AllOrNothing
