SPECIFICATION Spec
CONSTANTS
    Types <- SomeTypes
    Durations <- SomeDurations
    Lifetimes <- SomeLifetimes
    Connections <- SomeConnections
    MaxList = 1
    None = None
INVARIANTS
    TimeToLive
