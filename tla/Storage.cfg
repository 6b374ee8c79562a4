CONSTANTS
    D = 1
    Cards = 2
    Chunks = 2
    Uses = {{1}, {2}}
SPECIFICATION FairSpec
INVARIANTS
    TypeOK
    MountKnown
    ListComplete
PROPERTIES
    DeviceQuiet
    RemovalNoticed
    WaitsEnd
