SPECIFICATION Spec
CONSTANTS
    Addrs <- MCAddrs
    File <- MCFile
    Nsf = {"music"}
    MaxSub = 2
    Loads = 4
INVARIANTS
    TypeOK
    ReadsAsListed
CHECK_DEADLOCK FALSE
