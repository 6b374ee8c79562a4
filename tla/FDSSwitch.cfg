SPECIFICATION Spec
CONSTANTS
    TotalSides = 2
    Size = 3
    Last = 2
    Word = 8
    Eject = 1
    Settle = 1
    diskdatao <- MCOriginal
    Commands <- MCCommands
    Accesses = 0
INVARIANTS
    DiskSwitched
