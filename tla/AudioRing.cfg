CONSTANTS
    N = 24
    Block = 16
    Counts = {4, 12}
    Numbers = 24
SPECIFICATION FairSpec
INVARIANTS
    TailAligned
    InOrder
PROPERTIES
    DoubleBuffered
    Played
    ImplementsQueue
