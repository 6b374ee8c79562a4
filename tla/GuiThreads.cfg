SPECIFICATION FairSpec
INVARIANTS
    NoDrawWhileChanged
    NoZeroDivide
    WindowTellsAction
    UserCanAnswer
PROPERTY
    WaitsEnd
CONSTRAINT
    NotCrossed
