SPECIFICATION Spec
CONSTANTS
    Kind <- MCKind
    Battery = {"zelda", "dr"}
    Settings <- MCSettings
    Longest = 2
    Starts = 2
INVARIANTS
    NamedAfterGame
    OwnSaves
PROPERTIES
    KeepsProgress
CHECK_DEADLOCK FALSE
