CONSTANTS
    N = 2
    Names <- MCNames
    DefaultName <- MCDefaultName
    Blank = ""
    NoOne = "nobody"
    OutMax = 5
    FrameLen = 1
    CmdLen = 1
    Pads = {0}
    Nicknames <- MCNicknames
SPECIFICATION Spec
CHECK_DEADLOCK FALSE
INVARIANTS
    ToldControllers
    ToldRoster
    NoInheritedController
    HeldByPresent
    NamesDistinct
    LeftoverFits
PROPERTIES
    NoHandOver
    ImplementsLobby
