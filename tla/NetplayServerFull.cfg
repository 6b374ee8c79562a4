CONSTANTS
    N = 2
    Names <- DefaultsOnly
    DefaultName <- MCDefaultName
    Blank = ""
    NoOne = "nobody"
    OutMax = 3
    FrameLen = 1
    CmdLen = 1
    Pads = {0}
    Nicknames <- DefaultsOnly
SPECIFICATION Spec
CHECK_DEADLOCK FALSE
INVARIANT
    FullBufferDisconnects
