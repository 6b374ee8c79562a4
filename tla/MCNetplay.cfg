CONSTANTS
    N = 2
    Names <- MCNames
    DefaultName <- MCDefaultName
    Blank = ""
    NoOne = "nobody"
    Nobody = "noclient"
    Consoles = {"ann", "bob"}
    Nick <- MCNick
    Pads = {0}
    Divisors = {1}
    Gamers = {}
    Leavers = {"ann"}
    AnnClicks = 1
    BobClicks = 0
    AnnCommands = 0
    Clicks <- MCClicks
    Commands <- MCCommands
    MaxDelay = 2
SPECIFICATION FairSpec
INVARIANTS
    TypeOK
    PicturesAgree
PROPERTY
    LeaverForgotten
