CONSTANTS
    N = 2
    Names <- MCNames
    DefaultName <- MCDefaultName
    Blank = ""
    NoOne = "nobody"
    Nobody = "noclient"
    Consoles = {"ann", "bob"}
    Nick <- SameNick
    Pads = {0}
    Divisors = {1}
    Gamers = {"ann"}
    Leavers = {}
    AnnClicks = 0
    BobClicks = 0
    AnnCommands = 1
    Clicks <- MCClicks
    Commands <- MCCommands
    MaxDelay = 4
SPECIFICATION Spec
INVARIANTS
    SameGame
PROPERTY
    DelayNeverFalls
