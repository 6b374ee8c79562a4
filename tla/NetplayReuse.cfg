CONSTANTS
    N = 1
    Names <- MCNames
    DefaultName <- MCDefaultName
    Blank = ""
    NoOne = "nobody"
    Nobody = "noclient"
    Consoles = {"ann", "bob"}
    Nick <- MCNick
    Pads = {4}
    Divisors = {1, 2}
    Gamers = {}
    Leavers = {}
    AnnClicks = 2
    BobClicks = 0
    AnnCommands = 0
    Clicks <- MCClicks
    Commands <- MCCommands
    MaxDelay = 2
SPECIFICATION FairSpec
INVARIANT
    HoldsByAsking
PROPERTIES
    RequestsSettle
    KeepsPlaying
