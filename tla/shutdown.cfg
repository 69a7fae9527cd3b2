SPECIFICATION LifeFairSpec
CONSTANTS
    Hosts = {1}
    RPorts = {3000}
    LPorts = {3000}
    Ephemeral = {}
    Shared = {1}
    Events = {"crash", "user"}
    Commands = {"toggle", "hide", "assign", "comment"}
    MaxThreads = 1
    MaxBusy = 2
    AutoTier <- OnlySystem
    Saved <- NothingSaved
    Claims <- NoClaims
INVARIANT LeftBehind
PROPERTY ChoicesSurvive
PROPERTY QuitEnds
