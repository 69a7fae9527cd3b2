SPECIFICATION FairSpec
CONSTANTS
    Hosts = {1}
    RPorts = {3000}
    LPorts = {3000, 40000}
    Ephemeral = {40000}
    Shared = {1}
    Events = {"session"}
    Commands = {}
    MaxThreads = 1
    MaxBusy = 2
    AutoTier <- AlwaysApp
    Saved <- NothingSaved
    Claims <- NoClaims
PROPERTY ClosedTornDown
