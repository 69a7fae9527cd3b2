SPECIFICATION FairSpec
CONSTANTS
    Hosts = {1, 2}
    RPorts = {3000}
    LPorts = {3000, 40000, 50000}
    Ephemeral = {40000, 50000}
    Shared = {}
    Events = {}
    Commands = {"refresh"}
    MaxThreads = 2
    MaxBusy = 2
    AutoTier <- AlwaysApp
    Saved <- NothingSaved
    Claims <- NoClaims
PROPERTY CollisionsSettle
