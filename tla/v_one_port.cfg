SPECIFICATION Spec
CONSTANTS
    Hosts = {1, 2}
    RPorts = {3000}
    LPorts = {3000}
    Ephemeral = {}
    Shared = {}
    Events = {"timeout"}
    Commands = {"toggle"}
    MaxThreads = 2
    MaxBusy = 2
    AutoTier <- AlwaysApp
    Saved <- NothingSaved
    Claims <- NoClaims
INVARIANT OnePortPerRow
