SPECIFICATION FairSpec
CONSTANTS
    Hosts = {1}
    RPorts = {3000}
    LPorts = {3000}
    Ephemeral = {}
    Shared = {}
    Events = {"foreign", "refuse"}
    Commands = {"toggle", "auto"}
    MaxThreads = 2
    MaxBusy = 2
    AutoTier <- AlwaysApp
    Saved <- NothingSaved
    Claims <- Claim3000
PROPERTY NoSelfAdoption
PROPERTY TakenOver
PROPERTY PendingResolves
PROPERTY StoppedForGood
