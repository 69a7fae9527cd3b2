SPECIFICATION FairSpec
CONSTANTS
    Hosts = {1}
    RPorts = {3000}
    LPorts = {3000}
    Ephemeral = {}
    Shared = {}
    Events = {"drop", "listen", "session", "ps", "slow"}
    Commands = {}
    MaxThreads = 1
    MaxBusy = 2
    AutoTier <- AlwaysApp
    Saved <- NothingSaved
    Claims <- NoClaims
PROPERTY LossNoticed
PROPERTY Reconnects
PROPERTY AutoForwarded
PROPERTY ClosedTornDown
INVARIANT NoLostWakeup
