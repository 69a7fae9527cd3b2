SPECIFICATION Spec
CONSTANTS
    Hosts = {1}
    RPorts = {3000}
    LPorts = {3000, 40000}
    Ephemeral = {40000}
    Shared = {}
    Events = {}
    Commands = {"host", "toggle", "hide", "assign"}
    MaxThreads = 2
    MaxBusy = 2
    AutoTier <- AppOrSystem
    Saved <- SavedOff
    Claims <- NoClaims
INVARIANT TypeOK
INVARIANT MuteRemembered
INVARIANT HideRemembered
INVARIANT NoOrphanForward
PROPERTY OffIsOff
PROPERTY KeepsBooks
