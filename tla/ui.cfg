SPECIFICATION FairSpec
CONSTANTS
    Hosts = {1, 2}
    RPorts = {1, 2}
    MaxEvents = 1
    MaxCmds = 1
    Views <- SomeViews
INVARIANT SelectionSound
PROPERTY SelectionKept
PROPERTY ActsOnShown
PROPERTY Fresh
PROPERTY SignalQuits
