SPECIFICATION FairSpec
CONSTANTS
    Procs = {1, 2, 3, 4}
    Connects = {1, 2}
    Closes = {1, 2}
    MaxEnds = 2
    MaxFaults = 1
INVARIANT NoLeak
PROPERTY Settles
PROPERTY Stops
CHECK_DEADLOCK FALSE
