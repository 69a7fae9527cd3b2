SPECIFICATION ReadersSpec
CONSTANTS
    Texts <- SomeTexts
    Letters <- SomeLetters
    Argvs <- SomeArgvs
    Procs <- SomeProcs
    Servers <- SomeServers
    SshdPort = 2222
    DenyPorts <- Denied
    DenyProcs <- DeniedProcs
    DevPorts <- Dev
    EphemeralStart = 32768
    ClusterMin = 2
INVARIANT ReadsAsSsh
INVARIANT Real
INVARIANT Complete
INVARIANT TierRight
CHECK_DEADLOCK FALSE
