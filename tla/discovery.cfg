SPECIFICATION FairSpec
CONSTANTS
    Pids = {1, 2}
    UserLines <- SomeUserLines
    OurLines <- SomeOurLines
    Canon <- TwoServers
    Claim <- Claims3
    Config <- OneConfig
PROPERTY EndsWithSession
PROPERTY Seen
PROPERTY ClaimsEnd
