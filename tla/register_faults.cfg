SPECIFICATION ServerSpec
CONSTANTS
    HasMainLoop = TRUE
    SendsBareDict = TRUE
    MaxCalls = 4
    MaxTimeouts = 2
    MaxRestarts = 1
    Services = {s1, s2}
CHECK_DEADLOCK FALSE
INVARIANT TypeOK
INVARIANT OkMeansAgreed
 
INVARIANT RegisteredAsListed
PROPERTY ImplementsRegistrationSpec
