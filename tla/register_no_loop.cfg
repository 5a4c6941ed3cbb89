SPECIFICATION FairSpec
CONSTANTS
    HasMainLoop = FALSE
    SendsBareDict = TRUE
    MaxCalls = 1
    MaxTimeouts = 0
    MaxRestarts = 0
CHECK_DEADLOCK FALSE
PROPERTY RegisterSucceeds
