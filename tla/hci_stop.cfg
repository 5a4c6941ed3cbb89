SPECIFICATION FairSpec
CONSTANTS
    Commands = {"setPowered"}
    OwnerStopsSocket = FALSE
    MaxEvents = 2
PROPERTY StopTerminates
