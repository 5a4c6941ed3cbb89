SPECIFICATION Spec
CONSTANTS
    Commands = {"mgmtSetName"}
    OwnerStopsSocket = FALSE
    MaxEvents = 1
INVARIANT CommandsWhole
