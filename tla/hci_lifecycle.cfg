SPECIFICATION FairSpec
CONSTANTS
    Commands = {"setAdapterName", "setAdvertisingEnabled", "setPowered", "setLEEnabled",
                "mgmtSetDiscoverable", "mgmtSetState"}
    OwnerStopsSocket = TRUE
    MaxEvents = 2
INVARIANT TypeOK
INVARIANT NoUseAfterClose
INVARIANT StoppedMeansNoThread
PROPERTY StopAfterSocketStop
PROPERTY EventsHandled
