SPECIFICATION ConnSpec
CONSTANTS
    o1 = o1
    o2 = o2
    p = p
    app = app
    app2 = app2
    dispatcher = dispatcher
    NoThread = NoThread
    Objects = {o1, o2}
    Paths = {p}
    PathOf <- MCPathOf
    Interfaces = {1}
    MaxConnects = 2
    MaxRegistrations = 3
    Callers = {app, app2}
    Dispatcher = dispatcher
    MaxWatches = 2
SYMMETRY Symmetries
CHECK_DEADLOCK FALSE
INVARIANT TypeOK
INVARIANT NoDanglingExport
INVARIANT TableIsLive
INVARIANT RegisteredIffExported
INVARIANT ConnTypeOK
INVARIANT WatchesAreLive
INVARIANT RemovedNeverRuns
PROPERTY OnlyOwnerRemoves
PROPERTY WalkUndisturbed
PROPERTY ImplementsWatchSpec
