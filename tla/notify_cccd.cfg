SPECIFICATION FairSpec
CONSTANTS
    app = app
    app2 = app2
    dispatcher = dispatcher
    NoThread = NoThread
    Threads = {app, app2, dispatcher}
    Ops <- CccdWritersOps
    CharWrites <- OneCharWrite
    DescWrites <- MCDescWrites
    Registered = {"char", "desc"}
    CanNotify = TRUE
    IsCccd = TRUE
    HasReadCallback <- WithReadCallbacks
INVARIANT CccdControlsNotify
INVARIANT DescValuePublished
PROPERTY CallsKeepReturning
