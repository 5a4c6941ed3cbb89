SPECIFICATION Spec
CONSTANTS
    app = app
    app2 = app2
    dispatcher = dispatcher
    NoThread = NoThread
    Threads = {app, dispatcher}
    Ops <- RemoteCccdWriterOps
    CharWrites <- MCCharWrites
    DescWrites <- OnOff
    Registered = {"char", "desc"}
    CanNotify = TRUE
    IsCccd = TRUE
    HasReadCallback <- NoReadCallback
INVARIANT CccdControlsNotify
