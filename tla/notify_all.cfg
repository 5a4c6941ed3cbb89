SPECIFICATION Spec
CONSTANTS
    app = app
    app2 = app2
    dispatcher = dispatcher
    NoThread = NoThread
    Threads = {app, app2, dispatcher}
    Ops <- AllOps
    CharWrites <- MCCharWrites
    DescWrites <- RemoteWrite
    Registered = {"char"}
    CanNotify = TRUE
    IsCccd = TRUE
    HasReadCallback <- WithReadCallbacks
INVARIANT TypeOK
INVARIANT LockDiscipline
INVARIANT NoDeadlock
INVARIANT NotifyingPublished
INVARIANT LocalValuePublished
PROPERTY ImplementsNotifySpec
