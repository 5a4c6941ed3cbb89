--------------------------- MODULE DBusConnection ---------------------------
(***************************************************************************)
(* The whole of a DBusConnection: the objects of DBusExport together with  *)
(* its signal watches, which threads of the application add and remove     *)
(* while the thread that dispatches the bus runs their handlers.           *)
(* Code: src/DBusConnection.cpp (addSignalWatch, removeSignalWatch,        *)
(* handleSignal, disconnect).  GDBus' subscriptions are external.          *)
(***************************************************************************)
EXTENDS DBusExport

CONSTANTS
    Callers,            \* threads that add and remove watches
    Dispatcher,         \* the thread that dispatches the bus
    NoThread,           \* the owner of a free mutex
    MaxWatches          \* bound: subscriptions made

ASSUME ThreadsAssumption == Dispatcher \notin Callers /\ NoThread \notin Callers \cup {Dispatcher}
ASSUME MaxWatchesAssumption == MaxWatches \in Nat

VARIABLES
    mutex,              \* DBusConnection::mutex: the thread that holds it, or NoThread
    signalHandlers,     \* DBusConnection::signalHandlers: the watch ids in the map
    subscriptions,      \* external: GDBus' subscriptions on the connection
    pending,            \* external: subscriptions with a signal to be dispatched
    step,               \* step[t]: where thread t is
    target,             \* target[t]: the watch it adds or removes
    running,            \* the handler that handleSignal runs, 0 before the first
    watches,            \* the number of subscriptions made so far: GDBus counts up
    removed,            \* history: watches that removeSignalWatch removed
    raced               \* history: disconnect changed the map while another thread used it

exportVars == vars
watchState == <<mutex, signalHandlers, subscriptions, watches, removed>>
dispatch   == <<pending, running>>
watchVars  == <<watchState, dispatch, step, target>>
connVars   == <<exportVars, watchVars, raced>>

Threads == Callers \cup {Dispatcher}

At(t, s)   == step[t] = s
Goto(t, s) == step' = [step EXCEPT ![t] = s]
Free       == mutex = NoThread

-----------------------------------------------------------------------------
\* addSignalWatch asks isConnected before it takes the mutex; otherwise it
\* returns 0 at once.
AddSignalWatch(t) ==
    /\ At(t, "idle") /\ IsConnected
    /\ Goto(t, "addLock")
    /\ UNCHANGED <<exportVars, watchState, dispatch, target>>

NextId == watches + 1

\* Faulty variant: id 0, the answer for a null connection, enters the map too.
SubscribeUnchecked(t) ==
    /\ At(t, "addLock") /\ Free
    /\ \/ /\ link = "none"
          /\ signalHandlers' = signalHandlers \cup {0}
          /\ Goto(t, "idle")
          /\ UNCHANGED <<mutex, watches, subscriptions, target, removed>>
       \/ /\ link # "none" /\ watches < MaxWatches
          /\ mutex' = t
          /\ watches' = watches + 1
          /\ subscriptions' = subscriptions \cup {NextId}
          /\ target' = [target EXCEPT ![t] = NextId]
          /\ Goto(t, "insert")
          /\ UNCHANGED <<signalHandlers, removed>>
    /\ UNCHANGED <<exportVars, dispatch>>

\* GDBus refuses a null connection with id 0 and takes a closed one.
Subscribe(t) ==
    /\ At(t, "addLock") /\ Free
    /\ \/ /\ link = "none"
          /\ Goto(t, "idle")
          /\ UNCHANGED <<watchState, target>>
       \/ /\ link # "none" /\ watches < MaxWatches
          /\ mutex' = t
          /\ watches' = watches + 1
          /\ subscriptions' = subscriptions \cup {NextId}
          /\ target' = [target EXCEPT ![t] = NextId]
          /\ Goto(t, "insert")
          /\ UNCHANGED <<signalHandlers, removed>>
    /\ UNCHANGED <<exportVars, dispatch>>

Insert(t) ==
    /\ At(t, "insert")
    /\ signalHandlers' = signalHandlers \cup {target[t]}
    /\ mutex' = NoThread
    /\ Goto(t, "idle")
    /\ UNCHANGED <<exportVars, subscriptions, watches, removed, dispatch, target>>

\* removeSignalWatch, of an id that some addSignalWatch returned.
RemoveSignalWatch(t) ==
    /\ At(t, "idle") /\ IsConnected
    /\ \E w \in 1..watches : target' = [target EXCEPT ![t] = w]
    /\ Goto(t, "removeLock")
    /\ UNCHANGED <<exportVars, watchState, dispatch>>

\* Faulty variant: without the mutex.
RemoveWatchUnlocked(t) ==
    /\ At(t, "removeLock")
    /\ IF target[t] \in signalHandlers
       THEN /\ subscriptions' = subscriptions \ {target[t]}
            /\ signalHandlers' = signalHandlers \ {target[t]}
            /\ removed' = removed \cup {target[t]}
       ELSE UNCHANGED <<subscriptions, signalHandlers, removed>>
    /\ Goto(t, "idle")
    /\ UNCHANGED <<exportVars, mutex, watches, dispatch, target>>

RemoveWatch(t) ==
    /\ At(t, "removeLock") /\ Free
    /\ IF target[t] \in signalHandlers
       THEN /\ subscriptions' = subscriptions \ {target[t]}
            /\ signalHandlers' = signalHandlers \ {target[t]}
            /\ removed' = removed \cup {target[t]}
       ELSE UNCHANGED <<subscriptions, signalHandlers, removed>>
    /\ Goto(t, "idle")
    /\ UNCHANGED <<exportVars, mutex, watches, dispatch, target>>

-----------------------------------------------------------------------------
\* A signal of the bus that matches a subscription; the next one for the same
\* subscription comes when this one is dispatched (a bound: handleSignal does
\* the same for all of them).
SignalArrives(w) ==
    /\ IsConnected /\ w \in subscriptions \ pending
    /\ pending' = pending \cup {w}
    /\ UNCHANGED <<exportVars, watchState, running, step, target>>

\* GDBus drops a signal whose subscription is gone.
DispatchSignal(w) ==
    /\ At(Dispatcher, "idle") /\ w \in pending
    /\ pending' = pending \ {w}
    /\ IF w \in subscriptions THEN Goto(Dispatcher, "signalLock") ELSE UNCHANGED step
    /\ UNCHANGED <<exportVars, watchState, running, target>>

\* Faulty variant: the handlers run after the mutex is released.
HandleSignalUnlocked ==
    /\ At(Dispatcher, "signalLock") /\ Free
    /\ running' = 0
    /\ Goto(Dispatcher, "walk")
    /\ UNCHANGED <<exportVars, watchState, pending, target>>

\* handleSignal takes the mutex for the whole walk over the map.
HandleSignal ==
    /\ At(Dispatcher, "signalLock") /\ Free
    /\ mutex' = Dispatcher
    /\ running' = 0
    /\ Goto(Dispatcher, "walk")
    /\ UNCHANGED <<exportVars, signalHandlers, subscriptions, watches, removed, pending, target>>

\* The walk goes by ids, over the handlers of all watches, whatever the signal.
Later == {w \in signalHandlers : w > running}
First(ws) == {w \in ws : \A v \in ws : w <= v}

\* Faulty variant: what a handler throws is caught around the walk, and ends it.
ThrowEndsWalk ==
    /\ At(Dispatcher, "walk")
    /\ \/ running' \in First(Later) /\ UNCHANGED <<mutex, step>>
       \/ running' = 0 /\ mutex' = NoThread /\ Goto(Dispatcher, "idle")
    /\ UNCHANGED <<exportVars, signalHandlers, subscriptions, watches, removed, pending, target>>

\* A handler returned (what it throws is caught): the next one runs, or the
\* walk is over.
NextHandler ==
    /\ At(Dispatcher, "walk")
    /\ IF Later # {}
       THEN running' \in First(Later) /\ UNCHANGED <<mutex, step>>
       ELSE running' = 0 /\ mutex' = NoThread /\ Goto(Dispatcher, "idle")
    /\ UNCHANGED <<exportVars, signalHandlers, subscriptions, watches, removed, pending, target>>

-----------------------------------------------------------------------------
\* Faulty variant: the handlers stay in the map.
DropWatchesOnBus == subscriptions' = {} /\ UNCHANGED signalHandlers

\* disconnect unsubscribes and clears the handlers beside the exports, without
\* the mutex; the connection's other subscriptions go with it.
DropWatches == subscriptions' = {} /\ signalHandlers' = {}

\* It waits for nobody: beside a thread that holds the mutex it is a data race on
\* the map, and nothing is defined afterwards.
DisconnectAll ==
    /\ Disconnect
    /\ DropWatches
    /\ raced' = ~Free
    /\ UNCHANGED <<mutex, watches, removed, dispatch, step, target>>

ObjectSteps ==
    \/ Connect \/ BusLost
    \/ \E o \in Objects : \/ \E i \in Interfaces : AddInterface(o, i)
                          \/ RegisterObject(o) \/ UnregisterObject(o) \/ Destroy(o)

WatchSteps(t) ==
    AddSignalWatch(t) \/ Subscribe(t) \/ Insert(t) \/ RemoveSignalWatch(t) \/ RemoveWatch(t)

SignalSteps ==
    \/ \E w \in 1..watches : SignalArrives(w) \/ DispatchSignal(w)
    \/ HandleSignal \/ NextHandler

ConnInit ==
    /\ Init
    /\ mutex = NoThread
    /\ signalHandlers = {} /\ subscriptions = {} /\ pending = {}
    /\ step = [t \in Threads |-> "idle"]
    /\ target = [t \in Threads |-> 0]
    /\ running = 0 /\ watches = 0 /\ removed = {} /\ raced = FALSE

ConnNext ==
    /\ ~raced
    /\ \/ DisconnectAll
       \/ /\ \/ ObjectSteps /\ UNCHANGED watchVars
             \/ \E t \in Callers : WatchSteps(t)
             \/ SignalSteps
          /\ UNCHANGED raced

ConnSpec == ConnInit /\ [][ConnNext]_connVars

-----------------------------------------------------------------------------
WatchIds == 1..MaxWatches

\* The types of the variables of the watches; what the map holds are ids of GDBus.
ConnTypeOK ==
    /\ mutex \in Threads \cup {NoThread}
    /\ signalHandlers \subseteq WatchIds
    /\ subscriptions \subseteq WatchIds
    /\ pending \subseteq WatchIds
    /\ step \in [Threads -> {"idle", "addLock", "insert", "removeLock", "signalLock", "walk"}]
    /\ target \in [Threads -> WatchIds \cup {0}]
    /\ running \in WatchIds \cup {0}
    /\ watches \in 0..MaxWatches
    /\ removed \subseteq WatchIds
    /\ raced \in BOOLEAN

\* The map and the bus agree whenever the mutex is free: each handler has a
\* subscription on the present connection and each subscription a handler, and
\* nothing is left of them after disconnect, even for a call that had asked
\* isConnected before.
WatchesAreLive ==
    Free => /\ signalHandlers = subscriptions
            /\ link = "none" => signalHandlers = {}

\* Once removeSignalWatch has returned true the handler neither runs nor will:
\* the caller may free what it uses.
RemovedNeverRuns == running \notin removed

\* While handleSignal walks the map nobody changes it but a disconnect, which alone
\* does without the mutex: otherwise the iterator stays valid and every watch that
\* was there at the start gets the signal.
WalkUndisturbed ==
    [][At(Dispatcher, "walk") /\ ~raced' => signalHandlers' = signalHandlers]_connVars

\* What those who add and remove watches see: the map, and the walk over it.
Walking == At(Dispatcher, "walk")
Listeners == INSTANCE WatchSpec WITH
    Watches <- WatchIds, watching <- signalHandlers, walking <- Walking,
    due <- (IF Walking THEN Later ELSE {}), hearing <- running

\* Whatever threads add, remove and disconnect meanwhile, the watches keep what
\* WatchSpec promises: a signal being handled is heard by each handler in the map
\* exactly once, and by none that was removed.  (disconnect gives the watches up;
\* beside a thread that holds the mutex it is the last step there is.)
ImplementsWatchSpec == Listeners!Spec
=============================================================================
