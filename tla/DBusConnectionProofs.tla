------------------------ MODULE DBusConnectionProofs ------------------------
(***************************************************************************)
(* What holds of a DBusConnection for any threads, objects and bounds.     *)
(***************************************************************************)
EXTENDS DBusConnection, TLAPS

USE ThreadsAssumption, MaxWatchesAssumption

\* The signal watches leave the exports alone: what holds of DBusExport holds of
\* the whole connection.
THEOREM ExportsUndisturbed == ConnSpec => Spec
<1>1. ConnInit => Init
  BY DEF ConnInit
<1>2. [ConnNext]_connVars => [Next]_vars
  <2> SUFFICES ASSUME [ConnNext]_connVars PROVE Next \/ UNCHANGED vars
    OBVIOUS
  <2>1. CASE UNCHANGED connVars
    BY <2>1 DEF connVars, exportVars
  <2>2. CASE ObjectSteps
    BY <2>2 DEF ObjectSteps, Next
  <2>3. CASE DisconnectAll
    BY <2>3 DEF DisconnectAll, Next
  <2>4. CASE \E t \in Callers : WatchSteps(t)
    BY <2>4 DEF WatchSteps, AddSignalWatch, Subscribe, Insert, RemoveSignalWatch, RemoveWatch,
       exportVars
  <2>5. CASE SignalSteps
    BY <2>5 DEF SignalSteps, SignalArrives, DispatchSignal, HandleSignal, NextHandler, exportVars
  <2> QED
    BY <2>1, <2>2, <2>3, <2>4, <2>5 DEF ConnNext
<1> QED
  BY <1>1, <1>2, PTL DEF ConnSpec, Spec

\* What a thread is about to insert is an id that GDBus gave it.
InsertInv == \A t \in Callers : At(t, "insert") => target[t] \in WatchIds

LEMMA ConnTypeInvariant == ConnSpec => [](ConnTypeOK /\ InsertInv)
<1>1. ConnInit => ConnTypeOK /\ InsertInv
  <2>1. ConnInit => raced \in BOOLEAN
    BY DEF ConnInit
  <2> QED
    BY <2>1 DEF ConnInit, ConnTypeOK, InsertInv, WatchIds, At, Threads
<1>2. ConnTypeOK /\ InsertInv /\ [ConnNext]_connVars => (ConnTypeOK /\ InsertInv)'
  <2> SUFFICES ASSUME ConnTypeOK, InsertInv, [ConnNext]_connVars PROVE ConnTypeOK' /\ InsertInv'
    OBVIOUS
  <2>0. raced' \in BOOLEAN
    BY DEF ConnTypeOK, ConnNext, DisconnectAll, connVars
  <2> USE <2>0 DEF ConnTypeOK, InsertInv, WatchIds, Threads, Goto, At
  <2>1. CASE UNCHANGED watchVars
    BY <2>1 DEF watchVars, watchState, dispatch
  <2>2. CASE UNCHANGED connVars
    BY <2>1, <2>2 DEF connVars
  <2>3. CASE ObjectSteps /\ UNCHANGED watchVars
    BY <2>1, <2>3
  <2>4. CASE DisconnectAll
    BY <2>4 DEF DisconnectAll, DropWatches, dispatch
  <2>5. ASSUME NEW t \in Callers, WatchSteps(t) PROVE ConnTypeOK' /\ InsertInv'
    <3>1. CASE AddSignalWatch(t)
      BY <3>1 DEF AddSignalWatch, watchState, dispatch
    <3>2. CASE Subscribe(t)
      <4>1. CASE link = "none"
        BY <3>2, <4>1 DEF Subscribe, watchState, dispatch
      <4>2. CASE link # "none"
        <5>1. NextId \in WatchIds /\ watches' \in 0..MaxWatches
          BY <3>2, <4>2 DEF Subscribe, NextId
        <5>2. subscriptions' = subscriptions \cup {NextId} /\ target' = [target EXCEPT ![t] = NextId]
          BY <3>2, <4>2 DEF Subscribe
        <5>3. \A u \in Callers : target'[u] = IF u = t THEN NextId ELSE target[u]
          BY <3>2, <4>2 DEF Subscribe
        <5>4. /\ step' = [step EXCEPT ![t] = "insert"] /\ mutex' = t
              /\ UNCHANGED <<signalHandlers, removed, pending, running>>
          BY <3>2, <4>2 DEF Subscribe, dispatch
        <5> QED
          BY <5>1, <5>2, <5>3, <5>4
      <4> QED
        BY <4>1, <4>2
    <3>3. CASE Insert(t)
      BY <3>3 DEF Insert, dispatch
    <3>4. CASE RemoveSignalWatch(t)
      BY <3>4 DEF RemoveSignalWatch, watchState, dispatch
    <3>5. CASE RemoveWatch(t)
      BY <3>5 DEF RemoveWatch, dispatch
    <3> QED
      BY <2>5, <3>1, <3>2, <3>3, <3>4, <3>5 DEF WatchSteps
  <2>6. CASE SignalSteps
    BY <2>6 DEF SignalSteps, SignalArrives, DispatchSignal, HandleSignal, NextHandler, Later, First,
       watchState, dispatch
  <2> QED
    BY <2>2, <2>3, <2>4, <2>5, <2>6 DEF ConnNext
<1> QED
  BY <1>1, <1>2, PTL DEF ConnSpec

\* Every variable of the watches keeps its type; no id but GDBus' own is stored.
THEOREM ConnTypeCorrect == ConnSpec => []ConnTypeOK
  BY ConnTypeInvariant, PTL

-----------------------------------------------------------------------------
\* Who holds the mutex, and what the map lacks while he does.
Undisturbed ==
    /\ \A t \in Callers : /\ step[t] \in {"idle", "addLock", "insert", "removeLock"}
                          /\ At(t, "insert") <=> mutex = t
                          /\ At(t, "insert") => /\ target[t] \in subscriptions
                                                /\ subscriptions = signalHandlers \cup {target[t]}
    /\ step[Dispatcher] \in {"idle", "signalLock", "walk"}
    /\ At(Dispatcher, "walk") <=> mutex = Dispatcher
    /\ mutex \notin Callers => signalHandlers = subscriptions
    /\ running # 0 => At(Dispatcher, "walk") /\ running \in signalHandlers
    /\ link = "none" => subscriptions = {}
    /\ subscriptions \cup removed \subseteq 1..watches
    /\ subscriptions \cap removed = {}

\* So it is until a disconnect beside a thread that holds the mutex, the last step
\* there is.
WatchInv == IF raced THEN ~Free /\ running \notin removed ELSE Undisturbed

LEMMA WatchInvariant == ConnSpec => []WatchInv
<1>1. ConnInit => WatchInv
  BY DEF ConnInit, WatchInv, Undisturbed, Threads, At
<1>2. ConnTypeOK /\ ConnTypeOK' /\ WatchInv /\ [ConnNext]_connVars => WatchInv'
  <2> SUFFICES ASSUME ConnTypeOK, ConnTypeOK', WatchInv, [ConnNext]_connVars PROVE WatchInv'
    OBVIOUS
  <2>2. CASE UNCHANGED connVars
    BY <2>2 DEF connVars, exportVars, vars, watchVars, watchState, dispatch,
       WatchInv, Undisturbed, At, Free
  <2>0. ASSUME ConnNext PROVE ~raced /\ Undisturbed
    BY <2>0 DEF ConnNext, WatchInv
  <2>4. CASE ConnNext /\ DisconnectAll
    <3>1. /\ link' = "none" /\ signalHandlers' = {} /\ subscriptions' = {} /\ raced' = ~Free
          /\ UNCHANGED <<mutex, watches, removed, pending, running, step, target>>
      BY <2>4 DEF DisconnectAll, Disconnect, DropWatches, dispatch
    <3>2. CASE Free
      <4>1. Undisturbed'
        BY <2>0, <2>4, <3>1, <3>2 DEF Undisturbed, At, Free, Threads, ConnTypeOK
      <4> QED
        BY <3>1, <3>2, <4>1 DEF WatchInv
    <3>3. CASE ~Free
      <4>1. running \notin removed
        BY <2>0, <2>4 DEF Undisturbed, ConnTypeOK, WatchIds
      <4> QED
        BY <3>1, <3>3, <4>1 DEF WatchInv, Free
    <3> QED
      BY <3>2, <3>3
  \* everybody else
  <2> SUFFICES ASSUME ConnNext, ~raced, raced' = raced, Undisturbed,
                      \/ ObjectSteps /\ UNCHANGED watchVars
                      \/ \E t \in Callers : WatchSteps(t)
                      \/ SignalSteps
               PROVE  Undisturbed'
    BY <2>0, <2>2, <2>4 DEF ConnNext, WatchInv
  <2> USE DEF Undisturbed, At, Goto, Free, Threads
  <2>3. CASE ObjectSteps /\ UNCHANGED watchVars
    <3>1. link' = "none" => link = "none"
      BY <2>3 DEF ObjectSteps, Connect, BusLost, AddInterface, RegisterObject, UnregisterObject, Destroy
    <3> QED
      BY <2>3, <3>1 DEF watchVars, watchState, dispatch
  <2>5. ASSUME NEW t \in Callers, WatchSteps(t) PROVE Undisturbed'
    <3> USE DEF ConnTypeOK
    <3>0. UNCHANGED link /\ UNCHANGED running
      BY <2>5 DEF WatchSteps, AddSignalWatch, Subscribe, Insert, RemoveSignalWatch, RemoveWatch,
         exportVars, vars, dispatch
    <3>1. CASE AddSignalWatch(t)
      BY <3>0, <3>1 DEF AddSignalWatch, watchState, dispatch
    <3>2. CASE Subscribe(t)
      <4>1. CASE link = "none"
        BY <3>0, <3>2, <4>1 DEF Subscribe, watchState
      <4>2. CASE link # "none"
        BY <3>0, <3>2, <4>2 DEF Subscribe, NextId
      <4> QED
        BY <4>1, <4>2
    <3>3. CASE Insert(t)
      BY <3>0, <3>3 DEF Insert
    <3>4. CASE RemoveSignalWatch(t)
      BY <3>0, <3>4 DEF RemoveSignalWatch, watchState, dispatch
    <3>5. CASE RemoveWatch(t)
      <4>1. CASE target[t] \in signalHandlers
        BY <3>0, <3>5, <4>1 DEF RemoveWatch
      <4>2. CASE target[t] \notin signalHandlers
        BY <3>0, <3>5, <4>2 DEF RemoveWatch
      <4> QED
        BY <4>1, <4>2
    <3> QED
      BY <2>5, <3>1, <3>2, <3>3, <3>4, <3>5 DEF WatchSteps
  <2>6. CASE SignalSteps
    <3> USE DEF ConnTypeOK
    <3>0. UNCHANGED <<link, signalHandlers, subscriptions, watches, removed, target>>
      BY <2>6 DEF SignalSteps, SignalArrives, DispatchSignal, HandleSignal, NextHandler,
         exportVars, vars, watchState
    <3>1. CASE \E w \in 1..watches : SignalArrives(w) \/ DispatchSignal(w)
      BY <3>0, <3>1 DEF SignalArrives, DispatchSignal, watchState
    <3>2. CASE HandleSignal
      BY <3>0, <3>2 DEF HandleSignal
    <3>3. CASE NextHandler
      BY <3>0, <3>3 DEF NextHandler, Later, First
    <3> QED
      BY <2>6, <3>1, <3>2, <3>3 DEF SignalSteps
  <2> QED
    BY <2>3, <2>5, <2>6
<1> QED
  BY <1>1, <1>2, ConnTypeCorrect, PTL DEF ConnSpec

\* Map and subscriptions agree whenever the mutex is free, and nothing is left
\* of them without a connection.
THEOREM WatchesStayLive == ConnSpec => []WatchesAreLive
<1>1. WatchInv => WatchesAreLive
  BY ThreadsAssumption DEF WatchInv, Undisturbed, WatchesAreLive, Free
<1> QED
  BY <1>1, WatchInvariant, PTL

\* A handler that was removed is not running and never runs again.
THEOREM NoRunAfterRemoval == ConnSpec => []RemovedNeverRuns
<1>1. WatchInv /\ ConnTypeOK => RemovedNeverRuns
  BY DEF WatchInv, Undisturbed, ConnTypeOK, RemovedNeverRuns, At
<1> QED
  BY <1>1, WatchInvariant, ConnTypeCorrect, PTL

\* Nobody but disconnect changes the map that handleSignal walks.
THEOREM WalkSeesAll == ConnSpec => WalkUndisturbed
<1>1. WatchInv /\ [ConnNext]_connVars =>
        [At(Dispatcher, "walk") /\ ~raced' => signalHandlers' = signalHandlers]_connVars
  <2>2. UNCHANGED watchVars \/ UNCHANGED connVars => signalHandlers' = signalHandlers
    BY DEF connVars, watchVars, watchState
  <2> SUFFICES ASSUME WatchInv, ConnNext, ~raced, At(Dispatcher, "walk"), ~raced'
               PROVE  signalHandlers' = signalHandlers
    BY <2>2 DEF ConnNext
  <2>1. /\ mutex = Dispatcher /\ ~Free
        /\ \A t \in Callers : At(t, "insert") => mutex = t
    BY DEF WatchInv, Undisturbed, Free
  <2>3. CASE DisconnectAll
    BY <2>1, <2>3 DEF DisconnectAll
  <2>4. ASSUME NEW t \in Callers, WatchSteps(t) PROVE signalHandlers' = signalHandlers
    <3>1. ~At(t, "insert")
      BY <2>1
    <3> QED
      BY <2>1, <2>4, <3>1 DEF WatchSteps, AddSignalWatch, Subscribe, Insert, RemoveSignalWatch,
         RemoveWatch, watchState
  <2>5. CASE SignalSteps
    BY <2>5 DEF SignalSteps, SignalArrives, DispatchSignal, HandleSignal, NextHandler, watchState
  <2> QED
    BY <2>2, <2>3, <2>4, <2>5 DEF ConnNext
<1> QED
  BY <1>1, WatchInvariant, PTL DEF ConnSpec, WalkUndisturbed

-----------------------------------------------------------------------------
\* DBusConnection implements WatchSpec: the walk owes the signal to the handlers it
\* has not come to.
THEOREM WatchesImplement == ConnSpec => ImplementsWatchSpec
<1>1. ConnInit => Listeners!Init
  BY DEF ConnInit, Listeners!Init, Walking, At, Threads
<1>2. ConnTypeOK /\ InsertInv /\ WatchInv /\ [ConnNext]_connVars
        => [Listeners!Next]_(Listeners!spec_vars)
  <2> SUFFICES ASSUME ConnTypeOK, InsertInv, WatchInv, [ConnNext]_connVars
               PROVE  Listeners!Next \/ UNCHANGED Listeners!spec_vars
    OBVIOUS
  <2>0. ASSUME ConnNext PROVE Undisturbed
    BY <2>0 DEF ConnNext, WatchInv
  <2> DEFINE due == IF Walking THEN Later ELSE {}
  \* what is not seen of the map and of the walk
  <2>1. ASSUME UNCHANGED <<signalHandlers, removed, running>>, Walking' = Walking
        PROVE  UNCHANGED Listeners!spec_vars
    BY <2>1 DEF Listeners!spec_vars, Later
  <2>2. CASE UNCHANGED watchVars \/ UNCHANGED connVars
    BY <2>1, <2>2 DEF connVars, watchVars, watchState, dispatch, Walking, At
  \* whoever changes the map does it outside the walk
  <2>3. ASSUME Undisturbed, mutex # Dispatcher, step'[Dispatcher] = step[Dispatcher], UNCHANGED running
        PROVE  ~Walking /\ UNCHANGED <<Walking, due>> /\ due = {}
    BY <2>3 DEF Undisturbed, Walking, At
  <2>4. CASE DisconnectAll
    <3>1. UNCHANGED <<removed, running, step>> /\ signalHandlers' = {}
      BY <2>4 DEF DisconnectAll, DropWatches, dispatch
    <3>2. Walking' = Walking /\ Later' = {}
      BY <3>1 DEF Walking, At, Later
    <3> QED
      BY <3>1, <3>2 DEF Listeners!Clear, Listeners!Next
  <2>5. ASSUME Undisturbed, NEW t \in Callers, WatchSteps(t)
        PROVE  Listeners!Next \/ UNCHANGED Listeners!spec_vars
    <3>1. step'[Dispatcher] = step[Dispatcher] /\ UNCHANGED running
      BY <2>5 DEF WatchSteps, AddSignalWatch, Subscribe, Insert, RemoveSignalWatch, RemoveWatch,
         Goto, Threads, ConnTypeOK, dispatch
    <3>2. CASE AddSignalWatch(t) \/ Subscribe(t) \/ RemoveSignalWatch(t)
      <4>1. UNCHANGED <<signalHandlers, removed>>
        BY <3>2 DEF AddSignalWatch, Subscribe, RemoveSignalWatch, watchState
      <4> QED
        BY <2>1, <3>1, <4>1 DEF Walking, At
    <3>3. CASE Insert(t)
      <4>1. /\ mutex = t /\ target[t] \in WatchIds /\ target[t] \in subscriptions
            /\ signalHandlers' = signalHandlers \cup {target[t]} /\ UNCHANGED removed
        BY <2>5, <3>3 DEF Insert, Undisturbed, InsertInv
      <4>2. target[t] \notin removed
        BY <2>5, <4>1 DEF Undisturbed
      <4>3. Listeners!Add(target[t])
        BY <2>3, <2>5, <3>1, <4>1, <4>2 DEF Listeners!Add
      <4> QED
        BY <4>1, <4>3 DEF Listeners!Next
    <3>4. CASE RemoveWatch(t)
      <4>1. mutex # Dispatcher
        BY <3>4 DEF RemoveWatch, Free
      <4>2. CASE target[t] \in signalHandlers
        <5>1. target[t] \in WatchIds
          BY <4>2 DEF ConnTypeOK
        <5>2. Listeners!Remove(target[t])
          BY <2>3, <2>5, <3>1, <3>4, <4>1, <4>2 DEF RemoveWatch, Listeners!Remove
        <5> QED
          BY <5>1, <5>2 DEF Listeners!Next
      <4>3. CASE target[t] \notin signalHandlers
        BY <2>1, <3>1, <3>4, <4>3 DEF RemoveWatch, Walking, At
      <4> QED
        BY <4>2, <4>3
    <3> QED
      BY <2>5, <3>2, <3>3, <3>4 DEF WatchSteps
  <2>6. CASE \E w \in 1..watches : SignalArrives(w) \/ DispatchSignal(w)
    <3>1. UNCHANGED <<signalHandlers, removed, running>> /\ Walking' = Walking
      BY <2>6 DEF SignalArrives, DispatchSignal, watchState, Walking, At, Goto, Threads, ConnTypeOK
    <3> QED
      BY <2>1, <3>1
  <2>7. CASE Undisturbed /\ HandleSignal
    <3>1. ~Walking /\ Walking' /\ running' = 0 /\ UNCHANGED <<signalHandlers, removed>>
      BY <2>7 DEF HandleSignal, Walking, At, Goto, Threads, ConnTypeOK
    <3>2. running = 0
      BY <2>7, <3>1 DEF Undisturbed, Walking
    <3>3. Later' = signalHandlers
      <4>1. Later' = {w \in signalHandlers : w > 0}
        BY <3>1 DEF Later
      <4>2. \A w \in signalHandlers : w > 0
        BY DEF ConnTypeOK, WatchIds
      <4> QED
        BY <4>1, <4>2
    <3> QED
      BY <3>1, <3>2, <3>3 DEF Listeners!Signal, Listeners!Next
  <2>8. CASE NextHandler
    <3>1. Walking /\ UNCHANGED <<signalHandlers, removed>>
      BY <2>8 DEF NextHandler, Walking
    <3>2. CASE Later # {}
      <4>1. running' \in First(Later) /\ Walking'
        BY <2>8, <3>1, <3>2 DEF NextHandler, Walking, At
      <4>2. running' \in Later /\ running' \in WatchIds
        BY <4>1 DEF First, Later, ConnTypeOK
      <4>3. Later' = Later \ {running'}
        <5>1. \A v \in Later : running' <= v
          BY <4>1 DEF First
        <5>2. Later' = {w \in signalHandlers : w > running'}
          BY <3>1 DEF Later
        <5>3. ASSUME NEW w \in signalHandlers
              PROVE  w > running' <=> w > running /\ w # running'
          <6>1. w \in Nat /\ running \in Nat /\ running' \in Nat /\ running' > running
            BY <4>2 DEF Later, ConnTypeOK, WatchIds
          <6>2. w > running => running' <= w
            BY <5>1 DEF Later
          <6> QED
            BY <6>1, <6>2
        <5> QED
          BY <5>2, <5>3 DEF Later
      <4>4. Listeners!Hear(running')
        BY <3>1, <4>1, <4>2, <4>3 DEF Listeners!Hear
      <4> QED
        BY <4>2, <4>4 DEF Listeners!Next
    <3>3. CASE Later = {}
      <4>1. running' = 0 /\ ~Walking'
        BY <2>8, <3>3 DEF NextHandler, Walking, At, Goto, Threads, ConnTypeOK
      <4> QED
        BY <3>1, <3>3, <4>1 DEF Listeners!Over, Listeners!Next
    <3> QED
      BY <3>2, <3>3
  <2> QED
    BY <2>0, <2>2, <2>4, <2>5, <2>6, <2>7, <2>8 DEF ConnNext, SignalSteps
<1> QED
  BY <1>1, <1>2, ConnTypeInvariant, WatchInvariant, PTL
     DEF ConnSpec, ImplementsWatchSpec, Listeners!Spec
=============================================================================
