-------------------------- MODULE NotifySpecProofs --------------------------
(***************************************************************************)
(* GattNotify implements NotifySpec, for any number of threads, any        *)
(* assignment of operations to them and any bytes.                         *)
(***************************************************************************)
EXTENDS GattNotifyProofs

USE NoThreadAssumption DEF CallbackSetters, SetsRead, ClearsRead

\* What the mapping of Client sees: of the threads, that one is about to signal a
\* switch; of the dropped signals, those of the characteristic.
Signalling == \E t \in Threads : pc[t] \in {"startEmit", "stopEmit"}
clientView == <<notifying, busNotifying, value["char"], busValue["char"], lastStore, owner["value"],
                Signalling, "Notifying" \in lost, "char" \in lost>>

Owed == (IF Signalling THEN {"Notifying"} ELSE {})
          \cup (IF "char" \in Registered /\ ~Free("value") THEN {"Value"} ELSE {})
Missed == (IF "Notifying" \in lost THEN {"Notifying"} ELSE {})
            \cup (IF "char" \in lost THEN {"Value"} ELSE {})

\* A step that changes nothing of it is a stutter.
LEMMA Unseen == ASSUME UNCHANGED clientView PROVE UNCHANGED Client!spec_vars
<1>1. UNCHANGED <<Owed, Missed>>
  BY DEF clientView, Owed, Missed, Free
<1> QED
  BY <1>1, Zenon DEF clientView, Client!spec_vars, Owed, Missed, Signalling

\* Signals are sent for a registered characteristic only, and the signal of a
\* switch says what the flag is: notifyMutex is still held.
SignalInv ==
    \A t \in Threads :
        /\ pc[t] \in {"setRead", "setCbLock", "setCb", "setEmit", "startEmit", "stopEmit"}
              => "char" \in Registered
        /\ pc[t] = "startEmit" => notifying = TRUE
        /\ pc[t] = "stopEmit" => notifying = FALSE

LEMMA SignalInvariant == Spec => []SignalInv
<1> DEFINE signals == {"setRead", "setCbLock", "setCb", "setEmit", "startEmit", "stopEmit"}
<1> DEFINE Inv == \A t \in Threads : pc[t] \in signals => "char" \in Registered
<1>1. Init => Inv
  BY DEF Init
<1>2. TypeOK /\ Inv /\ [Next]_vars => Inv'
  <2> SUFFICES ASSUME TypeOK, Inv, [Next]_vars PROVE Inv'
    OBVIOUS
  <2>0. CASE UNCHANGED vars
    BY <2>0 DEF vars
  <2> SUFFICES ASSUME NEW t \in Threads, Call(t) \/ Step(t) PROVE Inv'
    BY <2>0 DEF Next
  <2> USE DEF TypeOK, Goto, Return, At
  <2>1. CASE Call(t)
    <3>1. PICK o \in CharOps \cup DescOps : pc' = [pc EXCEPT ![t] = FirstStep(o)]
      BY <2>1, OpsAssumption DEF Call
    <3>2. FirstStep(o) \notin signals
      BY DEF CharOps, DescOps, FirstStep
    <3> QED
      BY <3>1, <3>2
  <2>2. CASE SetValueSteps(t) \/ Get(t)
    BY <2>2 DEF SetValueSteps, SetLock, SetReadNotifying, SetLockCallback, SetCallback, SetEmit, Get
  <2>3. CASE NotifySteps(t)
    BY <2>3 DEF NotifySteps, StartLock, StartEmit, StartLockCallback, StartCallback, StopLock,
       StopEmit, AfterNotify
  <2>4. CASE HandlerSteps(t)
    BY <2>4 DEF HandlerSteps, ReadLock, ReadCallback, ReadStored, WriteLock, WriteCallback,
       WriteStore, InstallCallback
  <2>5. CASE DescriptorSteps(t)
    BY <2>5 DEF DescriptorSteps, StoreLock, Store, PublishRead, PublishEmit, AfterNotify
  <2> QED
    BY <2>1, <2>2, <2>3, <2>4, <2>5 DEF Step
<1>3. TypeOK /\ Inv /\ NotifyInv => SignalInv
  BY DEF SignalInv, NotifyInv, TypeOK
<1> QED
  BY <1>1, <1>2, <1>3, TypeCorrect, NotifyInvariant, PTL DEF Spec

\* A step that neither begins nor ends at one of the two signals leaves the
\* others where they are.
LEMMA SignallingStays ==
    ASSUME NEW t \in Threads, \A u \in Threads \ {t} : pc'[u] = pc[u],
           pc[t] \notin {"startEmit", "stopEmit"}, pc'[t] \notin {"startEmit", "stopEmit"}
    PROVE  Signalling' = Signalling
  BY DEF Signalling

\* Every step of every thread is a step of NotifySpec or a stutter.
THEOREM ClientsSeeNotifySpec == Spec => ImplementsNotifySpec
<1>1. Init => Client!Init
  <2> DEFINE empty == <<>>
  <2>1. empty \in Seq(Byte)
    OBVIOUS
  <2> HIDE DEF empty
  <2>2. Init => value["char"] = empty /\ busValue["char"] = empty
    BY DEF Init, Objects, empty
  <2>3. Init => Owed = {} /\ Missed = {}
    BY DEF Init, Owed, Missed, Signalling, Free, Locks
  <2> QED
    BY <2>1, <2>2, <2>3 DEF Init, Client!Init, Owed, Missed, Signalling
<1>2. TypeOK /\ LockDiscipline /\ SignalInv /\ [Next]_vars
       => [Client!Next]_(Client!spec_vars)
  <2> SUFFICES ASSUME TypeOK, LockDiscipline, SignalInv, [Next]_vars
               PROVE  Client!Next \/ UNCHANGED Client!spec_vars
    OBVIOUS
  <2>0. CASE UNCHANGED vars
    <3>1. UNCHANGED clientView
      BY <2>0 DEF vars, state, bus, hist, clientView, Signalling
    <3> QED
      BY <3>1, Unseen
  <2> SUFFICES ASSUME NEW t \in Threads, Call(t) \/ Step(t)
               PROVE  Client!Next \/ UNCHANGED Client!spec_vars
    BY <2>0 DEF Next
  <2> DEFINE emits == {"startEmit", "stopEmit"}
  \* who is about to signal a switch holds notifyMutex
  <2>a. \A u \in Threads : pc[u] \in emits => owner["notify"] = u
    BY DEF LockDiscipline, Holds, Locks
  <2>1. CASE Call(t)
    <3>1. \A o \in CharOps \cup DescOps : FirstStep(o) \notin emits
      BY DEF CharOps, DescOps, FirstStep
    <3>a. PICK o \in CharOps \cup DescOps : pc' = [pc EXCEPT ![t] = FirstStep(o)]
      BY <2>1, OpsAssumption DEF Call, Goto
    <3>2. /\ \A u \in Threads \ {t} : pc'[u] = pc[u]
          /\ pc[t] \notin emits /\ pc'[t] \notin emits
      BY <2>1, <3>1, <3>a DEF Call, At, TypeOK
    <3>3. Signalling' = Signalling
      BY <3>2, SignallingStays
    <3>4. UNCHANGED clientView
      BY <2>1, <3>3 DEF Call, state, bus, hist, clientView
    <3> QED
      BY <3>4, Unseen
  <2>2. CASE SetLock(t)
    <3>1. /\ owner["value"] = NoThread
          /\ owner'["value"] = IF "char" \in Registered THEN t ELSE NoThread
      BY <2>2 DEF SetLock, Acquire, Free, TypeOK, Locks
    <3>2. value'["char"] \in Seq(Byte) /\ lastStore' = "setValue"
      BY <2>2 DEF SetLock, TypeOK, Objects
    <3>3. Signalling' = Signalling
      BY <2>2, SignallingStays DEF SetLock, At, Goto, Return, TypeOK
    <3>4. UNCHANGED <<notifying, busNotifying, busValue["char"], lost>>
      BY <2>2 DEF SetLock, bus
    <3>5. "Value" \notin Owed /\ Missed' = Missed
          /\ Owed' = IF "char" \in Registered THEN Owed \cup {"Value"} ELSE Owed
      BY <3>1, <3>3, <3>4, NoThreadAssumption DEF Owed, Missed, Free
    <3>6. Client!StoreLocal
      BY <3>2, <3>4, <3>5 DEF Client!StoreLocal, Client!Owe, Owed, Missed, Signalling
    <3> QED
      BY <3>6 DEF Client!Next
  <2>3. CASE SetEmit(t)
    <3>1. owner["value"] = t /\ t # NoThread /\ "char" \in Registered
      BY <2>3 DEF SetEmit, At, LockDiscipline, Holds, Locks, SignalInv
    <3>2. owner'["value"] = NoThread /\ UNCHANGED <<notifying, busNotifying, value["char"], lastStore>>
      BY <2>3 DEF SetEmit, Release, Locks, state, hist
    <3>3. Signalling' = Signalling
      BY <2>3, SignallingStays DEF SetEmit, At, Goto, Return, TypeOK
    <3>4. "Value" \in Owed /\ Owed' = Owed \ {"Value"}
      BY <3>1, <3>2, <3>3 DEF Owed, Free
    <3>5. \/ busValue'["char"] = value["char"] /\ Missed' = Missed \ {"Value"}
          \/ busValue'["char"] = busValue["char"] /\ Missed' = Missed \cup {"Value"}
      BY <2>3 DEF SetEmit, EmitValue, TypeOK, Objects, Missed
    <3>6. Client!Publish
      BY <3>2, <3>4, <3>5 DEF Client!Publish, Owed, Missed, Signalling
    <3> QED
      BY <3>6 DEF Client!Next
  <2>4. CASE WriteStore(t)
    <3>1. value'["char"] \in Seq(Byte) /\ lastStore' = "WriteValue" /\ owner["value"] = NoThread
      BY <2>4, StoredType DEF WriteStore, TypeOK, Objects, Free
    <3>2. UNCHANGED <<owner, notifying, busNotifying, busValue["char"], lost>>
      BY <2>4 DEF WriteStore, bus
    <3>3. Signalling' = Signalling
      BY <2>4, SignallingStays DEF WriteStore, At, Goto, Return, TypeOK
    <3>4. "Value" \notin Owed /\ Owed' = Owed /\ Missed' = Missed
      BY <3>1, <3>2, <3>3 DEF Owed, Missed, Free
    <3>5. Client!StoreRemote
      BY <3>1, <3>2, <3>4 DEF Client!StoreRemote, Owed, Missed, Signalling
    <3> QED
      BY <3>5 DEF Client!Next
  <2>5. CASE StartLock(t) \/ StopLock(t)
    <3>1. UNCHANGED <<busNotifying, value["char"], busValue["char"], lastStore, owner["value"], lost>>
      BY <2>5 DEF StartLock, StopLock, Acquire, TypeOK, Locks, bus
    <3>2. /\ \A u \in Threads \ {t} : pc'[u] = pc[u]
          /\ \A u \in Threads : pc[u] \notin emits
      BY <2>5, <2>a DEF StartLock, StopLock, Free, Goto, TypeOK
    <3>3. CASE notifying' = notifying
      <4>1. pc'[t] \notin emits
        BY <2>5, <3>3 DEF StartLock, StopLock, AfterNotify, Goto, TypeOK
      <4>2. Signalling' = Signalling
        BY <3>2, <4>1, SignallingStays
      <4> QED
        BY <3>1, <3>3, <4>2, Unseen DEF clientView
    <3>4. CASE notifying' # notifying
      <4>1. notifying' = ~notifying
        BY <2>5, <3>4 DEF StartLock, StopLock, TypeOK
      <4>2. pc'[t] \in emits <=> "char" \in Registered
        BY <2>5, <3>4 DEF StartLock, StopLock, AfterNotify, Goto, TypeOK
      <4>a. ~Signalling
        BY <3>2 DEF Signalling
      <4>b. Signalling' <=> pc'[t] \in emits
        BY <3>2, Zenon DEF Signalling
      <4>3. ~Signalling /\ (Signalling' <=> "char" \in Registered)
        BY <4>2, <4>a, <4>b
      <4>4. /\ "Notifying" \notin Owed /\ Missed' = Missed
            /\ Owed' = IF "char" \in Registered THEN Owed \cup {"Notifying"} ELSE Owed
        BY <3>1, <4>3 DEF Owed, Missed, Free
      <4>5. Client!Switch
        BY <3>1, <4>1, <4>4 DEF Client!Switch, Client!Owe, Owed, Missed, Signalling
      <4> QED
        BY <4>5 DEF Client!Next
    <3> QED
      BY <3>3, <3>4
  <2>6. CASE StartEmit(t) \/ StopEmit(t)
    <3>1. UNCHANGED <<notifying, value["char"], busValue["char"], lastStore, owner["value"]>>
      BY <2>6 DEF StartEmit, StopEmit, Release, TypeOK, Locks, state, hist
    <3>2. /\ pc[t] \in emits /\ pc'[t] \notin emits
          /\ \A u \in Threads \ {t} : pc[u] \notin emits /\ pc'[u] = pc[u]
      BY <2>6, <2>a DEF StartEmit, StopEmit, At, AfterNotify, Goto, TypeOK
    <3>3. Signalling /\ ~Signalling'
      BY <3>2 DEF Signalling
    <3>4. "Notifying" \in Owed /\ Owed' = Owed \ {"Notifying"}
      BY <3>1, <3>3 DEF Owed, Free
    <3>5. \/ busNotifying' = notifying /\ Missed' = Missed \ {"Notifying"}
          \/ busNotifying' = busNotifying /\ Missed' = Missed \cup {"Notifying"}
      BY <2>6 DEF StartEmit, StopEmit, EmitNotifying, At, SignalInv, TypeOK, Missed
    <3>6. Client!TellFlag
      BY <3>1, <3>4, <3>5 DEF Client!TellFlag, Owed, Missed, Signalling
    <3> QED
      BY <3>6 DEF Client!Next
  \* every other step is a stutter
  <2>b. ASSUME UNCHANGED <<notifying, busNotifying, value["char"], busValue["char"], lastStore,
                           owner["value"], "Notifying" \in lost, "char" \in lost>>,
               \A u \in Threads \ {t} : pc'[u] = pc[u],
               pc[t] \notin emits, pc'[t] \notin emits
        PROVE  UNCHANGED Client!spec_vars
    <3>1. Signalling' = Signalling
      BY <2>b, SignallingStays
    <3> QED
      BY <2>b, <3>1, Unseen DEF clientView
  <2>7. CASE SetReadNotifying(t) \/ SetLockCallback(t) \/ SetCallback(t) \/ Get(t)
    BY <2>b, <2>7 DEF SetReadNotifying, SetLockCallback, SetCallback, Get, Acquire, Release,
       At, Goto, Return, TypeOK, Locks, state, bus, hist
  <2>8. CASE StartLockCallback(t) \/ StartCallback(t)
    BY <2>b, <2>8 DEF StartLockCallback, StartCallback, AfterNotify, Acquire, Release,
       At, Goto, TypeOK, Locks, state, bus, hist
  <2>9. CASE ReadLock(t) \/ ReadCallback(t) \/ ReadStored(t) \/ WriteLock(t)
             \/ WriteCallback(t) \/ InstallCallback(t)
    BY <2>b, <2>9 DEF ReadLock, ReadCallback, ReadStored, WriteLock, WriteCallback,
       InstallCallback, Acquire, Release, CallbackLock, At, Goto, Return, TypeOK, Locks,
       state, bus, hist
  <2>10. CASE DescriptorSteps(t)
    BY <2>b, <2>10 DEF DescriptorSteps, StoreLock, Store, PublishRead, PublishEmit, EmitValue,
       AfterNotify, Acquire, Release, At, Goto, Return, TypeOK, Locks, Objects, state, bus, hist
  <2> QED
    BY <2>1, <2>2, <2>3, <2>4, <2>5, <2>6, <2>7, <2>8, <2>9, <2>10
       DEF Step, SetValueSteps, NotifySteps, HandlerSteps
<1> QED
  BY <1>1, <1>2, TypeCorrect, LocksAreReleased, SignalInvariant, PTL
     DEF Spec, ImplementsNotifySpec, Client!Spec
=============================================================================
