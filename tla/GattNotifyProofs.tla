-------------------------- MODULE GattNotifyProofs --------------------------
(***************************************************************************)
(* What holds of GattNotify for any number of threads, any assignment of   *)
(* operations to them and any bytes.                                       *)
(***************************************************************************)
EXTENDS GattNotify, FiniteSetTheorems, TLAPS

\* stringFromGVariantByteArray: a prefix, so still a byte string.
LEMMA CStringType == ASSUME NEW b \in Seq(Byte) PROVE CString(b) \in Seq(Byte)
<1> DEFINE prefixes == {n \in 1..Len(b) : \A i \in 1..n : b[i] # 0}
<1>1. Len(b) \in Nat
  OBVIOUS
<1>2. IsFiniteSet(1..Len(b)) /\ Cardinality(1..Len(b)) = Len(b)
  BY <1>1, FS_Interval
<1>3. Cardinality(prefixes) \in Nat /\ Cardinality(prefixes) <= Len(b)
  BY <1>2, FS_Subset, FS_CardinalityType
<1>4. CStringLength(b) \in Nat /\ CStringLength(b) <= Len(b)
  BY <1>3 DEF CStringLength
<1>5. \A i \in 1..CStringLength(b) : b[i] \in Byte
  BY <1>1, <1>4
<1> QED
  BY <1>4, <1>5 DEF CString

\* What an operation stores is a byte string.
LEMMA StoredType == ASSUME TypeOK, NEW t \in Threads PROVE Stored(t) \in Seq(Byte)
  BY CStringType DEF Stored, TypeOK

\* What a caller passes is a byte string.
LEMMA WritesType == ASSUME NEW o PROVE Writes(o) \subseteq Seq(Byte)
<1>1. CharWrites \subseteq Seq(Byte) /\ DescWrites \subseteq Seq(Byte)
  BY WritesAssumption
<1>2. <<>> \in Seq(Byte)
  OBVIOUS
<1> QED
  BY <1>1, <1>2 DEF Writes

USE NoThreadAssumption, OpsAssumption, ObjectAssumption DEF CallbackSetters, SetsRead, ClearsRead

\* Taking and releasing mutexes keeps their owners threads.
LEMMA OwnerType ==
    ASSUME TypeOK, NEW t \in Threads,
           UNCHANGED owner \/ (\E l \in Locks : Acquire(t, l)) \/ (\E ls : Release(ls))
    PROVE  owner' \in [Locks -> Threads \cup {NoThread}]
<1>1. owner \in [Locks -> Threads \cup {NoThread}]
  BY DEF TypeOK
<1>2. ASSUME NEW l \in Locks, Acquire(t, l) PROVE owner' \in [Locks -> Threads \cup {NoThread}]
  BY <1>1, <1>2 DEF Acquire
<1>3. ASSUME NEW ls, Release(ls) PROVE owner' \in [Locks -> Threads \cup {NoThread}]
  BY <1>1, <1>3 DEF Release
<1> QED
  BY <1>1, <1>2, <1>3

\* The mutexes of the two objects are mutexes.
LEMMA LockNames ==
    /\ {"value", "notify", "callback", "descValue", "descCallback"} \subseteq Locks
    /\ \A o : ValueLock(o) \in Locks /\ CallbackLock(o) \in Locks
  BY DEF Locks, ValueLock, CallbackLock

\* Every variable keeps its type: the base of the other theorems.
THEOREM TypeCorrect == Spec => []TypeOK
<1> USE DEF Goto, Return
<1>1. Init => TypeOK
  <2> SUFFICES ASSUME Init PROVE TypeOK
    OBVIOUS
  <2> DEFINE empty == <<>>
  <2>1. empty \in Seq(Byte)
    OBVIOUS
  <2> HIDE DEF empty
  <2>2. /\ value = [o \in Objects |-> empty] /\ busValue = [o \in Objects |-> empty]
        /\ arg = [t \in Threads |-> empty] /\ snapshot = [t \in Threads |-> empty]
        /\ cccdRequest = empty
    BY DEF Init, empty
  <2>3. /\ owner \in [Locks -> Threads \cup {NoThread}]
        /\ pc \in [Threads -> PCs]
        /\ op \in [Threads -> CharOps \cup DescOps]
    BY DEF Init, PCs, CharOps
  <2>4. /\ notifying \in BOOLEAN /\ readCallback \in [Objects -> BOOLEAN]
        /\ busNotifying \in BOOLEAN /\ lastStore \in {"setValue", "WriteValue"}
        /\ lost \subseteq Objects \cup {"Notifying"} /\ contest \in {"none", "switch", "overlap"}
    BY DEF Init
  <2> QED
    BY <2>1, <2>2, <2>3, <2>4 DEF TypeOK
<1>2. TypeOK /\ [Next]_vars => TypeOK'
  <2> SUFFICES ASSUME TypeOK, [Next]_vars PROVE TypeOK'
    OBVIOUS
  <2>0. CASE UNCHANGED vars
    BY <2>0 DEF TypeOK, vars, state, bus, hist
  <2> SUFFICES ASSUME NEW t \in Threads, Call(t) \/ Step(t) PROVE TypeOK'
    BY <2>0 DEF Next
  <2>1. CASE Call(t)
    <3> PICK o \in Ops[t] : \E b \in Writes(o) :
             /\ op' = [op EXCEPT ![t] = o]
             /\ arg' = [arg EXCEPT ![t] = b]
             /\ Goto(t, FirstStep(o))
      BY <2>1 DEF Call
    <3>1. o \in CharOps \cup DescOps
      OBVIOUS
    <3>2. FirstStep(o) \in PCs
      BY <3>1 DEF FirstStep, CharOps, DescOps, PCs
    <3>3. arg' \in [Threads -> Seq(Byte)]
      BY WritesType DEF TypeOK
    <3>4. op' \in [Threads -> CharOps \cup DescOps] /\ pc' \in [Threads -> PCs]
      BY <3>1, <3>2 DEF TypeOK
    <3> QED
      BY <2>1, <3>3, <3>4 DEF TypeOK, Call, state, bus, hist
  <2>2. CASE SetValueSteps(t)
    <3> USE <2>2 DEF SetValueSteps, SetLock, SetReadNotifying, SetLockCallback, SetCallback,
                     SetEmit, EmitValue
    <3>1. pc' \in [Threads -> PCs]
      BY DEF TypeOK, PCs
    <3>2. owner' \in [Locks -> Threads \cup {NoThread}]
      <4>1. \/ UNCHANGED owner
            \/ Acquire(t, "value") \/ Acquire(t, "callback")
            \/ Release({"callback"}) \/ Release({"value"})
        BY Zenon
      <4> QED
        BY <4>1, OwnerType, LockNames, Zenon
    <3>3. /\ value' \in [Objects -> Seq(Byte)]
          /\ lastStore' \in {"setValue", "WriteValue"}
      BY DEF TypeOK, state, hist
    <3>4. busValue' \in [Objects -> Seq(Byte)] /\ lost' \subseteq Objects \cup {"Notifying"}
      BY DEF TypeOK, Objects, bus
    <3> QED
      BY <3>1, <3>2, <3>3, <3>4 DEF TypeOK, state, bus, hist
  <2>3. CASE Get(t)
    BY <2>3 DEF Get, TypeOK, PCs, state, bus, hist
  <2>4. CASE NotifySteps(t)
    <3> USE <2>4 DEF NotifySteps, StartLock, StartEmit, StartLockCallback, StartCallback,
                     StopLock, StopEmit, EmitNotifying
    <3>1. pc' \in [Threads -> PCs]
      BY DEF TypeOK, PCs, AfterNotify
    <3>2. owner' \in [Locks -> Threads \cup {NoThread}]
      <4>1. \/ UNCHANGED owner
            \/ Acquire(t, "notify") \/ Acquire(t, "callback")
            \/ Release({"notify", "callback"}) \/ Release({"notify"})
        BY Zenon
      <4> QED
        BY <4>1, OwnerType, LockNames, Zenon
    <3>3. contest' \in {"none", "switch", "overlap"}
      BY DEF AfterSwitch, TypeOK, hist
    <3>4. lost' \subseteq Objects \cup {"Notifying"} /\ busNotifying' \in BOOLEAN
      BY DEF TypeOK, bus
    <3> QED
      BY <3>1, <3>2, <3>3, <3>4 DEF TypeOK, state, bus, hist
  <2>5. CASE HandlerSteps(t)
    <3>1. CASE WriteStore(t)
      <4>1. value' \in [Objects -> Seq(Byte)]
        BY <3>1, StoredType DEF WriteStore, TypeOK
      <4>2. pc' \in [Threads -> PCs]
        BY <3>1 DEF WriteStore, TypeOK, PCs
      <4> QED
        BY <3>1, <4>1, <4>2 DEF WriteStore, TypeOK, bus
    <3>2. CASE ReadLock(t) \/ ReadCallback(t) \/ ReadStored(t)
      <4>1. pc' \in [Threads -> PCs]
        BY <3>2 DEF ReadLock, ReadCallback, ReadStored, TypeOK, PCs
      <4>2. owner' \in [Locks -> Threads \cup {NoThread}]
        <5>1. Acquire(t, CallbackLock(Obj(t))) \/ Release({CallbackLock(Obj(t))})
          BY <3>2, Zenon DEF ReadLock, ReadCallback, ReadStored
        <5> QED
          BY <5>1, OwnerType, LockNames, Zenon
      <4> QED
        BY <3>2, <4>1, <4>2 DEF ReadLock, ReadCallback, ReadStored, TypeOK, state, bus, hist
    <3>3. CASE WriteLock(t) \/ WriteCallback(t) \/ InstallCallback(t)
      <4>1. pc' \in [Threads -> PCs]
        BY <3>3 DEF WriteLock, WriteCallback, InstallCallback, TypeOK, PCs
      <4>2. owner' \in [Locks -> Threads \cup {NoThread}]
        <5>1. \/ UNCHANGED owner
              \/ Acquire(t, CallbackLock(Obj(t))) \/ Release({CallbackLock(Obj(t))})
          BY <3>3, Zenon DEF WriteLock, WriteCallback, InstallCallback
        <5> QED
          BY <5>1, OwnerType, LockNames, Zenon
      <4>3. readCallback' \in [Objects -> BOOLEAN]
        BY <3>3, Zenon DEF WriteLock, WriteCallback, InstallCallback, TypeOK, state
      <4> QED
        BY <3>3, <4>1, <4>2, <4>3
           DEF WriteLock, WriteCallback, InstallCallback, TypeOK, state, bus, hist
    <3> QED
      BY <2>5, <3>1, <3>2, <3>3 DEF HandlerSteps
  <2>6. CASE DescriptorSteps(t)
    <3>1. CASE Store(t)
      <4>1. value' \in [Objects -> Seq(Byte)] /\ cccdRequest' \in Seq(Byte)
        BY <3>1, StoredType DEF Store, TypeOK
      <4>2. pc' \in [Threads -> PCs]
        BY <3>1 DEF Store, AfterNotify, TypeOK, PCs
      <4>3. owner' \in [Locks -> Threads \cup {NoThread}]
        BY <3>1, OwnerType, Zenon DEF Store
      <4> QED
        BY <3>1, <4>1, <4>2, <4>3 DEF Store, TypeOK, bus
    <3>2. CASE PublishRead(t)
      <4>1. <<>> \in Seq(Byte) /\ value["desc"] \in Seq(Byte)
        BY DEF TypeOK, Objects
      <4>2. DescWrites \cup {<<>>, value["desc"]} \subseteq Seq(Byte)
        BY <4>1, WritesAssumption
      <4>3. snapshot' \in [Threads -> Seq(Byte)]
        BY <3>2, <4>2 DEF PublishRead, TypeOK
      <4>4. pc' \in [Threads -> PCs]
        BY <3>2 DEF PublishRead, TypeOK, PCs
      <4> QED
        BY <3>2, <4>3, <4>4 DEF PublishRead, TypeOK, state, bus, hist
    <3>3. CASE StoreLock(t) \/ PublishEmit(t)
      <4>1. busValue' \in [Objects -> Seq(Byte)] /\ lost' \subseteq Objects \cup {"Notifying"}
        BY <3>3 DEF StoreLock, PublishEmit, EmitValue, TypeOK, Objects, bus
      <4>4. snapshot' \in [Threads -> Seq(Byte)]
        <5> DEFINE empty == <<>>
        <5>1. empty \in Seq(Byte)
          OBVIOUS
        <5>2. snapshot' = snapshot \/ snapshot' = [snapshot EXCEPT ![t] = empty]
          BY <3>3, Zenon DEF StoreLock, PublishEmit
        <5> HIDE DEF empty
        <5> QED
          BY <5>1, <5>2 DEF TypeOK
      <4>5. contest' \in {"none", "switch", "overlap"}
        BY <3>3 DEF StoreLock, PublishEmit, TypeOK, hist
      <4>2. pc' \in [Threads -> PCs]
        BY <3>3 DEF StoreLock, PublishEmit, EmitValue, TypeOK, PCs
      <4>3. owner' \in [Locks -> Threads \cup {NoThread}]
        BY <3>3, OwnerType, LockNames, Zenon DEF StoreLock, PublishEmit, EmitValue
      <4> QED
        BY <3>3, <4>1, <4>2, <4>3, <4>4, <4>5 DEF StoreLock, PublishEmit, TypeOK, state, bus, hist
    <3> QED
      BY <2>6, <3>1, <3>2, <3>3 DEF DescriptorSteps
  <2> QED
    BY <2>1, <2>2, <2>3, <2>4, <2>5, <2>6 DEF Step
<1> QED
  BY <1>1, <1>2, PTL DEF Spec

-----------------------------------------------------------------------------
\* One step of one thread keeps LockDiscipline when the thread's own claims on
\* the mutexes change as their owners do and nobody else's are touched.
LEMMA OwnerStep ==
    ASSUME TypeOK, LockDiscipline, NEW t \in Threads,
           \A u \in Threads \ {t}, l \in Locks : Holds(u, l)' <=> Holds(u, l),
           \A l \in Locks : \/ owner'[l] = owner[l] /\ (Holds(t, l)' <=> Holds(t, l))
                            \/ owner'[l] = t /\ owner[l] = NoThread /\ Holds(t, l)'
                            \/ owner'[l] = NoThread /\ owner[l] = t /\ ~Holds(t, l)'
    PROVE  LockDiscipline'
<1> SUFFICES ASSUME NEW l \in Locks, NEW u \in Threads PROVE owner'[l] = u <=> Holds(u, l)'
  BY Zenon DEF LockDiscipline
<1>1. owner[l] = u <=> Holds(u, l)
  BY Zenon DEF LockDiscipline
<1>2. CASE u = t
  BY <1>1, <1>2
<1>3. CASE u # t
  BY <1>1, <1>3
<1> QED
  BY <1>2, <1>3

\* What a thread holds depends only on its own program counter and operation.
LEMMA HoldsFrame ==
    ASSUME NEW u \in Threads, pc'[u] = pc[u], op'[u] = op[u]
    PROVE  \A l \in Locks : Holds(u, l)' <=> Holds(u, l)
  BY DEF Holds, CallbackLock, Locks, Obj

\* No path through the operations leaves a mutex locked, or uses what a mutex
\* protects after giving it up.
THEOREM LocksAreReleased == Spec => []LockDiscipline
<1>1. Init => LockDiscipline
  BY DEF Init, LockDiscipline, Holds
<1>2. TypeOK /\ LockDiscipline /\ [Next]_vars => LockDiscipline'
  <2> SUFFICES ASSUME TypeOK, LockDiscipline, [Next]_vars PROVE LockDiscipline'
    OBVIOUS
  <2>0. CASE UNCHANGED vars
    BY <2>0 DEF LockDiscipline, Holds, Obj, vars
  <2> SUFFICES ASSUME NEW t \in Threads, Call(t) \/ Step(t) PROVE LockDiscipline'
    BY <2>0 DEF Next
  <2>a. \A u \in Threads \ {t} : pc'[u] = pc[u] /\ op'[u] = op[u]
    <3>1. CASE Call(t)
      BY <3>1 DEF Call, TypeOK, Goto
    <3>2. CASE SetValueSteps(t) \/ Get(t)
      BY <3>2 DEF SetValueSteps, SetLock, SetReadNotifying, SetLockCallback, SetCallback,
         SetEmit, Get, TypeOK, Goto, Return
    <3>3. CASE NotifySteps(t)
      BY <3>3 DEF NotifySteps, StartLock, StartEmit, StartLockCallback, StartCallback,
         StopLock, StopEmit, TypeOK, Goto, Return
    <3>4. CASE HandlerSteps(t)
      BY <3>4 DEF HandlerSteps, ReadLock, ReadCallback, ReadStored, WriteLock, WriteCallback,
         WriteStore, InstallCallback, TypeOK, Goto, Return
    <3>5. CASE DescriptorSteps(t)
      BY <3>5 DEF DescriptorSteps, StoreLock, Store, PublishRead, PublishEmit, TypeOK, Goto,
         Return
    <3> QED
      BY <3>1, <3>2, <3>3, <3>4, <3>5 DEF Step
  <2>b. \A u \in Threads \ {t}, l \in Locks : Holds(u, l)' <=> Holds(u, l)
    BY <2>a, HoldsFrame
  <2> DEFINE Changes ==
       \A l \in Locks : \/ owner'[l] = owner[l] /\ (Holds(t, l)' <=> Holds(t, l))
                        \/ owner'[l] = t /\ owner[l] = NoThread /\ Holds(t, l)'
                        \/ owner'[l] = NoThread /\ owner[l] = t /\ ~Holds(t, l)'
  <2>c. \A l \in Locks : owner[l] = t <=> Holds(t, l)
    BY DEF LockDiscipline
  <2>1. CASE Call(t)
    <3>1. \A o \in CharOps \cup DescOps, l \in Locks :
             pc'[t] = FirstStep(o) => ~Holds(t, l)'
      BY DEF CharOps, DescOps, Locks, FirstStep, Holds
    <3>2. \E o \in CharOps \cup DescOps : pc'[t] = FirstStep(o)
      BY <2>1 DEF Call, Goto, TypeOK
    <3>3. \A l \in Locks : ~Holds(t, l)
      BY <2>1 DEF Call, At, Holds, Locks
    <3> QED
      BY <2>1, <2>b, <3>1, <3>2, <3>3, OwnerStep DEF Call
  <2>2. CASE SetValueSteps(t)
    <3>1. Changes
      BY <2>2, <2>c DEF SetValueSteps, SetLock, SetReadNotifying, SetLockCallback, SetCallback,
         SetEmit, TypeOK, Goto, Return, At, Acquire, Release, Free, Holds, CallbackLock, Locks, Obj
    <3> QED
      BY <2>b, <3>1, OwnerStep
  <2>3. CASE Get(t)
    <3>1. Changes
      BY <2>3, <2>c DEF Get, TypeOK, Goto, Return, At, Holds, Locks
    <3> QED
      BY <2>b, <3>1, OwnerStep
  <2>4. CASE NotifySteps(t)
    <3> USE DEF AfterNotify, TypeOK, Goto, At, Free, Holds, Locks, Obj
    <3>1. CASE StartLock(t) \/ StopLock(t)
      <4>1. Changes
        BY <3>1, <2>c DEF StartLock, StopLock, Acquire
      <4> QED
        BY <2>b, <4>1, OwnerStep
    <3>2. CASE StartEmit(t) \/ StartLockCallback(t)
      <4>1. Changes
        BY <3>2, <2>c DEF StartEmit, StartLockCallback, Acquire
      <4> QED
        BY <2>b, <4>1, OwnerStep
    <3>3. CASE StartCallback(t)
      <4>1. \A l \in Locks : Holds(t, l) <=> l \in {"notify", "callback"}
        BY <3>3 DEF StartCallback, CallbackLock
      <4>2. \A l \in Locks : ~Holds(t, l)'
        BY <3>3 DEF StartCallback
      <4>3. \A l \in Locks : owner'[l] = IF Holds(t, l) THEN NoThread ELSE owner[l]
        BY <3>3, <4>1 DEF StartCallback, Release
      <4>4. Changes
        BY <2>c, <4>2, <4>3, Zenon
      <4> QED
        BY <2>b, <4>4, OwnerStep
    <3>4. CASE StopEmit(t)
      <4>1. \A l \in Locks : Holds(t, l) <=> l = "notify"
        BY <3>4 DEF StopEmit, CallbackLock
      <4>2. \A l \in Locks : ~Holds(t, l)'
        BY <3>4 DEF StopEmit
      <4>3. \A l \in Locks : owner'[l] = IF Holds(t, l) THEN NoThread ELSE owner[l]
        BY <3>4, <4>1 DEF StopEmit, Release
      <4>4. Changes
        BY <2>c, <4>2, <4>3, Zenon
      <4> QED
        BY <2>b, <4>4, OwnerStep
    <3> QED
      BY <2>4, <3>1, <3>2, <3>3, <3>4, Zenon DEF NotifySteps
  <2>5. CASE HandlerSteps(t)
    <3> USE DEF TypeOK, Goto, Return, At, Free, Holds, CallbackLock, Locks, Obj
    <3>1. CASE ReadLock(t) \/ WriteLock(t)
      <4>1. Changes
        BY <3>1, <2>c DEF ReadLock, WriteLock, Acquire
      <4> QED
        BY <2>b, <4>1, OwnerStep
    <3>2. CASE ReadCallback(t) \/ ReadStored(t)
      <4>1. Changes
        BY <3>2, <2>c DEF ReadCallback, ReadStored, Release
      <4> QED
        BY <2>b, <4>1, OwnerStep
    <3>3. CASE WriteCallback(t)
      <4>1. Changes
        BY <3>3, <2>c DEF WriteCallback, Release
      <4> QED
        BY <2>b, <4>1, OwnerStep
    <3>4. CASE WriteStore(t) \/ InstallCallback(t)
      <4>1. Changes
        BY <3>4, <2>c DEF WriteStore, InstallCallback
      <4> QED
        BY <2>b, <4>1, OwnerStep
    <3> QED
      BY <2>5, <3>1, <3>2, <3>3, <3>4, Zenon DEF HandlerSteps
  <2>6. CASE DescriptorSteps(t)
    <3>1. Changes
      BY <2>6, <2>c DEF DescriptorSteps, StoreLock, Store, PublishRead, PublishEmit,
         AfterNotify, TypeOK, Goto, Return, At, Acquire, Release, Free, Holds, Locks
    <3> QED
      BY <2>b, <3>1, OwnerStep
  <2> QED
    BY <2>1, <2>2, <2>3, <2>4, <2>5, <2>6 DEF Step
<1> QED
  BY <1>1, <1>2, TypeCorrect, PTL DEF Spec

-----------------------------------------------------------------------------
\* The inductive form of NotifyingPublished: where the flag stands at each point
\* of startNotify and stopNotify, and the last signal unless it was dropped.
NotifyInv ==
    "char" \in Registered =>
        /\ \A t \in Threads :
             /\ pc[t] \in {"startEmit", "startCbLock", "startCb"} => notifying
             /\ pc[t] = "stopEmit" => ~notifying
        /\ "Notifying" \notin lost =>
             /\ Free("notify") => busNotifying = notifying
             /\ \A t \in Threads :
                  /\ pc[t] = "startEmit" => ~busNotifying
                  /\ pc[t] \in {"startCbLock", "startCb", "stopEmit"} => busNotifying

LEMMA NotifyInvariant == Spec => []NotifyInv
<1>1. Init => NotifyInv
  BY DEF Init, NotifyInv
<1>2. TypeOK /\ LockDiscipline /\ NotifyInv /\ [Next]_vars => NotifyInv'
  <2> SUFFICES ASSUME TypeOK, LockDiscipline, NotifyInv, [Next]_vars, "char" \in Registered
               PROVE  NotifyInv'
    BY DEF NotifyInv
  <2>0. CASE UNCHANGED vars
    BY <2>0 DEF NotifyInv, Free, vars, state, bus
  <2> SUFFICES ASSUME NEW t \in Threads, Call(t) \/ Step(t) PROVE NotifyInv'
    BY <2>0 DEF Next
  <2> DEFINE inside == {"startEmit", "startCbLock", "startCb", "stopEmit"}
  <2>a. \A u \in Threads : pc[u] \in inside <=> owner["notify"] = u
    BY DEF LockDiscipline, Holds, Locks, CallbackLock
  \* a step outside the two operations touches none of it
  <2>b. ASSUME pc[t] \notin inside, pc'[t] \notin inside,
               \A u \in Threads \ {t} : pc'[u] = pc[u],
               owner'["notify"] = owner["notify"],
               UNCHANGED <<notifying, busNotifying>>,
               "Notifying" \in lost' <=> "Notifying" \in lost
        PROVE  NotifyInv'
    BY <2>b DEF NotifyInv, Free
  <2>1. CASE Call(t)
    <3>1. \A o \in CharOps \cup DescOps : FirstStep(o) \notin inside
      BY DEF CharOps, DescOps, FirstStep
    <3>2. pc'[t] \notin inside
      BY <2>1, <3>1 DEF Call, Goto, TypeOK
    <3> QED
      BY <2>1, <2>b, <3>2 DEF Call, At, Goto, TypeOK, state, bus
  <2>2. CASE SetValueSteps(t)
    <3> USE <2>2 DEF SetValueSteps, SetLock, SetReadNotifying, SetLockCallback, SetCallback,
                     SetEmit, EmitValue, TypeOK, Goto, Return, At, state, bus
    <3>1. pc[t] \notin inside /\ pc'[t] \notin inside
      OBVIOUS
    <3>2. owner'["notify"] = owner["notify"]
      BY DEF Acquire, Release, Locks
    <3> QED
      BY <2>b, <3>1, <3>2
  <2>3. CASE Get(t)
    BY <2>3, <2>b DEF Get, TypeOK, Goto, Return, At, state, bus
  <2>4. CASE NotifySteps(t)
    <3>1. CASE StartLock(t)
      <4>1. /\ owner["notify"] = NoThread
            /\ \A u \in Threads : pc[u] \notin inside
            /\ \A u \in Threads \ {t} : pc'[u] = pc[u]
            /\ UNCHANGED <<busNotifying, lost>>
        BY <3>1, <2>a DEF StartLock, TypeOK, Goto, Free, bus
      <4>2. CASE notifying \/ ~CanNotify
        <5>1. pc'[t] \notin inside /\ owner' = owner /\ notifying' = notifying
          BY <3>1, <4>2 DEF StartLock, AfterNotify, TypeOK, Goto
        <5> QED
          BY <2>b, <4>1, <5>1
      <4>3. CASE ~notifying /\ CanNotify
        <5>1. owner'["notify"] = t /\ pc'[t] = "startEmit" /\ notifying' = TRUE
          BY <3>1, <4>3 DEF StartLock, TypeOK, Goto, Acquire, Locks
        <5> QED
          BY <4>1, <4>3, <5>1 DEF NotifyInv, Free
      <4> QED
        BY <4>2, <4>3
    <3>2. CASE StartEmit(t)
      BY <3>2, <2>a DEF StartEmit, EmitNotifying, NotifyInv, TypeOK, Goto, At, Free, state
    <3>3. CASE StartLockCallback(t)
      BY <3>3, <2>a DEF StartLockCallback, NotifyInv, TypeOK, Goto, At, Acquire, Free, Locks,
         state, bus
    <3>4. CASE StartCallback(t)
      BY <3>4, <2>a DEF StartCallback, AfterNotify, NotifyInv, TypeOK, Goto, At, Release, Free,
         Locks, state, bus
    <3>5. CASE StopLock(t)
      <4>1. /\ owner["notify"] = NoThread /\ notifying' = FALSE
            /\ \A u \in Threads : pc[u] \notin inside
            /\ \A u \in Threads \ {t} : pc'[u] = pc[u]
            /\ UNCHANGED <<busNotifying, lost>>
        BY <3>5, <2>a DEF StopLock, TypeOK, Goto, Free, bus
      <4>2. CASE notifying
        <5>1. owner'["notify"] = t /\ pc'[t] = "stopEmit"
          BY <3>5, <4>2 DEF StopLock, TypeOK, Goto, Acquire, Locks
        <5> QED
          BY <4>1, <4>2, <5>1 DEF NotifyInv, Free
      <4>3. CASE ~notifying
        <5>1. pc'[t] \notin inside /\ owner' = owner
          BY <3>5, <4>3 DEF StopLock, AfterNotify, TypeOK, Goto
        <5> QED
          BY <4>1, <4>3, <5>1 DEF NotifyInv, TypeOK, Free
      <4> QED
        BY <4>2, <4>3
    <3>6. CASE StopEmit(t)
      <4>1. /\ ~notifying /\ notifying' = notifying
            /\ \A u \in Threads \ {t} : pc[u] \notin inside /\ pc'[u] = pc[u]
            /\ pc'[t] \notin inside
        BY <3>6, <2>a DEF StopEmit, AfterNotify, NotifyInv, TypeOK, Goto, At, state
      <4>2. "Notifying" \notin lost' => busNotifying' = FALSE
        BY <3>6 DEF StopEmit, EmitNotifying
      <4> QED
        BY <4>1, <4>2 DEF NotifyInv, TypeOK
    <3> QED
      BY <2>4, <3>1, <3>2, <3>3, <3>4, <3>5, <3>6 DEF NotifySteps
  <2>5. CASE HandlerSteps(t)
    <3> USE <2>5 DEF HandlerSteps, ReadLock, ReadCallback, ReadStored, WriteLock, WriteCallback,
                     WriteStore, InstallCallback, TypeOK, Goto, Return, At, state, bus
    <3>1. pc[t] \notin inside /\ pc'[t] \notin inside
      OBVIOUS
    <3>2. owner'["notify"] = owner["notify"]
      BY DEF Acquire, Release, Locks, CallbackLock
    <3> QED
      BY <2>b, <3>1, <3>2
  <2>6. CASE DescriptorSteps(t)
    <3> USE <2>6 DEF DescriptorSteps, StoreLock, Store, PublishRead, PublishEmit, EmitValue, TypeOK, Goto,
                     Return, At, state, bus
    <3>1. pc[t] \notin inside /\ pc'[t] \notin inside
      BY DEF AfterNotify
    <3>2. owner'["notify"] = owner["notify"]
      BY DEF Acquire, Release, Locks
    <3> QED
      BY <2>b, <3>1, <3>2
  <2> QED
    BY <2>1, <2>2, <2>3, <2>4, <2>5, <2>6 DEF Step
<1> QED
  BY <1>1, <1>2, TypeCorrect, LocksAreReleased, PTL DEF Spec

\* Clients have the wrong notification state only as long as its latest signal was
\* dropped: once one goes out they know the flag again, and are told of changes only.
THEOREM ClientsKnowNotifying == Spec => []NotifyingPublished
<1>1. NotifyInv => NotifyingPublished
  BY DEF NotifyInv, NotifyingPublished
<1> QED
  BY <1>1, NotifyInvariant, PTL

\* Once valueMutex is free, a value stored by setValue is the one clients saw last,
\* unless its own signal was dropped: the signals of concurrent calls leave in the
\* order of their stores.
THEOREM ClientsSeeLocalStores == Spec => []LocalValuePublished
<1>1. Init => LocalValuePublished
  BY DEF Init, LocalValuePublished, Objects
<1>2. TypeOK /\ LocalValuePublished /\ [Next]_vars => LocalValuePublished'
  <2> SUFFICES ASSUME TypeOK, LocalValuePublished, [Next]_vars, "char" \in Registered
               PROVE  LocalValuePublished'
    BY DEF LocalValuePublished
  <2>0. CASE UNCHANGED <<owner, value, busValue, lost, lastStore>>
    BY <2>0 DEF LocalValuePublished, Free
  <2>1. CASE UNCHANGED vars
    BY <2>0, <2>1 DEF vars, state, bus, hist
  <2> SUFFICES ASSUME NEW t \in Threads, Call(t) \/ Step(t) PROVE LocalValuePublished'
    BY <2>1 DEF Next
  <2>2. CASE Call(t)
    BY <2>0, <2>2 DEF Call, state, bus, hist
  <2>3. CASE SetLock(t)
    BY <2>3 DEF SetLock, Acquire, LocalValuePublished, Free, TypeOK, Locks
  <2>4. CASE SetEmit(t)
    BY <2>4 DEF SetEmit, EmitValue, LocalValuePublished, TypeOK, Objects, state
  <2>5. CASE WriteStore(t)
    BY <2>5 DEF WriteStore, LocalValuePublished
  \* every other step leaves both values of the characteristic alone, and
  \* releases valueMutex only if it was free before
  <2>6. ASSUME UNCHANGED <<lastStore, value["char"], busValue["char"]>>,
               owner'["value"] = owner["value"],
               "char" \in lost' <=> "char" \in lost
        PROVE  LocalValuePublished'
    BY <2>6 DEF LocalValuePublished, Free
  <2>7. CASE SetReadNotifying(t) \/ SetLockCallback(t) \/ SetCallback(t) \/ Get(t)
    BY <2>6, <2>7 DEF SetReadNotifying, SetLockCallback, SetCallback, Get, Acquire, Release,
       TypeOK, Locks, state, bus, hist
  <2>8. CASE NotifySteps(t)
    BY <2>6, <2>8 DEF NotifySteps, StartLock, StartEmit, StartLockCallback, StartCallback, EmitNotifying,
       StopLock, StopEmit, Acquire, Release, TypeOK, Locks, state, bus, hist
  <2>9. CASE ReadLock(t) \/ ReadCallback(t) \/ ReadStored(t) \/ WriteLock(t)
             \/ WriteCallback(t) \/ InstallCallback(t)
    BY <2>6, <2>9 DEF ReadLock, ReadCallback, ReadStored, WriteLock, WriteCallback,
       InstallCallback, Acquire, Release, CallbackLock, TypeOK, Locks, state, bus, hist
  <2>10. CASE DescriptorSteps(t)
    BY <2>6, <2>10 DEF DescriptorSteps, StoreLock, Store, PublishRead, PublishEmit, EmitValue,
       Acquire, Release, TypeOK, Locks, Objects, state, bus, hist
  <2> QED
    BY <2>2, <2>3, <2>4, <2>5, <2>7, <2>8, <2>9, <2>10 DEF Step, SetValueSteps, HandlerSteps
<1> QED
  BY <1>1, <1>2, TypeCorrect, PTL DEF Spec

-----------------------------------------------------------------------------
\* With a read callback on both objects, handleReadValue never takes a value
\* mutex inside a callback mutex: what is left nests as value, notify, callback.
ReadsUseCallback ==
    /\ \A o \in Objects : readCallback[o]
    /\ \A t \in Threads : pc[t] # "readStored" /\ op[t] \notin ClearsRead

LEMMA ReadCallbacksStay ==
    ASSUME \A o \in Objects : HasReadCallback[o], \A t \in Threads : Ops[t] \cap ClearsRead = {}
    PROVE  Spec => []ReadsUseCallback
<1>1. Init => ReadsUseCallback
  BY DEF Init, ReadsUseCallback
<1>2. TypeOK /\ ReadsUseCallback /\ [Next]_vars => ReadsUseCallback'
  <2> SUFFICES ASSUME TypeOK, ReadsUseCallback, [Next]_vars PROVE ReadsUseCallback'
    OBVIOUS
  <2>0. CASE UNCHANGED vars
    BY <2>0 DEF ReadsUseCallback, vars, state
  <2> SUFFICES ASSUME NEW t \in Threads, Call(t) \/ Step(t) PROVE ReadsUseCallback'
    BY <2>0 DEF Next
  <2>1. CASE Call(t)
    <3>1. \A o \in CharOps \cup DescOps : FirstStep(o) # "readStored"
      BY DEF CharOps, DescOps, FirstStep
    <3> QED
      BY <2>1, <3>1 DEF Call, Goto, ReadsUseCallback, TypeOK, state
  <2>2. CASE SetValueSteps(t) \/ Get(t)
    BY <2>2 DEF SetValueSteps, SetLock, SetReadNotifying, SetLockCallback, SetCallback, SetEmit,
       Get, Goto, Return, ReadsUseCallback, TypeOK, state
  <2>3. CASE NotifySteps(t)
    BY <2>3 DEF NotifySteps, StartLock, StartEmit, StartLockCallback, StartCallback, StopLock,
       StopEmit, AfterNotify, Goto, ReadsUseCallback, TypeOK, state
  <2>4. CASE HandlerSteps(t)
    <3>1. Obj(t) \in Objects
      BY DEF Obj, Objects
    <3> QED
      BY <2>4, <3>1 DEF HandlerSteps, ReadLock, ReadCallback, ReadStored, WriteLock,
         WriteCallback, WriteStore, InstallCallback, Goto, Return, ReadsUseCallback, TypeOK, state
  <2>5. CASE DescriptorSteps(t)
    BY <2>5 DEF DescriptorSteps, StoreLock, Store, PublishRead, PublishEmit, AfterNotify, Goto,
       Return, ReadsUseCallback, TypeOK, state
  <2> QED
    BY <2>1, <2>2, <2>3, <2>4, <2>5 DEF Step
<1> QED
  BY <1>1, <1>2, TypeCorrect, PTL DEF Spec

\* When both objects keep a read callback, no threads, however many and whatever
\* they call, wait for each other in a circle.
THEOREM NoCircularWait ==
    ASSUME \A o \in Objects : HasReadCallback[o], \A t \in Threads : Ops[t] \cap ClearsRead = {}
    PROVE  Spec => []NoDeadlock
<1>1. TypeOK /\ LockDiscipline /\ ReadsUseCallback => NoDeadlock
  <2> SUFFICES ASSUME TypeOK, LockDiscipline, ReadsUseCallback,
                      NEW S \in SUBSET Threads, NEW t \in S,
                      \A u \in S : BlockedOn(u) \in S
               PROVE  FALSE
    BY DEF NoDeadlock
  <2>1. \A u \in S : /\ Wants(u) \in Locks
                     /\ BlockedOn(u) \in S
                     /\ Holds(BlockedOn(u), Wants(u))
    <3> SUFFICES ASSUME NEW u \in S
                 PROVE  Wants(u) \in Locks /\ Holds(BlockedOn(u), Wants(u))
      OBVIOUS
    <3>1. Wants(u) # "none"
      BY DEF BlockedOn
    <3>2. Wants(u) \in Locks
      BY <3>1 DEF Wants, Locks, CallbackLock, ValueLock
    <3> QED
      BY <3>1, <3>2 DEF BlockedOn, LockDiscipline
  \* a blocked thread that holds a mutex is in setValue or startNotify
  <2>2. \A u \in S, l \in Locks : Holds(u, l) =>
           \/ l = "value" /\ Wants(u) \in {"notify", "callback"}
           \/ l = "notify" /\ Wants(u) = "callback"
    BY <2>1 DEF Holds, Wants, Locks, ReadsUseCallback
  <2>3. Wants(BlockedOn(t)) \in {"notify", "callback"}
    BY <2>1, <2>2
  <2>4. Wants(BlockedOn(BlockedOn(t))) = "callback"
    BY <2>1, <2>2, <2>3
  <2> QED
    BY <2>1, <2>2, <2>4
<1> QED
  BY <1>1, TypeCorrect, LocksAreReleased, ReadCallbacksStay, PTL
=============================================================================
