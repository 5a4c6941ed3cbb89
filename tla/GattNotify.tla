----------------------------- MODULE GattNotify -----------------------------
(***************************************************************************)
(* One GATT characteristic and one of its descriptors, called at once by   *)
(* application threads (the public API) and by the thread that dispatches  *)
(* D-Bus calls (the handle* methods).  A step is what one thread does      *)
(* between two points where another thread can be seen: acquiring a mutex, *)
(* running a user callback, emitting a signal.                             *)
(* Code: src/GattCharacteristic.cpp, src/GattDescriptor.cpp, their headers *)
(* and Utils::stringFromGVariantByteArray.                                 *)
(***************************************************************************)
EXTENDS Integers, Sequences, FiniteSets

CONSTANTS
    Threads,        \* application threads and the D-Bus dispatcher
    NoThread,       \* the owner of a free mutex
    Ops,            \* Ops[t]: the entry points thread t calls
    CharWrites,     \* byte strings written to the characteristic
    DescWrites,     \* byte strings written to the descriptor
    Registered,     \* which of the two objects are registered on D-Bus
    CanNotify,      \* properties has PROP_NOTIFY or PROP_INDICATE
    IsCccd,         \* the descriptor's UUID is 0x2902
    HasReadCallback \* HasReadCallback[o]: a read callback is set at the start

Objects == {"char", "desc"}
Byte == 0..255

CharOps == {"setValue", "getValue", "startNotify", "stopNotify", "isNotifying",
            "setReadCallback", "clearReadCallback", "setWriteCallback", "setNotifyCallback",
            "ReadValue", "WriteValue"}
DescOps == {"descSetValue", "descSetReadCallback", "descClearReadCallback",
            "descSetWriteCallback", "descReadValue", "descWriteValue"}

\* setReadCallback with a function, or with an empty std::function.
SetsRead   == {"setReadCallback", "descSetReadCallback"}
ClearsRead == {"clearReadCallback", "descClearReadCallback"}
CallbackSetters ==
    SetsRead \cup ClearsRead
        \cup {"setWriteCallback", "setNotifyCallback", "descSetWriteCallback"}

\* The operations that store into an object what their caller passes.
Writes(o) ==
    IF o \in {"setValue", "WriteValue"} THEN CharWrites
    ELSE IF o \in {"descSetValue", "descWriteValue"} THEN DescWrites
    ELSE {<<>>}

ASSUME NoThreadAssumption == NoThread \notin Threads
ASSUME OpsAssumption == Ops \in [Threads -> SUBSET (CharOps \cup DescOps)]
ASSUME WritesAssumption == CharWrites \cup DescWrites \subseteq Seq(Byte)
ASSUME ObjectAssumption ==
    /\ Registered \subseteq Objects
    /\ CanNotify \in BOOLEAN
    /\ IsCccd \in BOOLEAN
    /\ HasReadCallback \in [Objects -> BOOLEAN]

VARIABLES
    owner,          \* owner[l]: the thread that holds mutex l, or NoThread
    value,          \* value[o]: the stored value of each object
    notifying,      \* GattCharacteristic::notifying
    readCallback,   \* readCallback[o]: a read callback is set
    pc,             \* pc[t]: the next step of thread t
    op,             \* op[t]: the entry point t is in (or was in last)
    arg,            \* arg[t]: the bytes its caller passed
    snapshot,       \* snapshot[t]: what descriptor setValue reads to publish
    busValue,       \* busValue[o]: the last PropertiesChanged "Value" of o
    busNotifying,   \* the last PropertiesChanged "Notifying"
    lost,           \* history: the properties whose latest signal was dropped
    lastStore,      \* history: which operation last stored the characteristic
    cccdRequest,    \* history: the bytes asked of the latest descriptor store
    contest         \* history: what has come between that store and its effect

state == <<value, notifying, readCallback>>
bus   == <<busValue, busNotifying, lost>>
hist  == <<lastStore, cccdRequest, contest>>
vars  == <<owner, state, pc, op, arg, snapshot, bus, hist>>

Locks == {"value", "notify", "callback", "descValue", "descCallback"}
ValueLock(o)    == IF o = "char" THEN "value" ELSE "descValue"
CallbackLock(o) == IF o = "char" THEN "callback" ELSE "descCallback"
Obj(t)          == IF op[t] \in DescOps THEN "desc" ELSE "char"

-----------------------------------------------------------------------------
\* Conversions

\* stringFromGVariantByteArray returns array.data(), a C string: the bytes up
\* to the first zero byte.
CStringLength(b) == Cardinality({n \in 1..Len(b) : \A i \in 1..n : b[i] # 0})

\* Faulty variant: reads one byte past the end.
CStringPastEnd(b) ==
    [i \in 1..CStringLength(b) + 1 |-> IF i <= Len(b) THEN b[i] ELSE 256]

CString(b) == [i \in 1..CStringLength(b) |-> b[i]]

\* What the operation in progress stores: D-Bus writes go through CString.
Stored(t) == IF op[t] \in {"WriteValue", "descWriteValue"} THEN CString(arg[t]) ELSE arg[t]

\* Faulty variant: forgets indications.
EnablesOnBitZero(b) == b[1] % 2 # 0

\* Bits 0 (notify) and 1 (indicate) of the first byte of a CCCD value.
EnablesNotify(b) == b[1] % 4 # 0

-----------------------------------------------------------------------------
\* Steps are built from these

Free(l)       == owner[l] = NoThread
Acquire(t, l) == Free(l) /\ owner' = [owner EXCEPT ![l] = t]
Release(ls)   == owner' = [l \in Locks |-> IF l \in ls THEN NoThread ELSE owner[l]]
At(t, p)      == pc[t] = p
Goto(t, p)    == pc' = [pc EXCEPT ![t] = p]
Return(t)     == Goto(t, "idle")

\* A PropertiesChanged signal goes out and clients see it, or it is dropped: the
\* bus is gone, GLib refuses the parameters or fails to send them.  The callers
\* ignore which of the two it was.
EmitValue(o, b) ==
    \/ busValue' = [busValue EXCEPT ![o] = b] /\ lost' = lost \ {o}
    \/ UNCHANGED busValue /\ lost' = lost \cup {o}

EmitNotifying(b) ==
    \/ busNotifying' = b /\ lost' = lost \ {"Notifying"}
    \/ UNCHANGED busNotifying /\ lost' = lost \cup {"Notifying"}

FirstStep(o) ==
    CASE o = "setValue"    -> "setLock"
      [] o = "getValue"    -> "getLock"
      [] o = "startNotify" -> "startLock"
      [] o = "stopNotify"  -> "stopLock"
      [] o = "isNotifying" -> "isLock"
      [] o \in CallbackSetters -> "installLock"
      [] o \in {"ReadValue", "descReadValue"}   -> "readLock"
      [] o \in {"WriteValue", "descWriteValue"} -> "writeLock"
      [] o = "descSetValue" -> "storeLock"

\* A thread enters an operation.  StartNotify, StopNotify and Get("Notifying")
\* over D-Bus only wrap startNotify, stopNotify and isNotifying in a reply.
Call(t) ==
    /\ At(t, "idle")
    /\ \E o \in Ops[t] : \E b \in Writes(o) :
         /\ op' = [op EXCEPT ![t] = o]
         /\ arg' = [arg EXCEPT ![t] = b]
         /\ Goto(t, FirstStep(o))
    /\ UNCHANGED <<owner, state, snapshot, bus, hist>>

-----------------------------------------------------------------------------
\* GattCharacteristic::setValue: valueMutex is held to the end

\* Faulty variant: the mutex covers the assignment only.
SetLockBriefly(t) ==
    /\ At(t, "setLock") /\ Free("value")
    /\ value' = [value EXCEPT !["char"] = arg[t]]
    /\ lastStore' = "setValue"
    /\ Goto(t, "setRead")
    /\ UNCHANGED <<owner, notifying, readCallback, op, arg, snapshot, bus, cccdRequest, contest>>

SetLock(t) ==
    /\ At(t, "setLock") /\ Free("value")
    /\ value' = [value EXCEPT !["char"] = arg[t]]
    /\ lastStore' = "setValue"
    /\ IF "char" \in Registered
       THEN Acquire(t, "value") /\ Goto(t, "setRead")
       ELSE UNCHANGED owner /\ Return(t)
    /\ UNCHANGED <<notifying, readCallback, op, arg, snapshot, bus, cccdRequest, contest>>

\* notifyMutex is taken only to read the flag, which is used after its release.
SetReadNotifying(t) ==
    /\ At(t, "setRead") /\ Free("notify")
    /\ Goto(t, IF notifying THEN "setCbLock" ELSE "setEmit")
    /\ UNCHANGED <<owner, state, op, arg, snapshot, bus, hist>>

SetLockCallback(t) ==
    /\ At(t, "setCbLock") /\ Acquire(t, "callback")
    /\ Goto(t, "setCb")
    /\ UNCHANGED <<state, op, arg, snapshot, bus, hist>>

\* notifyCallback runs, whatever it throws is caught
SetCallback(t) ==
    /\ At(t, "setCb") /\ Release({"callback"})
    /\ Goto(t, "setEmit")
    /\ UNCHANGED <<state, op, arg, snapshot, bus, hist>>

SetEmit(t) ==
    /\ At(t, "setEmit") /\ Release({"value"})
    /\ EmitValue("char", value["char"])
    /\ Return(t)
    /\ UNCHANGED <<state, op, arg, snapshot, busNotifying, hist>>

\* getValue and isNotifying only wait for the mutex
Get(t) ==
    /\ \/ At(t, "getLock") /\ Free("value")
       \/ At(t, "isLock") /\ Free("notify")
    /\ Return(t)
    /\ UNCHANGED <<owner, state, op, arg, snapshot, bus, hist>>

-----------------------------------------------------------------------------
\* startNotify and stopNotify: notifyMutex is held to the end.  Called by the
\* descriptor's setValue, they return into it.

\* Faulty variant: the CCCD branch returns without publishing.
AfterNotifyReturn(t) == "idle"

AfterNotify(t) ==
    IF op[t] \in DescOps /\ "desc" \in Registered THEN "publishRead" ELSE "idle"

\* A call of startNotify or stopNotify that is not the CCCD's own takes the flag
\* from its latest write.
AfterSwitch(t) == IF contest = "none" /\ op[t] \notin DescOps THEN "switch" ELSE contest

\* Faulty variant: the signal is emitted after the mutex is released.
StartLockBriefly(t) ==
    /\ At(t, "startLock") /\ Free("notify")
    /\ notifying' = (notifying \/ CanNotify)
    /\ Goto(t, IF notifying \/ ~CanNotify THEN AfterNotify(t) ELSE "startEmit")
    /\ contest' = AfterSwitch(t)
    /\ UNCHANGED <<owner, value, readCallback, op, arg, snapshot, bus, lastStore, cccdRequest>>

StartLock(t) ==
    /\ At(t, "startLock") /\ Free("notify")
    /\ \/ /\ notifying \/ ~CanNotify
          /\ Goto(t, AfterNotify(t))
          /\ UNCHANGED <<owner, notifying>>
       \/ /\ ~notifying /\ CanNotify
          /\ notifying' = TRUE
          /\ Acquire(t, "notify")
          /\ Goto(t, IF "char" \in Registered THEN "startEmit" ELSE "startCbLock")
    /\ contest' = AfterSwitch(t)
    /\ UNCHANGED <<value, readCallback, op, arg, snapshot, bus, lastStore, cccdRequest>>

StartEmit(t) ==
    /\ At(t, "startEmit")
    /\ EmitNotifying(TRUE)
    /\ Goto(t, "startCbLock")
    /\ UNCHANGED <<owner, state, op, arg, snapshot, busValue, hist>>

StartLockCallback(t) ==
    /\ At(t, "startCbLock") /\ Acquire(t, "callback")
    /\ Goto(t, "startCb")
    /\ UNCHANGED <<state, op, arg, snapshot, bus, hist>>

\* Faulty variant: notifyMutex stays locked.
StartCallbackKeepsLock(t) ==
    /\ At(t, "startCb") /\ Release({"callback"})
    /\ Goto(t, AfterNotify(t))
    /\ UNCHANGED <<state, op, arg, snapshot, bus, hist>>

StartCallback(t) ==
    /\ At(t, "startCb") /\ Release({"notify", "callback"})
    /\ Goto(t, AfterNotify(t))
    /\ UNCHANGED <<state, op, arg, snapshot, bus, hist>>

StopLock(t) ==
    /\ At(t, "stopLock") /\ Free("notify")
    /\ notifying' = FALSE
    /\ IF notifying /\ "char" \in Registered
       THEN Acquire(t, "notify") /\ Goto(t, "stopEmit")
       ELSE UNCHANGED owner /\ Goto(t, AfterNotify(t))
    /\ contest' = AfterSwitch(t)
    /\ UNCHANGED <<value, readCallback, op, arg, snapshot, bus, lastStore, cccdRequest>>

\* Faulty variant: notifyMutex stays locked.
StopEmitKeepsLock(t) ==
    /\ At(t, "stopEmit")
    /\ EmitNotifying(FALSE)
    /\ Goto(t, AfterNotify(t))
    /\ UNCHANGED <<owner, state, op, arg, snapshot, busValue, hist>>

StopEmit(t) ==
    /\ At(t, "stopEmit") /\ Release({"notify"})
    /\ EmitNotifying(FALSE)
    /\ Goto(t, AfterNotify(t))
    /\ UNCHANGED <<state, op, arg, snapshot, busValue, hist>>

-----------------------------------------------------------------------------
\* handleReadValue and handleWriteValue of the characteristic and of the
\* descriptor: the callbacks run under callbackMutex

\* Faulty variant: the stored value answers, callback or not.
ReadLockStored(t) ==
    /\ At(t, "readLock") /\ Acquire(t, CallbackLock(Obj(t)))
    /\ Goto(t, "readStored")
    /\ UNCHANGED <<state, op, arg, snapshot, bus, hist>>

ReadLock(t) ==
    /\ At(t, "readLock") /\ Acquire(t, CallbackLock(Obj(t)))
    /\ Goto(t, IF readCallback[Obj(t)] THEN "readCb" ELSE "readStored")
    /\ UNCHANGED <<state, op, arg, snapshot, bus, hist>>

\* the read callback answers, or throws and the call gets an error reply
ReadCallback(t) ==
    /\ At(t, "readCb") /\ Release({CallbackLock(Obj(t))})
    /\ Return(t)
    /\ UNCHANGED <<state, op, arg, snapshot, bus, hist>>

\* without a read callback: valueMutex is taken while callbackMutex is held
ReadStored(t) ==
    /\ At(t, "readStored") /\ Free(ValueLock(Obj(t)))
    /\ Release({CallbackLock(Obj(t))})
    /\ Return(t)
    /\ UNCHANGED <<state, op, arg, snapshot, bus, hist>>

WriteLock(t) ==
    /\ At(t, "writeLock") /\ Acquire(t, CallbackLock(Obj(t)))
    /\ Goto(t, "writeCb")
    /\ UNCHANGED <<state, op, arg, snapshot, bus, hist>>

\* the write callback accepts, or refuses or throws: an error reply, no store
WriteCallback(t) ==
    /\ At(t, "writeCb") /\ Release({CallbackLock(Obj(t))})
    /\ \/ Goto(t, IF Obj(t) = "char" THEN "writeStore" ELSE "storeLock")
       \/ Return(t)
    /\ UNCHANGED <<state, op, arg, snapshot, bus, hist>>

\* Faulty variant: it stores without the mutex.
WriteStoreUnlocked(t) ==
    /\ At(t, "writeStore")
    /\ value' = [value EXCEPT !["char"] = Stored(t)]
    /\ lastStore' = "WriteValue"
    /\ Return(t)
    /\ UNCHANGED <<owner, notifying, readCallback, op, arg, snapshot, bus, cccdRequest, contest>>

\* an accepted WriteValue stores, and tells no one
WriteStore(t) ==
    /\ At(t, "writeStore") /\ Free("value")
    /\ value' = [value EXCEPT !["char"] = Stored(t)]
    /\ lastStore' = "WriteValue"
    /\ Return(t)
    /\ UNCHANGED <<owner, notifying, readCallback, op, arg, snapshot, bus, cccdRequest, contest>>

\* The callback setters.  The outcomes of the write and notify callbacks are
\* open anyway, whether one is set or not.
InstallCallback(t) ==
    /\ At(t, "installLock") /\ Free(CallbackLock(Obj(t)))
    /\ readCallback' = [readCallback EXCEPT ![Obj(t)] =
                          op[t] \in SetsRead \/ (@ /\ op[t] \notin ClearsRead)]
    /\ Return(t)
    /\ UNCHANGED <<owner, value, notifying, op, arg, snapshot, bus, hist>>

-----------------------------------------------------------------------------
\* GattDescriptor::setValue, called by the application or by handleWriteValue

\* Where startNotify and stopNotify run, called or entered from a CCCD write.
SwitchPCs == {"startLock", "startEmit", "startCbLock", "startCb", "stopLock", "stopEmit"}

\* From its store to its signal: two writes that overlap here are not told apart.
Writing(t) ==
    \/ pc[t] \in {"store", "publishRead", "publishEmit"}
    \/ pc[t] \in SwitchPCs /\ op[t] \in DescOps

StoreLock(t) ==
    /\ At(t, "storeLock") /\ Acquire(t, "descValue")
    /\ contest' = IF \E u \in Threads : Writing(u) THEN "overlap" ELSE "none"
    /\ Goto(t, "store")
    /\ UNCHANGED <<state, op, arg, snapshot, bus, lastStore, cccdRequest>>

\* valueMutex covers the assignment only; a CCCD then switches notifications
Store(t) ==
    /\ At(t, "store") /\ Release({"descValue"})
    /\ value' = [value EXCEPT !["desc"] = Stored(t)]
    /\ cccdRequest' = arg[t]
    /\ Goto(t, IF IsCccd /\ Len(Stored(t)) >= 2
               THEN IF EnablesNotify(Stored(t)) THEN "startLock" ELSE "stopLock"
               ELSE AfterNotify(t))
    /\ UNCHANGED <<notifying, readCallback, op, arg, snapshot, bus, lastStore, contest>>

\* The value to publish is read with no mutex: beside a thread that is
\* assigning it, the read returns anything a torn vector can show.
PublishRead(t) ==
    /\ At(t, "publishRead")
    /\ \E b \in (IF Free("descValue") THEN {value["desc"]}
                 ELSE DescWrites \cup {<<>>, value["desc"]}) :
          snapshot' = [snapshot EXCEPT ![t] = b]
    /\ Goto(t, "publishEmit")
    /\ UNCHANGED <<owner, state, op, arg, bus, hist>>

PublishEmit(t) ==
    /\ At(t, "publishEmit")
    /\ EmitValue("desc", snapshot[t])
    /\ snapshot' = [snapshot EXCEPT ![t] = <<>>]
    /\ Return(t)
    /\ UNCHANGED <<owner, state, op, arg, busNotifying, hist>>

-----------------------------------------------------------------------------
Init ==
    /\ owner = [l \in Locks |-> NoThread]
    /\ value = [o \in Objects |-> <<>>]
    /\ notifying = FALSE
    /\ readCallback = HasReadCallback
    /\ pc = [t \in Threads |-> "idle"]
    /\ op = [t \in Threads |-> "getValue"]
    /\ arg = [t \in Threads |-> <<>>]
    /\ snapshot = [t \in Threads |-> <<>>]
    /\ busValue = [o \in Objects |-> <<>>]
    /\ busNotifying = FALSE
    /\ lost = {}
    /\ lastStore = "setValue"
    /\ cccdRequest = <<>>
    /\ contest = "none"

SetValueSteps(t) ==
    SetLock(t) \/ SetReadNotifying(t) \/ SetLockCallback(t) \/ SetCallback(t) \/ SetEmit(t)
NotifySteps(t) ==
    \/ StartLock(t) \/ StartEmit(t) \/ StartLockCallback(t) \/ StartCallback(t)
    \/ StopLock(t) \/ StopEmit(t)
HandlerSteps(t) ==
    \/ ReadLock(t) \/ ReadCallback(t) \/ ReadStored(t)
    \/ WriteLock(t) \/ WriteCallback(t) \/ WriteStore(t) \/ InstallCallback(t)
DescriptorSteps(t) ==
    StoreLock(t) \/ Store(t) \/ PublishRead(t) \/ PublishEmit(t)

Step(t) == SetValueSteps(t) \/ Get(t) \/ NotifySteps(t) \/ HandlerSteps(t) \/ DescriptorSteps(t)
Next == \E t \in Threads : Call(t) \/ Step(t)

Spec == Init /\ [][Next]_vars
\* A thread inside an operation runs; nothing says in which order a mutex is granted.
FairSpec == Spec /\ \A t \in Threads : WF_vars(Step(t))

-----------------------------------------------------------------------------
Wants(t) ==
    CASE pc[t] \in {"setLock", "getLock", "writeStore"}    -> "value"
      [] pc[t] \in {"setRead", "startLock", "stopLock", "isLock"} -> "notify"
      [] pc[t] \in {"setCbLock", "startCbLock"}            -> "callback"
      [] pc[t] \in {"readLock", "writeLock", "installLock"} -> CallbackLock(Obj(t))
      [] pc[t] = "readStored"                              -> ValueLock(Obj(t))
      [] pc[t] = "storeLock"                               -> "descValue"
      [] OTHER                                             -> "none"

\* The thread t is blocked on: the owner of the mutex its next step needs.
BlockedOn(t) == IF Wants(t) = "none" THEN NoThread ELSE owner[Wants(t)]

Holds(t, l) ==
    \/ l = "value"  /\ pc[t] \in {"setRead", "setCbLock", "setCb", "setEmit"}
    \/ l = "notify" /\ pc[t] \in {"startEmit", "startCbLock", "startCb", "stopEmit"}
    \/ l = "callback"     /\ pc[t] \in {"setCb", "startCb"}
    \/ l = "descValue"    /\ pc[t] = "store"
    \/ l = CallbackLock(Obj(t)) /\ pc[t] \in {"readCb", "readStored", "writeCb"}

Quiescent == \A t \in Threads : pc[t] = "idle"

PCs == {"idle", "setLock", "setRead", "setCbLock", "setCb", "setEmit", "getLock", "isLock",
        "startLock", "startEmit", "startCbLock", "startCb", "stopLock", "stopEmit",
        "readLock", "readCb", "readStored", "writeLock", "writeCb", "writeStore",
        "installLock", "storeLock", "store", "publishRead", "publishEmit"}

\* The types of the variables.
TypeOK ==
    /\ owner \in [Locks -> Threads \cup {NoThread}]
    /\ value \in [Objects -> Seq(Byte)]
    /\ notifying \in BOOLEAN
    /\ readCallback \in [Objects -> BOOLEAN]
    /\ pc \in [Threads -> PCs]
    /\ op \in [Threads -> CharOps \cup DescOps]
    /\ arg \in [Threads -> Seq(Byte)]
    /\ snapshot \in [Threads -> Seq(Byte)]
    /\ busValue \in [Objects -> Seq(Byte)]
    /\ busNotifying \in BOOLEAN
    /\ lost \subseteq Objects \cup {"Notifying"}
    /\ lastStore \in {"setValue", "WriteValue"}
    /\ cccdRequest \in Seq(Byte)
    /\ contest \in {"none", "switch", "overlap"}

\* A mutex is held by exactly the thread that is between its acquisition and
\* its release, on every path through the operations, early returns and error
\* replies included: no path leaves one locked.
LockDiscipline == \A l \in Locks, t \in Threads : owner[l] = t <=> Holds(t, l)

\* No set of threads waits for each other, or one for itself: the operations
\* take the mutexes in an order that cannot close a circle.
NoDeadlock ==
    \A S \in SUBSET Threads : S # {} => \E t \in S : BlockedOn(t) \notin S

\* Clients have the wrong notification state only as long as the latest signal
\* was dropped: whenever notifyMutex is free and the last "Notifying" signal went
\* out, it told the flag's value, however many were dropped before; and a signal
\* that follows one that went out is a change (no client sees "on" twice in a row).
NotifyingPublished ==
    "char" \in Registered /\ "Notifying" \notin lost =>
        /\ Free("notify") => busNotifying = notifying
        /\ \A t \in Threads : /\ pc[t] = "startEmit" => ~busNotifying
                              /\ pc[t] = "stopEmit" => busNotifying

\* Signals of concurrent setValue calls come out in the order of the stores: once
\* the mutex is free, what was stored locally is what clients saw last, unless the
\* signal of that very store was dropped.
LocalValuePublished ==
    "char" \in Registered /\ Free("value") /\ lastStore = "setValue" /\ "char" \notin lost
        => busValue["char"] = value["char"]

\* The descriptor's setValue is to do the same for its own value, with any number
\* of threads writing it.  It does so for a write that no other one overlapped,
\* whatever earlier ones left behind: a torn or stale signal lasts until then.
DescValuePublished ==
    "desc" \in Registered /\ Quiescent /\ contest # "overlap" /\ "desc" \notin lost
        => busValue["desc"] = value["desc"]

\* The CCCD controls notifications: with no call in progress the flag is what
\* the latest request that wrote two bytes or more to it asked for: 01 notifies,
\* 02 indicates, 03 does both, 00 neither (the runs write no reserved bit).
\* Excepted are requests that overlapped another one, and a flag that startNotify
\* or stopNotify was called for since.
CccdControlsNotify ==
    Quiescent /\ contest = "none" /\ Len(cccdRequest) >= 2
        => (notifying <=> cccdRequest[1] \in {1, 2, 3})

Returns(t) == pc[t] # "idle" /\ pc'[t] = "idle"

\* As long as calls are in progress, calls return: whatever the interleaving,
\* the operations never all come to a stop.
CallsKeepReturning ==
    <>[]Quiescent \/ []<><<\E t \in Threads : Returns(t)>>_vars

\* What clients see of the characteristic: the flag and the value, and what the
\* signals said of them; a switch is owed to them while its signal is to be sent,
\* a local store while valueMutex is held.
Client == INSTANCE NotifySpec WITH
    Bytes <- Seq(Byte), Announced <- "char" \in Registered,
    flag <- notifying, told <- busNotifying,
    value <- value["char"], shown <- busValue["char"], author <- lastStore,
    owed <- (IF \E t \in Threads : pc[t] \in {"startEmit", "stopEmit"} THEN {"Notifying"} ELSE {})
            \cup (IF "char" \in Registered /\ ~Free("value") THEN {"Value"} ELSE {}),
    missed <- (IF "Notifying" \in lost THEN {"Notifying"} ELSE {})
              \cup (IF "char" \in lost THEN {"Value"} ELSE {})

\* However the threads interleave, and whichever signals are dropped, clients see
\* what NotifySpec promises: each switch of notifications is signalled, or its
\* signal dropped, before the next; each local store is signalled with its own
\* bytes, or its signal dropped, before any other store; and no signal says
\* anything that was never so.
ImplementsNotifySpec == Client!Spec
=============================================================================
