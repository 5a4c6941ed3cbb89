------------------------ MODULE GattDescriptorProofs ------------------------
(***************************************************************************)
(* What holds of the descriptor and the CCCD in GattNotify, for any number *)
(* of threads that write it and whatever the others do.                    *)
(***************************************************************************)
EXTENDS GattNotifyProofs

USE NoThreadAssumption, OpsAssumption, ObjectAssumption DEF CallbackSetters, SetsRead, ClearsRead

DescWriteOps == {"descSetValue", "descWriteValue"}

WritePCs == {"storeLock", "store", "publishRead", "publishEmit"}

\* Where a thread is tells which operations it can be in.
OpInv ==
    \A t \in Threads :
        /\ op[t] \in Ops[t] \cup {"getValue"}
        /\ op[t] = "descSetValue" => arg[t] \in DescWrites
        /\ pc[t] \in WritePCs => op[t] \in DescWriteOps
        /\ pc[t] \in {"writeLock", "writeCb"} => op[t] \in {"WriteValue", "descWriteValue"}
        /\ pc[t] \in SwitchPCs => op[t] \in DescWriteOps \cup {"startNotify", "stopNotify"}

\* A step of one thread is nothing to the others' own variables.
LEMMA OthersStay ==
    ASSUME TypeOK, NEW t \in Threads, Call(t) \/ Step(t), NEW u \in Threads, u # t
    PROVE  pc'[u] = pc[u] /\ op'[u] = op[u] /\ arg'[u] = arg[u] /\ snapshot'[u] = snapshot[u]
<1> USE DEF TypeOK, Goto, Return
<1>1. CASE Call(t)
  BY <1>1 DEF Call
<1>2. CASE SetValueSteps(t) \/ Get(t)
  BY <1>2 DEF SetValueSteps, SetLock, SetReadNotifying, SetLockCallback, SetCallback, SetEmit, Get
<1>3. CASE NotifySteps(t)
  BY <1>3 DEF NotifySteps, StartLock, StartEmit, StartLockCallback, StartCallback, StopLock,
              StopEmit
<1>4. CASE HandlerSteps(t)
  BY <1>4 DEF HandlerSteps, ReadLock, ReadCallback, ReadStored, WriteLock, WriteCallback,
              WriteStore, InstallCallback
<1>5. CASE DescriptorSteps(t)
  BY <1>5 DEF DescriptorSteps, StoreLock, Store, PublishRead, PublishEmit
<1> QED
  BY <1>1, <1>2, <1>3, <1>4, <1>5 DEF Step

\* Inside an operation a thread keeps it and its argument.
LEMMA StepKeepsOp ==
    ASSUME NEW t \in Threads, Step(t) PROVE UNCHANGED <<op, arg>>
  BY DEF Step, SetValueSteps, SetLock, SetReadNotifying, SetLockCallback, SetCallback, SetEmit, Get,
         NotifySteps, StartLock, StartEmit, StartLockCallback, StartCallback, StopLock, StopEmit,
         HandlerSteps, ReadLock, ReadCallback, ReadStored, WriteLock, WriteCallback, WriteStore,
         InstallCallback, DescriptorSteps, StoreLock, Store, PublishRead, PublishEmit

LEMMA OpInvariant == Spec => []OpInv
<1>1. Init => OpInv
  BY DEF Init, OpInv, WritePCs, SwitchPCs
<1>2. TypeOK /\ OpInv /\ [Next]_vars => OpInv'
  <2> SUFFICES ASSUME TypeOK, OpInv, [Next]_vars PROVE OpInv'
    OBVIOUS
  <2>0. CASE UNCHANGED vars
    BY <2>0 DEF OpInv, vars
  <2> SUFFICES ASSUME NEW t \in Threads, Call(t) \/ Step(t) PROVE OpInv'
    BY <2>0 DEF Next
  <2> DEFINE Inv(u) ==
        /\ op[u] \in Ops[u] \cup {"getValue"}
        /\ op[u] = "descSetValue" => arg[u] \in DescWrites
        /\ pc[u] \in WritePCs => op[u] \in DescWriteOps
        /\ pc[u] \in {"writeLock", "writeCb"} => op[u] \in {"WriteValue", "descWriteValue"}
        /\ pc[u] \in SwitchPCs => op[u] \in DescWriteOps \cup {"startNotify", "stopNotify"}
  <2>1. ASSUME NEW u \in Threads, u # t PROVE Inv(u)'
    <3>1. pc'[u] = pc[u] /\ op'[u] = op[u] /\ arg'[u] = arg[u]
      BY <2>1, OthersStay
    <3> QED
      BY <3>1 DEF OpInv
  <2>2. Inv(t)'
    <3>1. CASE Call(t)
      <4>1. PICK o \in Ops[t] : \E b \in Writes(o) :
               op'[t] = o /\ arg'[t] = b /\ pc'[t] = FirstStep(o)
        BY <3>1 DEF Call, Goto, TypeOK
      <4>2. o = "descSetValue" => arg'[t] \in DescWrites
        BY <4>1 DEF Writes
      <4>3. o \in CharOps \cup DescOps
        OBVIOUS
      <4>4. /\ FirstStep(o) \in WritePCs => o \in DescWriteOps
            /\ FirstStep(o) \in {"writeLock", "writeCb"} => o \in {"WriteValue", "descWriteValue"}
            /\ FirstStep(o) \in SwitchPCs => o \in DescWriteOps \cup {"startNotify", "stopNotify"}
        BY <4>3 DEF FirstStep, CharOps, DescOps, WritePCs, SwitchPCs, DescWriteOps
      <4> QED
        BY <4>1, <4>2, <4>4
    <3>2. CASE Step(t)
      <4>1. op'[t] = op[t] /\ arg'[t] = arg[t]
        BY <3>2, StepKeepsOp
      <4>2. CASE SetValueSteps(t) \/ Get(t)
        <5>1. pc'[t] \in {"setRead", "setCbLock", "setCb", "setEmit", "idle"}
          BY <4>2 DEF SetValueSteps, SetLock, SetReadNotifying, SetLockCallback, SetCallback,
             SetEmit, Get, Goto, Return, TypeOK
        <5> QED
          BY <4>1, <5>1 DEF OpInv, WritePCs, SwitchPCs
      <4>3. CASE NotifySteps(t)
        <5>1. pc[t] \in SwitchPCs
          BY <4>3 DEF NotifySteps, StartLock, StartEmit, StartLockCallback, StartCallback,
             StopLock, StopEmit, At, SwitchPCs
        <5>2. op[t] \in DescWriteOps \cup {"startNotify", "stopNotify"}
          BY <5>1 DEF OpInv
        <5>3. pc'[t] \in SwitchPCs \cup {AfterNotify(t)}
          BY <4>3 DEF NotifySteps, StartLock, StartEmit, StartLockCallback, StartCallback,
             StopLock, StopEmit, Goto, TypeOK, SwitchPCs
        <5>4. AfterNotify(t) = "idle" \/ (AfterNotify(t) = "publishRead" /\ op[t] \in DescWriteOps)
          BY <5>2 DEF AfterNotify, DescOps, DescWriteOps
        <5> QED
          BY <4>1, <5>2, <5>3, <5>4 DEF OpInv, WritePCs, SwitchPCs
      <4>4. CASE HandlerSteps(t)
        <5>1. \/ pc'[t] \in {"readCb", "readStored", "idle", "writeStore"}
              \/ pc'[t] = "writeCb" /\ pc[t] = "writeLock"
              \/ pc'[t] = "storeLock" /\ pc[t] = "writeCb" /\ Obj(t) # "char"
          BY <4>4 DEF HandlerSteps, ReadLock, ReadCallback, ReadStored, WriteLock, WriteCallback,
             WriteStore, InstallCallback, Goto, Return, At, TypeOK
        <5>2. Obj(t) # "char" /\ op[t] \in {"WriteValue", "descWriteValue"} => op[t] \in DescWriteOps
          BY DEF Obj, DescOps, DescWriteOps
        <5> QED
          BY <4>1, <5>1, <5>2 DEF OpInv, WritePCs, SwitchPCs
      <4>5. CASE DescriptorSteps(t)
        <5>1. op[t] \in DescWriteOps
          BY <4>5 DEF DescriptorSteps, StoreLock, Store, PublishRead, PublishEmit, At, OpInv, WritePCs
        <5>2. pc'[t] \in {"store", "startLock", "stopLock", "publishRead", "publishEmit", "idle"}
          BY <4>5 DEF DescriptorSteps, StoreLock, Store, PublishRead, PublishEmit, Goto, Return,
             AfterNotify, TypeOK
        <5> QED
          BY <4>1, <5>1, <5>2 DEF OpInv, WritePCs, SwitchPCs
      <4> QED
        BY <3>2, <4>2, <4>3, <4>4, <4>5 DEF Step
    <3> QED
      BY <3>1, <3>2
  <2> QED
    BY <2>1, <2>2 DEF OpInv
<1> QED
  BY <1>1, <1>2, TypeCorrect, PTL DEF Spec

-----------------------------------------------------------------------------
\* Only Store changes the descriptor's value and the latest request, only
\* PublishEmit what clients saw of it, only the first steps of startNotify and
\* stopNotify the flag.
LEMMA DescriptorFrame ==
    ASSUME TypeOK, NEW t \in Threads, Call(t) \/ Step(t)
    PROVE  /\ pc[t] # "store" => value'["desc"] = value["desc"] /\ cccdRequest' = cccdRequest
           /\ pc[t] # "publishEmit" =>
                busValue'["desc"] = busValue["desc"] /\ ("desc" \in lost' <=> "desc" \in lost)
           /\ pc[t] \notin {"startLock", "stopLock"} => notifying' = notifying
<1> USE DEF TypeOK, At, Objects, EmitValue, EmitNotifying, state, bus, hist
<1>1. CASE Call(t)
  BY <1>1 DEF Call
<1>2. CASE SetValueSteps(t) \/ Get(t)
  BY <1>2 DEF SetValueSteps, SetLock, SetReadNotifying, SetLockCallback, SetCallback, SetEmit, Get
<1>3. CASE NotifySteps(t)
  BY <1>3 DEF NotifySteps, StartLock, StartEmit, StartLockCallback, StartCallback, StopLock,
              StopEmit
<1>4. CASE HandlerSteps(t)
  BY <1>4 DEF HandlerSteps, ReadLock, ReadCallback, ReadStored, WriteLock, WriteCallback,
              WriteStore, InstallCallback
<1>5. CASE DescriptorSteps(t)
  BY <1>5 DEF DescriptorSteps, StoreLock, Store, PublishRead, PublishEmit
<1> QED
  BY <1>1, <1>2, <1>3, <1>4, <1>5 DEF Step

\* A write begins at StoreLock, which records whether it overlaps another one.
LEMMA WritingFrame ==
    ASSUME TypeOK, OpInv, NEW t \in Threads, Call(t) \/ Step(t)
    PROVE  /\ \A u \in Threads \ {t} : Writing(u)' <=> Writing(u)
           /\ pc[t] = "storeLock" =>
                /\ pc'[t] = "store"
                /\ contest' = IF \E u \in Threads : Writing(u) THEN "overlap" ELSE "none"
           /\ pc[t] # "storeLock" =>
                /\ contest' = contest \/ (contest = "none" /\ contest' = "switch")
                /\ Writing(t)' => Writing(t)
<1>1. \A u \in Threads \ {t} : Writing(u)' <=> Writing(u)
  BY OthersStay DEF Writing
<1>2. CASE Call(t)
  <2>1. \A o \in CharOps \cup DescOps :
           /\ FirstStep(o) \notin {"store", "publishRead", "publishEmit"}
           /\ o \in DescOps => FirstStep(o) \notin SwitchPCs
    BY DEF CharOps, DescOps, FirstStep, SwitchPCs
  <2>2. PICK o \in CharOps \cup DescOps : op'[t] = o /\ pc'[t] = FirstStep(o)
    BY <1>2 DEF Call, Goto, TypeOK
  <2>3. ~Writing(t)'
    BY <2>1, <2>2 DEF Writing
  <2>4. pc[t] = "idle" /\ contest' = contest
    BY <1>2 DEF Call, At, hist
  <2> QED
    BY <1>1, <2>3, <2>4
<1>3. CASE SetValueSteps(t) \/ Get(t) \/ HandlerSteps(t)
  <2>1. pc[t] # "storeLock" /\ contest' = contest
    BY <1>3 DEF SetValueSteps, SetLock, SetReadNotifying, SetLockCallback, SetCallback,
       SetEmit, Get, HandlerSteps, ReadLock, ReadCallback, ReadStored, WriteLock,
       WriteCallback, WriteStore, InstallCallback, At, hist
  <2>2. pc'[t] \notin {"store", "publishRead", "publishEmit"} \cup SwitchPCs
    BY <1>3 DEF SetValueSteps, SetLock, SetReadNotifying, SetLockCallback, SetCallback,
       SetEmit, Get, HandlerSteps, ReadLock, ReadCallback, ReadStored, WriteLock,
       WriteCallback, WriteStore, InstallCallback, Goto, Return, SwitchPCs, TypeOK
  <2> QED
    BY <1>1, <2>1, <2>2 DEF Writing
<1>4. CASE NotifySteps(t)
  <2>1. pc[t] \in SwitchPCs /\ pc[t] # "storeLock" /\ op'[t] = op[t]
    BY <1>4 DEF NotifySteps, StartLock, StartEmit, StartLockCallback, StartCallback,
       StopLock, StopEmit, At, SwitchPCs
  <2>2. contest' = contest \/ (contest = "none" /\ contest' = "switch")
    BY <1>4 DEF NotifySteps, StartLock, StartEmit, StartLockCallback, StartCallback,
       StopLock, StopEmit, AfterSwitch, hist
  <2>3. pc'[t] \in SwitchPCs \cup {AfterNotify(t)}
    BY <1>4 DEF NotifySteps, StartLock, StartEmit, StartLockCallback, StartCallback,
       StopLock, StopEmit, Goto, SwitchPCs, TypeOK
  <2>4. op[t] \notin DescOps => ~Writing(t)'
    BY <2>1, <2>3 DEF Writing, AfterNotify, SwitchPCs
  <2> QED
    BY <1>1, <2>1, <2>2, <2>4 DEF Writing
<1>5. CASE StoreLock(t)
  BY <1>1, <1>5 DEF StoreLock, At, Goto, TypeOK
<1>6. CASE Store(t) \/ PublishRead(t) \/ PublishEmit(t)
  <2>1. pc[t] \in {"store", "publishRead", "publishEmit"} /\ contest' = contest
    BY <1>6 DEF Store, PublishRead, PublishEmit, At, hist
  <2> QED
    BY <1>1, <2>1 DEF Writing
<1> QED
  BY <1>2, <1>3, <1>4, <1>5, <1>6 DEF Step, DescriptorSteps

\* As long as the latest write overlapped no other one, one thread at most writes.
Alone ==
    contest # "overlap" => \A t, u \in Threads : Writing(t) /\ Writing(u) => t = u

LEMMA AloneInvariant == Spec => []Alone
<1>1. Init => Alone
  BY DEF Init, Alone, Writing, SwitchPCs
<1>2. TypeOK /\ OpInv /\ Alone /\ [Next]_vars => Alone'
  <2> SUFFICES ASSUME TypeOK, OpInv, Alone, [Next]_vars PROVE Alone'
    OBVIOUS
  <2>0. CASE UNCHANGED vars
    BY <2>0 DEF Alone, Writing, vars, hist
  <2> SUFFICES ASSUME NEW t \in Threads, Call(t) \/ Step(t) PROVE Alone'
    BY <2>0 DEF Next
  <2>1. CASE pc[t] = "storeLock"
    BY <2>1, WritingFrame DEF Alone
  <2>2. CASE pc[t] # "storeLock"
    BY <2>2, WritingFrame DEF Alone
  <2> QED
    BY <2>1, <2>2
<1> QED
  BY <1>1, <1>2, TypeCorrect, OpInvariant, PTL DEF Spec

\* Between its store and its signal a write that no other one overlaps owes
\* clients the value; what it is about to publish is the value.
DescInv ==
    "desc" \in Registered /\ contest # "overlap" =>
        /\ \A t \in Threads : pc[t] = "publishEmit" => snapshot[t] = value["desc"]
        /\ (\A t \in Threads : ~Writing(t)) /\ "desc" \notin lost
              => busValue["desc"] = value["desc"]

\* Whoever writes the descriptor, and however often writes overlapped before: once
\* no call is in progress clients saw its value, unless the latest write overlapped
\* another one or its signal was dropped.
THEOREM DescriptorPublished == Spec => []DescValuePublished
<1>1. Init => DescInv
  BY DEF Init, DescInv, Objects
<1>2. TypeOK /\ LockDiscipline /\ OpInv /\ Alone /\ DescInv /\ [Next]_vars => DescInv'
  <2> SUFFICES ASSUME TypeOK, LockDiscipline, OpInv, Alone, DescInv, [Next]_vars,
                      "desc" \in Registered
               PROVE  DescInv'
    BY DEF DescInv
  <2>0. CASE UNCHANGED vars
    BY <2>0 DEF DescInv, Writing, vars, state, bus, hist
  <2> SUFFICES ASSUME NEW t \in Threads, Call(t) \/ Step(t) PROVE DescInv'
    BY <2>0 DEF Next
  <2>1. \A u \in Threads \ {t} :
           pc'[u] = pc[u] /\ snapshot'[u] = snapshot[u] /\ (Writing(u)' <=> Writing(u))
    BY OthersStay, WritingFrame
  <2>2. CASE pc[t] = "storeLock"
    \* the write counts only if no one else writes
    <3>1. pc'[t] = "store" /\ (contest' # "overlap" => \A u \in Threads : ~Writing(u))
      BY <2>2, WritingFrame
    <3> QED
      BY <2>1, <3>1 DEF DescInv, Writing
  <2> SUFFICES ASSUME pc[t] # "storeLock", contest' # "overlap" PROVE DescInv'
    BY <2>2 DEF DescInv
  <2>3. contest # "overlap"
    BY WritingFrame
  <2>4. Writing(t) => \A u \in Threads \ {t} : ~Writing(u) /\ pc'[u] # "publishEmit"
    BY <2>1, <2>3 DEF Alone, Writing
  <2>5. CASE pc[t] = "store"
    <3>1. op[t] \in DescOps /\ op'[t] = op[t]
      BY <2>5, StepKeepsOp DEF OpInv, WritePCs, DescWriteOps, DescOps, Call, At
    <3>2. Store(t)
      BY <2>5 DEF Call, Step, SetValueSteps, SetLock, SetReadNotifying, SetLockCallback,
         SetCallback, SetEmit, Get, NotifySteps, StartLock, StartEmit, StartLockCallback,
         StartCallback, StopLock, StopEmit, HandlerSteps, ReadLock, ReadCallback, ReadStored,
         WriteLock, WriteCallback, WriteStore, InstallCallback, DescriptorSteps, StoreLock,
         PublishRead, PublishEmit, At
    <3>3. pc'[t] \in {"startLock", "stopLock", "publishRead"}
      BY <3>1, <3>2 DEF Store, Goto, AfterNotify, TypeOK
    <3>4. Writing(t) /\ Writing(t)'
      BY <2>5, <3>1, <3>3 DEF Writing, SwitchPCs
    <3> QED
      BY <2>4, <3>3, <3>4 DEF DescInv
  <2>6. CASE pc[t] = "publishRead"
    <3>1. PublishRead(t)
      BY <2>6 DEF Call, Step, SetValueSteps, SetLock, SetReadNotifying, SetLockCallback,
         SetCallback, SetEmit, Get, NotifySteps, StartLock, StartEmit, StartLockCallback,
         StartCallback, StopLock, StopEmit, HandlerSteps, ReadLock, ReadCallback, ReadStored,
         WriteLock, WriteCallback, WriteStore, InstallCallback, DescriptorSteps, StoreLock,
         Store, PublishEmit, At
    <3>2. Writing(t) /\ Writing(t)'
      BY <2>6, <3>1 DEF PublishRead, Goto, Writing, TypeOK
    \* nobody is assigning the value: it is read whole
    <3>3. Free("descValue")
      <4> SUFFICES ASSUME owner["descValue"] # NoThread PROVE FALSE
        BY DEF Free
      <4>1. PICK u \in Threads : owner["descValue"] = u
        BY DEF TypeOK, Locks
      <4>2. pc[u] = "store"
        BY <4>1 DEF LockDiscipline, Holds, CallbackLock, Locks
      <4> QED
        BY <2>4, <2>6, <3>2, <4>2 DEF Writing
    <3>4. snapshot'[t] = value["desc"] /\ value' = value
      BY <3>1, <3>3 DEF PublishRead, TypeOK, state
    <3> QED
      BY <2>4, <3>2, <3>4 DEF DescInv
  <2>7. CASE pc[t] = "publishEmit"
    <3>1. PublishEmit(t)
      BY <2>7 DEF Call, Step, SetValueSteps, SetLock, SetReadNotifying, SetLockCallback,
         SetCallback, SetEmit, Get, NotifySteps, StartLock, StartEmit, StartLockCallback,
         StartCallback, StopLock, StopEmit, HandlerSteps, ReadLock, ReadCallback, ReadStored,
         WriteLock, WriteCallback, WriteStore, InstallCallback, DescriptorSteps, StoreLock,
         Store, PublishRead, At
    <3>2. Writing(t) /\ pc'[t] = "idle" /\ value' = value
      BY <2>7, <3>1 DEF PublishEmit, Goto, Return, Writing, TypeOK, state
    <3>3. snapshot[t] = value["desc"]
      BY <2>3, <2>7 DEF DescInv
    <3>4. "desc" \notin lost' => busValue'["desc"] = value["desc"]
      BY <3>1, <3>3 DEF PublishEmit, EmitValue, TypeOK, Objects
    <3> QED
      BY <2>4, <3>2, <3>4 DEF DescInv
  \* every other step keeps the value, the signal and who writes
  <2>8. CASE pc[t] \notin WritePCs
    <3>1. /\ value'["desc"] = value["desc"] /\ busValue'["desc"] = busValue["desc"]
          /\ "desc" \in lost' <=> "desc" \in lost
      BY <2>8, DescriptorFrame DEF WritePCs
    <3>2. pc'[t] # "publishEmit"
      <4>1. CASE Call(t)
        <5>1. \A o \in CharOps \cup DescOps : FirstStep(o) # "publishEmit"
          BY DEF CharOps, DescOps, FirstStep
        <5> QED
          BY <4>1, <5>1 DEF Call, Goto, TypeOK
      <4>2. CASE Step(t)
        BY <2>8, <4>2 DEF Step, SetValueSteps, SetLock, SetReadNotifying, SetLockCallback,
           SetCallback, SetEmit, Get, NotifySteps, StartLock, StartEmit, StartLockCallback,
           StartCallback, StopLock, StopEmit, HandlerSteps, ReadLock, ReadCallback, ReadStored,
           WriteLock, WriteCallback, WriteStore, InstallCallback, DescriptorSteps, StoreLock,
           Store, PublishRead, PublishEmit, At, Goto, Return, AfterNotify, TypeOK, WritePCs
      <4> QED
        BY <4>1, <4>2
    <3>3. Writing(t) => Writing(t)'
      <4> SUFFICES ASSUME Writing(t) PROVE Writing(t)'
        OBVIOUS
      <4>1. pc[t] \in SwitchPCs /\ op[t] \in DescOps
        BY <2>8 DEF Writing, WritePCs
      <4>2. NotifySteps(t)
        BY <4>1 DEF Call, Step, SetValueSteps, SetLock, SetReadNotifying, SetLockCallback,
           SetCallback, SetEmit, Get, HandlerSteps, ReadLock, ReadCallback, ReadStored,
           WriteLock, WriteCallback, WriteStore, InstallCallback, DescriptorSteps, StoreLock,
           Store, PublishRead, PublishEmit, At, SwitchPCs
      <4>3. op'[t] = op[t] /\ pc'[t] \in SwitchPCs \cup {AfterNotify(t)}
        BY <4>2 DEF NotifySteps, StartLock, StartEmit, StartLockCallback, StartCallback,
           StopLock, StopEmit, Goto, SwitchPCs, TypeOK
      <4> QED
        BY <4>1, <4>3 DEF AfterNotify, Writing
    <3> QED
      BY <2>1, <2>3, <3>1, <3>2, <3>3 DEF DescInv
  <2> QED
    BY <2>5, <2>6, <2>7, <2>8 DEF WritePCs
<1>3. DescInv => DescValuePublished
  BY DEF DescInv, DescValuePublished, Writing, Quiescent, SwitchPCs
<1> QED
  BY <1>1, <1>2, <1>3, TypeCorrect, LocksAreReleased, OpInvariant, AloneInvariant, PTL DEF Spec

-----------------------------------------------------------------------------
\* A write is about to store its request, or on its way to switch the flag.
Requesting(t) ==
    \/ pc[t] = "store"
    \/ pc[t] \in {"startLock", "stopLock"} /\ op[t] \in DescOps

\* A write that nothing contests switches the flag as it was asked to; before and
\* after it the flag is what was asked.
CccdInv ==
    /\ cccdRequest \in DescWrites \cup {<<>>}
    /\ contest = "none" =>
         /\ \A t \in Threads : Requesting(t) /\ pc[t] # "store" =>
              Len(cccdRequest) >= 2 /\ (pc[t] = "startLock" <=> EnablesNotify(cccdRequest))
         /\ (\A t \in Threads : ~Requesting(t)) /\ Len(cccdRequest) >= 2
              => (notifying <=> EnablesNotify(cccdRequest))

\* Only StoreLock and Store lead to a request.
LEMMA RequestingFrame ==
    ASSUME TypeOK, NEW t \in Threads, Call(t) \/ Step(t), pc[t] \notin {"storeLock", "store"}
    PROVE  ~Requesting(t)'
<1>1. CASE Call(t)
  <2>1. \A o \in CharOps \cup DescOps :
           /\ FirstStep(o) # "store"
           /\ o \in DescOps => FirstStep(o) \notin {"startLock", "stopLock"}
    BY DEF CharOps, DescOps, FirstStep
  <2>2. PICK o \in CharOps \cup DescOps : op'[t] = o /\ pc'[t] = FirstStep(o)
    BY <1>1 DEF Call, Goto, TypeOK
  <2> QED
    BY <2>1, <2>2 DEF Requesting
<1>2. CASE Step(t)
  <2>1. pc'[t] \notin {"store", "startLock", "stopLock"}
    BY <1>2 DEF Step, SetValueSteps, SetLock, SetReadNotifying, SetLockCallback,
       SetCallback, SetEmit, Get, NotifySteps, StartLock, StartEmit, StartLockCallback,
       StartCallback, StopLock, StopEmit, HandlerSteps, ReadLock, ReadCallback, ReadStored,
       WriteLock, WriteCallback, WriteStore, InstallCallback, DescriptorSteps, StoreLock,
       Store, PublishRead, PublishEmit, At, Goto, Return, AfterNotify, TypeOK
  <2> QED
    BY <2>1 DEF Requesting
<1> QED
  BY <1>1, <1>2

\* The CCCD controls notifications when the application writes it, from any number
\* of threads and beside any calls of startNotify and stopNotify: a request that no
\* other one overlapped is what the flag is until one of those is called.
THEOREM CccdInControl ==
    ASSUME \A t \in Threads : "descWriteValue" \notin Ops[t],
           CanNotify, IsCccd,
           \A b \in DescWrites : Len(b) >= 1 => b[1] \in 0..3
    PROVE  Spec => []CccdControlsNotify
<1>1. Init => CccdInv
  <2> SUFFICES ASSUME Init PROVE CccdInv
    OBVIOUS
  <2>1. cccdRequest = <<>> /\ \A t \in Threads : pc[t] = "idle"
    BY DEF Init
  <2>2. Len(cccdRequest) = 0
    BY <2>1
  <2> QED
    BY <2>1, <2>2 DEF CccdInv, Requesting
<1>2. TypeOK /\ OpInv /\ Alone /\ CccdInv /\ [Next]_vars => CccdInv'
  <2> SUFFICES ASSUME TypeOK, OpInv, Alone, CccdInv, [Next]_vars PROVE CccdInv'
    OBVIOUS
  <2>1. CASE UNCHANGED vars
    BY <2>1 DEF CccdInv, Requesting, EnablesNotify, vars, state, hist
  <2> SUFFICES ASSUME NEW t \in Threads, Call(t) \/ Step(t) PROVE CccdInv'
    BY <2>1 DEF Next
  <2>2. /\ pc[t] # "store" => cccdRequest' = cccdRequest
        /\ pc[t] \notin {"startLock", "stopLock"} => notifying' = notifying
    BY DescriptorFrame
  <2>3. \A u \in Threads \ {t} :
           /\ pc'[u] = pc[u] /\ op'[u] = op[u]
           /\ Requesting(u)' <=> Requesting(u)
    BY OthersStay DEF Requesting
  <2>4. \A u \in Threads : Requesting(u) => Writing(u)
    BY DEF Requesting, Writing, SwitchPCs
  <2>5. CASE pc[t] = "storeLock"
    <3>1. pc'[t] = "store" /\ (contest' = "none" => \A u \in Threads : ~Writing(u))
      BY <2>5, WritingFrame
    <3>2. Requesting(t)' /\ (contest' = "none" => \A u \in Threads \ {t} : ~Requesting(u)')
      BY <2>3, <2>4, <3>1 DEF Requesting
    <3> QED
      BY <2>2, <2>5, <3>1, <3>2 DEF CccdInv
  <2>6. CASE pc[t] = "store"
    <3>1. op[t] = "descSetValue" /\ op'[t] = op[t] /\ op[t] \in DescOps
      BY <2>6, StepKeepsOp DEF OpInv, WritePCs, DescWriteOps, DescOps, Call, At
    <3>2. Store(t)
      BY <2>6 DEF Call, Step, SetValueSteps, SetLock, SetReadNotifying, SetLockCallback,
         SetCallback, SetEmit, Get, NotifySteps, StartLock, StartEmit, StartLockCallback,
         StartCallback, StopLock, StopEmit, HandlerSteps, ReadLock, ReadCallback, ReadStored,
         WriteLock, WriteCallback, WriteStore, InstallCallback, DescriptorSteps, StoreLock,
         PublishRead, PublishEmit, At
    <3>3. Stored(t) = arg[t] /\ arg[t] \in DescWrites
      BY <3>1 DEF Stored, OpInv
    <3>4. cccdRequest' = arg[t] /\ contest' = contest
      BY <3>2 DEF Store
    <3>5. pc'[t] = IF Len(arg[t]) >= 2
                   THEN IF EnablesNotify(arg[t]) THEN "startLock" ELSE "stopLock"
                   ELSE AfterNotify(t)
      BY <3>2, <3>3 DEF Store, Goto, TypeOK
    <3>6. AfterNotify(t) \notin {"store", "startLock", "stopLock"}
      BY DEF AfterNotify
    <3>7. contest = "none" => \A u \in Threads \ {t} : ~Requesting(u)'
      BY <2>3, <2>4, <2>6 DEF Alone, Writing
    <3>8. Len(arg[t]) >= 2 => Requesting(t)' /\ pc'[t] # "store"
      BY <3>1, <3>5 DEF Requesting
    <3>9. ~(Len(arg[t]) >= 2) => ~Requesting(t)'
      BY <3>5, <3>6 DEF Requesting
    <3> DEFINE asked == EnablesNotify(arg[t])
    <3>10. EnablesNotify(cccdRequest)' <=> asked
      BY <3>4 DEF EnablesNotify
    <3>11. Len(arg[t]) >= 2 => (pc'[t] = "startLock" <=> asked)
      BY <3>5
    <3> HIDE DEF asked
    <3> QED
      BY <3>3, <3>4, <3>7, <3>8, <3>9, <3>10, <3>11 DEF CccdInv
  <2>7. CASE pc[t] \in {"startLock", "stopLock"} /\ op[t] \in DescOps
    <3>1. Requesting(t) /\ ~Requesting(t)' /\ cccdRequest' = cccdRequest
      BY <2>2, <2>7, RequestingFrame DEF Requesting
    <3>2. contest' = contest /\ notifying' = (pc[t] = "startLock")
      <4>1. StartLock(t) \/ StopLock(t)
        BY <2>7 DEF Call, Step, SetValueSteps, SetLock, SetReadNotifying, SetLockCallback,
           SetCallback, SetEmit, Get, NotifySteps, StartEmit, StartLockCallback,
           StartCallback, StopEmit, HandlerSteps, ReadLock, ReadCallback, ReadStored,
           WriteLock, WriteCallback, WriteStore, InstallCallback, DescriptorSteps, StoreLock,
           Store, PublishRead, PublishEmit, At
      <4>2. contest' = contest
        BY <2>7, <4>1 DEF StartLock, StopLock, AfterSwitch
      <4>3. notifying' = (pc[t] = "startLock")
        BY <4>1 DEF StartLock, StopLock, At, TypeOK
      <4> QED
        BY <4>2, <4>3
    <3>3. contest = "none" => \A u \in Threads \ {t} : ~Requesting(u)'
      BY <2>3, <2>4, <3>1 DEF Alone
    <3>4. EnablesNotify(cccdRequest)' <=> EnablesNotify(cccdRequest)
      BY <3>1 DEF EnablesNotify
    <3>5. contest = "none" => (pc[t] = "startLock" <=> EnablesNotify(cccdRequest))
      BY <2>7, <3>1 DEF CccdInv
    <3> QED
      BY <3>1, <3>2, <3>3, <3>4, <3>5 DEF CccdInv
  \* startNotify or stopNotify beside the CCCD
  <2>8. CASE pc[t] \in {"startLock", "stopLock"} /\ op[t] \notin DescOps
    <3>1. contest' # "none" /\ cccdRequest' = cccdRequest
      BY <2>2, <2>8 DEF Call, Step, SetValueSteps, SetLock, SetReadNotifying, SetLockCallback,
         SetCallback, SetEmit, Get, NotifySteps, StartLock, StopLock, StartEmit,
         StartLockCallback, StartCallback, StopEmit, HandlerSteps, ReadLock, ReadCallback,
         ReadStored, WriteLock, WriteCallback, WriteStore, InstallCallback, DescriptorSteps,
         StoreLock, Store, PublishRead, PublishEmit, At, AfterSwitch
    <3> QED
      BY <3>1 DEF CccdInv
  <2>9. CASE pc[t] \notin {"storeLock", "store", "startLock", "stopLock"}
    <3>1. UNCHANGED <<notifying, cccdRequest>> /\ ~Requesting(t) /\ ~Requesting(t)'
      BY <2>2, <2>9, RequestingFrame DEF Requesting
    <3>2. contest' = "none" => contest = "none"
      BY <2>9, WritingFrame
    <3>3. EnablesNotify(cccdRequest)' <=> EnablesNotify(cccdRequest)
      BY <3>1 DEF EnablesNotify
    <3> QED
      BY <2>3, <3>1, <3>2, <3>3 DEF CccdInv
  <2> QED
    BY <2>5, <2>6, <2>7, <2>8, <2>9
<1>3. CccdInv => CccdControlsNotify
  <2> SUFFICES ASSUME CccdInv, Quiescent, contest = "none", Len(cccdRequest) >= 2
               PROVE  notifying <=> cccdRequest[1] \in {1, 2, 3}
    BY DEF CccdControlsNotify
  <2>1. notifying <=> EnablesNotify(cccdRequest)
    BY DEF CccdInv, Quiescent, Requesting
  <2>2. cccdRequest \in DescWrites
    BY DEF CccdInv
  <2>3. cccdRequest[1] \in 0..3
    <3>1. cccdRequest \in Seq(Byte)
      BY <2>2, WritesAssumption
    <3>2. Len(cccdRequest) >= 1
      BY <3>1
    <3> QED
      BY <2>2, <3>2
  <2> QED
    BY <2>1, <2>3 DEF EnablesNotify
<1> QED
  BY <1>1, <1>2, <1>3, TypeCorrect, OpInvariant, AloneInvariant, PTL DEF Spec

-----------------------------------------------------------------------------
\* A value written over D-Bus keeps the bytes before its first zero: one at most,
\* unless both bytes of the CCCD are set.
Curtailed(b) == Len(b) <= 1 \/ b[1] = 0 \/ b[2] = 0

LEMMA CStringOfCurtailed ==
    ASSUME NEW b \in Seq(Byte), Curtailed(b) PROVE Len(CString(b)) <= 1
<1> DEFINE prefixes == {n \in 1..Len(b) : \A i \in 1..n : b[i] # 0}
<1>1. prefixes \subseteq {1}
  <2> SUFFICES ASSUME NEW n \in prefixes, n # 1 PROVE FALSE
    OBVIOUS
  <2>1. n \in Nat /\ n >= 2 /\ n <= Len(b) /\ Len(b) \in Nat
    OBVIOUS
  <2>2. b[1] # 0 /\ b[2] # 0
    BY <2>1
  <2> QED
    BY <2>1, <2>2 DEF Curtailed
<1>2. IsFiniteSet({1}) /\ Cardinality({1}) = 1
  BY FS_Singleton
<1>3. Cardinality(prefixes) \in Nat /\ Cardinality(prefixes) <= 1
  <2>1. IsFiniteSet(prefixes) /\ Cardinality(prefixes) <= Cardinality({1})
    BY <1>1, <1>2, FS_Subset
  <2> QED
    BY <1>2, <2>1, FS_CardinalityType
<1>4. CStringLength(b) \in Nat /\ CStringLength(b) <= 1
  BY <1>3 DEF CStringLength
<1> QED
  BY <1>4 DEF CString

\* A peer's write never gets as far as startNotify or stopNotify.
RemoteInv ==
    \A t \in Threads : op[t] = "descWriteValue" => arg[t] \in DescWrites /\ pc[t] \notin SwitchPCs

\* As long as no CCCD value has both bytes set (none that Bluetooth defines has), a
\* peer that writes it switches nothing, whatever the threads do beside it: the flag
\* changes in steps of startNotify, stopNotify and the application's setValue only.
THEOREM RemoteCccdSwitchesNothing ==
    ASSUME \A b \in DescWrites : Curtailed(b)
    PROVE  Spec => [][notifying' # notifying =>
                        \E t \in Threads : /\ op[t] \in {"startNotify", "stopNotify", "descSetValue"}
                                           /\ Step(t)]_vars
<1>1. Init => RemoteInv
  BY DEF Init, RemoteInv
<1>2. TypeOK /\ OpInv /\ RemoteInv /\ [Next]_vars => RemoteInv'
  <2> SUFFICES ASSUME TypeOK, OpInv, RemoteInv, [Next]_vars PROVE RemoteInv'
    OBVIOUS
  <2>0. CASE UNCHANGED vars
    BY <2>0 DEF RemoteInv, vars
  <2> SUFFICES ASSUME NEW t \in Threads, Call(t) \/ Step(t) PROVE RemoteInv'
    BY <2>0 DEF Next
  <2>1. ASSUME NEW u \in Threads, u # t, op'[u] = "descWriteValue"
        PROVE  arg'[u] \in DescWrites /\ pc'[u] \notin SwitchPCs
    <3>1. pc'[u] = pc[u] /\ op'[u] = op[u] /\ arg'[u] = arg[u]
      BY <2>1, OthersStay
    <3> QED
      BY <2>1, <3>1 DEF RemoteInv
  <2>2. ASSUME op'[t] = "descWriteValue"
        PROVE  arg'[t] \in DescWrites /\ pc'[t] \notin SwitchPCs
    <3>1. CASE Call(t)
      <4>1. PICK o \in Ops[t] : \E b \in Writes(o) :
               op'[t] = o /\ arg'[t] = b /\ pc'[t] = FirstStep(o)
        BY <3>1 DEF Call, Goto, TypeOK
      <4> QED
        BY <2>2, <4>1 DEF Writes, FirstStep, SwitchPCs
    <3>2. CASE Step(t)
      <4>1. op[t] = "descWriteValue" /\ arg'[t] = arg[t] /\ arg[t] \in DescWrites
            /\ pc[t] \notin SwitchPCs
        BY <2>2, <3>2, StepKeepsOp DEF RemoteInv
      <4>2. CASE SetValueSteps(t) \/ Get(t) \/ HandlerSteps(t)
        <5>1. pc'[t] \notin SwitchPCs
          BY <4>2 DEF SetValueSteps, SetLock, SetReadNotifying, SetLockCallback, SetCallback,
             SetEmit, Get, HandlerSteps, ReadLock, ReadCallback, ReadStored, WriteLock,
             WriteCallback, WriteStore, InstallCallback, Goto, Return, SwitchPCs, TypeOK
        <5> QED
          BY <4>1, <5>1
      <4>3. ~NotifySteps(t)
        BY <4>1 DEF NotifySteps, StartLock, StartEmit, StartLockCallback, StartCallback,
           StopLock, StopEmit, At, SwitchPCs
      <4>4. CASE StoreLock(t) \/ PublishRead(t) \/ PublishEmit(t)
        <5>1. pc'[t] \notin SwitchPCs
          BY <4>4 DEF StoreLock, PublishRead, PublishEmit, Goto, Return, SwitchPCs, TypeOK
        <5> QED
          BY <4>1, <5>1
      <4>5. CASE Store(t)
        <5>1. Stored(t) = CString(arg[t]) /\ arg[t] \in Seq(Byte) /\ Curtailed(arg[t])
          BY <4>1, WritesAssumption DEF Stored
        <5>2. ~(Len(Stored(t)) >= 2)
          <6>1. Len(CString(arg[t])) <= 1 /\ Len(CString(arg[t])) \in Nat
            BY <5>1, CStringOfCurtailed, CStringType
          <6> QED
            BY <5>1, <6>1
        <5>3. pc'[t] = AfterNotify(t)
          BY <4>5, <5>2 DEF Store, Goto, TypeOK
        <5> QED
          BY <4>1, <5>3 DEF AfterNotify, SwitchPCs
      <4> QED
        BY <3>2, <4>2, <4>3, <4>4, <4>5 DEF Step, DescriptorSteps
    <3> QED
      BY <3>1, <3>2
  <2> QED
    BY <2>1, <2>2 DEF RemoteInv
<1>3. TypeOK /\ OpInv /\ RemoteInv /\ [Next]_vars
        => [notifying' # notifying =>
              \E t \in Threads : /\ op[t] \in {"startNotify", "stopNotify", "descSetValue"}
                                 /\ Step(t)]_vars
  <2> SUFFICES ASSUME TypeOK, OpInv, RemoteInv, Next, notifying' # notifying
               PROVE  \E t \in Threads : /\ op[t] \in {"startNotify", "stopNotify", "descSetValue"}
                                         /\ Step(t)
    OBVIOUS
  <2>1. PICK t \in Threads : Call(t) \/ Step(t)
    BY DEF Next
  <2>2. pc[t] \in {"startLock", "stopLock"}
    BY <2>1, DescriptorFrame
  <2>3. Step(t)
    BY <2>1, <2>2 DEF Call, At
  <2>4. op[t] \in {"startNotify", "stopNotify", "descSetValue"}
    BY <2>2 DEF OpInv, RemoteInv, SwitchPCs, DescWriteOps
  <2> QED
    BY <2>3, <2>4
<1> QED
  BY <1>1, <1>2, <1>3, TypeCorrect, OpInvariant, PTL DEF Spec
=============================================================================
