-------------------------- MODULE HciAdapterProofs --------------------------
(***************************************************************************)
(* What holds of HciAdapter for any commands and any number of events.     *)
(***************************************************************************)
EXTENDS HciAdapter, TLAPS

USE CommandsAssumption, BoundAssumption

\* The kernel's queue and the rest of TypeOK.
Kinds == {"whole", "short"}
QueueOK == queue \in Seq(Kinds) /\ Len(queue) <= MaxEvents
ScalarsOK ==
    /\ connected \in BOOLEAN /\ socketRunning \in BOOLEAN /\ running \in BOOLEAN
    /\ thread \in {"none", "live", "done"}
    /\ eventPc \in {"check", "select", "recv", "handle"}
    /\ ownerPc \in {"idle", "connect", "start", "join", "close"}
    /\ deviceGone \in BOOLEAN
    /\ written.command \in Commands \cup {"none"}
    /\ ownerPc = "join" => Joinable

LEMMA TypeParts == TypeOK <=> QueueOK /\ ScalarsOK
  BY Zenon DEF TypeOK, QueueOK, ScalarsOK, Kinds

\* The queue of the kernel never holds more than the bound.
LEMMA QueueStep == QueueOK /\ [Next]_vars => QueueOK'
<1> SUFFICES ASSUME QueueOK, [Next]_vars PROVE QueueOK'
  OBVIOUS
<1> DEFINE empty == <<>>
<1>e. empty \in Seq(Kinds) /\ Len(empty) = 0
  OBVIOUS
<1>1. CASE queue' = empty
  BY <1>1, <1>e DEF QueueOK
<1> HIDE DEF empty
<1>2. CASE UNCHANGED queue
  BY <1>2 DEF QueueOK
<1>3. CASE EventArrives
  <2>1. PICK kind \in Kinds : queue' = Append(queue, kind)
    BY <1>3 DEF EventArrives, Kinds
  <2>2. Len(queue) < MaxEvents
    BY <1>3 DEF EventArrives
  <2> QED
    BY <2>1, <2>2 DEF QueueOK
<1>4. CASE queue # <<>> /\ queue' = Tail(queue)
  BY <1>4 DEF QueueOK
<1> QED
  BY <1>1, <1>2, <1>3, <1>4
     DEF empty, vars, Next, Initialize, Stop, StopSocket, OwnerGoesOn, EventThread, SendCommand,
         DeviceGone, OpenSocket, StartThread, Join, CloseSocket, CheckLoop, Select, Receive,
         HandleEvent

\* Every variable keeps its type, and the owner joins only a thread there is.
THEOREM TypeCorrect == Spec => []TypeOK
<1>1. Init => QueueOK /\ ScalarsOK
  <2> SUFFICES ASSUME Init PROVE QueueOK /\ ScalarsOK
    OBVIOUS
  <2>1. written.command = "none"
    BY DEF Init, Nothing
  <2>2. QueueOK
    BY DEF Init, QueueOK
  <2>3. ownerPc # "join"
    BY DEF Init
  <2> QED
    BY <2>1, <2>2, <2>3, Zenon DEF Init, ScalarsOK
<1>2. ScalarsOK /\ [Next]_vars => ScalarsOK'
  <2> SUFFICES ASSUME ScalarsOK, [Next]_vars PROVE ScalarsOK'
    OBVIOUS
  <2> USE DEF ScalarsOK, socket, Joinable
  <2>0. CASE UNCHANGED vars
    BY <2>0 DEF vars
  <2>1. CASE Initialize \/ Stop \/ StopSocket
    BY <2>1 DEF Initialize, Stop, StopSocket
  <2>2. CASE OwnerGoesOn
    BY <2>2 DEF OwnerGoesOn, OpenSocket, StartThread, Join, CloseSocket
  <2>3. CASE \E c \in Commands : SendCommand(c)
    <3>1. written'.command \in Commands
      BY <2>3 DEF SendCommand
    <3> QED
      BY <2>3, <3>1 DEF SendCommand
  <2>4. CASE EventThread
    BY <2>4 DEF EventThread, CheckLoop, Select, Receive, HandleEvent
  <2>5. CASE EventArrives \/ DeviceGone
    BY <2>5 DEF EventArrives, DeviceGone
  <2> QED
    BY <2>0, <2>1, <2>2, <2>3, <2>4, <2>5 DEF Next
<1> QED
  BY <1>1, <1>2, QueueStep, TypeParts, PTL DEF Spec

\* The owner opens and closes the descriptor only while there is no event
\* thread, and a thread that is to end is one the owner waits for.
ThreadInv ==
    /\ ownerPc \in {"connect", "start", "close"} => thread = "none"
    /\ ownerPc = "start" \/ thread = "live" => connected
    /\ thread # "none" /\ ~running => ownerPc = "join"

LEMMA ThreadInvariant == Spec => []ThreadInv
<1>1. Init => ThreadInv
  BY DEF Init, ThreadInv
<1>2. TypeOK /\ ThreadInv /\ [Next]_vars => ThreadInv'
  <2> SUFFICES ASSUME TypeOK, ThreadInv, [Next]_vars PROVE ThreadInv'
    OBVIOUS
  <2> USE DEF TypeOK, ThreadInv, Joinable, socket
  <2>0. CASE UNCHANGED vars
    BY <2>0 DEF vars
  <2>1. CASE Initialize
    BY <2>1 DEF Initialize
  <2>2. CASE OpenSocket
    BY <2>2 DEF OpenSocket
  <2>3. CASE StartThread
    BY <2>3 DEF StartThread
  <2>4. CASE Stop
    BY <2>4 DEF Stop
  <2>5. CASE Join \/ CloseSocket
    BY <2>5 DEF Join, CloseSocket
  <2>6. CASE CheckLoop
    BY <2>6 DEF CheckLoop
  <2>7. CASE Select \/ Receive \/ HandleEvent
    BY <2>7 DEF Select, Receive, HandleEvent
  <2>8. CASE StopSocket \/ (\E c \in Commands : SendCommand(c)) \/ EventArrives \/ DeviceGone
    BY <2>8 DEF StopSocket, SendCommand, EventArrives, DeviceGone
  <2> QED
    BY <2>0, <2>1, <2>2, <2>3, <2>4, <2>5, <2>6, <2>7, <2>8
       DEF Next, OwnerGoesOn, EventThread
<1> QED
  BY <1>1, <1>2, TypeCorrect, PTL DEF Spec

\* The descriptor is never closed under the event thread: the join between the
\* flag and the close is what it takes.
THEOREM DescriptorStaysOpen == Spec => []NoUseAfterClose
<1>1. TypeOK /\ ThreadInv => NoUseAfterClose
  BY DEF TypeOK, ThreadInv, NoUseAfterClose
<1> QED
  BY <1>1, TypeCorrect, ThreadInvariant, PTL

\* No event thread outlives stop, so initialize never assigns to a thread that
\* still runs.
THEOREM StopEndsThread == Spec => []StoppedMeansNoThread
<1>1. TypeOK /\ ThreadInv => StoppedMeansNoThread
  BY DEF TypeOK, ThreadInv, StoppedMeansNoThread
<1> QED
  BY <1>1, TypeCorrect, ThreadInvariant, PTL

\* Of all setters exactly one is ever cut: setName of Mgmt, whose 260 bytes do not
\* fit the 8-bit length.  Every other is written whole, always.
THEOREM OnlySetNameCut ==
    Spec => [](written # Nothing =>
                 (written.bytes = HeaderSize + ParameterSizes[written.command]
                    <=> written.command # "mgmtSetName"))
<1> DEFINE Sent == written # Nothing =>
                      /\ written.command \in Commands
                      /\ written.bytes = HeaderSize + Plen(written.command)
<1>1. /\ \A c \in Commands \ {"mgmtSetName"} :
            ParameterSizes[c] \in 0..255 /\ Plen(c) = ParameterSizes[c]
      /\ ParameterSizes["mgmtSetName"] = 260 /\ Plen("mgmtSetName") = 4
  <2> DEFINE width == 2^8
  <2>1. width = 256
    OBVIOUS
  <2>2. \A c : Plen(c) = ParameterSizes[c] % width
    BY DEF Plen
  <2> HIDE DEF width
  <2>3. (\A n \in 0..255 : n % 256 = n) /\ 260 % 256 = 4
    OBVIOUS
  <2>4. \A c \in DOMAIN ParameterSizes \ {"mgmtSetName"} : ParameterSizes[c] \in 0..255
    BY DEF ParameterSizes
  <2>5. ParameterSizes["mgmtSetName"] = 260
    BY DEF ParameterSizes
  <2> QED
    BY <2>1, <2>2, <2>3, <2>4, <2>5
<1>2. Init => Sent
  BY DEF Init
<1>3. Sent /\ [Next]_vars => Sent'
  <2> SUFFICES ASSUME Sent, [Next]_vars PROVE Sent'
    OBVIOUS
  <2>1. ASSUME NEW c \in Commands, SendCommand(c) PROVE Sent'
    BY <2>1 DEF SendCommand
  <2>2. CASE UNCHANGED written
    BY <2>2 DEF Nothing
  <2> QED
    BY <2>1, <2>2
       DEF vars, Next, Initialize, Stop, StopSocket, OwnerGoesOn, EventThread, EventArrives,
           DeviceGone, OpenSocket, StartThread, Join, CloseSocket, CheckLoop, Select, Receive,
           HandleEvent
<1>4. Sent => (written # Nothing =>
                 (written.bytes = HeaderSize + ParameterSizes[written.command]
                    <=> written.command # "mgmtSetName"))
  BY <1>1 DEF HeaderSize
<1> QED
  BY <1>2, <1>3, <1>4, PTL DEF Spec

-----------------------------------------------------------------------------
\* stop waits for an event thread that waits for the controller.
StopWaits ==
    /\ ownerPc = "join" /\ thread = "live" /\ eventPc = "select"
    /\ socketRunning /\ queue = <<>> /\ ~deviceGone

\* There nothing the program does ever ends the wait: neither thread has a step to
\* take, and only an event or the loss of the device lets stop return.
THEOREM OnlyControllerEndsStop == Spec => [][StopWaits => EventArrives \/ DeviceGone]_vars
<1>1. TypeOK /\ [Next]_vars => [StopWaits => EventArrives \/ DeviceGone]_vars
  <2> SUFFICES ASSUME TypeOK, Next, StopWaits PROVE EventArrives \/ DeviceGone
    OBVIOUS
  <2>1. ~(Initialize \/ Stop \/ StopSocket \/ \E c \in Commands : SendCommand(c))
    BY DEF StopWaits, Initialize, Stop, StopSocket, SendCommand
  <2>2. ~OwnerGoesOn
    BY DEF StopWaits, OwnerGoesOn, OpenSocket, StartThread, Join, CloseSocket
  <2>3. ~EventThread
    BY DEF StopWaits, EventThread, CheckLoop, Select, Receive, HandleEvent, TypeOK
  <2> QED
    BY <2>1, <2>2, <2>3 DEF Next
<1> QED
  BY <1>1, TypeCorrect, PTL DEF Spec
=============================================================================
