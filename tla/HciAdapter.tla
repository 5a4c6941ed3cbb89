----------------------------- MODULE HciAdapter -----------------------------
(***************************************************************************)
(* HciAdapter and its HciSocket: the thread that owns the adapter starts,  *)
(* commands and stops it while the event thread reads the HCI socket.      *)
(* Code: src/HciAdapter.cpp, src/HciSocket.cpp, the requests of            *)
(* src/Mgmt.cpp.  The kernel's queue of events is external.                *)
(***************************************************************************)
EXTENDS Integers, Sequences

CONSTANTS
    Commands,       \* the setters the owner calls
    OwnerStopsSocket, \* the owner may call getSocket().stop() too
    MaxEvents       \* bound: events in the kernel's queue

\* The size of the parameters each setter lays out behind the header.
ParameterSizes ==
    [setAdapterName |-> 248, setAdvertisingEnabled |-> 1, setPowered |-> 1, setLEEnabled |-> 1,
     mgmtSetName |-> 249 + 11, mgmtSetDiscoverable |-> 3, mgmtSetState |-> 1]

ASSUME CommandsAssumption == Commands \subseteq DOMAIN ParameterSizes
ASSUME BoundAssumption == OwnerStopsSocket \in BOOLEAN /\ MaxEvents \in Nat

HeaderSize == 4     \* type, 16-bit opcode, plen, packed
Plen(c) == ParameterSizes[c] % 2^8

VARIABLES
    connected,      \* HciSocket::fdSocket >= 0
    socketRunning,  \* HciSocket::isRunning
    running,        \* HciAdapter::isRunning
    thread,         \* HciAdapter::eventThread: "none", "live" or "done" (not joined)
    eventPc,        \* where the event thread is
    ownerPc,        \* where the owner is in initialize or stop
    queue,          \* external: the events the kernel holds, "short" of a header or "whole"
    deviceGone,     \* external: the controller is gone, recv fails
    written         \* the last command written: [command, bytes]

socket == <<connected, socketRunning>>
vars == <<connected, socketRunning, running, thread, eventPc, ownerPc, queue, deviceGone, written>>

Joinable == thread # "none"

-----------------------------------------------------------------------------
\* The owner

\* initialize; HciSocket::connect first disconnects.  The owner calls it on an
\* adapter it has not started or has stopped: assigning to a joinable
\* std::thread ends the process.
Initialize ==
    /\ ownerPc = "idle" /\ ~Joinable
    /\ connected' = FALSE
    /\ ownerPc' = "connect"
    /\ UNCHANGED <<socketRunning, running, thread, eventPc, queue, deviceGone, written>>

\* socket, bind and setsockopt: any may fail, and leaves no descriptor
OpenSocket ==
    /\ ownerPc = "connect"
    /\ \/ connected' = TRUE /\ ownerPc' = "start" /\ queue' = <<>> /\ deviceGone' = FALSE
       \/ ownerPc' = "idle" /\ UNCHANGED <<connected, queue, deviceGone>>
    /\ UNCHANGED <<socketRunning, running, thread, eventPc, written>>

StartThread ==
    /\ ownerPc = "start"
    /\ running' = TRUE
    /\ thread' = "live" /\ eventPc' = "check"
    /\ ownerPc' = "idle"
    /\ UNCHANGED <<socket, queue, deviceGone, written>>

\* Faulty variant: the thread is not joined.
StopNoJoin ==
    /\ ownerPc = "idle"
    /\ running' = FALSE
    /\ ownerPc' = "close"
    /\ UNCHANGED <<socket, thread, eventPc, queue, deviceGone, written>>

\* Faulty variant: joins whether there is a thread or not.
StopJoinsAlways ==
    /\ ownerPc = "idle"
    /\ running' = FALSE
    /\ ownerPc' = "join"
    /\ UNCHANGED <<socket, thread, eventPc, queue, deviceGone, written>>

\* stop, also run by the destructor: the flag, the join, the descriptor
Stop ==
    /\ ownerPc = "idle"
    /\ running' = FALSE
    /\ ownerPc' = IF Joinable THEN "join" ELSE "close"
    /\ UNCHANGED <<socket, thread, eventPc, queue, deviceGone, written>>

\* Faulty variant: does not wait for the thread.
JoinDetaches ==
    /\ ownerPc = "join"
    /\ ownerPc' = "close"
    /\ UNCHANGED <<socket, running, thread, eventPc, queue, deviceGone, written>>

Join ==
    /\ ownerPc = "join" /\ thread = "done"
    /\ thread' = "none"
    /\ ownerPc' = "close"
    /\ UNCHANGED <<socket, running, eventPc, queue, deviceGone, written>>

CloseSocket ==
    /\ ownerPc = "close"
    /\ connected' = FALSE
    /\ ownerPc' = "idle"
    /\ UNCHANGED <<socketRunning, running, thread, eventPc, queue, deviceGone, written>>

\* HciSocket::stop, reachable through getSocket(); nothing sets the flag again
StopSocket ==
    /\ OwnerStopsSocket
    /\ ownerPc = "idle" /\ socketRunning
    /\ socketRunning' = FALSE
    /\ UNCHANGED <<connected, running, thread, eventPc, ownerPc, queue, deviceGone, written>>

\* A setter: the request, whose 8-bit plen decides how much of it is written.
\* On a closed descriptor write fails and the setter returns false.
SendCommand(c) ==
    /\ ownerPc = "idle" /\ connected
    /\ written' = [command |-> c, bytes |-> HeaderSize + Plen(c)]
    /\ UNCHANGED <<socket, running, thread, eventPc, ownerPc, queue, deviceGone>>

-----------------------------------------------------------------------------
\* The event thread: processEvents, read and waitForDataOrShutdown

CheckLoop ==
    /\ thread = "live" /\ eventPc = "check"
    /\ IF running /\ connected
       THEN eventPc' = "select" /\ UNCHANGED thread
       ELSE thread' = "done" /\ UNCHANGED eventPc
    /\ UNCHANGED <<socket, running, ownerPc, queue, deviceGone, written>>

\* Faulty variant: waits for data only.
SelectForData ==
    /\ thread = "live" /\ eventPc = "select"
    /\ queue # <<>> \/ deviceGone
    /\ eventPc' = "recv"
    /\ UNCHANGED <<socket, running, thread, ownerPc, queue, deviceGone, written>>

\* select wakes for data or an error; while it times out, only
\* HciSocket::isRunning is looked at
Select ==
    /\ thread = "live" /\ eventPc = "select"
    /\ \/ ~socketRunning /\ eventPc' = "check"
       \/ socketRunning /\ (queue # <<>> \/ deviceGone) /\ eventPc' = "recv"
    /\ UNCHANGED <<socket, running, thread, ownerPc, queue, deviceGone, written>>

\* Faulty variant: every event is taken for a short one.
ReceiveAndDrop ==
    /\ thread = "live" /\ eventPc = "recv"
    /\ queue' = IF queue # <<>> THEN Tail(queue) ELSE queue
    /\ eventPc' = "check"
    /\ UNCHANGED <<socket, running, thread, ownerPc, deviceGone, written>>

\* An event shorter than its header is dropped; when the device is gone there may be
\* none.
Receive ==
    /\ thread = "live" /\ eventPc = "recv"
    /\ \/ /\ queue # <<>> /\ queue' = Tail(queue)
          /\ eventPc' = IF Head(queue) = "whole" THEN "handle" ELSE "check"
       \/ queue = <<>> /\ eventPc' = "check" /\ UNCHANGED queue
    /\ UNCHANGED <<socket, running, thread, ownerPc, deviceGone, written>>

\* the switch on the event code only logs
HandleEvent ==
    /\ thread = "live" /\ eventPc = "handle"
    /\ eventPc' = "check"
    /\ UNCHANGED <<socket, running, thread, ownerPc, queue, deviceGone, written>>

-----------------------------------------------------------------------------
\* The kernel

EventArrives ==
    /\ connected /\ ~deviceGone /\ Len(queue) < MaxEvents
    /\ \E kind \in {"whole", "short"} : queue' = Append(queue, kind)
    /\ UNCHANGED <<socket, running, thread, eventPc, ownerPc, deviceGone, written>>

DeviceGone ==
    /\ connected /\ ~deviceGone
    /\ deviceGone' = TRUE
    /\ UNCHANGED <<socket, running, thread, eventPc, ownerPc, queue, written>>

Nothing == [command |-> "none", bytes |-> 0]

Init ==
    /\ connected = FALSE /\ socketRunning = TRUE
    /\ running = FALSE
    /\ thread = "none" /\ eventPc = "check"
    /\ ownerPc = "idle"
    /\ queue = <<>> /\ deviceGone = FALSE
    /\ written = Nothing

OwnerGoesOn == OpenSocket \/ StartThread \/ Join \/ CloseSocket
EventThread == CheckLoop \/ Select \/ Receive \/ HandleEvent

Next ==
    \/ Initialize \/ Stop \/ StopSocket \/ OwnerGoesOn
    \/ \E c \in Commands : SendCommand(c)
    \/ EventThread
    \/ EventArrives \/ DeviceGone

Spec == Init /\ [][Next]_vars
\* Both threads run; whether and when the owner calls, or the controller sends,
\* is up to them.
FairSpec == Spec /\ WF_vars(OwnerGoesOn) /\ WF_vars(EventThread)

-----------------------------------------------------------------------------
\* The types of the variables; the owner joins only a thread that can be joined.
TypeOK ==
    /\ connected \in BOOLEAN /\ socketRunning \in BOOLEAN /\ running \in BOOLEAN
    /\ thread \in {"none", "live", "done"}
    /\ eventPc \in {"check", "select", "recv", "handle"}
    /\ ownerPc \in {"idle", "connect", "start", "join", "close"}
    /\ queue \in Seq({"whole", "short"}) /\ Len(queue) <= MaxEvents
    /\ deviceGone \in BOOLEAN
    /\ written.command \in Commands \cup {"none"}
    /\ ownerPc = "join" => Joinable

\* The descriptor is not closed under the event thread: whenever that thread is
\* about to pass fdSocket to select or recv, it is open.
NoUseAfterClose ==
    thread = "live" /\ eventPc \in {"select", "recv"} => connected

\* No event thread outlives stop: with stop over, nothing reads the socket until
\* initialize starts a thread anew.
StoppedMeansNoThread ==
    ~running /\ ownerPc = "idle" => thread = "none"

\* What is written of a command is its header and all of its parameters.
CommandsWhole ==
    written # Nothing => written.bytes = HeaderSize + ParameterSizes[written.command]

\* stop returns, whatever the controller does.
StopTerminates == ownerPc = "join" ~> ownerPc = "idle"

\* stop returns when the socket was stopped first.
StopAfterSocketStop == ownerPc = "join" /\ ~socketRunning ~> ownerPc = "idle"

\* While the adapter runs, the events the controller sent get handled, those that
\* are dropped as too short notwithstanding.
Listening == running /\ socketRunning
EventsHandled ==
    (\E n \in DOMAIN queue : queue[n] = "whole") /\ thread = "live" /\ Listening
        ~> eventPc = "handle" \/ ~Listening
=============================================================================
