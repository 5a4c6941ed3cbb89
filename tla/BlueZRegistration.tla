-------------------------- MODULE BlueZRegistration --------------------------
(***************************************************************************)
(* A GattApplication registers with bluetoothd and unregisters: blocking   *)
(* calls with a timeout, while BlueZ calls the application back for its    *)
(* objects before it answers.                                              *)
(* Code: src/GattApplication.cpp (registerWithBlueZ, unregisterFromBlueZ,  *)
(* setupDBusInterfaces, handleGetManagedObjects), DBusConnection::         *)
(* callMethod.  The bus and bluetoothd are external.                       *)
(***************************************************************************)
EXTENDS Integers, SequencesExt

CONSTANTS
    HasMainLoop,    \* a thread dispatches the connection's main context
    SendsBareDict,  \* GDBus may send a reply that is no tuple
    MaxCalls,       \* bound: calls sent to BlueZ
    MaxTimeouts,    \* bound: calls, of either side, that time out
    MaxRestarts     \* bound: restarts of bluetoothd

ASSUME MainLoopAssumption == HasMainLoop \in BOOLEAN /\ SendsBareDict \in BOOLEAN
ASSUME BoundsAssumption == MaxCalls \in Nat /\ MaxTimeouts \in Nat /\ MaxRestarts \in Nat

VARIABLES
    registered,     \* GattApplication::registered
    exported,       \* the application object is registered on D-Bus
    appPc,          \* where the application's thread is
    serial,         \* serial of the latest call to BlueZ
    outcome,        \* how that call ended
    era,            \* history: the restarts of bluetoothd when it was sent
    requests,       \* calls on their way to BlueZ, in order
    replies,        \* replies on their way back, in order
    bluez,          \* what BlueZ knows of the application
    client,         \* the RegisterApplication call BlueZ is serving
    query,          \* BlueZ's GetManagedObjects call
    timeouts, restarts  \* counters of the bounds

app == <<registered, exported, appPc, serial, outcome, era>>
vars == <<app, requests, replies, bluez, client, query, timeouts, restarts>>

Call(kind, n) == [kind |-> kind, serial |-> n]
Reply(n, ok) == [serial |-> n, ok |-> ok]

-----------------------------------------------------------------------------
\* The application

\* callMethod: sends, and blocks until the reply or the timeout
Send(kind, pc) ==
    /\ serial < MaxCalls
    /\ serial' = serial + 1
    /\ requests' = Append(requests, Call(kind, serial + 1))
    /\ appPc' = pc
    /\ era' = restarts

\* addInterface refuses an object that is on the bus already, so a second
\* attempt fails there, whatever became of the first.
CanSetUp == ~exported

\* Faulty variant: the flag is not looked at.
RegisterAgain ==
    /\ appPc = "idle"
    /\ CanSetUp
    /\ exported' = TRUE
    /\ Send("RegisterApplication", "waitRegister")
    /\ UNCHANGED <<registered, outcome, replies, bluez, client, query, timeouts, restarts>>

\* When registered is set it returns true at once.
RegisterWithBlueZ ==
    /\ appPc = "idle" /\ ~registered
    /\ CanSetUp
    /\ exported' = TRUE
    /\ Send("RegisterApplication", "waitRegister")
    /\ UNCHANGED <<registered, outcome, replies, bluez, client, query, timeouts, restarts>>

\* Faulty variant: an object on the bus is taken for a registered application.
SetupDoneBefore ==
    /\ appPc = "idle" /\ ~registered
    /\ registered' = exported
    /\ outcome' = "failed"
    /\ UNCHANGED <<exported, appPc, serial, era, requests, replies, bluez, client, query,
                   timeouts, restarts>>

\* setupDBusInterfaces fails: already exported, or registerObject refused
SetupRefused ==
    /\ appPc = "idle" /\ ~registered
    /\ outcome' = "failed"
    /\ UNCHANGED <<registered, exported, appPc, serial, era, requests, replies, bluez, client, query,
                   timeouts, restarts>>

\* When registered is not set it returns true at once.
UnregisterFromBlueZ ==
    /\ appPc = "idle" /\ registered
    /\ Send("UnregisterApplication", "waitUnregister")
    /\ UNCHANGED <<registered, exported, outcome, replies, bluez, client, query,
                   timeouts, restarts>>

\* callMethod returns at once when the connection is gone; setupDBusInterfaces did
\* not find it so before.
CallNotSent ==
    /\ appPc = "idle"
    /\ \/ ~registered /\ CanSetUp /\ exported' = TRUE
       \/ registered /\ UNCHANGED exported
    /\ outcome' = "failed"
    /\ UNCHANGED <<registered, appPc, serial, era, requests, replies, bluez, client, query,
                   timeouts, restarts>>

\* DBusObject::unregisterObject takes the application object off the bus
UnregisterObject ==
    /\ appPc = "idle" /\ exported
    /\ exported' = FALSE
    /\ UNCHANGED <<registered, appPc, serial, era, outcome, requests, replies, bluez, client, query,
                   timeouts, restarts>>

\* Faulty variant: success always means registered.
AfterReplySet(ok) == ok \/ registered

\* The flag follows a successful call only.
AfterReply(ok) == IF ok THEN appPc = "waitRegister" ELSE registered

\* Faulty variant: any reply wakes the call that waits.
AnyReplyArrives ==
    /\ replies # <<>>
    /\ replies' = Tail(replies)
    /\ IF appPc # "idle"
       THEN /\ registered' = AfterReply(Head(replies).ok)
            /\ outcome' = IF Head(replies).ok THEN "ok" ELSE "failed"
            /\ appPc' = "idle"
       ELSE UNCHANGED <<registered, outcome, appPc>>
    /\ UNCHANGED <<exported, serial, era, requests, bluez, client, query, timeouts, restarts>>

\* A reply wakes the call it belongs to; the reply of a call that timed out is
\* dropped.
ReplyArrives ==
    /\ replies # <<>>
    /\ replies' = Tail(replies)
    /\ IF appPc # "idle" /\ Head(replies).serial = serial
       THEN /\ registered' = AfterReply(Head(replies).ok)
            /\ outcome' = IF Head(replies).ok THEN "ok" ELSE "failed"
            /\ appPc' = "idle"
       ELSE UNCHANGED <<registered, outcome, appPc>>
    /\ UNCHANGED <<exported, serial, era, requests, bluez, client, query, timeouts, restarts>>

\* call_sync gives up: no result, false
CallTimesOut ==
    /\ appPc # "idle" /\ timeouts < MaxTimeouts
    /\ timeouts' = timeouts + 1
    /\ outcome' = "timeout"
    /\ appPc' = "idle"
    /\ UNCHANGED <<registered, exported, serial, era, requests, replies, bluez, client, query, restarts>>

\* What becomes of the call in handleGetManagedObjects: an error reply, when the
\* dictionary cannot be made; or the dictionary, which is no tuple: GDBus, told of
\* no out argument, may send it or may send nothing.
Handled ==
    query' \in {"refused", "unanswered"} \cup (IF SendsBareDict THEN {"answered"} ELSE {})

\* GetManagedObjects reaches the process: GDBus refuses it for an object that is
\* not on the bus, and hands it to the main context otherwise.
Dispatch ==
    /\ query = "sent"
    /\ IF exported THEN HasMainLoop /\ Handled ELSE query' = "refused"
    /\ UNCHANGED <<app, requests, replies, bluez, client, timeouts, restarts>>

-----------------------------------------------------------------------------
\* bluetoothd

BlueZTakesRegister ==
    /\ requests # <<>> /\ Head(requests).kind = "RegisterApplication"
    /\ requests' = Tail(requests)
    /\ IF bluez = "none"
       THEN /\ bluez' = "querying" /\ client' = Head(requests).serial /\ query' = "sent"
            /\ UNCHANGED replies
       ELSE /\ replies' = Append(replies, Reply(Head(requests).serial, FALSE))
            /\ UNCHANGED <<bluez, client, query>>
    /\ UNCHANGED <<app, timeouts, restarts>>

BlueZTakesUnregister ==
    /\ requests # <<>> /\ Head(requests).kind = "UnregisterApplication"
    /\ requests' = Tail(requests)
    /\ bluez' = "none" /\ query' = "none"
    /\ replies' = Append(replies, Reply(Head(requests).serial, bluez # "none"))
    /\ UNCHANGED <<app, client, timeouts, restarts>>

\* the objects are there, or the call for them failed
Conclude(ok) ==
    /\ bluez' = IF ok THEN "registered" ELSE "none"
    /\ replies' = Append(replies, Reply(client, ok))
    /\ query' = "none"

BlueZConcludes ==
    /\ query \in {"answered", "refused"}
    /\ Conclude(query = "answered")
    /\ UNCHANGED <<app, requests, client, timeouts, restarts>>

QueryTimesOut ==
    /\ query # "none" /\ timeouts < MaxTimeouts
    /\ timeouts' = timeouts + 1
    /\ Conclude(FALSE)
    /\ UNCHANGED <<app, requests, client, restarts>>

\* The bus answers every open call with an error.
BlueZRestarts ==
    /\ restarts < MaxRestarts
    /\ restarts' = restarts + 1
    /\ bluez' = "none" /\ query' = "none" /\ requests' = <<>>
    /\ LET open == (IF bluez = "querying" THEN <<client>> ELSE <<>>)
                   \o [n \in DOMAIN requests |-> requests[n].serial]
       IN  replies' = replies \o [n \in DOMAIN open |-> Reply(open[n], FALSE)]
    /\ UNCHANGED <<app, client, timeouts>>

Init ==
    /\ registered = FALSE /\ exported = FALSE
    /\ appPc = "idle" /\ serial = 0 /\ outcome = "none" /\ era = 0
    /\ requests = <<>> /\ replies = <<>>
    /\ bluez = "none" /\ client = 0 /\ query = "none"
    /\ timeouts = 0 /\ restarts = 0

Answers == ReplyArrives \/ Dispatch \/ BlueZTakesRegister \/ BlueZTakesUnregister \/ BlueZConcludes

Next ==
    \/ RegisterWithBlueZ \/ SetupRefused \/ CallNotSent
    \/ UnregisterFromBlueZ \/ UnregisterObject
    \/ Answers
    \/ CallTimesOut \/ QueryTimesOut \/ BlueZRestarts

Spec == Init /\ [][Next]_vars
\* The bus delivers and BlueZ answers, each as soon as it can.
Fairness ==
    /\ WF_vars(ReplyArrives) /\ WF_vars(Dispatch)
    /\ WF_vars(BlueZTakesRegister \/ BlueZTakesUnregister) /\ WF_vars(BlueZConcludes)
FairSpec == Spec /\ Fairness

-----------------------------------------------------------------------------
Serials == 0..MaxCalls

\* The types of the variables, and what a call that waits found in the flag.
TypeOK ==
    /\ registered \in BOOLEAN /\ exported \in BOOLEAN
    /\ appPc \in {"idle", "waitRegister", "waitUnregister"}
    /\ serial \in Serials /\ client \in Serials
    /\ outcome \in {"none", "ok", "failed", "timeout"}
    /\ requests \in Seq([kind : {"RegisterApplication", "UnregisterApplication"}, serial : Serials])
    /\ replies \in Seq([serial : Serials, ok : BOOLEAN])
    /\ bluez \in {"none", "querying", "registered"}
    /\ query \in {"none", "sent", "answered", "refused", "unanswered"}
    /\ timeouts \in 0..MaxTimeouts /\ restarts \in 0..MaxRestarts /\ era \in 0..restarts
    /\ appPc = "waitRegister" => ~registered
    /\ appPc = "waitUnregister" => registered

\* A call that succeeded leaves both sides of one mind, also when earlier calls
\* timed out and were carried out late, or answered late, and when bluetoothd
\* restarted before it was sent: isRegistered() is what bluetoothd would say.
OkMeansAgreed ==
    restarts = era /\ appPc = "idle" /\ outcome = "ok" => (registered <=> bluez = "registered")

\* Without faults neither side ever believes what the other does not, whichever
\* step of the registration fails.
Undisturbed == timeouts = 0 /\ restarts = 0
AgreedWhenUndisturbed ==
    Undisturbed /\ appPc = "idle" => (registered <=> bluez = "registered")

\* registerWithBlueZ is to succeed once it has sent its call, unless a call times
\* out or bluetoothd restarts.  It does not: the callback for the objects would
\* have to be answered while the caller waits.
RegisterSucceeds ==
    appPc = "waitRegister" /\ Undisturbed ~> registered \/ ~Undisturbed

\* The calls that BlueZ has not answered, and the answer on its way to the caller
\* that waits.
OpenCalls ==
    {requests[n].serial : n \in DOMAIN requests} \cup (IF bluez = "querying" THEN {client} ELSE {})
Answered(ok) == \E n \in DOMAIN replies : replies[n] = Reply(serial, ok)
Verdict ==
    CASE appPc # "idle" /\ Answered(TRUE)  -> "ok"
      [] appPc # "idle" /\ Answered(FALSE) -> "refused"
      [] OTHER -> "none"

Caller == INSTANCE RegistrationSpec WITH
    known <- bluez = "registered", latest <- serial, waiting <- appPc # "idle",
    open <- OpenCalls, verdict <- Verdict

\* However messages cross and calls time out, the caller sees what RegistrationSpec
\* promises: each call takes effect at most once and after all earlier ones, its
\* result is its own, and isRegistered() follows granted calls only.
ImplementsRegistrationSpec == Caller!Spec
=============================================================================
