----------------------- MODULE BlueZRegistrationProofs -----------------------
(***************************************************************************)
(* What holds of BlueZRegistration and of GattServer for any number of     *)
(* calls, timeouts, restarts and services.                                 *)
(***************************************************************************)
EXTENDS GattServer, TLAPS

USE MainLoopAssumption, BoundsAssumption

Requests == [kind : {"RegisterApplication", "UnregisterApplication"}, serial : Serials]
Replies == [serial : Serials, ok : BOOLEAN]

\* A reply and a request fit their queues.
LEMMA MessageTypes ==
    /\ \A n \in Serials, ok \in BOOLEAN : Reply(n, ok) \in Replies
    /\ \A n \in Serials, k \in {"RegisterApplication", "UnregisterApplication"} :
          Call(k, n) \in Requests
  BY DEF Reply, Call, Replies, Requests

\* TypeOK in two parts: the queues, and everything else.
QueuesOK == requests \in Seq(Requests) /\ replies \in Seq(Replies)
ScalarsOK ==
    /\ registered \in BOOLEAN /\ exported \in BOOLEAN
    /\ appPc \in {"idle", "waitRegister", "waitUnregister"}
    /\ serial \in Serials /\ client \in Serials
    /\ outcome \in {"none", "ok", "failed", "timeout"}
    /\ bluez \in {"none", "querying", "registered"}
    /\ query \in {"none", "sent", "answered", "refused", "unanswered"}
    /\ timeouts \in 0..MaxTimeouts /\ restarts \in 0..MaxRestarts /\ era \in 0..restarts
    /\ appPc = "waitRegister" => ~registered
    /\ appPc = "waitUnregister" => registered

LEMMA TypeParts == TypeOK <=> QueuesOK /\ ScalarsOK
  BY Zenon DEF TypeOK, QueuesOK, ScalarsOK, Requests, Replies

\* Every variable keeps its type.
THEOREM TypeCorrect == Spec => []TypeOK
<1>1. Init => QueuesOK /\ ScalarsOK
  <2>1. <<>> \in Seq(Requests) /\ <<>> \in Seq(Replies)
    OBVIOUS
  <2>2. Init => QueuesOK
    BY <2>1 DEF Init, QueuesOK
  <2>3. Init => serial \in Serials /\ client \in Serials
                /\ timeouts \in 0..MaxTimeouts /\ restarts \in 0..MaxRestarts /\ era \in 0..restarts
    BY DEF Init, Serials
  <2>4. Init => ScalarsOK
    BY <2>3, Zenon DEF Init, ScalarsOK
  <2> QED
    BY <2>2, <2>4
<1>2. QueuesOK /\ ScalarsOK /\ [Next]_vars => (QueuesOK /\ ScalarsOK)'
  <2> SUFFICES ASSUME QueuesOK, ScalarsOK, [Next]_vars PROVE QueuesOK' /\ ScalarsOK'
    OBVIOUS
  <2>a. requests \in Seq(Requests) /\ replies \in Seq(Replies)
    BY DEF QueuesOK
  <2>0. CASE UNCHANGED vars
    BY <2>0 DEF QueuesOK, ScalarsOK, vars, app
  <2>1. ASSUME NEW k \in {"RegisterApplication", "UnregisterApplication"}, NEW pc, Send(k, pc)
        PROVE  requests' \in Seq(Requests) /\ serial' \in Serials /\ era' \in 0..restarts
    <3>1. serial' \in Serials /\ serial' = serial + 1 /\ era' \in 0..restarts
      BY <2>1 DEF Send, ScalarsOK, Serials
    <3>2. Call(k, serial') \in Requests
      BY <3>1, MessageTypes
    <3> QED
      BY <2>1, <2>a, <3>1, <3>2 DEF Send
  <2>2. CASE RegisterWithBlueZ
    <3>1. Send("RegisterApplication", "waitRegister")
      BY <2>2 DEF RegisterWithBlueZ
    <3>2. requests' \in Seq(Requests) /\ serial' \in Serials /\ era' \in 0..restarts
      BY <2>1, <3>1
    <3>3. ScalarsOK'
      BY <2>2, <3>2 DEF RegisterWithBlueZ, Send, ScalarsOK
    <3> QED
      BY <2>2, <2>a, <3>2, <3>3 DEF RegisterWithBlueZ, QueuesOK
  <2>3. CASE UnregisterFromBlueZ
    <3>1. Send("UnregisterApplication", "waitUnregister")
      BY <2>3 DEF UnregisterFromBlueZ
    <3>2. requests' \in Seq(Requests) /\ serial' \in Serials /\ era' \in 0..restarts
      BY <2>1, <3>1
    <3>3. ScalarsOK'
      BY <2>3, <3>2 DEF UnregisterFromBlueZ, Send, ScalarsOK
    <3> QED
      BY <2>3, <2>a, <3>2, <3>3 DEF UnregisterFromBlueZ, QueuesOK
  <2>4. CASE SetupRefused \/ CallNotSent \/ UnregisterObject \/ CallTimesOut \/ Dispatch
    <3>1. UNCHANGED <<requests, replies>>
      BY <2>4 DEF SetupRefused, CallNotSent, UnregisterObject, CallTimesOut, Dispatch
    <3>2. timeouts' \in 0..MaxTimeouts
      BY <2>4 DEF SetupRefused, CallNotSent, UnregisterObject, CallTimesOut, Dispatch, ScalarsOK
    <3>4. query' \in {"none", "sent", "answered", "refused", "unanswered"}
      BY <2>4 DEF SetupRefused, CallNotSent, UnregisterObject, CallTimesOut, Dispatch, Handled,
                  ScalarsOK
    <3>5. /\ appPc' = "waitRegister" => ~registered'
          /\ appPc' = "waitUnregister" => registered'
      BY <2>4 DEF SetupRefused, CallNotSent, UnregisterObject, CallTimesOut, Dispatch, ScalarsOK, app
    <3>3. ScalarsOK'
      BY <2>4, <3>2, <3>4, <3>5, Zenon
         DEF SetupRefused, CallNotSent, UnregisterObject, CallTimesOut, Dispatch, ScalarsOK, app
    <3> QED
      BY <3>1, <3>3 DEF QueuesOK
  <2>5. CASE ReplyArrives
    <3>1. Head(replies) \in Replies /\ Tail(replies) \in Seq(Replies)
      BY <2>5, <2>a DEF ReplyArrives
    <3>2. registered' \in BOOLEAN
      BY <2>5, <3>1 DEF ReplyArrives, AfterReply, ScalarsOK
    <3>3. ScalarsOK'
      BY <2>5, <3>2 DEF ReplyArrives, ScalarsOK
    <3> QED
      BY <2>5, <2>a, <3>1, <3>3 DEF ReplyArrives, QueuesOK
  <2>6. CASE BlueZTakesRegister \/ BlueZTakesUnregister
    <3>0. requests # <<>>
      BY <2>6 DEF BlueZTakesRegister, BlueZTakesUnregister
    <3>1. Head(requests) \in Requests /\ Tail(requests) \in Seq(Requests)
      BY <2>a, <3>0
    <3>2. Head(requests).serial \in Serials
      BY <3>1 DEF Requests
    <3>3. \A ok \in BOOLEAN : Append(replies, Reply(Head(requests).serial, ok)) \in Seq(Replies)
      BY <2>a, <3>2, MessageTypes
    <3>6. client' \in Serials
      BY <2>6, <3>2 DEF BlueZTakesRegister, BlueZTakesUnregister, ScalarsOK
    <3>7. bluez' \in {bluez, "none", "querying"} /\ query' \in {query, "none", "sent"}
      BY <2>6, Zenon DEF BlueZTakesRegister, BlueZTakesUnregister
    <3>8. UNCHANGED <<app, timeouts, restarts>>
      BY <2>6 DEF BlueZTakesRegister, BlueZTakesUnregister
    <3>4. ScalarsOK'
      BY <3>6, <3>7, <3>8, Zenon DEF ScalarsOK, app
    <3>5. requests' \in Seq(Requests) /\ replies' \in Seq(Replies)
      BY <2>6, <2>a, <3>1, <3>3 DEF BlueZTakesRegister, BlueZTakesUnregister
    <3> QED
      BY <3>4, <3>5 DEF QueuesOK
  <2>7. CASE BlueZConcludes \/ QueryTimesOut
    <3>1. \A ok \in BOOLEAN : Append(replies, Reply(client, ok)) \in Seq(Replies)
      <4>1. client \in Serials
        BY DEF ScalarsOK
      <4> QED
        BY <2>a, <4>1, MessageTypes
    <3>4. timeouts' \in 0..MaxTimeouts
      <4>1. timeouts \in 0..MaxTimeouts
        BY DEF ScalarsOK
      <4>2. timeouts' = timeouts \/ (timeouts < MaxTimeouts /\ timeouts' = timeouts + 1)
        BY <2>7 DEF BlueZConcludes, QueryTimesOut
      <4> QED
        BY <4>1, <4>2
    <3>5. bluez' \in {"none", "registered"}
      BY <2>7, Zenon DEF BlueZConcludes, QueryTimesOut, Conclude
    <3>6. query' = "none" /\ UNCHANGED <<app, client, restarts>>
      BY <2>7 DEF BlueZConcludes, QueryTimesOut, Conclude
    <3>2. ScalarsOK'
      BY <3>4, <3>5, <3>6, Zenon DEF ScalarsOK, app
    <3>3. requests' \in Seq(Requests) /\ replies' \in Seq(Replies)
      BY <2>7, <2>a, <3>1 DEF BlueZConcludes, QueryTimesOut, Conclude
    <3> QED
      BY <3>2, <3>3 DEF QueuesOK
  <2>8. CASE BlueZRestarts
    <3> DEFINE serials == [n \in DOMAIN requests |-> requests[n].serial]
               open == (IF bluez = "querying" THEN <<client>> ELSE <<>>) \o serials
               errors == [n \in DOMAIN open |-> Reply(open[n], FALSE)]
    <3>1. serials \in Seq(Serials)
      <4>1. Len(requests) \in Nat /\ DOMAIN requests = 1..Len(requests)
        BY <2>a
      <4>2. \A n \in DOMAIN requests : requests[n] \in Requests
        BY <2>a
      <4>3. \A n \in DOMAIN requests : requests[n].serial \in Serials
        BY <4>2 DEF Requests
      <4> QED
        BY <4>1, <4>3
    <3> HIDE DEF serials
    <3>2. open \in Seq(Serials)
      BY <3>1 DEF ScalarsOK
    <3> HIDE DEF open
    <3>3. errors \in Seq(Replies)
      <4>1. Len(open) \in Nat /\ DOMAIN open = 1..Len(open)
        BY <3>2
      <4>2. \A n \in DOMAIN open : open[n] \in Serials
        BY <3>2
      <4>3. \A n \in 1..Len(open) : Reply(open[n], FALSE) \in Replies
        BY <4>1, <4>2, MessageTypes
      <4>4. errors = [n \in 1..Len(open) |-> Reply(open[n], FALSE)]
        BY <4>1
      <4>5. errors \in [1..Len(open) -> Replies]
        BY <4>3, <4>4
      <4> HIDE DEF errors
      <4> QED
        BY <4>1, <4>5
    <3>4. replies' = replies \o errors /\ requests' = <<>>
      BY <2>8 DEF BlueZRestarts, open, serials
    <3> HIDE DEF errors
    <3>5. requests' \in Seq(Requests) /\ replies' \in Seq(Replies)
      BY <2>a, <3>3, <3>4
    <3>6. ScalarsOK'
      BY <2>8 DEF BlueZRestarts, ScalarsOK, app
    <3> QED
      BY <3>5, <3>6 DEF QueuesOK
  <2> QED
    BY <2>0, <2>2, <2>3, <2>4, <2>5, <2>6, <2>7, <2>8 DEF Next, Answers
<1> QED
  BY <1>1, <1>2, TypeParts, PTL DEF Spec

-----------------------------------------------------------------------------
\* Without faults at most one message is under way, and it tells what BlueZ
\* knows: the inductive form of AgreedWhenUndisturbed.
NothingSent == requests = <<>> /\ replies = <<>> /\ query = "none"

Registering ==
    /\ appPc = "waitRegister" /\ ~registered
    /\ \/ /\ requests = <<Call("RegisterApplication", serial)>> /\ replies = <<>>
          /\ query = "none" /\ bluez = "none"
       \/ /\ requests = <<>> /\ replies = <<>>
          /\ query # "none" /\ bluez = "querying" /\ client = serial
       \/ /\ requests = <<>> /\ query = "none"
          /\ \E ok \in BOOLEAN : /\ replies = <<Reply(serial, ok)>>
                                 /\ bluez = IF ok THEN "registered" ELSE "none"

Unregistering ==
    /\ appPc = "waitUnregister" /\ registered
    /\ query = "none"
    /\ \/ /\ requests = <<Call("UnregisterApplication", serial)>> /\ replies = <<>>
          /\ bluez = "registered"
       \/ requests = <<>> /\ replies = <<Reply(serial, TRUE)>> /\ bluez = "none"

UndisturbedInv ==
    Undisturbed =>
        \/ /\ appPc = "idle" /\ NothingSent
           /\ bluez = IF registered THEN "registered" ELSE "none"
        \/ Registering
        \/ Unregistering

\* A queue of one message.
LEMMA OneMessage ==
    ASSUME NEW x
    PROVE  Head(<<x>>) = x /\ Tail(<<x>>) = <<>> /\ Append(<<>>, x) = <<x>> /\ <<x>> # <<>>
  OBVIOUS

\* Whichever step of a registration fails, without timeouts and restarts neither
\* side believes what the other does not.
THEOREM NoFaultNoDisagreement == Spec => []AgreedWhenUndisturbed
<1>1. Init => UndisturbedInv
  BY DEF Init, UndisturbedInv, NothingSent
<1>2. TypeOK /\ UndisturbedInv /\ [Next]_vars => UndisturbedInv'
  <2> SUFFICES ASSUME TypeOK, UndisturbedInv, [Next]_vars, Undisturbed' PROVE UndisturbedInv'
    BY DEF UndisturbedInv
  <2> USE DEF UndisturbedInv
  <2>0. CASE UNCHANGED vars
    BY <2>0 DEF vars, app, Undisturbed, NothingSent, Registering, Unregistering
  <2>1. CASE CallTimesOut \/ QueryTimesOut \/ BlueZRestarts
    <3>1. timeouts \in Nat /\ restarts \in Nat
      BY DEF TypeOK
    <3>2. timeouts' = timeouts + 1 \/ restarts' = restarts + 1
      BY <2>1 DEF CallTimesOut, QueryTimesOut, BlueZRestarts
    <3> QED
      BY <3>1, <3>2 DEF Undisturbed
  <2>a. ASSUME UNCHANGED <<timeouts, restarts>> PROVE Undisturbed
    BY <2>a DEF Undisturbed
  <2>2. CASE RegisterWithBlueZ
    <3>1. appPc = "idle" /\ NothingSent /\ ~registered /\ bluez = "none"
      BY <2>2, <2>a DEF RegisterWithBlueZ, Registering, Unregistering
    <3>2. requests' = <<Call("RegisterApplication", serial')>> /\ appPc' = "waitRegister"
      BY <2>2, <3>1, OneMessage DEF RegisterWithBlueZ, Send, NothingSent
    <3> QED
      BY <2>2, <3>1, <3>2 DEF RegisterWithBlueZ, NothingSent, Registering
  <2>3. CASE UnregisterFromBlueZ
    <3>1. appPc = "idle" /\ NothingSent /\ registered /\ bluez = "registered"
      BY <2>3, <2>a DEF UnregisterFromBlueZ, Registering, Unregistering
    <3>2. requests' = <<Call("UnregisterApplication", serial')>> /\ appPc' = "waitUnregister"
      BY <2>3, <3>1, OneMessage DEF UnregisterFromBlueZ, Send, NothingSent
    <3> QED
      BY <2>3, <3>1, <3>2 DEF UnregisterFromBlueZ, NothingSent, Unregistering
  <2>4. CASE SetupRefused \/ CallNotSent \/ UnregisterObject
    <3>1. UNCHANGED <<registered, appPc, serial, requests, replies, bluez, client, query,
                      timeouts, restarts>>
      BY <2>4 DEF SetupRefused, CallNotSent, UnregisterObject
    <3> QED
      BY <3>1 DEF Undisturbed, NothingSent, Registering, Unregistering
  <2>5. CASE Dispatch
    <3>1. /\ appPc = "waitRegister" /\ ~registered
          /\ requests = <<>> /\ replies = <<>> /\ bluez = "querying" /\ client = serial
      BY <2>5, <2>a DEF Dispatch, NothingSent, Registering, Unregistering
    <3>2. query' # "none"
      BY <2>5 DEF Dispatch, Handled
    <3> QED
      BY <2>5, <3>1, <3>2 DEF Dispatch, app, Registering
  <2>6. CASE ReplyArrives
    <3>1. UNCHANGED <<requests, bluez, query, serial>>
      BY <2>6 DEF ReplyArrives
    <3>2. CASE Registering
      <4>1. PICK ok \in BOOLEAN : /\ replies = <<Reply(serial, ok)>>
                                  /\ bluez = IF ok THEN "registered" ELSE "none"
        BY <2>6, <3>2 DEF ReplyArrives, Registering
      <4>2. Head(replies) = Reply(serial, ok) /\ replies' = <<>>
        BY <2>6, <4>1, OneMessage DEF ReplyArrives
      <4>3. Head(replies).serial = serial /\ Head(replies).ok = ok /\ appPc = "waitRegister"
        BY <3>2, <4>2 DEF Reply, Registering
      <4>4. AfterReply(ok) = ok
        <5>1. registered = FALSE /\ appPc = "waitRegister"
          BY <3>2 DEF Registering, TypeOK
        <5>2. CASE ok = TRUE
          BY <5>1, <5>2 DEF AfterReply
        <5>3. CASE ok = FALSE
          BY <5>1, <5>3 DEF AfterReply
        <5> QED
          BY <5>2, <5>3
      <4>5. appPc' = "idle" /\ registered' = ok
        BY <2>6, <4>3, <4>4 DEF ReplyArrives
      <4>6. requests = <<>> /\ query = "none"
        BY <2>6, <3>2, <4>1 DEF ReplyArrives, Registering
      <4> QED
        BY <3>1, <4>1, <4>2, <4>5, <4>6 DEF NothingSent
    <3>3. CASE Unregistering
      <4>1. /\ replies = <<Reply(serial, TRUE)>> /\ bluez = "none"
            /\ requests = <<>> /\ query = "none" /\ appPc = "waitUnregister"
        BY <2>6, <3>3 DEF ReplyArrives, Unregistering
      <4>2. Head(replies) = Reply(serial, TRUE) /\ replies' = <<>>
        BY <2>6, <4>1, OneMessage DEF ReplyArrives
      <4>3. appPc' = "idle" /\ ~registered'
        <5>1. Head(replies).serial = serial /\ Head(replies).ok
          BY <4>2 DEF Reply
        <5> QED
          BY <2>6, <4>1, <5>1 DEF ReplyArrives, AfterReply
      <4> QED
        BY <3>1, <4>1, <4>2, <4>3 DEF NothingSent
    <3> QED
      BY <2>6, <2>a, <3>2, <3>3 DEF ReplyArrives, NothingSent
  <2>7. CASE BlueZTakesRegister
    <3>1. requests # <<>> /\ Head(requests).kind = "RegisterApplication"
      BY <2>7 DEF BlueZTakesRegister
    <3>2. Head(<<Call("UnregisterApplication", serial)>>).kind # "RegisterApplication"
      BY OneMessage DEF Call
    <3>3. /\ appPc = "waitRegister" /\ ~registered /\ bluez = "none" /\ replies = <<>>
          /\ requests = <<Call("RegisterApplication", serial)>>
      BY <2>7, <2>a, <3>1, <3>2 DEF BlueZTakesRegister, NothingSent, Registering, Unregistering
    <3>4. Head(requests).serial = serial /\ Tail(requests) = <<>>
      BY <3>3, OneMessage DEF Call
    <3> QED
      BY <2>7, <3>3, <3>4 DEF BlueZTakesRegister, app, Registering
  <2>8. CASE BlueZTakesUnregister
    <3>1. requests # <<>> /\ Head(requests).kind = "UnregisterApplication"
      BY <2>8 DEF BlueZTakesUnregister
    <3>2. Head(<<Call("RegisterApplication", serial)>>).kind # "UnregisterApplication"
      BY OneMessage DEF Call
    <3>3. /\ appPc = "waitUnregister" /\ registered /\ bluez = "registered" /\ replies = <<>>
          /\ requests = <<Call("UnregisterApplication", serial)>>
      BY <2>8, <2>a, <3>1, <3>2 DEF BlueZTakesUnregister, NothingSent, Registering, Unregistering
    <3>4. Head(requests).serial = serial /\ Tail(requests) = <<>>
      BY <3>3, OneMessage DEF Call
    <3>5. replies' = <<Reply(serial, TRUE)>>
      BY <2>8, <3>3, <3>4, OneMessage DEF BlueZTakesUnregister
    <3> QED
      BY <2>8, <3>3, <3>4, <3>5 DEF BlueZTakesUnregister, app, Unregistering
  <2>9. CASE BlueZConcludes
    <3>1. /\ appPc = "waitRegister" /\ ~registered /\ client = serial
          /\ requests = <<>> /\ replies = <<>>
      BY <2>9, <2>a DEF BlueZConcludes, NothingSent, Registering, Unregistering
    <3> DEFINE ok == query = "answered"
    <3>2. replies' = <<Reply(serial, ok)>>
      BY <2>9, <3>1, OneMessage DEF BlueZConcludes, Conclude
    <3>3. bluez' = (IF ok THEN "registered" ELSE "none") /\ query' = "none"
      BY <2>9 DEF BlueZConcludes, Conclude
    <3>4. ok \in BOOLEAN
      OBVIOUS
    <3> HIDE DEF ok
    <3> QED
      BY <2>9, <3>1, <3>2, <3>3, <3>4 DEF BlueZConcludes, app, Registering
  <2> QED
    BY <2>0, <2>1, <2>2, <2>3, <2>4, <2>5, <2>6, <2>7, <2>8, <2>9 DEF Next, Answers
<1>3. UndisturbedInv => AgreedWhenUndisturbed
  BY DEF UndisturbedInv, AgreedWhenUndisturbed, Registering, Unregistering
<1> QED
  BY <1>1, <1>2, <1>3, TypeCorrect, PTL DEF Spec

-----------------------------------------------------------------------------
\* Calls reach BlueZ in order, so a reply to the latest call means that nothing
\* older is on its way.
Waiting(kind) == \/ kind = "RegisterApplication" /\ appPc = "waitRegister"
                 \/ kind = "UnregisterApplication" /\ appPc = "waitUnregister"

RequestInv ==
    \A n \in 1..Len(requests) :
        /\ requests[n].serial <= serial
        /\ n < Len(requests) => requests[n].serial < serial
        /\ requests[n].serial = serial /\ appPc # "idle" => Waiting(requests[n].kind)

QueryInv ==
    /\ bluez = "querying" <=> query # "none"
    /\ client <= serial
    /\ query # "none" /\ client = serial =>
          /\ requests = <<>>
          /\ appPc # "idle" => appPc = "waitRegister"

\* Nothing is on its way to BlueZ, which is in the state that a successful latest
\* call asked for, unless it restarted since.
Settled(goal) == requests = <<>> /\ query = "none" /\ (restarts = era => bluez = goal)

ReplyInv ==
    /\ \A n \in 1..Len(replies) :
          /\ replies[n].serial <= serial
          /\ replies[n].serial = serial => requests = <<>>
          /\ replies[n].serial = serial /\ replies[n].ok /\ appPc # "idle"
                => Settled(IF appPc = "waitRegister" THEN "registered" ELSE "none")
    /\ appPc = "idle" /\ outcome = "ok" => Settled(IF registered THEN "registered" ELSE "none")

LateInv == RequestInv /\ QueryInv /\ ReplyInv

\* Putting a message at the end of a queue and taking one from its head.
LEMMA AppendMessage ==
    ASSUME NEW S, NEW q \in Seq(S), NEW x \in S
    PROVE  /\ Len(Append(q, x)) = Len(q) + 1
           /\ \A n \in 1..Len(q) : Append(q, x)[n] = q[n]
           /\ Append(q, x)[Len(q) + 1] = x
  OBVIOUS

LEMMA TakeMessage ==
    ASSUME NEW S, NEW q \in Seq(S), q # <<>>
    PROVE  /\ Len(q) \in Nat /\ 1 \in 1..Len(q) /\ Head(q) = q[1]
           /\ Len(Tail(q)) = Len(q) - 1
           /\ \A n \in 1..Len(Tail(q)) : n + 1 \in 1..Len(q) /\ Tail(q)[n] = q[n + 1]
           /\ Len(q) = 1 => Tail(q) = <<>>
<1>1. Len(q) \in Nat /\ Len(q) # 0 /\ Head(q) = q[1]
  OBVIOUS
<1>2. Tail(q) \in Seq(S) /\ Len(Tail(q)) = Len(q) - 1
  BY <1>1
<1>3. \A n \in 1..Len(Tail(q)) : n + 1 \in 1..Len(q) /\ Tail(q)[n] = q[n + 1]
  BY <1>1, <1>2
<1>4. Len(Tail(q)) = 0 => Tail(q) = <<>>
  <2> DEFINE rest == Tail(q)
  <2>1. rest \in Seq(S)
    BY <1>2
  <2> HIDE DEF rest
  <2>2. Len(rest) = 0 => rest = <<>>
    BY <2>1
  <2> QED
    BY <2>2 DEF rest
<1> QED
  BY <1>1, <1>2, <1>3, <1>4

\* BlueZ takes the oldest request; the latest one is the last it takes.
LEMMA TakeRequest ==
    ASSUME TypeOK, RequestInv, requests # <<>>, requests' = Tail(requests),
           UNCHANGED <<serial, appPc>>
    PROVE  /\ RequestInv'
           /\ Head(requests) \in Requests
           /\ Head(requests).serial \in Serials /\ Head(requests).serial <= serial
           /\ Head(requests).serial = serial =>
                 requests' = <<>> /\ (appPc # "idle" => Waiting(Head(requests).kind))
<1>1. requests \in Seq(Requests)
  BY TypeParts DEF QueuesOK
<1>2. serial \in Nat
  BY TypeParts DEF ScalarsOK, Serials
<1>3. \A n \in 1..Len(requests) : requests[n] \in Requests
  BY <1>1
<1>4. \A n \in 1..Len(requests) : requests[n].serial \in Serials
  BY <1>3 DEF Requests
<1>5. RequestInv'
  BY <1>1, TakeMessage DEF RequestInv, Waiting
<1>6. Head(requests) = requests[1] /\ 1 \in 1..Len(requests) /\ Len(requests) \in Nat
  BY <1>1, TakeMessage
<1>7. requests[1].serial <= serial /\ requests[1].serial \in Serials
  BY <1>4, <1>6 DEF RequestInv
<1>8. ASSUME requests[1].serial = serial
      PROVE  requests' = <<>> /\ (appPc # "idle" => Waiting(requests[1].kind))
  <2>1. ~(1 < Len(requests))
    BY <1>2, <1>6, <1>8 DEF RequestInv
  <2>2. requests' = <<>>
    BY <1>1, <1>6, <2>1, TakeMessage
  <2> QED
    BY <1>6, <1>8, <2>2 DEF RequestInv
<1> QED
  BY <1>3, <1>5, <1>6, <1>7, <1>8

\* A reply joins the queue and agrees with the rest.
LEMMA SendReply ==
    ASSUME TypeOK, ReplyInv, NEW n \in Serials, NEW ok \in BOOLEAN,
           replies' = Append(replies, Reply(n, ok)), UNCHANGED <<serial, appPc, outcome, registered>>,
           n <= serial,
           n = serial => requests' = <<>>,
           n = serial /\ ok /\ appPc # "idle"
              => Settled(IF appPc = "waitRegister" THEN "registered" ELSE "none")',
           requests # <<>> \/ query # "none",
           requests = <<>> => requests' = <<>>
    PROVE  ReplyInv'
<1>1. replies \in Seq(Replies) /\ Reply(n, ok) \in Replies
  BY TypeParts, MessageTypes DEF QueuesOK
<1>2. Reply(n, ok).serial = n /\ Reply(n, ok).ok = ok
  BY DEF Reply
<1>3. ~(appPc = "idle" /\ outcome = "ok")
  BY DEF ReplyInv, Settled
<1>4. \A k \in 1..Len(replies) : ~(replies[k].serial = serial /\ replies[k].ok /\ appPc # "idle")
  BY DEF ReplyInv, Settled
<1>5. Len(replies) \in Nat /\ Len(replies') = Len(replies) + 1
  BY <1>1, AppendMessage
<1>6. \A k \in 1..Len(replies) : replies'[k] = replies[k]
  BY <1>1, AppendMessage
<1>7. replies'[Len(replies) + 1] = Reply(n, ok)
  BY <1>1, AppendMessage
<1>8. ASSUME NEW k \in 1..Len(replies')
      PROVE  /\ replies'[k].serial <= serial'
             /\ replies'[k].serial = serial' => requests' = <<>>
             /\ replies'[k].serial = serial' /\ replies'[k].ok /\ appPc' # "idle"
                   => Settled(IF appPc = "waitRegister" THEN "registered" ELSE "none")'
  <2>1. CASE k \in 1..Len(replies)
    BY <1>4, <1>6, <2>1 DEF ReplyInv
  <2>2. CASE k = Len(replies) + 1
    BY <1>2, <1>7, <2>2
  <2> QED
    BY <1>5, <2>1, <2>2
<1> QED
  BY <1>3, <1>8 DEF ReplyInv

\* A restart refuses the calls that are open, each of them and no other.
LEMMA RestartAnswers ==
    ASSUME TypeOK, RequestInv, QueryInv, BlueZRestarts
    PROVE  /\ \A n \in 1..Len(replies') :
                 \/ n \in 1..Len(replies) /\ replies'[n] = replies[n]
                 \/ /\ ~replies'[n].ok /\ replies'[n].serial <= serial
                    /\ \/ bluez = "querying" /\ replies'[n].serial = client
                       \/ \E k \in 1..Len(requests) : replies'[n].serial = requests[k].serial
           /\ \A n \in 1..Len(replies) : n \in 1..Len(replies') /\ replies'[n] = replies[n]
           /\ \A m \in OpenCalls : \E n \in 1..Len(replies') : replies'[n] = Reply(m, FALSE)
<1> DEFINE serials == [n \in DOMAIN requests |-> requests[n].serial]
           asked == IF bluez = "querying" THEN <<client>> ELSE <<>>
           open == asked \o serials
           errors == [n \in DOMAIN open |-> Reply(open[n], FALSE)]
<1>q. requests \in Seq(Requests) /\ replies \in Seq(Replies) /\ client \in Serials
  BY TypeParts DEF QueuesOK, ScalarsOK
<1>1. /\ Len(requests) \in Nat /\ DOMAIN requests = 1..Len(requests)
      /\ \A n \in 1..Len(requests) : requests[n].serial \in Serials
  <2>1. \A n \in 1..Len(requests) : requests[n] \in Requests
    BY <1>q
  <2> QED
    BY <1>q, <2>1 DEF Requests
<1>2. /\ serials \in Seq(Serials) /\ Len(serials) = Len(requests)
      /\ \A n \in 1..Len(serials) : serials[n] = requests[n].serial
  BY <1>1
<1>3. replies' = replies \o errors
  BY DEF BlueZRestarts
<1> HIDE DEF serials
<1>4. /\ asked \in Seq(Serials) /\ Len(asked) \in Nat
      /\ \A n \in 1..Len(asked) : bluez = "querying" /\ asked[n] = client
  BY <1>q
<1>a. bluez = "querying" => Len(asked) = 1 /\ asked[1] = client
  BY <1>q
<1> HIDE DEF asked
<1>5. /\ open \in Seq(Serials) /\ Len(open) = Len(asked) + Len(requests)
      /\ \A n \in 1..Len(open) :
            \/ n \in 1..Len(asked) /\ open[n] = asked[n]
            \/ n - Len(asked) \in 1..Len(requests) /\ open[n] = serials[n - Len(asked)]
  BY <1>1, <1>2, <1>4
<1>c. /\ bluez = "querying" => 1 \in 1..Len(open) /\ open[1] = client
      /\ \A k \in 1..Len(requests) :
            Len(asked) + k \in 1..Len(open) /\ open[Len(asked) + k] = serials[k]
  BY <1>1, <1>2, <1>4, <1>a
<1> HIDE DEF open
<1>6. /\ DOMAIN open = 1..Len(open) /\ Len(open) \in Nat
      /\ \A n \in 1..Len(open) : open[n] \in Serials
  BY <1>5
<1>7. errors \in Seq(Replies) /\ Len(errors) = Len(open)
      /\ \A n \in 1..Len(errors) : errors[n] = Reply(open[n], FALSE)
  <2>1. \A n \in 1..Len(open) : Reply(open[n], FALSE) \in Replies
    BY <1>6, MessageTypes
  <2>2. errors = [n \in 1..Len(open) |-> Reply(open[n], FALSE)]
    BY <1>6
  <2> HIDE DEF errors
  <2>3. errors \in [1..Len(open) -> Replies]
    BY <2>1, <2>2
  <2>4. errors \in Seq(Replies) /\ Len(errors) = Len(open)
    BY <1>6, <2>3
  <2> QED
    BY <2>2, <2>4
<1> HIDE DEF errors
<1>8. /\ Len(replies) \in Nat /\ Len(errors) \in Nat
      /\ Len(replies') = Len(replies) + Len(errors)
      /\ \A n \in 1..Len(replies') :
            \/ n \in 1..Len(replies) /\ replies'[n] = replies[n]
            \/ n - Len(replies) \in 1..Len(errors) /\ replies'[n] = errors[n - Len(replies)]
  <2>1. errors \in Seq(Replies)
    BY <1>7
  <2> QED
    BY <1>q, <1>3, <2>1
<1>9. \A n \in 1..Len(open) :
         \/ bluez = "querying" /\ open[n] = client
         \/ \E k \in 1..Len(requests) : open[n] = requests[k].serial
  BY <1>2, <1>4, <1>5
<1>10. \A n \in 1..Len(open) : open[n] <= serial
  BY <1>9 DEF RequestInv, QueryInv
<1>11. \A n \in 1..Len(errors) : ~errors[n].ok /\ errors[n].serial = open[n]
  <2>1. ASSUME NEW m, NEW e, e = Reply(m, FALSE) PROVE ~e.ok /\ e.serial = m
    BY <2>1 DEF Reply
  <2> QED
    BY <1>7, <2>1
<1>12. ASSUME NEW n \in 1..Len(replies'), ~(n \in 1..Len(replies) /\ replies'[n] = replies[n])
       PROVE  /\ ~replies'[n].ok /\ replies'[n].serial <= serial
              /\ \/ bluez = "querying" /\ replies'[n].serial = client
                 \/ \E k \in 1..Len(requests) : replies'[n].serial = requests[k].serial
  <2>1. n - Len(replies) \in 1..Len(open) /\ replies'[n] = errors[n - Len(replies)]
    BY <1>7, <1>8, <1>12
  <2> QED
    BY <1>7, <1>9, <1>10, <1>11, <2>1
<1>13. /\ \A n \in 1..Len(replies) : n \in 1..Len(replies') /\ replies'[n] = replies[n]
       /\ \A n \in 1..Len(errors) :
             Len(replies) + n \in 1..Len(replies') /\ replies'[Len(replies) + n] = errors[n]
  <2>1. errors \in Seq(Replies)
    BY <1>7
  <2> QED
    BY <1>q, <1>3, <2>1
<1>14. ASSUME NEW m \in OpenCalls
       PROVE  \E n \in 1..Len(open) : open[n] = m
  <2>1. CASE bluez = "querying" /\ m = client
    BY <1>c, <2>1
  <2>2. CASE \E k \in 1..Len(requests) : m = requests[k].serial
    <3>1. PICK k \in 1..Len(requests) : m = requests[k].serial
      BY <2>2
    <3>2. Len(asked) + k \in 1..Len(open) /\ open[Len(asked) + k] = serials[k]
      BY <1>c, <3>1
    <3> QED
      BY <1>2, <3>1, <3>2
  <2>3. m \in {requests[k].serial : k \in 1..Len(requests)} \/ (bluez = "querying" /\ m = client)
    BY <1>1, <1>14 DEF OpenCalls
  <2> QED
    BY <2>1, <2>2, <2>3
<1>15. ASSUME NEW m \in OpenCalls
       PROVE  \E n \in 1..Len(replies') : replies'[n] = Reply(m, FALSE)
  BY <1>7, <1>13, <1>14
<1> QED
  BY <1>12, <1>13, <1>15

LEMMA LateInvariant == Spec => []LateInv
<1>1. Init => LateInv
  BY DEF Init, LateInv, RequestInv, QueryInv, ReplyInv
<1>2. TypeOK /\ TypeOK' /\ LateInv /\ [Next]_vars => LateInv'
  <2> SUFFICES ASSUME TypeOK, TypeOK', [Next]_vars, LateInv
               PROVE  RequestInv' /\ QueryInv' /\ ReplyInv'
    BY DEF LateInv
  <2>n. serial \in Nat /\ serial' \in Nat /\ client \in Serials /\ client \in Nat
    BY TypeParts DEF ScalarsOK, TypeOK, Serials
  <2>q. requests \in Seq(Requests) /\ replies \in Seq(Replies)
    BY TypeParts DEF QueuesOK
  <2>0. RequestInv /\ QueryInv /\ ReplyInv
    BY DEF LateInv
  <2>1. CASE UNCHANGED vars
    BY <2>0, <2>1 DEF vars, app, RequestInv, QueryInv, ReplyInv, Waiting, Settled
  <2>2. ASSUME NEW kind \in {"RegisterApplication", "UnregisterApplication"}, NEW pc,
               Send(kind, pc), appPc = "idle",
               Waiting(kind)', UNCHANGED <<replies, bluez, client, query>>
        PROVE  RequestInv' /\ QueryInv' /\ ReplyInv'
    <3>1. serial' = serial + 1 /\ requests' = Append(requests, Call(kind, serial'))
      BY <2>2 DEF Send
    <3>2. Call(kind, serial') \in Requests
      <4>1. serial' \in Serials
        BY DEF TypeOK
      <4> QED
        BY <4>1, MessageTypes
    <3>3. /\ Len(requests') = Len(requests) + 1
          /\ \A n \in 1..Len(requests) : requests'[n] = requests[n]
          /\ requests'[Len(requests) + 1] = Call(kind, serial')
      BY <3>1, <3>2, <2>q, AppendMessage
    <3>4. \A n \in 1..Len(requests) : requests[n].serial \in Nat /\ requests[n].serial < serial'
      <4>1. \A n \in 1..Len(requests) : requests[n] \in Requests
        BY <2>q
      <4>2. \A n \in 1..Len(requests) : requests[n].serial \in Nat
        BY <4>1 DEF Requests, Serials
      <4> QED
        BY <2>0, <2>n, <3>1, <4>2 DEF RequestInv
    <3>5. Call(kind, serial').serial = serial' /\ Call(kind, serial').kind = kind
      BY DEF Call
    <3>6. Len(requests) \in Nat /\ Len(requests') # 0
      BY <2>q, <3>3
    <3>7. RequestInv'
      <4> SUFFICES ASSUME NEW n \in 1..Len(requests')
                   PROVE  /\ requests'[n].serial <= serial'
                          /\ n < Len(requests') => requests'[n].serial < serial'
                          /\ requests'[n].serial = serial' => Waiting(requests[n].kind)'
        BY DEF RequestInv
      <4>1. CASE n \in 1..Len(requests)
        <5>1. requests'[n].serial \in Nat /\ requests'[n].serial < serial'
          BY <3>3, <3>4, <4>1
        <5> QED
          BY <2>n, <5>1
      <4>2. CASE n = Len(requests) + 1
        <5>1. requests'[n].serial = serial' /\ Waiting(requests[n].kind)'
          BY <2>2, <3>3, <3>5, <4>2 DEF Waiting
        <5>2. n = Len(requests')
          BY <3>3, <4>2
        <5> QED
          BY <2>n, <3>6, <5>1, <5>2
      <4> QED
        BY <3>3, <3>6, <4>1, <4>2
    <3>8. QueryInv'
      BY <2>0, <2>2, <2>n, <3>1 DEF QueryInv
    <3>9. ReplyInv'
      <4>1. \A n \in 1..Len(replies) : replies[n].serial \in Nat
        <5>1. \A n \in 1..Len(replies) : replies[n] \in Replies
          BY <2>q
        <5> QED
          BY <5>1 DEF Replies, Serials
      <4>2. \A n \in 1..Len(replies) : replies'[n].serial <= serial' /\ replies'[n].serial # serial'
        BY <2>0, <2>2, <2>n, <3>1, <4>1 DEF ReplyInv
      <4>3. appPc' # "idle"
        BY <2>2 DEF Waiting
      <4> QED
        BY <2>2, <4>2, <4>3 DEF ReplyInv
    <3> QED
      BY <3>7, <3>8, <3>9
  <2>3. CASE RegisterWithBlueZ
    BY <2>3, <2>2 DEF RegisterWithBlueZ, Send, Waiting
  <2>4. CASE UnregisterFromBlueZ
    BY <2>4, <2>2 DEF UnregisterFromBlueZ, Send, Waiting
  <2>5. CASE SetupRefused \/ CallNotSent \/ UnregisterObject \/ CallTimesOut
    <3>1. UNCHANGED <<registered, serial, era, requests, replies, bluez, client, query, restarts>>
      BY <2>5 DEF SetupRefused, CallNotSent, UnregisterObject, CallTimesOut
    <3>2. appPc' = appPc \/ appPc' = "idle"
      BY <2>5 DEF SetupRefused, CallNotSent, UnregisterObject, CallTimesOut
    <3>3. outcome' \in {"failed", "timeout"} \/ UNCHANGED <<outcome, appPc>>
      BY <2>5 DEF SetupRefused, CallNotSent, UnregisterObject, CallTimesOut
    <3>4. RequestInv'
      BY <2>0, <3>1, <3>2 DEF RequestInv, Waiting
    <3>5. QueryInv'
      BY <2>0, <3>1, <3>2 DEF QueryInv
    <3>6. ReplyInv'
      BY <2>0, <3>1, <3>2, <3>3 DEF ReplyInv, Settled
    <3> QED
      BY <3>4, <3>5, <3>6
  <2>6. CASE Dispatch
    <3>1. query # "none" /\ query' # "none" /\ UNCHANGED <<app, requests, replies, bluez, client, restarts>>
      BY <2>6 DEF Dispatch, Handled
    <3> QED
      BY <2>0, <3>1 DEF app, RequestInv, QueryInv, ReplyInv, Waiting, Settled
  <2>7. CASE ReplyArrives
    <3>1. replies # <<>> /\ replies' = Tail(replies)
          /\ UNCHANGED <<serial, era, requests, bluez, client, query, restarts>>
      BY <2>7 DEF ReplyArrives
    <3>2. /\ Len(replies) \in Nat /\ 1 \in 1..Len(replies) /\ Head(replies) = replies[1]
          /\ \A n \in 1..Len(replies') : n + 1 \in 1..Len(replies) /\ replies'[n] = replies[n + 1]
      BY <2>q, <3>1, TakeMessage
    <3>3. appPc' = appPc \/ appPc' = "idle"
      BY <2>7 DEF ReplyArrives
    <3>4. RequestInv' /\ QueryInv'
      BY <2>0, <3>1, <3>3 DEF RequestInv, QueryInv, Waiting
    <3>5. \A n \in 1..Len(replies') :
            /\ replies'[n].serial <= serial'
            /\ replies'[n].serial = serial' => requests' = <<>>
            /\ replies'[n].serial = serial' /\ replies'[n].ok /\ appPc' # "idle"
                  => Settled(IF appPc = "waitRegister" THEN "registered" ELSE "none")'
      <4> SUFFICES ASSUME NEW n \in 1..Len(replies')
                   PROVE  /\ replies'[n].serial <= serial'
                          /\ replies'[n].serial = serial' => requests' = <<>>
                          /\ replies'[n].serial = serial' /\ replies'[n].ok /\ appPc' # "idle"
                                => Settled(IF appPc = "waitRegister" THEN "registered" ELSE "none")'
        OBVIOUS
      <4>1. n + 1 \in 1..Len(replies) /\ replies'[n] = replies[n + 1]
        BY <3>2
      <4>2. /\ replies[n + 1].serial <= serial
            /\ replies[n + 1].serial = serial => requests = <<>>
            /\ replies[n + 1].serial = serial /\ replies[n + 1].ok /\ appPc # "idle"
                  => Settled(IF appPc = "waitRegister" THEN "registered" ELSE "none")
        BY <2>0, <4>1 DEF ReplyInv
      <4> QED
        BY <3>1, <3>3, <4>1, <4>2 DEF Settled
    <3>6. ASSUME appPc' = "idle", outcome' = "ok"
          PROVE  Settled(IF registered THEN "registered" ELSE "none")'
      <4>1. CASE appPc # "idle" /\ Head(replies).serial = serial
        <5>1. Head(replies).ok /\ registered' = (appPc = "waitRegister")
          BY <2>7, <3>6, <4>1 DEF ReplyArrives, AfterReply
        <5>2. Settled(IF appPc = "waitRegister" THEN "registered" ELSE "none")
          BY <2>0, <3>2, <4>1, <5>1 DEF ReplyInv
        <5> QED
          BY <3>1, <5>1, <5>2 DEF Settled
      <4>2. CASE ~(appPc # "idle" /\ Head(replies).serial = serial)
        <5>1. UNCHANGED <<registered, outcome, appPc>>
          BY <2>7, <4>2 DEF ReplyArrives
        <5> QED
          BY <2>0, <3>1, <3>6, <5>1 DEF ReplyInv, Settled
      <4> QED
        BY <4>1, <4>2
    <3> QED
      BY <3>4, <3>5, <3>6 DEF ReplyInv
  <2>8. CASE BlueZTakesRegister \/ BlueZTakesUnregister
    <3>1. requests # <<>> /\ requests' = Tail(requests)
          /\ UNCHANGED <<registered, appPc, serial, era, outcome, restarts>>
      BY <2>8 DEF BlueZTakesRegister, BlueZTakesUnregister, app
    <3> DEFINE req == Head(requests)
    <3>2. /\ RequestInv'
          /\ req \in Requests /\ req.serial \in Serials /\ req.serial <= serial
          /\ req.serial = serial => requests' = <<>> /\ (appPc # "idle" => Waiting(req.kind))
      BY <2>0, <3>1, TakeRequest
    <3>3. ~(query # "none" /\ client = serial)
      BY <2>0, <3>1 DEF QueryInv
    <3>4. CASE BlueZTakesRegister /\ bluez = "none"
      <4>1. bluez' = "querying" /\ client' = req.serial /\ query' = "sent" /\ UNCHANGED replies
            /\ req.kind = "RegisterApplication"
        BY <3>4 DEF BlueZTakesRegister
      <4>2. QueryInv'
        BY <3>1, <3>2, <4>1 DEF QueryInv, Waiting
      <4>3. ReplyInv'
        BY <2>0, <3>1, <4>1 DEF ReplyInv, Settled
      <4> QED
        BY <3>2, <4>2, <4>3
    <3>5. CASE BlueZTakesRegister /\ bluez # "none"
      <4>1. UNCHANGED <<bluez, client, query>> /\ replies' = Append(replies, Reply(req.serial, FALSE))
        BY <3>5 DEF BlueZTakesRegister
      <4>2. QueryInv'
        BY <2>0, <3>1, <3>3, <4>1 DEF QueryInv
      <4>3. ReplyInv'
        BY <2>0, <3>1, <3>2, <4>1, SendReply
      <4> QED
        BY <3>2, <4>2, <4>3
    <3>6. CASE BlueZTakesUnregister
      <4>1. /\ bluez' = "none" /\ query' = "none" /\ UNCHANGED client
            /\ replies' = Append(replies, Reply(req.serial, bluez # "none"))
            /\ req.kind = "UnregisterApplication"
        BY <3>6 DEF BlueZTakesUnregister
      <4>2. QueryInv'
        BY <2>0, <3>1, <4>1 DEF QueryInv
      <4>3. req.serial = serial /\ appPc # "idle"
               => Settled(IF appPc = "waitRegister" THEN "registered" ELSE "none")'
        <5> SUFFICES ASSUME req.serial = serial, appPc # "idle"
                     PROVE  requests' = <<>> /\ appPc' = "waitUnregister"
          BY <4>1 DEF Settled
        <5>1. Waiting("UnregisterApplication") /\ requests' = <<>>
          BY <3>2, <4>1
        <5> QED
          BY <3>1, <5>1 DEF Waiting
      <4> DEFINE ok == bluez # "none"
      <4>4. ok \in BOOLEAN /\ replies' = Append(replies, Reply(req.serial, ok))
        BY <4>1
      <4> HIDE DEF ok
      <4>5. ReplyInv'
        BY <2>0, <3>1, <3>2, <4>3, <4>4, SendReply
      <4> QED
        BY <3>2, <4>2, <4>5
    <3> QED
      BY <2>8, <3>4, <3>5, <3>6
  <2>9. CASE BlueZConcludes \/ QueryTimesOut
    <3>1. PICK ok \in BOOLEAN : Conclude(ok)
      BY <2>9 DEF BlueZConcludes, QueryTimesOut
    <3>2. query # "none" /\ UNCHANGED <<registered, appPc, serial, era, outcome, requests, client, restarts>>
      BY <2>9 DEF BlueZConcludes, QueryTimesOut, app
    <3>3. /\ bluez' = IF ok THEN "registered" ELSE "none"
          /\ query' = "none" /\ replies' = Append(replies, Reply(client, ok))
      BY <3>1 DEF Conclude
    <3>4. RequestInv' /\ QueryInv'
      BY <2>0, <3>2, <3>3 DEF RequestInv, QueryInv, Waiting
    <3>5. client = serial => requests' = <<>>
      BY <2>0, <3>2 DEF QueryInv
    <3>6. client = serial /\ ok /\ appPc # "idle"
             => Settled(IF appPc = "waitRegister" THEN "registered" ELSE "none")'
      BY <2>0, <3>2, <3>3 DEF QueryInv, Settled
    <3>7. client <= serial
      BY <2>0 DEF QueryInv
    <3>8. ReplyInv'
      BY <2>0, <2>n, <3>2, <3>3, <3>5, <3>6, <3>7, SendReply
    <3> QED
      BY <3>4, <3>8
  <2>10. CASE BlueZRestarts
    <3>1. requests' = <<>> /\ query' = "none" /\ bluez' = "none"
          /\ restarts' # era' /\ UNCHANGED <<app, client>>
      <4>1. restarts \in Nat /\ era \in 0..restarts
        BY TypeParts DEF ScalarsOK
      <4> QED
        BY <2>10, <4>1 DEF BlueZRestarts, app
    <3>2. \A n \in 1..Len(replies') :
            \/ n \in 1..Len(replies) /\ replies'[n] = replies[n]
            \/ ~replies'[n].ok /\ replies'[n].serial <= serial
      BY <2>0, <2>10, RestartAnswers
    <3>3. RequestInv' /\ QueryInv'
      BY <2>0, <3>1 DEF app, RequestInv, QueryInv
    <3>4. ReplyInv'
      BY <2>0, <3>1, <3>2 DEF app, ReplyInv, Settled
    <3> QED
      BY <3>3, <3>4
  <2> QED
    BY <2>1, <2>3, <2>4, <2>5, <2>6, <2>7, <2>8, <2>9, <2>10 DEF Next, Answers
<1> QED
  BY <1>1, <1>2, TypeCorrect, PTL DEF Spec

\* A registration or its undoing that reports success leaves the application and
\* BlueZ of one mind, whatever was timed out, answered late or carried out late
\* before it, unless bluetoothd restarted since it was sent.
THEOREM LateRepliesAgree == Spec => []OkMeansAgreed
<1>1. LateInv => OkMeansAgreed
  BY DEF LateInv, ReplyInv, Settled, OkMeansAgreed
<1> QED
  BY <1>1, LateInvariant, PTL

-----------------------------------------------------------------------------
\* All open calls ask for the same: what the flag says is missing.
Missing == IF registered THEN "UnregisterApplication" ELSE "RegisterApplication"
CallInv ==
    /\ appPc = "waitRegister" => ~registered
    /\ appPc = "waitUnregister" => registered
    /\ \A n \in 1..Len(requests) : requests[n].kind = Missing
    /\ bluez = "querying" => ~registered

\* Open calls are in the order of their serials, and the latest call is open or
\* answered in one way.
OrderInv ==
    /\ \A m, n \in 1..Len(requests) : m < n => requests[m].serial < requests[n].serial
    /\ bluez = "querying" => \A n \in 1..Len(requests) : client < requests[n].serial
    /\ \A n \in 1..Len(replies) :
          replies[n].serial = serial => ~(bluez = "querying" /\ client = serial)
    /\ \A m, n \in 1..Len(replies) :
          replies[m].serial = serial /\ replies[n].serial = serial
             => (replies[m].ok <=> replies[n].ok)

LEMMA CallInvariant == Spec => []CallInv
<1>1. Init => CallInv
  BY DEF Init, CallInv
<1>2. TypeOK /\ LateInv /\ CallInv /\ [Next]_vars => CallInv'
  <2> SUFFICES ASSUME TypeOK, LateInv, CallInv, [Next]_vars PROVE CallInv'
    OBVIOUS
  <2>q. requests \in Seq(Requests) /\ replies \in Seq(Replies)
    BY TypeParts DEF QueuesOK
  <2>0. RequestInv /\ QueryInv /\ ReplyInv
    BY DEF LateInv
  <2>1. CASE UNCHANGED vars
    BY <2>1 DEF vars, app, CallInv, Missing
  <2>2. ASSUME NEW kind \in {"RegisterApplication", "UnregisterApplication"},
               requests' = Append(requests, Call(kind, serial')), serial' \in Serials,
               kind = Missing,
               Waiting(kind)', UNCHANGED <<registered, bluez>>
        PROVE  CallInv'
    <3>1. Call(kind, serial') \in Requests /\ Call(kind, serial').kind = kind
      BY <2>2, MessageTypes DEF Call
    <3>2. /\ Len(requests) \in Nat /\ Len(requests') = Len(requests) + 1
          /\ \A n \in 1..Len(requests) : requests'[n] = requests[n]
          /\ requests'[Len(requests) + 1] = Call(kind, serial')
      BY <2>q, <2>2, <3>1, AppendMessage
    <3>3. \A n \in 1..Len(requests') : n \in 1..Len(requests) \/ n = Len(requests) + 1
      BY <3>2
    <3>4. \A n \in 1..Len(requests') : requests'[n].kind = kind
      BY <2>2, <3>1, <3>2, <3>3 DEF CallInv
    <3>5. Missing' = kind
      BY <2>2 DEF Missing
    <3>6. /\ appPc' = "waitRegister" => ~registered'
          /\ appPc' = "waitUnregister" => registered'
      BY <2>2 DEF Waiting, Missing
    <3>7. bluez' = "querying" => ~registered'
      BY <2>2 DEF CallInv
    <3> QED
      BY <3>4, <3>5, <3>6, <3>7 DEF CallInv
  <2>3. CASE RegisterWithBlueZ \/ UnregisterFromBlueZ
    <3>1. serial' \in Serials
      BY <2>3 DEF RegisterWithBlueZ, UnregisterFromBlueZ, Send, TypeOK, Serials
    <3> QED
      BY <2>2, <2>3, <3>1 DEF RegisterWithBlueZ, UnregisterFromBlueZ, Send, Waiting, Missing
  <2>4. CASE SetupRefused \/ CallNotSent \/ UnregisterObject \/ Dispatch \/ CallTimesOut
    <3>1. UNCHANGED <<registered, requests, bluez>> /\ appPc' \in {appPc, "idle"}
      BY <2>4 DEF SetupRefused, CallNotSent, UnregisterObject, Dispatch, CallTimesOut, app
    <3> QED
      BY <3>1 DEF CallInv, Missing
  <2>5. CASE ReplyArrives
    <3>1. replies # <<>> /\ UNCHANGED <<requests, bluez>>
      BY <2>5 DEF ReplyArrives
    <3>2. CASE appPc # "idle" /\ Head(replies).serial = serial /\ Head(replies).ok
      <4>1. 1 \in 1..Len(replies) /\ Head(replies) = replies[1]
        BY <2>q, <3>1, TakeMessage
      <4>2. requests = <<>> /\ bluez # "querying"
        BY <2>0, <3>2, <4>1 DEF ReplyInv, Settled, QueryInv
      <4>3. appPc' = "idle"
        BY <2>5, <3>2 DEF ReplyArrives
      <4> QED
        BY <3>1, <4>2, <4>3 DEF CallInv
    <3>3. CASE ~(appPc # "idle" /\ Head(replies).serial = serial /\ Head(replies).ok)
      <4>1. UNCHANGED registered /\ appPc' \in {appPc, "idle"}
        BY <2>5, <3>3 DEF ReplyArrives, AfterReply
      <4> QED
        BY <3>1, <4>1 DEF CallInv, Missing
    <3> QED
      BY <3>2, <3>3
  <2>6. CASE BlueZTakesRegister \/ BlueZTakesUnregister
    <3>1. requests # <<>> /\ requests' = Tail(requests) /\ UNCHANGED app
      BY <2>6 DEF BlueZTakesRegister, BlueZTakesUnregister
    <3>2. /\ 1 \in 1..Len(requests) /\ Head(requests) = requests[1]
          /\ \A n \in 1..Len(requests') :
                n + 1 \in 1..Len(requests) /\ requests'[n] = requests[n + 1]
      BY <2>q, <3>1, TakeMessage
    <3>3. bluez' = "querying" => ~registered
      BY <2>6, <3>2 DEF BlueZTakesRegister, BlueZTakesUnregister, CallInv, Missing
    <3>4. UNCHANGED <<registered, appPc>>
      BY <3>1 DEF app
    <3>5. Missing' = Missing /\ \A n \in 1..Len(requests') : requests'[n].kind = Missing
      BY <3>2, <3>4 DEF CallInv, Missing
    <3>6. /\ appPc' = "waitRegister" => ~registered'
          /\ appPc' = "waitUnregister" => registered'
          /\ bluez' = "querying" => ~registered'
      BY <3>3, <3>4 DEF CallInv
    <3>7. \A n \in 1..Len(requests') : requests'[n].kind = Missing'
      BY <3>5
    <3> QED
      BY <3>6, <3>7 DEF CallInv
  <2>7. CASE BlueZConcludes \/ QueryTimesOut
    <3>1. bluez' # "querying" /\ UNCHANGED <<registered, appPc, requests>>
      BY <2>7 DEF BlueZConcludes, QueryTimesOut, Conclude, app
    <3> QED
      BY <3>1 DEF CallInv, Missing
  <2>8. CASE BlueZRestarts
    BY <2>8 DEF BlueZRestarts, app, CallInv
  <2> QED
    BY <2>1, <2>3, <2>4, <2>5, <2>6, <2>7, <2>8 DEF Next, Answers
<1> QED
  BY <1>1, <1>2, TypeCorrect, LateInvariant, PTL DEF Spec

LEMMA OrderInvariant == Spec => []OrderInv
<1>1. Init => OrderInv
  BY DEF Init, OrderInv
<1>2. TypeOK /\ LateInv /\ CallInv /\ OrderInv /\ [Next]_vars => OrderInv'
  <2> SUFFICES ASSUME TypeOK, LateInv, CallInv, OrderInv, [Next]_vars PROVE OrderInv'
    OBVIOUS
  <2>q. requests \in Seq(Requests) /\ replies \in Seq(Replies)
    BY TypeParts DEF QueuesOK
  <2>n. serial \in Nat /\ client \in Nat
    BY TypeParts DEF ScalarsOK, Serials
  <2>s. /\ \A n \in 1..Len(requests) : requests[n].serial \in Nat
        /\ \A n \in 1..Len(replies) : replies[n].serial \in Nat
    <3>1. /\ \A n \in 1..Len(requests) : requests[n] \in Requests
          /\ \A n \in 1..Len(replies) : replies[n] \in Replies
      BY <2>q
    <3> QED
      BY <3>1 DEF Requests, Replies, Serials
  <2>0. RequestInv /\ QueryInv /\ ReplyInv
    BY DEF LateInv
  <2>1. CASE UNCHANGED vars
    BY <2>1 DEF vars, app, OrderInv
  <2>2. CASE RegisterWithBlueZ \/ UnregisterFromBlueZ
    <3>1. PICK kind \in {"RegisterApplication", "UnregisterApplication"} :
             /\ requests' = Append(requests, Call(kind, serial')) /\ serial' = serial + 1
             /\ serial < MaxCalls /\ UNCHANGED <<replies, bluez, client>>
      BY <2>2 DEF RegisterWithBlueZ, UnregisterFromBlueZ, Send
    <3>2. Call(kind, serial') \in Requests /\ Call(kind, serial').serial = serial'
      <4>1. serial' \in Serials
        BY <2>n, <3>1 DEF Serials
      <4> QED
        BY <4>1, MessageTypes DEF Call
    <3>3. /\ Len(requests) \in Nat /\ Len(requests') = Len(requests) + 1
          /\ \A n \in 1..Len(requests) : requests'[n] = requests[n]
          /\ requests'[Len(requests) + 1] = Call(kind, serial')
      BY <2>q, <3>1, <3>2, AppendMessage
    <3>4. \A n \in 1..Len(requests) : requests[n].serial < serial'
      BY <2>0, <2>n, <2>s, <3>1 DEF RequestInv
    <3>5. \A m, n \in 1..Len(requests') : m < n => requests'[m].serial < requests'[n].serial
      BY <3>2, <3>3, <3>4 DEF OrderInv
    <3>6. bluez' = "querying" => \A n \in 1..Len(requests') : client' < requests'[n].serial
      BY <2>0, <2>n, <3>1, <3>2, <3>3 DEF OrderInv, QueryInv
    <3>7. \A n \in 1..Len(replies') : replies'[n].serial # serial'
      BY <2>0, <2>n, <2>s, <3>1 DEF ReplyInv
    <3> QED
      BY <3>5, <3>6, <3>7 DEF OrderInv
  <2>3. CASE SetupRefused \/ CallNotSent \/ UnregisterObject \/ Dispatch \/ CallTimesOut
    <3>1. UNCHANGED <<requests, replies, bluez, client, serial>>
      BY <2>3 DEF SetupRefused, CallNotSent, UnregisterObject, Dispatch, CallTimesOut, app
    <3> QED
      BY <3>1 DEF OrderInv
  <2>4. CASE ReplyArrives
    <3>1. replies # <<>> /\ replies' = Tail(replies) /\ UNCHANGED <<requests, bluez, client, serial>>
      BY <2>4 DEF ReplyArrives
    <3>2. \A n \in 1..Len(replies') : n + 1 \in 1..Len(replies) /\ replies'[n] = replies[n + 1]
      BY <2>q, <3>1, TakeMessage
    <3> QED
      BY <3>1, <3>2 DEF OrderInv
  \* a reply that joins the queue
  <2>5. ASSUME NEW n \in Serials, NEW ok \in BOOLEAN,
               replies' = Append(replies, Reply(n, ok)), serial' = serial,
               n = serial => \A k \in 1..Len(replies) : replies[k].serial # serial,
               n = serial => ~(bluez' = "querying" /\ client' = serial),
               bluez' = "querying" => bluez = "querying" /\ client' = client
        PROVE  /\ \A k \in 1..Len(replies') : replies'[k].serial = serial'
                    => ~(bluez' = "querying" /\ client' = serial')
               /\ \A k, m \in 1..Len(replies') :
                    replies'[k].serial = serial' /\ replies'[m].serial = serial'
                       => (replies'[k].ok <=> replies'[m].ok)
    <3>1. Reply(n, ok) \in Replies /\ Reply(n, ok).serial = n
      BY MessageTypes DEF Reply
    <3>2. /\ Len(replies) \in Nat /\ Len(replies') = Len(replies) + 1
          /\ \A k \in 1..Len(replies) : replies'[k] = replies[k]
          /\ replies'[Len(replies) + 1].serial = n
      BY <2>5, <2>q, <3>1, AppendMessage
    <3>3. \A k \in 1..Len(replies') : k \in 1..Len(replies) \/ k = Len(replies) + 1
      BY <3>2
    <3> QED
      BY <2>5, <3>2, <3>3 DEF OrderInv
  <2>6. CASE BlueZTakesRegister \/ BlueZTakesUnregister
    <3>1. requests # <<>> /\ requests' = Tail(requests) /\ serial' = serial
      BY <2>6 DEF BlueZTakesRegister, BlueZTakesUnregister, app
    <3>2. /\ 1 \in 1..Len(requests) /\ Head(requests) = requests[1] /\ Len(requests) \in Nat
          /\ \A n \in 1..Len(requests') :
                n + 1 \in 1..Len(requests) /\ requests'[n] = requests[n + 1]
      BY <2>q, <3>1, TakeMessage
    <3>3. /\ \A m, n \in 1..Len(requests') : m < n => requests'[m].serial < requests'[n].serial
          /\ \A n \in 1..Len(requests') : Head(requests).serial < requests'[n].serial
      <4>1. ASSUME NEW m \in 1..Len(requests'), NEW n \in 1..Len(requests'), m < n
            PROVE  requests'[m].serial < requests'[n].serial
        <5>1. m \in Nat /\ n \in Nat /\ m + 1 < n + 1
          BY <4>1
        <5>2. /\ m + 1 \in 1..Len(requests) /\ requests'[m] = requests[m + 1]
              /\ n + 1 \in 1..Len(requests) /\ requests'[n] = requests[n + 1]
          BY <3>2
        <5>3. requests[m + 1].serial < requests[n + 1].serial
          BY <5>1, <5>2 DEF OrderInv
        <5> QED
          BY <5>2, <5>3
      <4>2. ASSUME NEW n \in 1..Len(requests')
            PROVE  Head(requests).serial < requests'[n].serial
        BY <3>2, <4>2 DEF OrderInv
      <4> QED
        BY <4>1, <4>2
    <3>4. Head(requests).serial \in Serials
      BY <2>0, <3>1, TakeRequest, <2>6 DEF BlueZTakesRegister, BlueZTakesUnregister, app
    <3>5. \A k \in 1..Len(replies) : replies[k].serial # serial
      BY <2>0, <3>1 DEF ReplyInv
    <3>6. CASE BlueZTakesRegister /\ bluez = "none"
      <4>1. client' = Head(requests).serial /\ UNCHANGED replies
        BY <3>6 DEF BlueZTakesRegister
      <4> QED
        BY <3>1, <3>3, <3>5, <4>1 DEF OrderInv
    <3>7. CASE ~(BlueZTakesRegister /\ bluez = "none")
      <4>1. PICK ok \in BOOLEAN : replies' = Append(replies, Reply(Head(requests).serial, ok))
        BY <2>6, <3>7 DEF BlueZTakesRegister, BlueZTakesUnregister
      <4>2. (bluez' = "querying" => bluez = "querying") /\ UNCHANGED client
        BY <2>6, <3>7 DEF BlueZTakesRegister, BlueZTakesUnregister
      <4>3. bluez = "querying" => client < Head(requests).serial
        BY <3>2 DEF OrderInv
      <4>4. bluez' = "querying" => \A n \in 1..Len(requests') : client' < requests'[n].serial
        BY <3>2, <4>2 DEF OrderInv
      <4>5. Head(requests).serial = serial => ~(bluez' = "querying" /\ client' = serial)
        BY <2>n, <4>2, <4>3
      <4> QED
        BY <2>5, <3>1, <3>3, <3>4, <3>5, <4>1, <4>2, <4>4, <4>5 DEF OrderInv
    <3> QED
      BY <3>6, <3>7
  <2>7. CASE BlueZConcludes \/ QueryTimesOut
    <3>1. PICK ok \in BOOLEAN : Conclude(ok)
      BY <2>7 DEF BlueZConcludes, QueryTimesOut
    <3>2. /\ replies' = Append(replies, Reply(client, ok)) /\ bluez' # "querying"
          /\ UNCHANGED <<requests, serial>> /\ bluez = "querying" /\ client \in Serials
      BY <2>0, <2>7, <3>1, TypeParts DEF BlueZConcludes, QueryTimesOut, Conclude, QueryInv, app,
         ScalarsOK
    <3>3. client = serial => \A k \in 1..Len(replies) : replies[k].serial # serial
      BY <3>2 DEF OrderInv
    <3> QED
      BY <2>5, <3>2, <3>3 DEF OrderInv
  <2>8. CASE BlueZRestarts
    <3>1. requests' = <<>> /\ bluez' = "none" /\ serial' = serial
      BY <2>8 DEF BlueZRestarts, app
    <3>2. ASSUME NEW k \in 1..Len(replies'), NEW m \in 1..Len(replies'),
                 replies'[k].serial = serial, replies'[m].serial = serial
          PROVE  replies'[k].ok <=> replies'[m].ok
      <4>1. \A n \in 1..Len(replies') :
              \/ n \in 1..Len(replies) /\ replies'[n] = replies[n]
              \/ /\ ~replies'[n].ok
                 /\ \/ bluez = "querying" /\ replies'[n].serial = client
                    \/ \E j \in 1..Len(requests) : replies'[n].serial = requests[j].serial
        BY <2>0, <2>8, RestartAnswers
      <4>2. CASE (bluez = "querying" /\ client = serial) \/ requests # <<>>
        <5>1. \A n \in 1..Len(replies) : replies[n].serial # serial
          BY <2>0, <4>2 DEF OrderInv, ReplyInv
        <5> QED
          BY <3>2, <4>1, <5>1
      <4>3. CASE ~(bluez = "querying" /\ client = serial) /\ requests = <<>>
        BY <3>2, <4>1, <4>3 DEF OrderInv
      <4> QED
        BY <4>2, <4>3
    <3> QED
      BY <3>1, <3>2 DEF OrderInv
  <2> QED
    BY <2>1, <2>2, <2>3, <2>4, <2>6, <2>7, <2>8 DEF Next, Answers
<1> QED
  BY <1>1, <1>2, TypeCorrect, LateInvariant, CallInvariant, PTL DEF Spec

-----------------------------------------------------------------------------
\* BlueZRegistration implements RegistrationSpec: the calls on their way are the
\* open ones, and the reply on its way to the caller that waits is the verdict.
Asked == {requests[n].serial : n \in DOMAIN requests}

LEMMA ReplyIs == \A n, ok : \A r \in Replies : r = Reply(n, ok) <=> r.serial = n /\ r.ok = ok
  BY DEF Replies, Reply

LEMMA VerdictIs ==
    ASSUME UNCHANGED <<appPc, serial, replies>>
    PROVE  UNCHANGED Verdict
  BY DEF Verdict, Answered

\* The oldest request leaves the queue, and only it.
LEMMA TakeOldest ==
    ASSUME TypeOK, OrderInv, requests # <<>>, requests' = Tail(requests)
    PROVE  /\ Head(requests).serial \in Asked
           /\ Asked' = Asked \ {Head(requests).serial}
           /\ \A m \in Asked : Head(requests).serial <= m
<1>1. requests \in Seq(Requests) /\ requests' \in Seq(Requests)
  BY TypeParts DEF QueuesOK
<1>2. /\ DOMAIN requests = 1..Len(requests) /\ DOMAIN requests' = 1..Len(requests')
      /\ Len(requests) \in Nat
  BY <1>1
<1>3. /\ 1 \in 1..Len(requests) /\ Head(requests) = requests[1]
      /\ Len(requests') = Len(requests) - 1
      /\ \A n \in 1..Len(requests') : n + 1 \in 1..Len(requests) /\ requests'[n] = requests[n + 1]
  BY <1>1, TakeMessage
<1>4. \A n \in 1..Len(requests) : requests[n].serial \in Nat
  <2>1. \A n \in 1..Len(requests) : requests[n] \in Requests
    BY <1>1
  <2> QED
    BY <2>1 DEF Requests, Serials
<1>5. \A n \in 1..Len(requests) : n = 1 \/ requests[1].serial < requests[n].serial
  BY <1>3 DEF OrderInv
<1>6. \A n \in 1..Len(requests) :
         n = 1 \/ (n - 1 \in 1..Len(requests') /\ requests'[n - 1] = requests[n])
  BY <1>2, <1>3
<1>7. Asked = {requests[n].serial : n \in 1..Len(requests)}
      /\ Asked' = {requests'[n].serial : n \in 1..Len(requests')}
  BY <1>2 DEF Asked
<1>8. \A m : m \in Asked' <=> m \in Asked /\ m # requests[1].serial
  <2>1. ASSUME NEW m \in Asked' PROVE m \in Asked /\ m # requests[1].serial
    <3>1. PICK n \in 1..Len(requests') : m = requests'[n].serial
      BY <1>7
    <3>2. n + 1 \in 1..Len(requests) /\ m = requests[n + 1].serial /\ n + 1 # 1
      BY <1>3, <3>1
    <3> QED
      BY <1>3, <1>4, <1>5, <1>7, <3>2
  <2>2. ASSUME NEW m \in Asked, m # requests[1].serial PROVE m \in Asked'
    <3>1. PICK n \in 1..Len(requests) : m = requests[n].serial
      BY <1>7
    <3> QED
      BY <1>6, <1>7, <2>2, <3>1
  <2> QED
    BY <2>1, <2>2
<1>9. Asked' = Asked \ {requests[1].serial}
  BY <1>8
<1>10. requests[1].serial \in Asked
  BY <1>3, <1>7
<1>11. \A m \in Asked : requests[1].serial <= m
  BY <1>3, <1>4, <1>5, <1>7
<1> QED
  BY <1>3, <1>9, <1>10, <1>11

\* A reply that joins the queue is the verdict of its call.
LEMMA Told ==
    ASSUME TypeOK, TypeOK', NEW n \in Serials, NEW ok \in BOOLEAN,
           replies' = Append(replies, Reply(n, ok)), UNCHANGED <<appPc, serial>>,
           n = serial => \A k \in 1..Len(replies) : replies[k].serial # serial
    PROVE  Caller!Tell(n, IF ok THEN "ok" ELSE "refused")
<1>1. replies \in Seq(Replies) /\ replies' \in Seq(Replies) /\ serial \in Serials
  BY TypeParts DEF QueuesOK, ScalarsOK, TypeOK, Replies
<1>2. Reply(n, ok) \in Replies /\ Reply(n, ok).serial = n /\ Reply(n, ok).ok = ok
  BY MessageTypes DEF Reply
<1>3. /\ Len(replies) \in Nat /\ Len(replies') = Len(replies) + 1
      /\ \A k \in 1..Len(replies) : replies'[k] = replies[k]
      /\ replies'[Len(replies) + 1] = Reply(n, ok)
  BY <1>1, <1>2, AppendMessage
<1>4. DOMAIN replies = 1..Len(replies) /\ DOMAIN replies' = 1..Len(replies')
  BY <1>1
<1>5. \A v \in BOOLEAN : Answered(v)' <=> Answered(v) \/ Reply(n, ok) = Reply(serial, v)
  <2> TAKE v \in BOOLEAN
  <2>1. Answered(v) <=> \E k \in 1..Len(replies) : replies[k] = Reply(serial, v)
    BY <1>4 DEF Answered
  <2>2. Answered(v)' <=> \E k \in 1..Len(replies') : replies'[k] = Reply(serial', v)
    BY <1>4 DEF Answered, Reply
  <2>3. \A k \in 1..Len(replies') : k \in 1..Len(replies) \/ k = Len(replies) + 1
    BY <1>3
  <2>4. 1..Len(replies) \subseteq 1..Len(replies') /\ Len(replies) + 1 \in 1..Len(replies')
    BY <1>3
  <2> QED
    BY <1>3, <2>1, <2>2, <2>3, <2>4
<1>6. \A v \in BOOLEAN : Reply(n, ok) = Reply(serial, v) <=> n = serial /\ ok = v
  BY <1>2, ReplyIs
<1>7. n = serial => \A v \in BOOLEAN : ~Answered(v)
  <2>1. \A v \in BOOLEAN : Reply(serial, v).serial = serial
    BY DEF Reply
  <2> QED
    BY <1>4, <2>1 DEF Answered
<1>8. CASE appPc # "idle" /\ n = serial
  BY <1>5, <1>6, <1>7, <1>8 DEF Verdict, Caller!Tell
<1>9. CASE ~(appPc # "idle" /\ n = serial)
  <2>1. appPc = "idle" \/ (Answered(TRUE)' = Answered(TRUE) /\ Answered(FALSE)' = Answered(FALSE))
    <3>1. \A v \in BOOLEAN : Answered(v) \in BOOLEAN /\ Answered(v)' \in BOOLEAN
      BY DEF Answered
    <3> QED
      BY <1>5, <1>6, <1>9, <3>1
  <2>2. Verdict' = Verdict
    BY <2>1 DEF Verdict
  <2> QED
    BY <1>9, <2>2 DEF Caller!Tell
<1> QED
  BY <1>8, <1>9

\* However messages cross, calls time out and bluetoothd restarts, callers see what
\* RegistrationSpec promises: a call is decided at one moment, at most once and never
\* before an older one, and returns its own decision or nothing.
THEOREM RegistrationImplements == Spec => ImplementsRegistrationSpec
<1>1. Init => Caller!Init
  BY DEF Init, Caller!Init, OpenCalls, Verdict
<1>2. TypeOK /\ TypeOK' /\ LateInv /\ CallInv /\ OrderInv /\ OrderInv' /\ [Next]_vars
         => [Caller!Next]_(Caller!spec_vars)
  <2> SUFFICES ASSUME TypeOK, TypeOK', LateInv, CallInv, OrderInv, OrderInv', [Next]_vars
               PROVE  Caller!Next \/ UNCHANGED Caller!spec_vars
    OBVIOUS
  <2>q. requests \in Seq(Requests) /\ replies \in Seq(Replies) /\ replies' \in Seq(Replies)
    BY TypeParts DEF QueuesOK, TypeOK, Replies
  <2>t. /\ registered \in BOOLEAN /\ serial \in Nat /\ client \in Nat
        /\ bluez \in {"none", "querying", "registered"}
        /\ appPc \in {"idle", "waitRegister", "waitUnregister"}
    BY TypeParts DEF ScalarsOK, Serials
  <2>0. RequestInv /\ QueryInv /\ ReplyInv
    BY DEF LateInv
  <2>o. OpenCalls = Asked \cup (IF bluez = "querying" THEN {client} ELSE {})
        /\ OpenCalls' = Asked' \cup (IF bluez' = "querying" THEN {client'} ELSE {})
    BY DEF OpenCalls, Asked
  <2>a. Asked = {requests[n].serial : n \in 1..Len(requests)}
    BY <2>q DEF Asked
  <2>r. \A ok \in BOOLEAN :
           /\ Answered(ok) <=> \E n \in 1..Len(replies) : replies[n] = Reply(serial, ok)
           /\ Answered(ok)' <=> \E n \in 1..Len(replies') : replies'[n] = Reply(serial', ok)
    BY <2>q DEF Answered, Reply
  \* steps that its callers do not see
  <2>1. ASSUME UNCHANGED <<registered, serial, appPc, requests, replies, bluez, client>>
        PROVE  UNCHANGED Caller!spec_vars
    <3>1. UNCHANGED Verdict
      BY <2>1, VerdictIs
    <3>2. UNCHANGED OpenCalls
      BY <2>1 DEF OpenCalls
    <3> QED
      BY <2>1, <3>1, <3>2 DEF Caller!spec_vars
  <2>2. CASE UNCHANGED vars \/ SetupRefused \/ CallNotSent \/ UnregisterObject \/ Dispatch
    BY <2>1, <2>2 DEF vars, app, SetupRefused, CallNotSent, UnregisterObject, Dispatch
  <2>3. CASE RegisterWithBlueZ \/ UnregisterFromBlueZ
    <3>1. PICK kind \in {"RegisterApplication", "UnregisterApplication"} :
             /\ requests' = Append(requests, Call(kind, serial')) /\ serial' = serial + 1
             /\ appPc = "idle" /\ appPc' # "idle"
             /\ UNCHANGED <<registered, replies, bluez, client>>
      BY <2>3 DEF RegisterWithBlueZ, UnregisterFromBlueZ, Send
    <3>2. Call(kind, serial') \in Requests /\ Call(kind, serial').serial = serial'
      <4>1. serial' \in Serials
        BY DEF TypeOK
      <4> QED
        BY <4>1, MessageTypes DEF Call
    <3>3. Asked' = Asked \cup {serial'}
      <4>1. /\ Len(requests) \in Nat /\ Len(requests') = Len(requests) + 1
            /\ \A n \in 1..Len(requests) : requests'[n] = requests[n]
            /\ requests'[Len(requests) + 1] = Call(kind, serial')
        BY <2>q, <3>1, <3>2, AppendMessage
      <4>2. requests' \in Seq(Requests)
        BY <2>q, <3>1, <3>2
      <4>3. Asked' = {requests'[n].serial : n \in 1..Len(requests')}
        BY <4>2 DEF Asked
      <4>4. 1..Len(requests') = 1..Len(requests) \cup {Len(requests) + 1}
        BY <4>1
      <4> QED
        BY <2>a, <3>2, <4>1, <4>3, <4>4
    <3>4. Verdict = "none" /\ Verdict' = "none"
      <4>1. \A n \in 1..Len(replies) : replies[n].serial <= serial /\ replies[n].serial \in Nat
        <5>1. \A n \in 1..Len(replies) : replies[n] \in Replies
          BY <2>q
        <5> QED
          BY <2>0, <5>1 DEF ReplyInv, Replies, Serials
      <4>2. \A ok \in BOOLEAN : Reply(serial', ok).serial = serial'
        BY DEF Reply
      <4>3. \A n \in 1..Len(replies') : replies'[n].serial # serial'
        BY <2>t, <3>1, <4>1
      <4>4. \A n \in 1..Len(replies'), ok \in BOOLEAN : replies'[n] # Reply(serial', ok)
        BY <4>2, <4>3
      <4>5. ~Answered(TRUE)' /\ ~Answered(FALSE)'
        BY <2>r, <4>4
      <4> QED
        BY <3>1, <4>5 DEF Verdict
    <3>5. OpenCalls' = OpenCalls \cup {serial + 1}
      BY <2>o, <3>1, <3>3
    <3> QED
      BY <3>1, <3>4, <3>5 DEF Caller!Ask, Caller!Next
  <2>4. CASE ReplyArrives
    <3>1. replies # <<>> /\ replies' = Tail(replies) /\ UNCHANGED <<serial, requests, bluez, client>>
      BY <2>4 DEF ReplyArrives
    <3>2. /\ 1 \in 1..Len(replies) /\ Head(replies) = replies[1] /\ Head(replies) \in Replies
          /\ Len(replies') = Len(replies) - 1 /\ Len(replies) \in Nat
          /\ \A n \in 1..Len(replies') : n + 1 \in 1..Len(replies) /\ replies'[n] = replies[n + 1]
      BY <2>q, <3>1, TakeMessage
    <3>3. UNCHANGED OpenCalls
      BY <3>1 DEF OpenCalls
    <3>4. CASE appPc # "idle" /\ Head(replies).serial = serial
      <4>1. appPc' = "idle" /\ registered' = AfterReply(Head(replies).ok)
        BY <2>4, <3>4 DEF ReplyArrives
      <4>2. Verdict' = "none"
        BY <4>1 DEF Verdict
      <4>3. Head(replies).ok \in BOOLEAN
        BY <3>2 DEF Replies
      <4>4. Answered(Head(replies).ok) /\ ~Answered(~Head(replies).ok)
        <5>1. Head(replies) = Reply(serial, Head(replies).ok)
          BY <3>2, <3>4, ReplyIs
        <5>2. Answered(Head(replies).ok)
          BY <2>r, <3>2, <4>3, <5>1
        <5> DEFINE no == ~Head(replies).ok
        <5>3. no \in BOOLEAN
          OBVIOUS
        <5>4. ASSUME NEW n \in 1..Len(replies), replies[n] = Reply(serial, no) PROVE FALSE
          <6>1. replies[n].serial = serial /\ replies[n].ok = no
            BY <5>4 DEF Reply
          <6>2. replies[n].ok <=> replies[1].ok
            BY <3>2, <3>4, <6>1 DEF OrderInv
          <6> QED
            BY <3>2, <6>1, <6>2
        <5> HIDE DEF no
        <5>5. ~Answered(no)
          BY <2>r, <5>3, <5>4
        <5> QED
          BY <5>2, <5>5 DEF no
      <4>5. Verdict = IF Head(replies).ok THEN "ok" ELSE "refused"
        BY <3>4, <4>3, <4>4 DEF Verdict
      <4>6. registered' = IF Head(replies).ok THEN ~registered ELSE registered
        BY <2>t, <3>4, <4>1, <4>3 DEF AfterReply, CallInv
      <4> QED
        BY <3>1, <3>3, <3>4, <4>1, <4>2, <4>3, <4>5, <4>6 DEF Caller!Answer, Caller!Next
    <3>5. CASE ~(appPc # "idle" /\ Head(replies).serial = serial)
      <4>1. UNCHANGED <<registered, appPc>>
        BY <2>4, <3>5 DEF ReplyArrives
      <4>2. ASSUME appPc # "idle", NEW ok \in BOOLEAN PROVE Answered(ok)' <=> Answered(ok)
        <5>1. replies[1] # Reply(serial, ok)
          BY <3>2, <3>5, <4>2 DEF Reply
        <5>2. \A n \in 1..Len(replies) :
                 n = 1 \/ (n - 1 \in 1..Len(replies') /\ replies'[n - 1] = replies[n])
          BY <3>2
        <5>3. (\E n \in 1..Len(replies') : replies'[n] = Reply(serial, ok))
                 <=> (\E n \in 1..Len(replies) : replies[n] = Reply(serial, ok))
          BY <3>2, <5>1, <5>2
        <5> QED
          BY <2>r, <3>1, <5>3
      <4>3. UNCHANGED Verdict
        <5>1. appPc = "idle" \/ (/\ Answered(TRUE)' <=> Answered(TRUE)
                                 /\ Answered(FALSE)' <=> Answered(FALSE))
          BY <4>2
        <5> QED
          BY <4>1, <5>1 DEF Verdict
      <4> QED
        BY <3>1, <3>3, <4>1, <4>3 DEF Caller!spec_vars
    <3> QED
      BY <3>4, <3>5
  <2>5. CASE CallTimesOut
    <3>1. appPc # "idle" /\ appPc' = "idle" /\ UNCHANGED <<registered, serial, requests, bluez, client>>
      BY <2>5 DEF CallTimesOut
    <3>2. Verdict' = "none" /\ UNCHANGED OpenCalls
      BY <3>1 DEF Verdict, OpenCalls
    <3> QED
      BY <3>1, <3>2 DEF Caller!GiveUp, Caller!Next
  <2>6. CASE BlueZTakesRegister \/ BlueZTakesUnregister
    <3>1. requests # <<>> /\ requests' = Tail(requests) /\ UNCHANGED <<registered, appPc, serial>>
      BY <2>6 DEF BlueZTakesRegister, BlueZTakesUnregister, app
    <3> DEFINE n == Head(requests).serial
    <3>2. n \in Asked /\ Asked' = Asked \ {n} /\ \A m \in Asked : n <= m
      BY <3>1, TakeOldest
    <3>3. n \in Serials
      BY <2>0, <3>1, TakeRequest
    <3>4. Head(requests).kind = Missing
      BY <2>q, <3>1, TakeMessage DEF CallInv
    <3>5. bluez = "querying" => client # n
      <4>1. 1 \in 1..Len(requests) /\ Head(requests) = requests[1]
        BY <2>q, <3>1, TakeMessage
      <4> QED
        BY <2>t, <4>1 DEF OrderInv
    <3>6. \A k \in 1..Len(replies) : replies[k].serial # serial
      BY <2>0, <3>1 DEF ReplyInv
    <3> HIDE DEF n
    <3>7. CASE BlueZTakesRegister /\ bluez = "none"
      <4>1. bluez' = "querying" /\ client' = n /\ UNCHANGED replies
        BY <3>7 DEF BlueZTakesRegister, n
      <4>2. UNCHANGED OpenCalls
        BY <2>o, <3>2, <3>7, <4>1
      <4>3. UNCHANGED Verdict
        BY <3>1, <4>1, VerdictIs
      <4>4. (bluez = "registered") = (bluez' = "registered")
        BY <3>7, <4>1
      <4> QED
        BY <3>1, <4>2, <4>3, <4>4 DEF Caller!spec_vars
    <3>8. CASE BlueZTakesRegister /\ bluez # "none"
      <4>1. UNCHANGED <<bluez, client>> /\ replies' = Append(replies, Reply(n, FALSE)) /\ ~registered
        BY <3>4, <3>8 DEF BlueZTakesRegister, Missing, n
      <4>2. n \in OpenCalls /\ OpenCalls' = OpenCalls \ {n}
        BY <2>o, <3>2, <3>5, <4>1
      <4>3. Caller!Tell(n, "refused")
        BY <3>1, <3>3, <3>6, <4>1, Told
      <4> QED
        BY <3>1, <4>1, <4>2, <4>3 DEF Caller!Refuse, Caller!Next
    <3>9. CASE BlueZTakesUnregister
      <4>1. /\ bluez' = "none" /\ replies' = Append(replies, Reply(n, bluez # "none"))
            /\ registered
        BY <3>4, <3>9 DEF BlueZTakesUnregister, Missing, n
      <4>2. bluez # "querying"
        BY <4>1 DEF CallInv
      <4>3. n \in OpenCalls /\ OpenCalls' = OpenCalls \ {n} /\ \A m \in OpenCalls : n <= m
        BY <2>o, <3>2, <4>1, <4>2
      <4>4. CASE bluez = "registered"
        <5>1. Caller!Tell(n, "ok")
          <6>1. replies' = Append(replies, Reply(n, TRUE))
            BY <4>1, <4>4
          <6> QED
            BY <3>1, <3>3, <3>6, <6>1, Told
        <5>2. registered = TRUE
          BY <2>t, <4>1
        <5> QED
          BY <3>1, <4>1, <4>3, <4>4, <5>1, <5>2 DEF Caller!Grant, Caller!Next
      <4>5. CASE bluez = "none"
        <5>1. Caller!Tell(n, "refused")
          <6>1. replies' = Append(replies, Reply(n, FALSE))
            BY <4>1, <4>5
          <6> QED
            BY <3>1, <3>3, <3>6, <6>1, Told
        <5> QED
          BY <3>1, <4>1, <4>3, <4>5, <5>1 DEF Caller!Refuse, Caller!Next
      <4> QED
        BY <2>t, <4>2, <4>4, <4>5
    <3> QED
      BY <2>6, <3>7, <3>8, <3>9
  <2>7. CASE BlueZConcludes \/ QueryTimesOut
    <3>1. PICK ok \in BOOLEAN : Conclude(ok)
      BY <2>7 DEF BlueZConcludes, QueryTimesOut
    <3>2. /\ bluez = "querying" /\ ~registered /\ client \in Serials
          /\ UNCHANGED <<registered, appPc, serial, requests, client>>
      BY <2>0, <2>7, TypeParts DEF BlueZConcludes, QueryTimesOut, QueryInv, CallInv, ScalarsOK, app
    <3>3. bluez' = (IF ok THEN "registered" ELSE "none")
          /\ replies' = Append(replies, Reply(client, ok))
      BY <3>1 DEF Conclude
    <3>4. \A m \in Asked : m \in Nat /\ client < m
      <4>1. \A n \in 1..Len(requests) : requests[n] \in Requests
        BY <2>q
      <4> QED
        BY <2>a, <3>2, <4>1 DEF OrderInv, Requests, Serials
    <3>5. /\ client \in OpenCalls /\ OpenCalls' = OpenCalls \ {client}
          /\ \A m \in OpenCalls : client <= m
      <4>1. UNCHANGED Asked /\ client \notin Asked
        BY <2>t, <3>2, <3>4 DEF Asked
      <4>2. OpenCalls = Asked \cup {client} /\ OpenCalls' = Asked
        BY <2>o, <3>2, <3>3, <4>1
      <4> QED
        BY <2>t, <3>4, <4>1, <4>2
    <3>6. Caller!Tell(client, IF ok THEN "ok" ELSE "refused")
      <4>1. client = serial => \A k \in 1..Len(replies) : replies[k].serial # serial
        BY <3>2 DEF OrderInv
      <4> QED
        BY <3>2, <3>3, <4>1, Told
    <3>7. CASE ok
      <4>1. registered = FALSE
        BY <2>t, <3>2
      <4>2. Caller!Grant(client)
        BY <3>2, <3>3, <3>5, <3>6, <3>7, <4>1 DEF Caller!Grant
      <4> QED
        BY <3>5, <4>2 DEF Caller!Next
    <3>8. CASE ~ok
      <4>1. Caller!Refuse(client)
        BY <3>2, <3>3, <3>5, <3>6, <3>8 DEF Caller!Refuse
      <4> QED
        BY <3>5, <4>1 DEF Caller!Next
    <3> QED
      BY <3>7, <3>8
  <2>8. CASE BlueZRestarts
    <3>1. requests' = <<>> /\ bluez' = "none" /\ UNCHANGED <<registered, appPc, serial>>
      BY <2>8 DEF BlueZRestarts, app
    <3>2. OpenCalls' = {}
      BY <3>1 DEF OpenCalls
    <3>3. /\ \A n \in 1..Len(replies) : n \in 1..Len(replies') /\ replies'[n] = replies[n]
          /\ \A m \in OpenCalls : \E n \in 1..Len(replies') : replies'[n] = Reply(m, FALSE)
          /\ \A n \in 1..Len(replies') :
                \/ n \in 1..Len(replies) /\ replies'[n] = replies[n]
                \/ /\ ~replies'[n].ok
                   /\ \/ bluez = "querying" /\ replies'[n].serial = client
                      \/ \E j \in 1..Len(requests) : replies'[n].serial = requests[j].serial
      BY <2>0, <2>8, RestartAnswers
    <3>4. \A ok \in BOOLEAN : Reply(serial, ok).serial = serial /\ Reply(serial, ok).ok = ok
      BY DEF Reply
    <3>5. CASE serial \in OpenCalls
      <4>1. Answered(FALSE)'
        BY <2>r, <3>1, <3>3, <3>5
      <4>2. ~Answered(TRUE)'
        <5>1. \A m, n \in 1..Len(replies') :
                 replies'[m].serial = serial /\ replies'[n].serial = serial
                    => (replies'[m].ok <=> replies'[n].ok)
          BY <3>1 DEF OrderInv
        <5> QED
          BY <2>r, <3>1, <3>4, <4>1, <5>1
      <4>3. Caller!Tell(serial, "refused")
        BY <3>1, <4>1, <4>2 DEF Caller!Tell, Verdict
      <4> QED
        BY <3>1, <3>2, <3>5, <4>3 DEF Caller!Restart, Caller!Next
    <3>6. CASE serial \notin OpenCalls
      <4>1. \A n \in 1..Len(replies') : replies'[n].serial = serial
                => n \in 1..Len(replies) /\ replies'[n] = replies[n]
        BY <2>o, <2>a, <3>3, <3>6
      <4>2. /\ Answered(TRUE)' <=> Answered(TRUE)
            /\ Answered(FALSE)' <=> Answered(FALSE)
        BY <2>r, <3>1, <3>3, <3>4, <4>1
      <4>3. UNCHANGED Verdict
        BY <3>1, <4>2 DEF Verdict
      <4> QED
        BY <3>1, <3>2, <3>6, <4>3 DEF Caller!Restart, Caller!Next
    <3> QED
      BY <3>5, <3>6
  <2> QED
    BY <2>2, <2>3, <2>4, <2>5, <2>6, <2>7, <2>8 DEF Next, Answers
<1> QED
  BY <1>1, <1>2, TypeCorrect, LateInvariant, CallInvariant, OrderInvariant, PTL
     DEF Spec, ImplementsRegistrationSpec, Caller!Spec

-----------------------------------------------------------------------------
\* Where the list of objects is never sent, what was answered is all refusals.
NoLoopInv ==
    /\ ~registered /\ bluez # "registered" /\ query # "answered"
    /\ \A n \in 1..Len(requests) : requests[n].kind = "RegisterApplication"
    /\ \A n \in 1..Len(replies) : ~replies[n].ok

\* Without a thread that dispatches the main context, and wherever GDBus sends no
\* reply that is not a tuple (handleGetManagedObjects returns the bare dictionary),
\* no registration ever succeeds, with however many attempts, timeouts and restarts:
\* neither side comes to believe in it, since BlueZ never gets the list of objects.
THEOREM NoLoopNeverRegisters ==
    ASSUME ~HasMainLoop \/ ~SendsBareDict
    PROVE  Spec => [](~registered /\ bluez # "registered")
<1>1. Init => NoLoopInv
  BY DEF Init, NoLoopInv
<1>2. TypeOK /\ LateInv /\ NoLoopInv /\ [Next]_vars => NoLoopInv'
  <2> SUFFICES ASSUME TypeOK, LateInv, NoLoopInv, [Next]_vars PROVE NoLoopInv'
    OBVIOUS
  <2>q. requests \in Seq(Requests) /\ replies \in Seq(Replies)
    BY TypeParts DEF QueuesOK
  <2>0. RequestInv /\ QueryInv
    BY DEF LateInv
  <2>1. CASE UNCHANGED vars \/ SetupRefused \/ CallNotSent \/ UnregisterObject \/ CallTimesOut
    <3>1. UNCHANGED <<registered, requests, replies, bluez, query>>
      BY <2>1 DEF vars, app, SetupRefused, CallNotSent, UnregisterObject, CallTimesOut
    <3> QED
      BY <3>1 DEF NoLoopInv
  <2>2. CASE RegisterWithBlueZ
    <3>1. /\ requests' = Append(requests, Call("RegisterApplication", serial'))
          /\ serial' \in Serials /\ UNCHANGED <<registered, replies, bluez, query>>
      BY <2>2, TypeParts DEF RegisterWithBlueZ, Send, ScalarsOK, Serials
    <3>2. /\ Call("RegisterApplication", serial') \in Requests
          /\ Call("RegisterApplication", serial').kind = "RegisterApplication"
      BY <3>1, MessageTypes DEF Call
    <3>3. /\ Len(requests) \in Nat /\ Len(requests') = Len(requests) + 1
          /\ \A n \in 1..Len(requests) : requests'[n] = requests[n]
          /\ requests'[Len(requests) + 1].kind = "RegisterApplication"
      BY <2>q, <3>1, <3>2, AppendMessage
    <3>4. \A n \in 1..Len(requests') : n \in 1..Len(requests) \/ n = Len(requests) + 1
      BY <3>3
    <3> QED
      BY <3>1, <3>3, <3>4 DEF NoLoopInv
  <2>3. ~UnregisterFromBlueZ /\ ~BlueZTakesUnregister
    <3>1. requests # <<>> => Head(requests) = requests[1] /\ 1 \in 1..Len(requests)
      BY <2>q, TakeMessage
    <3> QED
      BY <3>1 DEF NoLoopInv, UnregisterFromBlueZ, BlueZTakesUnregister
  <2>4. CASE ReplyArrives
    <3>1. replies # <<>> /\ replies' = Tail(replies) /\ UNCHANGED <<requests, bluez, query>>
      BY <2>4 DEF ReplyArrives
    <3>2. /\ 1 \in 1..Len(replies) /\ Head(replies) = replies[1]
          /\ \A n \in 1..Len(replies') : n + 1 \in 1..Len(replies) /\ replies'[n] = replies[n + 1]
      BY <2>q, <3>1, TakeMessage
    <3>3. registered' = registered
      BY <2>4, <3>2 DEF ReplyArrives, AfterReply, NoLoopInv
    <3> QED
      BY <3>1, <3>2, <3>3 DEF NoLoopInv
  <2>5. CASE Dispatch
    <3>1. query' # "answered" /\ UNCHANGED <<registered, requests, replies, bluez>>
      BY <2>5 DEF Dispatch, Handled, app
    <3> QED
      BY <3>1 DEF NoLoopInv
  \* a refusal that joins the queue
  <2>6. ASSUME NEW m \in Serials, replies' = Append(replies, Reply(m, FALSE))
        PROVE  \A n \in 1..Len(replies') : ~replies'[n].ok
    <3> DEFINE no == Reply(m, FALSE)
    <3>0. replies' = Append(replies, no)
      BY <2>6
    <3>1. no \in Replies /\ ~no.ok
      BY MessageTypes DEF Reply
    <3> HIDE DEF no
    <3>2. /\ Len(replies) \in Nat /\ Len(replies') = Len(replies) + 1
          /\ \A n \in 1..Len(replies) : replies'[n] = replies[n]
          /\ replies'[Len(replies) + 1] = no
      BY <2>q, <3>0, <3>1, AppendMessage
    <3>3. \A n \in 1..Len(replies') : n \in 1..Len(replies) \/ n = Len(replies) + 1
      BY <3>2
    <3> QED
      BY <3>1, <3>2, <3>3 DEF NoLoopInv
  <2>7. CASE BlueZTakesRegister
    <3>1. requests # <<>> /\ requests' = Tail(requests) /\ UNCHANGED <<registered, appPc, serial>>
      BY <2>7 DEF BlueZTakesRegister, app
    <3>2. \A n \in 1..Len(requests') : n + 1 \in 1..Len(requests) /\ requests'[n] = requests[n + 1]
      BY <2>q, <3>1, TakeMessage
    <3>3. Head(requests).serial \in Serials
      BY <2>0, <3>1, TakeRequest
    <3>4. \A n \in 1..Len(replies') : ~replies'[n].ok
      BY <2>6, <2>7, <3>3 DEF BlueZTakesRegister, NoLoopInv
    <3>5. bluez' # "registered" /\ query' # "answered"
      BY <2>7 DEF BlueZTakesRegister, NoLoopInv
    <3> QED
      BY <3>1, <3>2, <3>4, <3>5 DEF NoLoopInv
  <2>8. CASE BlueZConcludes \/ QueryTimesOut
    <3>1. Conclude(FALSE) /\ UNCHANGED <<registered, requests>>
      BY <2>8 DEF BlueZConcludes, QueryTimesOut, NoLoopInv, app
    <3>2. \A n \in 1..Len(replies') : ~replies'[n].ok
      BY <2>6, <3>1, TypeParts DEF Conclude, ScalarsOK
    <3> QED
      BY <3>1, <3>2 DEF Conclude, NoLoopInv
  <2>9. CASE BlueZRestarts
    <3>1. requests' = <<>> /\ bluez' = "none" /\ query' = "none" /\ UNCHANGED registered
      BY <2>9 DEF BlueZRestarts, app
    <3>2. \A n \in 1..Len(replies') : ~replies'[n].ok
      BY <2>0, <2>9, RestartAnswers DEF NoLoopInv
    <3> QED
      BY <3>1, <3>2 DEF NoLoopInv
  <2> QED
    BY <2>1, <2>2, <2>3, <2>4, <2>5, <2>7, <2>8, <2>9 DEF Next, Answers
<1>3. NoLoopInv => ~registered /\ bluez # "registered"
  BY DEF NoLoopInv
<1> QED
  BY <1>1, <1>2, <1>3, TypeCorrect, LateInvariant, PTL DEF Spec

-----------------------------------------------------------------------------
\* The list of services disturbs nothing of the registration: what holds of
\* BlueZRegistration holds of the whole server.
THEOREM RegistrationUndisturbed == ServerSpec => Spec
<1>1. ServerInit => Init
  BY DEF ServerInit
<1>2. [ServerNext]_serverVars => [Next]_vars
  <2> SUFFICES ASSUME [ServerNext]_serverVars PROVE Next \/ UNCHANGED vars
    OBVIOUS
  <2>1. CASE UNCHANGED serverVars
    BY <2>1 DEF serverVars
  <2>2. CASE \E s \in Services : AddService(s) \/ RemoveService(s)
    BY <2>2 DEF AddService, RemoveService
  <2>3. CASE Register \/ GetManagedObjects \/ OtherSteps
    BY <2>3 DEF Register, GetManagedObjects, OtherSteps, Next, Answers
  <2> QED
    BY <2>1, <2>2, <2>3 DEF ServerNext
<1> QED
  BY <1>1, <1>2, PTL DEF ServerSpec, Spec

\* From the moment BlueZ has read the list for the latest registration, its answer
\* covers what was listed then.
ListInv ==
    /\ listed \subseteq services
    /\ query = "answered" /\ client = serial => listed \subseteq answer
    /\ \A n \in 1..Len(replies) :
          replies[n].serial = serial /\ replies[n].ok /\ appPc = "waitRegister"
             => listed \subseteq answer
    /\ appPc = "idle" /\ outcome = "ok" /\ registered => listed \subseteq answer

\* A registration that reports success has BlueZ know every service that was there
\* when it was asked and still is, however many calls timed out, however late their
\* answers came and however the list changed meanwhile.
THEOREM SuccessListsServices == ServerSpec => []RegisteredAsListed
<1>1. ServerInit => ListInv
  BY DEF ServerInit, Init, ListInv
<1>2. TypeOK /\ TypeOK' /\ LateInv /\ ListInv /\ [ServerNext]_serverVars => ListInv'
  <2> SUFFICES ASSUME TypeOK, TypeOK', LateInv, ListInv, [ServerNext]_serverVars
               PROVE  ListInv'
    OBVIOUS
  <2>n. serial \in Nat /\ serial' \in Nat /\ client \in Nat
    BY TypeParts DEF ScalarsOK, TypeOK, Serials
  <2>q. requests \in Seq(Requests) /\ replies \in Seq(Replies)
    BY TypeParts DEF QueuesOK
  <2>s. \A n \in 1..Len(replies) : replies[n].serial \in Nat
    <3>1. \A n \in 1..Len(replies) : replies[n] \in Replies
      BY <2>q
    <3> QED
      BY <3>1 DEF Replies, Serials
  <2>0. RequestInv /\ QueryInv /\ ReplyInv /\ ListInv
    BY DEF LateInv
  <2>1. CASE UNCHANGED serverVars
    BY <2>0, <2>1 DEF serverVars, vars, app, treeVars, ListInv
  <2>2. ASSUME NEW s \in Services, AddService(s) \/ RemoveService(s) PROVE ListInv'
    BY <2>0, <2>2 DEF AddService, RemoveService, vars, app, ListInv
  \* a call that goes out has a serial nothing on its way has
  <2>3. CASE Register \/ (UnregisterFromBlueZ /\ UNCHANGED treeVars)
    <3>1. /\ serial' = serial + 1 /\ UNCHANGED <<replies, client, query>>
          /\ appPc' # "idle"
          /\ listed' \subseteq services'
      BY <2>0, <2>3 DEF Register, RegisterWithBlueZ, UnregisterFromBlueZ, Send, treeVars, ListInv
    <3>2. client # serial'
      BY <2>0, <2>n, <3>1 DEF QueryInv
    <3>3. \A n \in 1..Len(replies) : replies[n].serial # serial'
      BY <2>0, <2>n, <2>s, <3>1 DEF ReplyInv
    <3> QED
      BY <3>1, <3>2, <3>3 DEF ListInv
  <2>4. CASE GetManagedObjects
    <3>1. /\ query = "sent" /\ UNCHANGED <<app, replies, client, listed, services>>
          /\ query' = "answered" => answer' = services
      BY <2>4 DEF GetManagedObjects, Dispatch, Handled, ServicesList
    <3>2. \A n \in 1..Len(replies) :
             ~(replies[n].serial = serial /\ replies[n].ok /\ appPc = "waitRegister")
      BY <2>0, <3>1 DEF ReplyInv, Settled
    <3>3. ~(appPc = "idle" /\ outcome = "ok")
      BY <2>0, <3>1 DEF ReplyInv, Settled
    <3> QED
      BY <2>0, <3>1, <3>2, <3>3 DEF ListInv, app
  <2>5. CASE (SetupRefused \/ CallNotSent \/ UnregisterObject \/ CallTimesOut) /\ UNCHANGED treeVars
    <3>1. UNCHANGED <<registered, serial, replies, client, query, services, listed, answer>>
      BY <2>5 DEF SetupRefused, CallNotSent, UnregisterObject, CallTimesOut, treeVars
    <3>2. appPc' = appPc \/ appPc' = "idle"
      BY <2>5 DEF SetupRefused, CallNotSent, UnregisterObject, CallTimesOut
    <3>3. outcome' \in {"failed", "timeout"} \/ UNCHANGED <<outcome, appPc>>
      BY <2>5 DEF SetupRefused, CallNotSent, UnregisterObject, CallTimesOut
    <3> QED
      BY <2>0, <3>1, <3>2, <3>3 DEF ListInv
  <2>6. CASE ReplyArrives /\ UNCHANGED treeVars
    <3>1. /\ replies # <<>> /\ replies' = Tail(replies)
          /\ UNCHANGED <<serial, client, query, services, listed, answer>>
      BY <2>6 DEF ReplyArrives, treeVars
    <3>2. /\ Len(replies) \in Nat /\ 1 \in 1..Len(replies) /\ Head(replies) = replies[1]
          /\ \A n \in 1..Len(replies') : n + 1 \in 1..Len(replies) /\ replies'[n] = replies[n + 1]
      BY <2>q, <3>1, TakeMessage
    <3>3. appPc' = appPc \/ appPc' = "idle"
      BY <2>6 DEF ReplyArrives
    <3>4. ASSUME NEW n \in 1..Len(replies'),
                 replies'[n].serial = serial', replies'[n].ok, appPc' = "waitRegister"
          PROVE  listed' \subseteq answer'
      BY <2>0, <3>1, <3>2, <3>3, <3>4 DEF ListInv
    <3>5. ASSUME appPc' = "idle", outcome' = "ok", registered' PROVE listed' \subseteq answer'
      <4>1. CASE appPc # "idle" /\ Head(replies).serial = serial
        <5>1. Head(replies).ok /\ appPc = "waitRegister"
          BY <2>6, <3>5, <4>1 DEF ReplyArrives, AfterReply
        <5> QED
          BY <2>0, <3>1, <3>2, <4>1, <5>1 DEF ListInv
      <4>2. CASE ~(appPc # "idle" /\ Head(replies).serial = serial)
        <5>1. UNCHANGED <<registered, outcome, appPc>>
          BY <2>6, <4>2 DEF ReplyArrives
        <5> QED
          BY <2>0, <3>1, <3>5, <5>1 DEF ListInv
      <4> QED
        BY <4>1, <4>2
    <3> QED
      BY <2>0, <3>1, <3>4, <3>5 DEF ListInv
  \* a reply that joins the queue
  <2>7. ASSUME NEW n \in Serials, NEW ok \in BOOLEAN,
               replies' = Append(replies, Reply(n, ok)),
               n = serial /\ ok /\ appPc = "waitRegister" => listed \subseteq answer,
               query' # "answered" \/ UNCHANGED <<query, client>>,
               UNCHANGED <<app, treeVars>>
        PROVE  ListInv'
    <3>1. Reply(n, ok) \in Replies /\ Reply(n, ok).serial = n /\ Reply(n, ok).ok = ok
      BY MessageTypes DEF Reply
    <3>2. /\ Len(replies) \in Nat /\ Len(replies') = Len(replies) + 1
          /\ \A k \in 1..Len(replies) : replies'[k] = replies[k]
          /\ replies'[Len(replies) + 1] = Reply(n, ok)
      BY <2>7, <2>q, <3>1, AppendMessage
    <3>3. ASSUME NEW k \in 1..Len(replies'),
                 replies'[k].serial = serial', replies'[k].ok, appPc' = "waitRegister"
          PROVE  listed' \subseteq answer'
      <4>1. CASE k \in 1..Len(replies)
        BY <2>0, <2>7, <3>2, <3>3, <4>1 DEF ListInv, app, treeVars
      <4>2. CASE k = Len(replies) + 1
        BY <2>7, <3>1, <3>2, <3>3, <4>2 DEF app, treeVars
      <4> QED
        BY <3>2, <4>1, <4>2
    <3> QED
      BY <2>0, <2>7, <3>3 DEF ListInv, app, treeVars
  <2>8. CASE (BlueZTakesRegister \/ BlueZTakesUnregister) /\ UNCHANGED treeVars
    <3>1. requests # <<>> /\ requests' = Tail(requests) /\ UNCHANGED <<app, treeVars>>
      BY <2>8 DEF BlueZTakesRegister, BlueZTakesUnregister
    <3>2. /\ Head(requests).serial \in Serials
          /\ Head(requests).serial = serial /\ appPc # "idle" => Waiting(Head(requests).kind)
      BY <2>0, <3>1, TakeRequest DEF app
    <3>3. CASE BlueZTakesRegister /\ bluez = "none"
      BY <2>0, <3>1, <3>3 DEF BlueZTakesRegister, ListInv, app, treeVars
    <3>4. CASE BlueZTakesRegister /\ bluez # "none"
      BY <2>7, <3>1, <3>2, <3>4 DEF BlueZTakesRegister
    <3>5. CASE BlueZTakesUnregister
      <4> DEFINE ok == bluez # "none"
      <4>1. /\ ok \in BOOLEAN /\ replies' = Append(replies, Reply(Head(requests).serial, ok))
            /\ Head(requests).kind = "UnregisterApplication" /\ query' = "none"
        BY <3>5 DEF BlueZTakesUnregister
      <4> HIDE DEF ok
      <4>2. ~(Head(requests).serial = serial /\ appPc = "waitRegister")
        BY <3>2, <4>1 DEF Waiting
      <4> QED
        BY <2>7, <3>1, <3>2, <4>1, <4>2
    <3> QED
      BY <2>8, <3>3, <3>4, <3>5
  <2>9. CASE (BlueZConcludes \/ QueryTimesOut) /\ UNCHANGED treeVars
    <3>1. PICK ok \in BOOLEAN : Conclude(ok) /\ (ok => query = "answered")
      BY <2>9 DEF BlueZConcludes, QueryTimesOut
    <3>2. query' = "none" /\ replies' = Append(replies, Reply(client, ok))
      BY <3>1 DEF Conclude
    <3>3. UNCHANGED <<app, treeVars>>
      BY <2>9 DEF BlueZConcludes, QueryTimesOut
    <3>4. client \in Serials
      BY DEF TypeOK
    <3>5. client = serial /\ ok => listed \subseteq answer
      BY <2>0, <3>1 DEF ListInv
    <3> QED
      BY <2>7, <3>2, <3>3, <3>4, <3>5
  <2>10. CASE BlueZRestarts /\ UNCHANGED treeVars
    <3>1. query' = "none" /\ UNCHANGED <<app, treeVars>>
      BY <2>10 DEF BlueZRestarts
    <3>2. \A n \in 1..Len(replies') :
             (n \in 1..Len(replies) /\ replies'[n] = replies[n]) \/ ~replies'[n].ok
      BY <2>0, <2>10, RestartAnswers
    <3> QED
      BY <2>0, <3>1, <3>2 DEF app, treeVars, ListInv
  <2> QED
    BY <2>1, <2>2, <2>3, <2>4, <2>5, <2>6, <2>8, <2>9, <2>10 DEF ServerNext, OtherSteps
<1>3. ListInv => RegisteredAsListed
  BY DEF ListInv, RegisteredAsListed
<1> QED
  BY <1>1, <1>2, <1>3, RegistrationUndisturbed, TypeCorrect, LateInvariant, PTL DEF ServerSpec
=============================================================================
