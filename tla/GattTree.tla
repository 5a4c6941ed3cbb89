------------------------------ MODULE GattTree ------------------------------
(***************************************************************************)
(* The tree of services, characteristics and descriptors: threads that     *)
(* create children, take them off the bus, add and remove services, while  *)
(* the D-Bus dispatcher walks the tree for GetManagedObjects.              *)
(* GattService::createCharacteristic and GattCharacteristic::              *)
(* createDescriptor are the same code over a different map; one set of     *)
(* actions stands for both.  DBusExport has more of the bus connection.    *)
(* Code: src/GattApplication.cpp, src/GattService.cpp,                     *)
(* src/GattCharacteristic.cpp and their headers; DBusObject::registerObject *)
(* and unregisterObject of the children.                                   *)
(***************************************************************************)
EXTENDS Integers, SequencesExt

CONSTANTS
    Threads,        \* threads that create children
    NoThread,       \* the owner of a free mutex
    Services,       \* GattService objects
    UuidOf,         \* UuidOf[s]: a service's UUID
    ServicePath,    \* ServicePath[s]: the path it was constructed with
    CharUuids,      \* UUIDs of characteristics
    DescUuids,      \* UUIDs of descriptors
    MaxCreations    \* bound: calls of createCharacteristic and createDescriptor

ASSUME ThreadAssumption == NoThread \notin Threads
ASSUME CreationsAssumption == MaxCreations \in Nat
ASSUME UuidsAssumption ==
    /\ Services # {} /\ CharUuids # {}
    /\ IsFiniteSet(CharUuids) /\ IsFiniteSet(DescUuids)

\* What has children: a service, or the characteristic <<s, uuid>> of one.
Parents == Services \cup (Services \X CharUuids)
Keys(p) == IF p \in Services THEN CharUuids ELSE DescUuids

\* A child, created or not: <<parent, uuid>>.
Children == UNION {{p} \X Keys(p) : p \in Parents}
ASSUME ChildrenAssumption == Services \cap Children = {}

VARIABLES
    services,   \* GattApplication::services
    children,   \* children[p][k]: N of the path p/charN or p/descN, 0 without a child
    owner,      \* owner[p]: who holds characteristicsMutex or descriptorsMutex
    exported,   \* the children on D-Bus: <<p, N>>, N of the path below p
    registered, \* children whose DBusObject::registered is set
    connected,  \* DBusConnection::isConnected()
    pc,         \* where each creating thread is
    target,     \* target[t] = <<p, k>>: the child it creates
    number,     \* number[t]: the path number it chose
    creations,  \* counter of the bound
    walk,       \* where the dispatcher is in createManagedObjectsDict
    pending,    \* parents it has not copied the children of
    current,    \* the parent it is copying
    dict,       \* objects it has put into the reply
    added,      \* history: services added and not removed
    known,      \* history: the objects there were when the walk began
    torn,       \* history: the walk copied children beside an insertion
    off         \* history: children the application took off the bus

bus == <<exported, registered, connected, off>>
tree == <<services, added, children, owner>>
creators == <<pc, target, number, creations>>
walker == <<walk, pending, current, dict, known, torn>>
vars == <<tree, bus, creators, walker>>

NoTarget == CHOOSE x \in Services \X CharUuids : TRUE

Parent(t) == target[t][1]
Key(t) == target[t][2]

Created(p) == {k \in Keys(p) : children[p][k] # 0}
Exists(p) == p \notin Services => p[2] \in Created(p[1])

-----------------------------------------------------------------------------
\* createCharacteristic and createDescriptor

Create(t, p, k) ==
    /\ pc[t] = "idle" /\ Exists(p)
    /\ creations < MaxCreations /\ creations' = creations + 1
    /\ target' = [target EXCEPT ![t] = <<p, k>>]
    /\ pc' = [pc EXCEPT ![t] = "lookup"]
    /\ UNCHANGED <<tree, bus, number, walker>>

\* Faulty variants: a gap in the numbers; the same number for every child.
NextNumberSkips(p) == Cardinality(Created(p)) + 2
NextNumberFixed(p) == 1

NextNumber(p) == Cardinality(Created(p)) + 1

\* The call returns, its locals go.
Return(t) ==
    /\ pc' = [pc EXCEPT ![t] = "idle"]
    /\ target' = [target EXCEPT ![t] = NoTarget]
    /\ number' = [number EXCEPT ![t] = 0]

Choose(t, p) ==
    /\ owner' = [owner EXCEPT ![p] = t]
    /\ number' = [number EXCEPT ![t] = NextNumber(p)]
    /\ pc' = [pc EXCEPT ![t] = "setup"]
    /\ UNCHANGED target

\* Faulty variant: an existing child is created again.
LookupAlwaysNew(t) ==
    /\ pc[t] = "lookup" /\ owner[Parent(t)] = NoThread
    /\ Choose(t, Parent(t))
    /\ UNCHANGED <<services, added, children, creations, bus, walker>>

\* The mutex is held from here on; an existing child is returned.
Lookup(t) ==
    /\ pc[t] = "lookup" /\ owner[Parent(t)] = NoThread
    /\ IF Key(t) \in Created(Parent(t))
       THEN Return(t) /\ UNCHANGED owner
       ELSE Choose(t, Parent(t))
    /\ UNCHANGED <<services, added, children, creations, bus, walker>>

\* Two services may have been given one path; then so may have their children.
SamePath(e, f) ==
    /\ e[2] = f[2]
    /\ \/ e[1] \in Services /\ f[1] \in Services /\ ServicePath[e[1]] = ServicePath[f[1]]
       \/ /\ e[1] \notin Services /\ f[1] \notin Services
          /\ ServicePath[e[1][1]] = ServicePath[f[1][1]]
          /\ children[e[1][1]][e[1][2]] = children[f[1][1]][f[1][2]]

PathFree(e) == \A f \in exported : ~SamePath(f, e)

\* registerObject, at the end of setupDBusInterfaces: the path must be free.
RegisterPath(t) ==
    LET e == <<Parent(t), number[t]>>
    IN  /\ connected /\ PathFree(e)
        /\ exported' = exported \cup {e}
        /\ registered' = registered \cup {target[t]}
        /\ UNCHANGED <<connected, off>>

\* Faulty variant: a child whose setup fails is kept.
SetupIgnored(t) ==
    /\ pc[t] = "setup"
    /\ RegisterPath(t) \/ UNCHANGED bus
    /\ pc' = [pc EXCEPT ![t] = "insert"]
    /\ UNCHANGED <<tree, target, number, creations, walker>>

\* When setupDBusInterfaces fails, the path being taken or for want of a
\* connection, the call returns nullptr.
Setup(t) ==
    /\ pc[t] = "setup"
    /\ \/ /\ RegisterPath(t)
          /\ pc' = [pc EXCEPT ![t] = "insert"]
          /\ UNCHANGED <<owner, target, number>>
       \/ /\ Return(t)
          /\ owner' = [owner EXCEPT ![Parent(t)] = NoThread]
          /\ UNCHANGED bus
    /\ UNCHANGED <<services, added, children, creations, walker>>

\* A thread at "insert" is changing the map.
Insert(t) ==
    /\ pc[t] = "insert"
    /\ children' = [children EXCEPT ![Parent(t)][Key(t)] = number[t]]
    /\ owner' = [owner EXCEPT ![Parent(t)] = NoThread]
    /\ Return(t)
    /\ UNCHANGED <<services, added, creations, bus, walker>>

-----------------------------------------------------------------------------
\* The bus

\* DBusObject::unregisterObject of a child that was handed out: by its flag and its
\* path.  Where nothing is at the path it fails and changes nothing.
UnregisterObject(p, k) ==
    LET own == <<p, children[p][k]>>
    IN  /\ k \in Created(p) /\ <<p, k>> \in registered
        /\ connected /\ ~PathFree(own)
        /\ exported' = {e \in exported : ~SamePath(e, own)}
        /\ registered' = registered \ {<<p, k>>}
        /\ off' = off \cup {<<p, k>>}
        /\ UNCHANGED <<connected, tree, creators, walker>>

\* disconnect, or the bus goes away: the children are not told, and whatever
\* registers or unregisters fails from here on.  DBusExport has reconnections.
Disconnect ==
    /\ connected
    /\ connected' = FALSE /\ exported' = {}
    /\ UNCHANGED <<registered, off, tree, creators, walker>>

-----------------------------------------------------------------------------
\* addService and removeService, each under servicesMutex

AddService(s) ==
    /\ \A i \in DOMAIN services : UuidOf[services[i]] # UuidOf[s]
    /\ services' = Append(services, s)
    /\ added' = added \cup {s}
    /\ UNCHANGED <<children, owner, bus, creators, walker>>

\* Faulty variant: removes the service added last.
RemoveServiceLast(u) ==
    /\ \E i \in DOMAIN services :
          /\ UuidOf[services[i]] = u
          /\ services' = Front(services)
          /\ added' = added \ {services[i]}
    /\ UNCHANGED <<children, owner, bus, creators, walker>>

\* The first with the UUID goes.
RemoveService(u) ==
    /\ \E i \in DOMAIN services :
          /\ UuidOf[services[i]] = u
          /\ \A j \in 1..(i - 1) : UuidOf[services[j]] # u
          /\ services' = RemoveAt(services, i)
          /\ added' = added \ {services[i]}
    /\ UNCHANGED <<children, owner, bus, creators, walker>>

-----------------------------------------------------------------------------
\* createManagedObjectsDict

\* The objects below the services of S, the services included.
Below(S) ==
    LET cs == UNION {{<<s, c>> : c \in Created(s)} : s \in S}
    IN  S \cup cs \cup UNION {{<<p, k>> : k \in Created(p)} : p \in cs}

\* the list of services is copied under its mutex
StartWalk ==
    /\ walk = "idle"
    /\ walk' = "next"
    /\ pending' = ToSet(services) /\ dict' = ToSet(services)
    /\ known' = Below(added)
    /\ UNCHANGED <<tree, bus, creators, current, torn>>

\* getCharacteristics and getDescriptors wait for the mutex and return a
\* reference to the map ...
TakeReference ==
    /\ walk = "next"
    /\ \E p \in pending : owner[p] = NoThread /\ current' = p
    /\ walk' = "copy"
    /\ UNCHANGED <<tree, bus, creators, pending, dict, known, torn>>

\* ... which is copied without it: beside a thread that is inserting, the copy
\* can be any part of the map, with or without the new child.
Inserting(p) == {Key(t) : t \in {u \in Threads : pc[u] = "insert" /\ Parent(u) = p}}
Copies(p) ==
    IF Inserting(p) = {} THEN {Created(p)} ELSE SUBSET (Created(p) \cup Inserting(p))

CopyChildren ==
    /\ walk = "copy"
    /\ \E ks \in Copies(current) :
         LET new == {<<current, k>> : k \in ks}
         IN  /\ dict' = dict \cup new
             /\ pending' = (pending \ {current}) \cup (IF current \in Services THEN new ELSE {})
    /\ torn' = (torn \/ Inserting(current) # {})
    /\ walk' = "next" /\ current' = NoTarget
    /\ UNCHANGED <<tree, bus, creators, known>>

Replying == walk = "next" /\ pending = {}

SendDict ==
    /\ Replying
    /\ walk' = "idle" /\ dict' = {} /\ known' = {} /\ torn' = FALSE
    /\ UNCHANGED <<tree, bus, creators, pending, current>>

-----------------------------------------------------------------------------
Init ==
    /\ services = <<>>
    /\ children = [p \in Parents |-> [k \in Keys(p) |-> 0]]
    /\ owner = [p \in Parents |-> NoThread]
    /\ exported = {} /\ registered = {} /\ connected = TRUE
    /\ pc = [t \in Threads |-> "idle"]
    /\ target = [t \in Threads |-> NoTarget]
    /\ number = [t \in Threads |-> 0]
    /\ creations = 0
    /\ walk = "idle" /\ pending = {} /\ current = NoTarget /\ dict = {}
    /\ added = {} /\ known = {} /\ torn = FALSE /\ off = {}

Next ==
    \/ \E t \in Threads : \/ \E p \in Parents : \E k \in Keys(p) : Create(t, p, k)
                          \/ Lookup(t) \/ Setup(t) \/ Insert(t)
    \/ \E p \in Parents : \E k \in Keys(p) : UnregisterObject(p, k)
    \/ Disconnect
    \/ \E s \in Services : AddService(s) \/ RemoveService(UuidOf[s])
    \/ StartWalk \/ TakeReference \/ CopyChildren \/ SendDict

Spec == Init /\ [][Next]_vars

-----------------------------------------------------------------------------
\* The types of the variables; no path number exceeds the number of UUIDs.
TypeOK ==
    /\ services \in Seq(Services)
    /\ \A p \in Parents : children[p] \in [Keys(p) -> 0..Cardinality(Keys(p))]
    /\ owner \in [Parents -> Threads \cup {NoThread}]
    /\ \A e \in exported : e[1] \in Parents /\ e[2] \in 1..Cardinality(Keys(e[1]))
    /\ pc \in [Threads -> {"idle", "lookup", "setup", "insert"}]
    /\ target \in [Threads -> Children]
    /\ walk \in {"idle", "next", "copy"}
    /\ pending \subseteq Parents /\ current \in Parents
    /\ dict \subseteq Services \cup Children
    /\ added \subseteq Services /\ known \subseteq Services \cup Children
    /\ registered \subseteq Children /\ off \subseteq Children
    /\ connected \in BOOLEAN /\ torn \in BOOLEAN
    /\ creations \in 0..MaxCreations

\* The path a new child is to be registered at is free, whichever creations failed
\* before, whoever else is creating and whatever was taken off the bus: D-Bus never
\* refuses it as taken.  That is so below a service with a path of its own.
ServiceOf(p) == IF p \in Services THEN p ELSE p[1]
OwnPath(s) == \A r \in Services : ServicePath[r] = ServicePath[s] => r = s
NextPathFree ==
    \A t \in Threads : pc[t] = "setup" /\ OwnPath(ServiceOf(Parent(t)))
        => PathFree(<<Parent(t), number[t]>>)

\* A child once handed out stays the one for its UUID: no concurrent or repeated
\* creation replaces it.
NeverReplaced ==
    [][\A p \in Parents : \A k \in Keys(p) :
          children[p][k] # 0 => children'[p][k] = children[p][k]]_vars

\* The reply to GetManagedObjects names every object that existed when the walk
\* began, also when services come and go and children are created meanwhile, unless
\* the walk copied a map that was being changed: nothing is defined then.
DictComplete == Replying /\ ~torn => known \subseteq dict

\* Every characteristic and descriptor the reply names is there on D-Bus, so that
\* BlueZ can call it, unless the application took that very object off or the
\* connection it was registered on is gone: a half-made child is never named, and
\* no other object at the same path takes it off.
DictExported ==
    Replying /\ ~torn => \A o \in dict \ Services :
        /\ children[o[1]][o[2]] # 0
        /\ <<o[1], children[o[1]][o[2]]>> \in exported \/ o \in off \/ ~connected
=============================================================================
