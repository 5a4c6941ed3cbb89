----------------------------- MODULE DBusExport -----------------------------
(***************************************************************************)
(* Which objects the process exports on the bus.  Three records of it must *)
(* agree: each DBusObject's own flag, DBusConnection::registeredObjects    *)
(* (one registration id per path) and what GDBus really exports, with the  *)
(* HandlerData its callbacks use.                                          *)
(* Code: src/DBusConnection.cpp (connect, disconnect, registerObject,      *)
(* unregisterObject) and src/DBusObject.cpp.  GDBus is external.           *)
(***************************************************************************)
EXTENDS Integers, FiniteSetsExt

CONSTANTS
    Objects,            \* DBusObjects
    Paths,              \* object paths
    PathOf,             \* PathOf[o]: the path o was constructed with
    Interfaces,         \* interface names, in the order of std::map
    MaxConnects,        \* bound: bus connections made
    MaxRegistrations    \* bound: calls of DBusConnection::registerObject that reach GDBus

ASSUME PathAssumption == PathOf \in [Objects -> Paths]
ASSUME InterfacesAssumption == Interfaces \subseteq Nat
ASSUME BoundsAssumption == MaxConnects \in Nat /\ MaxRegistrations \in Nat

VARIABLES
    link,           \* DBusConnection::connection: "none", "open" or "closed" (bus lost)
    table,          \* DBusConnection::registeredObjects: path -> registration id
    exports,        \* external: what GDBus exports on the connection
    deleted,        \* the HandlerData GDBus has freed
    registered,     \* DBusObject::registered
    alive,          \* the DBusObject has not been destroyed
    interfaces,     \* DBusObject::interfaces (addMethod adds a missing one)
    connects, registrations     \* counters of the bounds

vars == <<link, table, exports, deleted, registered, alive, interfaces, connects, registrations>>

\* A registration id: the registerObject call, which made one HandlerData for
\* all the interfaces, and the interface.
NoId == <<0, 0>>
Id(n, i) == <<n, i>>
Data(id) == id[1]

Export(n, i, o) == [id |-> Id(n, i), path |-> PathOf[o], interface |-> i, owner |-> o]
DataOf(es) == {Data(e.id) : e \in es}

IsConnected == link = "open"

-----------------------------------------------------------------------------
\* DBusConnection::connect.  After the bus was lost g_bus_get_sync hands back the
\* closed connection as long as it is referenced: nothing changes until disconnect.
Connect ==
    /\ link = "none" /\ connects < MaxConnects
    /\ link' = "open"
    /\ connects' = connects + 1
    /\ UNCHANGED <<table, exports, deleted, registered, alive, interfaces, registrations>>

\* DBusConnection::disconnect: unregisters the id of each path, drops the
\* connection; the objects are not told.
Disconnect ==
    /\ link # "none"
    /\ link' = "none"
    /\ table' = [p \in Paths |-> NoId]
    /\ deleted' = deleted \cup DataOf(exports)
    /\ exports' = {}
    /\ UNCHANGED <<registered, alive, interfaces, connects, registrations>>

\* The bus goes away: exit-on-close is off, isConnected turns false.
BusLost ==
    /\ IsConnected
    /\ link' = "closed"
    /\ UNCHANGED <<table, exports, deleted, registered, alive, interfaces, connects, registrations>>

\* addInterface, and addMethod, which creates a missing interface.
AddInterface(o, i) ==
    /\ alive[o] /\ ~registered[o] /\ i \notin interfaces[o]
    /\ interfaces' = [interfaces EXCEPT ![o] = @ \cup {i}]
    /\ UNCHANGED <<link, table, exports, deleted, registered, alive, connects, registrations>>

\* GDBus refuses an interface that is exported at the path already.
Exportable(o) ==
    {i \in interfaces[o] : \A e \in exports : ~(e.path = PathOf[o] /\ e.interface = i)}

\* DBusObject::registerObject goes on to the connection; of a registered object
\* it returns true at once.
GoesToConnection(o) == alive[o] /\ ~registered[o] /\ IsConnected

\* Faulty variant: the id of a last interface that was refused, which is 0, enters
\* the table too.
RegisterUnchecked(o) ==
    /\ GoesToConnection(o)
    /\ table[PathOf[o]] = NoId
    /\ registrations < MaxRegistrations
    /\ LET n == registrations + 1
           accepted == Exportable(o)
           last == IF interfaces[o] # {} /\ Max(interfaces[o]) \in accepted
                   THEN Max(interfaces[o]) ELSE 0
       IN  /\ exports' = exports \cup {Export(n, i, o) : i \in accepted}
           /\ registered' = [registered EXCEPT ![o] = TRUE]
           /\ table' = [table EXCEPT ![PathOf[o]] = Id(n, last)]
           /\ registrations' = n
    /\ UNCHANGED <<link, deleted, alive, interfaces, connects>>

\* DBusConnection::registerObject: the interfaces are registered one by one, a
\* refusal is logged, and registrationId is what the last of them returned.
RegisterObject(o) ==
    /\ GoesToConnection(o)
    /\ table[PathOf[o]] = NoId
    /\ registrations < MaxRegistrations
    /\ LET n == registrations + 1
           accepted == Exportable(o)
           ok == interfaces[o] # {} /\ Max(interfaces[o]) \in accepted
       IN  /\ exports' = exports \cup {Export(n, i, o) : i \in accepted}
           /\ registered' = [registered EXCEPT ![o] = ok]
           /\ table' = IF ok THEN [table EXCEPT ![PathOf[o]] = Id(n, Max(interfaces[o]))]
                       ELSE table
           /\ registrations' = n
    /\ UNCHANGED <<link, deleted, alive, interfaces, connects>>

\* DBusConnection::unregisterObject succeeds: connected, the path is in the
\* table, GDBus knows its id.  It looks at the path only, not at the object.
CanUnregister(o) ==
    IsConnected /\ \E e \in exports : e.id = table[PathOf[o]]

AtPath(o) == {e \in exports : e.id = table[PathOf[o]]}

\* Unregistering by path: out of the table, off the bus, HandlerData freed.
Erase(o) == table' = [table EXCEPT ![PathOf[o]] = NoId]
Remove(es) == exports' = exports \ es /\ deleted' = deleted \cup DataOf(es)
ClearFlag(o) == registered' = [registered EXCEPT ![o] = FALSE]
KeepAll == UNCHANGED <<exports, deleted, table, registered>>

\* Faulty variants: the flag stays set; the entry stays in the table; an object
\* that is not registered is unregistered all the same.
UnregisterKeepsFlag(o) ==
    IF registered[o] /\ CanUnregister(o)
    THEN Remove(AtPath(o)) /\ Erase(o) /\ UNCHANGED registered
    ELSE KeepAll
UnregisterKeepsEntry(o) ==
    IF registered[o] /\ CanUnregister(o)
    THEN Remove(AtPath(o)) /\ ClearFlag(o) /\ UNCHANGED table
    ELSE KeepAll
UnregisterAnyway(o) ==
    IF CanUnregister(o) THEN Remove(AtPath(o)) /\ Erase(o) /\ ClearFlag(o) ELSE KeepAll

\* DBusObject::unregisterObject; on failure the object stays registered.
Unregister(o) ==
    IF registered[o] /\ CanUnregister(o)
    THEN Remove(AtPath(o)) /\ Erase(o) /\ ClearFlag(o)
    ELSE KeepAll

UnregisterObject(o) ==
    /\ alive[o] /\ registered[o]
    /\ Unregister(o)
    /\ UNCHANGED <<link, alive, interfaces, connects, registrations>>

\* Faulty variant: the destructor does not unregister.
DestroyOnly(o) ==
    /\ alive[o]
    /\ alive' = [alive EXCEPT ![o] = FALSE]
    /\ UNCHANGED <<link, table, exports, deleted, registered, interfaces, connects, registrations>>

\* ~DBusObject
Destroy(o) ==
    /\ alive[o]
    /\ Unregister(o)
    /\ alive' = [alive EXCEPT ![o] = FALSE]
    /\ UNCHANGED <<link, interfaces, connects, registrations>>

Init ==
    /\ link = "none"
    /\ table = [p \in Paths |-> NoId]
    /\ exports = {} /\ deleted = {}
    /\ registered = [o \in Objects |-> FALSE]
    /\ alive = [o \in Objects |-> TRUE]
    /\ interfaces = [o \in Objects |-> {}]
    /\ connects = 0 /\ registrations = 0

Next ==
    \/ Connect \/ Disconnect \/ BusLost
    \/ \E o \in Objects : \/ \E i \in Interfaces : AddInterface(o, i)
                          \/ RegisterObject(o) \/ UnregisterObject(o) \/ Destroy(o)

Spec == Init /\ [][Next]_vars

-----------------------------------------------------------------------------
Ids == (1..MaxRegistrations) \X Interfaces

\* The types of the variables.  What the table holds of a path is an id of GDBus.
TypeOK ==
    /\ link \in {"none", "open", "closed"}
    /\ table \in [Paths -> Ids \cup {NoId}]
    /\ exports \subseteq [id : Ids, path : Paths, interface : Interfaces, owner : Objects]
    /\ deleted \subseteq 0..MaxRegistrations
    /\ registered \in [Objects -> BOOLEAN]
    /\ alive \in [Objects -> BOOLEAN]
    /\ interfaces \in [Objects -> SUBSET Interfaces]
    /\ connects \in 0..MaxConnects
    /\ registrations \in 0..MaxRegistrations

\* A D-Bus call that GDBus dispatches never reaches a destroyed object or freed
\* HandlerData: every export on a live connection has both.
NoDanglingExport ==
    IsConnected => \A e \in exports : alive[e.owner] /\ Data(e.id) \notin deleted

\* Until the first connection is lost or dropped, an object's own flag tells the
\* truth: it is registered exactly if it is exported.  (No reconnection resets
\* the flags, so nothing of the kind holds on a later one.)
RegisteredIffExported ==
    IsConnected /\ connects = 1 => \A o \in Objects : alive[o] =>
        (registered[o] <=> \E e \in exports : e.owner = o)

\* On a live connection the table holds live registrations only: a path that is
\* free on the bus can be registered.
TableIsLive ==
    IsConnected => \A p \in Paths : table[p] # NoId => \E e \in exports : e.id = table[p]

\* On that connection an object leaves the bus only when it is unregistered or
\* destroyed itself, or the connection goes: nobody removes the exports of
\* somebody else, though unregisterObject goes by the path alone.
OnlyOwnerRemoves ==
    [][\A e \in exports : e \notin exports' /\ connects = 1 /\ link' = link
         => ~registered'[e.owner] \/ ~alive'[e.owner]]_vars
=============================================================================
