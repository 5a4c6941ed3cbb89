-------------------------- MODULE DBusExportProofs --------------------------
(***************************************************************************)
(* What holds of DBusExport for any objects, paths and number of calls.    *)
(***************************************************************************)
EXTENDS DBusExport, TLAPS

USE PathAssumption, InterfacesAssumption, BoundsAssumption

\* Every variable keeps its type.
THEOREM TypeCorrect == Spec => []TypeOK
<1>1. Init => TypeOK
  BY DEF Init, TypeOK, Ids, NoId
<1>2. TypeOK /\ [Next]_vars => TypeOK'
  <2> SUFFICES ASSUME TypeOK, [Next]_vars PROVE TypeOK'
    OBVIOUS
  <2> USE DEF TypeOK
  <2>0. CASE UNCHANGED vars
    BY <2>0 DEF vars
  <2>1. DataOf(exports) \subseteq 0..MaxRegistrations
    BY DEF DataOf, Data, Ids
  <2>3. CASE Connect \/ Disconnect \/ BusLost
    <3>1. CASE Connect
      <4>1. connects' \in 0..MaxConnects
        <5>1. connects < MaxConnects /\ connects' = connects + 1
          BY <3>1 DEF Connect
        <5> QED
          BY <5>1
      <4>2. deleted' \subseteq 0..MaxRegistrations
        BY <2>1, <3>1 DEF Connect
      <4> QED
        BY <3>1, <4>1, <4>2 DEF Connect
    <3>2. CASE Disconnect
      <4>1. table' \in [Paths -> Ids \cup {NoId}] /\ deleted' \subseteq 0..MaxRegistrations
        BY <2>1, <3>2 DEF Disconnect
      <4> QED
        BY <3>2, <4>1 DEF Disconnect
    <3>3. CASE BusLost
      BY <3>3 DEF BusLost
    <3> QED
      BY <2>3, <3>1, <3>2, <3>3
  <2>4. ASSUME NEW o \in Objects, NEW i \in Interfaces, AddInterface(o, i) PROVE TypeOK'
    <3>1. interfaces[o] \cup {i} \in SUBSET Interfaces
      OBVIOUS
    <3> QED
      BY <2>4, <3>1 DEF AddInterface
  <2>5. ASSUME NEW o \in Objects, RegisterObject(o) PROVE TypeOK'
    <3> DEFINE n == registrations + 1
               accepted == Exportable(o)
               ok == interfaces[o] # {} /\ Max(interfaces[o]) \in accepted
    <3>1. n \in 1..MaxRegistrations /\ PathOf[o] \in Paths
      BY <2>5 DEF RegisterObject, GoesToConnection
    <3>2. accepted \subseteq Interfaces
      BY DEF Exportable
    <3>3. \A i \in accepted :
             Export(n, i, o) \in [id : Ids, path : Paths, interface : Interfaces, owner : Objects]
      BY <3>1, <3>2 DEF Export, Id, Ids
    <3>4. exports' = exports \cup {Export(n, i, o) : i \in accepted}
      BY <2>5 DEF RegisterObject, GoesToConnection
    <3>5. exports' \subseteq [id : Ids, path : Paths, interface : Interfaces, owner : Objects]
      BY <3>3, <3>4
    <3>6. ok \in BOOLEAN
      OBVIOUS
    <3>7. registered' \in [Objects -> BOOLEAN]
      BY <2>5, <3>6, Zenon DEF RegisterObject, GoesToConnection
    <3>8. ok => Id(n, Max(interfaces[o])) \in Ids
      BY <3>1, <3>2 DEF Id, Ids
    <3>9. table' \in [Paths -> Ids \cup {NoId}]
      BY <2>5, <3>8 DEF RegisterObject, GoesToConnection
    <3> QED
      BY <2>5, <3>1, <3>5, <3>7, <3>9 DEF RegisterObject, GoesToConnection
  <2>6. ASSUME NEW o \in Objects, UnregisterObject(o) \/ Destroy(o) PROVE TypeOK'
    <3>1. ASSUME NEW es \in SUBSET exports PROVE DataOf(es) \subseteq DataOf(exports)
      BY DEF DataOf
    <3>2. /\ exports' \subseteq exports
          /\ deleted' \subseteq 0..MaxRegistrations
          /\ table' \in [Paths -> Ids \cup {NoId}]
          /\ registered' \in [Objects -> BOOLEAN]
      BY <2>1, <2>6, <3>1
         DEF UnregisterObject, Destroy, Unregister, AtPath, Remove, Erase, ClearFlag, KeepAll
    <3> QED
      BY <2>6, <3>2 DEF UnregisterObject, Destroy
  <2> QED
    BY <2>0, <2>3, <2>4, <2>5, <2>6 DEF Next
<1> QED
  BY <1>1, <1>2, PTL DEF Spec

-----------------------------------------------------------------------------
\* The three records agree about every export while the connection lives: the
\* table holds its id, its owner is alive and counts itself registered, and its
\* HandlerData is its own.
ExportInv ==
    /\ \A e \in exports : /\ Data(e.id) \in 1..registrations
                          /\ e.id = Id(Data(e.id), e.interface)
    /\ \A d \in deleted : d <= registrations
    /\ link = "none" => exports = {}
    /\ IsConnected => \A e \in exports :
          /\ e.path = PathOf[e.owner]
          /\ table[e.path] = e.id
          /\ registered[e.owner]
          /\ alive[e.owner]
          /\ Data(e.id) \notin deleted

\* It is kept as long as an object has one interface, as every GATT class has.
LEMMA ExportInvariant ==
    ASSUME NEW iface, Interfaces = {iface} PROVE Spec => []ExportInv
<1>1. Init => ExportInv
  BY DEF Init, ExportInv
<1>2. TypeOK /\ TypeOK' /\ ExportInv /\ [Next]_vars => ExportInv'
  <2> SUFFICES ASSUME TypeOK, TypeOK', ExportInv, [Next]_vars PROVE ExportInv'
    OBVIOUS
  <2> USE DEF IsConnected
  <2>0. CASE UNCHANGED vars
    BY <2>0 DEF vars, ExportInv
  <2>1. \A d \in DataOf(exports) : d <= registrations
    BY DEF DataOf, ExportInv
  <2>2. CASE Connect
    BY <2>1, <2>2 DEF Connect, ExportInv
  <2>3. CASE Disconnect
    BY <2>1, <2>3 DEF Disconnect, ExportInv
  <2>4. CASE BusLost
    BY <2>4 DEF BusLost, ExportInv
  <2>5. ASSUME NEW o \in Objects, NEW i \in Interfaces, AddInterface(o, i) PROVE ExportInv'
    BY <2>5 DEF AddInterface, ExportInv
  <2>6. ASSUME NEW o \in Objects, RegisterObject(o) PROVE ExportInv'
    <3> DEFINE n == registrations + 1
               new == Export(n, iface, o)
    <3>1. \A e \in exports : e.path # PathOf[o] /\ e.owner # o
      BY <2>6 DEF RegisterObject, GoesToConnection, ExportInv, NoId, Id, Data
    <3>2. CASE interfaces[o] = {}
      <4>1. exports' = exports /\ table' = table
        BY <2>6, <3>2 DEF RegisterObject, GoesToConnection, Exportable
      <4>2. \A e \in exports : registered'[e.owner] = registered[e.owner]
        BY <2>6, <3>1 DEF RegisterObject, GoesToConnection, TypeOK
      <4> QED
        BY <2>6, <4>1, <4>2 DEF RegisterObject, GoesToConnection, ExportInv, TypeOK
    <3>3. CASE interfaces[o] # {}
      <4>1. interfaces[o] = {iface} /\ iface \in Nat
        BY <3>3 DEF TypeOK
      <4>2. Max(interfaces[o]) = iface
        BY <4>1 DEF Max
      <4>3. Exportable(o) = {iface}
        BY <3>1, <4>1 DEF Exportable
      <4>4. /\ exports' = exports \cup {new}
            /\ registered' = [registered EXCEPT ![o] = TRUE]
            /\ table' = [table EXCEPT ![PathOf[o]] = Id(n, iface)]
            /\ registrations' = n
            /\ link = "open" /\ UNCHANGED <<link, deleted, alive>>
        BY <2>6, <4>1, <4>2, <4>3 DEF RegisterObject, GoesToConnection
      <4>5. /\ Data(new.id) = n /\ new.id = Id(n, new.interface)
            /\ new.path = PathOf[o] /\ new.owner = o
            /\ n \in 1..n /\ n \notin deleted
            /\ table'[PathOf[o]] = new.id
            /\ registered'[o] /\ alive[o]
        BY <2>6, <4>4 DEF Export, Id, Data, ExportInv, TypeOK, RegisterObject, GoesToConnection
      <4>6. \A e \in exports : /\ table'[e.path] = table[e.path]
                               /\ registered'[e.owner] = registered[e.owner]
        BY <3>1, <4>4 DEF TypeOK
      <4>7. \A k \in 1..registrations : k \in 1..n
        BY DEF TypeOK
      <4>8. \A d \in deleted' : d <= registrations'
        BY <4>4 DEF ExportInv, TypeOK
      <4> QED
        BY <4>4, <4>5, <4>6, <4>7, <4>8 DEF ExportInv
    <3> QED
      BY <3>2, <3>3
  <2>7. ASSUME NEW o \in Objects, UnregisterObject(o) \/ Destroy(o) PROVE ExportInv'
    <3>0. UNCHANGED <<link, registrations>>
      BY <2>7 DEF UnregisterObject, Destroy
    <3>1. \A u \in Objects \ {o} : alive'[u] = alive[u] /\ registered'[u] = registered[u]
      BY <2>7
         DEF UnregisterObject, Destroy, Unregister, AtPath, Remove, Erase, ClearFlag, KeepAll, TypeOK
    <3>2. CASE registered[o] /\ CanUnregister(o)
      <4> DEFINE gone == {e \in exports : e.id = table[PathOf[o]]}
      <4>1. /\ exports' = exports \ gone
            /\ deleted' = deleted \cup DataOf(gone)
            /\ table' = [table EXCEPT ![PathOf[o]] = NoId]
        BY <2>7, <3>2
         DEF UnregisterObject, Destroy, Unregister, AtPath, Remove, Erase, ClearFlag, KeepAll
      <4>2. link = "open"
        BY <3>2 DEF CanUnregister
      <4>3. \A e \in exports' : e.path # PathOf[o] /\ e.owner # o
        BY <4>1, <4>2 DEF ExportInv
      \* ids that share their HandlerData are one id
      <4>4. \A e \in exports', f \in gone : Data(e.id) # Data(f.id)
        BY <4>1 DEF ExportInv, TypeOK
      <4>5. \A e \in exports' : Data(e.id) \notin deleted'
        BY <4>1, <4>2, <4>4 DEF ExportInv, DataOf
      <4>6. \A d \in deleted' : d <= registrations
        BY <2>1, <4>1 DEF ExportInv, DataOf
      <4>7. \A e \in exports' : /\ e \in exports
                                /\ e.owner \in Objects \ {o}
                                /\ table'[e.path] = table[e.path]
        BY <4>1, <4>3 DEF TypeOK
      <4> QED
        BY <3>0, <3>1, <4>2, <4>5, <4>6, <4>7 DEF ExportInv
    <3>3. CASE ~(registered[o] /\ CanUnregister(o))
      <4>1. UNCHANGED <<exports, deleted, table, registered>>
        BY <2>7, <3>3
         DEF UnregisterObject, Destroy, Unregister, AtPath, Remove, Erase, ClearFlag, KeepAll
      \* an owner of a live export can always be unregistered
      <4>2. link = "open" => \A e \in exports : e.owner # o
        BY <3>3 DEF ExportInv, CanUnregister
      <4>3. link = "open" => \A e \in exports : alive'[e.owner] = alive[e.owner]
        BY <3>1, <4>2 DEF TypeOK
      <4> QED
        BY <3>0, <4>1, <4>3 DEF ExportInv
    <3> QED
      BY <3>2, <3>3
  <2> QED
    BY <2>0, <2>2, <2>3, <2>4, <2>5, <2>6, <2>7 DEF Next
<1> QED
  BY <1>1, <1>2, TypeCorrect, PTL DEF Spec

\* With one interface per object no D-Bus call is ever dispatched to a destroyed
\* object or with freed HandlerData: not after an object at the same path took
\* over, nor across connections.
THEOREM NoUseAfterFree ==
    ASSUME NEW iface, Interfaces = {iface} PROVE Spec => []NoDanglingExport
<1>1. ExportInv => NoDanglingExport
  BY DEF ExportInv, NoDanglingExport
<1> QED
  BY <1>1, ExportInvariant, PTL

\* An entry of the table is the id of an export at its path, and goes with the
\* connection.
TableInv ==
    /\ link = "none" => \A p \in Paths : table[p] = NoId
    /\ IsConnected => \A p \in Paths : table[p] # NoId =>
          \E e \in exports : e.id = table[p] /\ e.path = p
    /\ IsConnected => \A e \in exports, p \in Paths : e.id = table[p] => e.path = p

\* A path in the table is taken on the bus: none is blocked by an entry that a
\* lost bus, a failed registration or another object's destruction left behind.
THEOREM TableNeverStale ==
    ASSUME NEW iface, Interfaces = {iface} PROVE Spec => []TableIsLive
<1>1. Init => TableInv
  BY DEF Init, TableInv, IsConnected
<1>2. TypeOK /\ ExportInv /\ TableInv /\ [Next]_vars => TableInv'
  <2> SUFFICES ASSUME TypeOK, ExportInv, TableInv, [Next]_vars PROVE TableInv'
    OBVIOUS
  <2> USE DEF IsConnected
  <2>0. CASE UNCHANGED vars
    BY <2>0 DEF vars, TableInv
  <2>1. CASE Connect
    BY <2>1 DEF Connect, TableInv, ExportInv
  <2>2. CASE Disconnect
    BY <2>2 DEF Disconnect, TableInv
  <2>3. CASE BusLost
    BY <2>3 DEF BusLost, TableInv
  <2>4. ASSUME NEW o \in Objects, NEW i \in Interfaces, AddInterface(o, i) PROVE TableInv'
    BY <2>4 DEF AddInterface, TableInv
  <2>5. ASSUME NEW o \in Objects, RegisterObject(o) PROVE TableInv'
    <3> DEFINE n == registrations + 1
    <3>1. /\ link = "open" /\ link' = link
          /\ exports' = exports \cup {Export(n, i, o) : i \in Exportable(o)}
      BY <2>5 DEF RegisterObject, GoesToConnection
    \* the new ids are in no entry, and the old exports have none of them
    <3>2. \A p \in Paths : Data(table[p]) # n
      <4> SUFFICES ASSUME NEW p \in Paths, Data(table[p]) = n PROVE FALSE
        OBVIOUS
      <4>1. table[p] # NoId
        BY DEF TypeOK, Data, NoId
      <4>2. PICK e \in exports : e.id = table[p]
        BY <3>1, <4>1 DEF TableInv
      <4> QED
        BY <4>2 DEF ExportInv, TypeOK
    <3>3. \A e \in exports : Data(e.id) # n
      BY DEF ExportInv, TypeOK
    <3>4. \A e \in exports' \ exports : Data(e.id) = n /\ e.path = PathOf[o]
      BY <3>1 DEF Export, Id, Data
    <3>5. CASE table' = table
      BY <3>1, <3>2, <3>4, <3>5 DEF TableInv
    <3>6. CASE table' # table
      <4> DEFINE m == Max(interfaces[o])
      <4>1. /\ m \in Exportable(o)
            /\ table' = [table EXCEPT ![PathOf[o]] = Id(n, m)]
        BY <2>5, <3>6 DEF RegisterObject, GoesToConnection
      <4> HIDE DEF m
      <4>2. Export(n, m, o) \in exports'
        BY <3>1, <4>1
      <4>3. Export(n, m, o).id = Id(n, m) /\ Export(n, m, o).path = PathOf[o]
        BY DEF Export
      <4>4. /\ table'[PathOf[o]] = Id(n, m) /\ Data(Id(n, m)) = n
            /\ \A p \in Paths : p # PathOf[o] => table'[p] = table[p]
        BY <4>1 DEF TypeOK, Id, Data
      <4>5. ASSUME NEW p \in Paths, table'[p] # NoId
            PROVE  \E e \in exports' : e.id = table'[p] /\ e.path = p
        <5>1. CASE p = PathOf[o]
          BY <4>2, <4>3, <4>4, <5>1
        <5>2. CASE p # PathOf[o]
          BY <3>1, <4>4, <4>5, <5>2 DEF TableInv
        <5> QED
          BY <5>1, <5>2
      <4>6. ASSUME NEW e \in exports', NEW p \in Paths, e.id = table'[p] PROVE e.path = p
        <5>1. CASE p = PathOf[o]
          BY <3>3, <3>4, <4>4, <4>6, <5>1
        <5>2. CASE p # PathOf[o]
          BY <3>1, <3>2, <3>4, <4>4, <4>6, <5>2 DEF TableInv
        <5> QED
          BY <5>1, <5>2
      <4> QED
        BY <3>1, <4>5, <4>6 DEF TableInv
    <3> QED
      BY <3>5, <3>6
  <2>6. ASSUME NEW o \in Objects, UnregisterObject(o) \/ Destroy(o) PROVE TableInv'
    <3>1. link' = link
      BY <2>6 DEF UnregisterObject, Destroy
    <3>2. Unregister(o)
      BY <2>6 DEF UnregisterObject, Destroy
    <3>3. CASE registered[o] /\ CanUnregister(o)
      <4>1. exports' = exports \ AtPath(o) /\ table' = [table EXCEPT ![PathOf[o]] = NoId]
        BY <3>2, <3>3 DEF Unregister, Remove, Erase
      <4>2. link = "open"
        BY <3>3 DEF CanUnregister
      <4>3. ASSUME NEW p \in Paths, table'[p] # NoId
            PROVE  \E e \in exports' : e.id = table'[p] /\ e.path = p
        <5>1. p # PathOf[o] /\ table'[p] = table[p]
          BY <4>1, <4>3 DEF TypeOK
        <5>2. PICK e \in exports : e.id = table[p] /\ e.path = p
          BY <4>2, <4>3, <5>1 DEF TableInv
        <5>3. e \notin AtPath(o)
          BY <4>2, <5>1, <5>2 DEF AtPath, TableInv
        <5> QED
          BY <4>1, <5>1, <5>2, <5>3
      <4>4. ASSUME NEW e \in exports', NEW p \in Paths, e.id = table'[p] PROVE e.path = p
        <5>1. e \in exports /\ e.id # table[PathOf[o]]
          BY <4>1 DEF AtPath
        <5>2. CASE p = PathOf[o]
          <6>1. e.id = NoId
            BY <4>1, <4>4, <5>2 DEF TypeOK
          <6> QED
            BY <5>1, <6>1 DEF ExportInv, TypeOK, NoId, Data
        <5>3. CASE p # PathOf[o]
          BY <4>1, <4>2, <4>4, <5>1, <5>3 DEF TableInv, TypeOK
        <5> QED
          BY <5>2, <5>3
      <4> QED
        BY <3>1, <4>2, <4>3, <4>4 DEF TableInv
    <3>4. CASE ~(registered[o] /\ CanUnregister(o))
      BY <3>1, <3>2, <3>4 DEF Unregister, KeepAll, TableInv
    <3> QED
      BY <3>3, <3>4
  <2> QED
    BY <2>0, <2>1, <2>2, <2>3, <2>4, <2>5, <2>6 DEF Next
<1>3. TableInv => TableIsLive
  BY DEF TableInv, TableIsLive
<1> QED
  BY <1>1, <1>2, <1>3, TypeCorrect, ExportInvariant, PTL DEF Spec

-----------------------------------------------------------------------------
\* On the first connection an object that counts itself registered owns an
\* export, and no two exports share an id.
FlagInv ==
    /\ connects = 0 => ~IsConnected /\ \A o \in Objects : ~registered[o]
    /\ connects = 1 /\ IsConnected => \A o \in Objects : alive[o] /\ registered[o] =>
          \E e \in exports : e.owner = o
    /\ \A e, f \in exports : e.id = f.id => e = f

\* What Unregister takes off the bus is the object's own.
LEMMA TakesItsOwn ==
    ASSUME ExportInv, FlagInv, connects = 1, NEW o \in Objects, alive[o], registered[o],
           CanUnregister(o), NEW e \in AtPath(o)
    PROVE  e.owner = o
<1>1. IsConnected /\ e \in exports /\ e.id = table[PathOf[o]]
  BY DEF CanUnregister, AtPath
<1>2. PICK f \in exports : f.owner = o
  BY <1>1 DEF FlagInv
<1>3. f.id = table[PathOf[o]]
  BY <1>1, <1>2 DEF ExportInv
<1> QED
  BY <1>1, <1>2, <1>3 DEF FlagInv

LEMMA FlagInvariant ==
    ASSUME NEW iface, Interfaces = {iface} PROVE Spec => []FlagInv
<1>1. Init => FlagInv
  BY DEF Init, FlagInv, IsConnected
<1>2. TypeOK /\ ExportInv /\ FlagInv /\ [Next]_vars => FlagInv'
  <2> SUFFICES ASSUME TypeOK, ExportInv, FlagInv, [Next]_vars PROVE FlagInv'
    OBVIOUS
  <2> USE DEF IsConnected
  <2>0. CASE UNCHANGED vars
    BY <2>0 DEF vars, FlagInv
  <2>1. CASE Connect
    <3>1. connects \in Nat /\ connects' = connects + 1 /\ UNCHANGED <<exports, registered, alive>>
      BY <2>1 DEF Connect, TypeOK
    <3>2. connects' # 0 /\ (connects' = 1 => connects = 0)
      BY <3>1
    <3> QED
      BY <3>1, <3>2 DEF FlagInv
  <2>2. CASE Disconnect
    BY <2>2 DEF Disconnect, FlagInv
  <2>3. CASE BusLost
    BY <2>3 DEF BusLost, FlagInv
  <2>4. ASSUME NEW o \in Objects, NEW i \in Interfaces, AddInterface(o, i) PROVE FlagInv'
    BY <2>4 DEF AddInterface, FlagInv
  <2>5. ASSUME NEW o \in Objects, RegisterObject(o) PROVE FlagInv'
    <3> DEFINE n == registrations + 1
               ok == interfaces[o] # {} /\ Max(interfaces[o]) \in Exportable(o)
    <3>1. /\ link = "open" /\ link' = link /\ connects' = connects /\ alive' = alive
          /\ exports' = exports \cup {Export(n, i, o) : i \in Exportable(o)}
          /\ registered' = [registered EXCEPT ![o] = ok]
      BY <2>5 DEF RegisterObject, GoesToConnection
    <3>2. connects # 0
      BY <3>1 DEF FlagInv
    <3>3. \A e \in exports : Data(e.id) # n
      BY DEF ExportInv, TypeOK
    <3>4. Exportable(o) \subseteq {iface}
      BY DEF Exportable, TypeOK
    <3>5. \A e \in exports' \ exports : e = Export(n, iface, o)
      BY <3>1, <3>4
    <3>6. Data(Export(n, iface, o).id) = n /\ Export(n, iface, o).owner = o
      BY DEF Export, Id, Data
    <3>7. \A e, f \in exports' : e.id = f.id => e = f
      BY <3>3, <3>5, <3>6 DEF FlagInv
    <3>8. ASSUME NEW u \in Objects, connects = 1, alive[u], registered'[u]
          PROVE  \E e \in exports' : e.owner = u
      <4>1. CASE u = o
        <5>1. Exportable(o) # {}
          BY <3>1, <3>8, <4>1 DEF TypeOK
        <5>2. Export(n, iface, o) \in exports'
          BY <3>1, <3>4, <5>1
        <5> QED
          BY <3>6, <4>1, <5>2
      <4>2. CASE u # o
        BY <3>1, <3>8, <4>2 DEF FlagInv, TypeOK
      <4> QED
        BY <4>1, <4>2
    <3> QED
      BY <3>1, <3>2, <3>7, <3>8 DEF FlagInv
  <2>6. ASSUME NEW o \in Objects, UnregisterObject(o) \/ Destroy(o) PROVE FlagInv'
    <3>1. UNCHANGED <<link, connects>> /\ alive[o] /\ Unregister(o)
          /\ \A u \in Objects : alive'[u] => alive[u]
      BY <2>6 DEF UnregisterObject, Destroy, TypeOK
    <3>2. CASE registered[o] /\ CanUnregister(o)
      <4>1. exports' = exports \ AtPath(o) /\ registered' = [registered EXCEPT ![o] = FALSE]
        BY <3>1, <3>2 DEF Unregister, Remove, ClearFlag
      <4>2. ASSUME NEW u \in Objects, connects = 1, alive'[u], registered'[u]
            PROVE  \E e \in exports' : e.owner = u
        <5>1. u # o /\ registered[u] /\ alive[u] /\ link = "open"
          BY <3>1, <3>2, <4>1, <4>2 DEF TypeOK, CanUnregister
        <5>2. PICK e \in exports : e.owner = u
          BY <4>2, <5>1 DEF FlagInv
        <5>3. e \notin AtPath(o)
          BY <3>1, <3>2, <4>2, <5>1, <5>2, TakesItsOwn
        <5> QED
          BY <4>1, <5>2, <5>3
      <4>3. \A u \in Objects : registered'[u] => registered[u]
        BY <4>1 DEF TypeOK
      <4> QED
        BY <3>1, <4>1, <4>2, <4>3 DEF FlagInv
    <3>3. CASE ~(registered[o] /\ CanUnregister(o))
      BY <3>1, <3>3 DEF Unregister, KeepAll, FlagInv
    <3> QED
      BY <3>2, <3>3
  <2> QED
    BY <2>0, <2>1, <2>2, <2>3, <2>4, <2>5, <2>6 DEF Next
<1> QED
  BY <1>1, <1>2, TypeCorrect, ExportInvariant, PTL DEF Spec

\* On the first connection isRegistered() of a live object is the truth about the
\* bus, also for objects that share a path.
THEOREM FlagTellsTruth ==
    ASSUME NEW iface, Interfaces = {iface} PROVE Spec => []RegisteredIffExported
<1>1. ExportInv /\ FlagInv => RegisteredIffExported
  BY DEF ExportInv, FlagInv, RegisteredIffExported
<1> QED
  BY <1>1, ExportInvariant, FlagInvariant, PTL

\* Unregistering by path alone never takes another object's export off the bus,
\* on the first connection.
THEOREM NobodyElseRemoves ==
    ASSUME NEW iface, Interfaces = {iface} PROVE Spec => OnlyOwnerRemoves
<1> DEFINE Step ==
       \A e \in exports : e \notin exports' /\ connects = 1 /\ link' = link
          => ~registered'[e.owner] \/ ~alive'[e.owner]
<1>1. TypeOK /\ ExportInv /\ FlagInv /\ [Next]_vars => [Step]_vars
  <2> SUFFICES ASSUME TypeOK, ExportInv, FlagInv, [Next]_vars,
                      NEW e \in exports, e \notin exports', connects = 1, link' = link
               PROVE  ~registered'[e.owner]
    OBVIOUS
  <2>1. PICK o \in Objects : UnregisterObject(o) \/ Destroy(o)
    BY DEF Next, vars, Connect, Disconnect, BusLost, AddInterface, RegisterObject
  <2>2. alive[o] /\ Unregister(o)
    BY <2>1 DEF UnregisterObject, Destroy
  <2>3. /\ registered[o] /\ CanUnregister(o) /\ exports' = exports \ AtPath(o)
        /\ registered' = [registered EXCEPT ![o] = FALSE]
    BY <2>2 DEF Unregister, Remove, ClearFlag, KeepAll
  <2>4. e.owner = o
    BY <2>2, <2>3, TakesItsOwn
  <2> QED
    BY <2>3, <2>4 DEF TypeOK
<1> QED
  BY <1>1, TypeCorrect, ExportInvariant, FlagInvariant, PTL DEF Spec, OnlyOwnerRemoves
=============================================================================
