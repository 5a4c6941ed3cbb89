--------------------------- MODULE GattTreeProofs ---------------------------
(***************************************************************************)
(* What holds of GattTree for any services, UUIDs and number of threads.   *)
(***************************************************************************)
EXTENDS GattTree, FiniteSetTheorems, SequenceTheorems, TLAPS

USE ThreadAssumption, CreationsAssumption

\* Facts about the names of children.
LEMMA ChildNames ==
    /\ \A p \in Parents : IsFiniteSet(Keys(p)) /\ Cardinality(Keys(p)) \in Nat
    /\ \A p \in Parents : \A k \in Keys(p) : <<p, k>> \in Children
    /\ \A c \in Children : c = <<c[1], c[2]>> /\ c[1] \in Parents /\ c[2] \in Keys(c[1])
    /\ Services \X CharUuids \subseteq Children
    /\ NoTarget \in Services \X CharUuids
<1>1. \A p \in Parents : IsFiniteSet(Keys(p))
  BY UuidsAssumption DEF Keys
<1>2. \A p \in Parents : Cardinality(Keys(p)) \in Nat
  BY <1>1, FS_CardinalityType
<1>3. \A p \in Parents : \A k \in Keys(p) : <<p, k>> \in Children
  BY DEF Children
<1>4. \A c \in Children : c = <<c[1], c[2]>> /\ c[1] \in Parents /\ c[2] \in Keys(c[1])
  BY DEF Children
<1>5. Services \X CharUuids \subseteq Children
  BY <1>3 DEF Parents, Keys
<1>6. NoTarget \in Services \X CharUuids
  <2>0. PICK s \in Services, c \in CharUuids : TRUE
    BY UuidsAssumption
  <2>1. \E x \in Services \X CharUuids : TRUE
    <3>1. <<s, c>> \in Services \X CharUuids
      BY <2>0
    <3> QED
      BY <3>1
  <2> QED
    BY <2>1, Zenon DEF NoTarget
<1> QED
  BY <1>1, <1>2, <1>3, <1>4, <1>5, <1>6

-----------------------------------------------------------------------------
\* The types of what creation reads and changes.
CreateTypes ==
    /\ children \in [Parents -> UNION {[Keys(p) -> Nat] : p \in Parents}]
    /\ \A p \in Parents : children[p] \in [Keys(p) -> Nat]
    /\ owner \in [Parents -> Threads \cup {NoThread}]
    /\ pc \in [Threads -> {"idle", "lookup", "setup", "insert"}]
    /\ target \in [Threads -> Children]
    /\ number \in [Threads -> Nat]
    /\ creations \in 0..MaxCreations

\* The mutex of the parent is held from the choice of the number until the child
\* is in the map, so the number stays the next free one.
HoldsMutex(t) == pc[t] \in {"setup", "insert"}
NumberInv ==
    \A t \in Threads : HoldsMutex(t) =>
        /\ owner[Parent(t)] = t
        /\ Key(t) \notin Created(Parent(t))
        /\ number[t] = Cardinality(Created(Parent(t))) + 1

\* The children of a parent have different numbers, none beyond their count, and a
\* child is only created below a parent that exists.
ChildrenInv ==
    /\ \A p \in Parents : \A k \in Created(p) :
          /\ children[p][k] \in 1..Cardinality(Created(p))
          /\ \A j \in Created(p) : children[p][j] = children[p][k] => j = k
    /\ \A t \in Threads : pc[t] # "idle" => Exists(Parent(t))

CreateInv == CreateTypes /\ NumberInv /\ ChildrenInv

\* The children of a parent can be counted.
LEMMA CreatedFinite ==
    ASSUME CreateTypes, NEW p \in Parents
    PROVE  /\ Created(p) \subseteq Keys(p)
           /\ IsFiniteSet(Created(p)) /\ Cardinality(Created(p)) \in Nat
<1>1. Created(p) \subseteq Keys(p)
  BY DEF Created
<1> QED
  BY <1>1, ChildNames, FS_Subset, FS_CardinalityType

LEMMA TargetTypes ==
    ASSUME CreateTypes, NEW t \in Threads
    PROVE  Parent(t) \in Parents /\ Key(t) \in Keys(Parent(t))
  BY ChildNames DEF CreateTypes, Parent, Key

\* The child is in the map, and nothing else has changed in it.
LEMMA InsertEffect ==
    ASSUME CreateTypes, NumberInv, NEW t \in Threads, Insert(t)
    PROVE  /\ \A p \in Parents : \A k \in Keys(p) :
                 children'[p][k] = IF p = Parent(t) /\ k = Key(t) THEN number[t] ELSE children[p][k]
           /\ children' \in [Parents -> UNION {[Keys(p) -> Nat] : p \in Parents}]
           /\ \A p \in Parents : children'[p] \in [Keys(p) -> Nat]
           /\ \A p \in Parents : p # Parent(t) => Created(p)' = Created(p)
           /\ Created(Parent(t)) \cup {Key(t)} = {k \in Keys(Parent(t)) : children'[Parent(t)][k] # 0}
           /\ number[t] = Cardinality(Created(Parent(t)) \cup {Key(t)})
           /\ number[t] \in Nat /\ number[t] # 0
<1> DEFINE par == Parent(t)
           key == Key(t)
<1>1. par \in Parents /\ key \in Keys(par) /\ number[t] \in Nat
  BY TargetTypes DEF CreateTypes
<1>2. /\ children' = [children EXCEPT ![par][key] = number[t]]
      /\ pc[t] = "insert"
  BY DEF Insert
<1>3. children' = [children EXCEPT ![par] = [children[par] EXCEPT ![key] = number[t]]]
  BY <1>2
<1>4. /\ children[par] \in [Keys(par) -> Nat]
      /\ children \in [Parents -> UNION {[Keys(p) -> Nat] : p \in Parents}]
  BY <1>1 DEF CreateTypes
<1> HIDE DEF par, key
<1>5. [children[par] EXCEPT ![key] = number[t]] \in [Keys(par) -> Nat]
  BY <1>1, <1>4
<1>6. /\ children'[par] = [children[par] EXCEPT ![key] = number[t]]
      /\ \A p \in Parents : p # par => children'[p] = children[p]
      /\ DOMAIN children' = Parents
  BY <1>1, <1>3, <1>4
<1>7. \A p \in Parents : children'[p] \in [Keys(p) -> Nat]
  BY <1>5, <1>6 DEF CreateTypes
<1>8. children' \in [Parents -> UNION {[Keys(p) -> Nat] : p \in Parents}]
  BY <1>1, <1>3, <1>4, <1>5
<1>9. \A p \in Parents : \A k \in Keys(p) :
         children'[p][k] = IF p = par /\ k = key THEN number[t] ELSE children[p][k]
  BY <1>1, <1>4, <1>6
<1>10. HoldsMutex(t)
  BY <1>2 DEF HoldsMutex
<1>11. key \notin Created(par) /\ number[t] = Cardinality(Created(par)) + 1
  BY <1>10 DEF NumberInv, par, key
<1>12. IsFiniteSet(Created(par)) /\ Cardinality(Created(par)) \in Nat
  BY <1>1, CreatedFinite
<1>13. number[t] # 0 /\ number[t] = Cardinality(Created(par) \cup {key})
  <2>1. Cardinality(Created(par) \cup {key}) = Cardinality(Created(par)) + 1
    BY <1>11, <1>12, FS_AddElement
  <2> QED
    BY <1>11, <1>12, <2>1
<1>14. \A p \in Parents : p # par => Created(p)' = Created(p)
  BY <1>6 DEF Created
<1>15. Created(par) \cup {key} = {k \in Keys(par) : children'[par][k] # 0}
  BY <1>1, <1>9, <1>13 DEF Created
<1> QED
  BY <1>1, <1>7, <1>8, <1>9, <1>13, <1>14, <1>15 DEF par, key

-----------------------------------------------------------------------------
\* No child goes away.
LEMMA CreatedGrows ==
    ASSUME CreateTypes, NumberInv, [Next]_vars, NEW p \in Parents
    PROVE  Created(p) \subseteq Created(p)'
<1>1. CASE UNCHANGED children
  BY <1>1 DEF Created
<1>2. ASSUME NEW t \in Threads, Insert(t) PROVE Created(p) \subseteq Created(p)'
  <2>1. /\ \A k \in Keys(p) :
             children'[p][k] = IF p = Parent(t) /\ k = Key(t) THEN number[t] ELSE children[p][k]
        /\ number[t] # 0
    BY <1>2, InsertEffect
  <2> QED
    BY <2>1 DEF Created
<1> QED
  BY <1>1, <1>2 DEF Next, Create, Lookup, Setup, UnregisterObject, Disconnect, AddService,
                    RemoveService, StartWalk, TakeReference, CopyChildren, SendDict, vars, tree

\* So a parent that exists stays.
LEMMA ExistsStays ==
    ASSUME CreateTypes, NumberInv, [Next]_vars, NEW p \in Parents, Exists(p)
    PROVE  Exists(p)'
<1>1. CASE p \in Services
  BY <1>1 DEF Exists
<1>2. CASE p \notin Services
  <2>1. p[1] \in Parents
    BY <1>2 DEF Parents
  <2>2. Created(p[1]) \subseteq Created(p[1])'
    BY <2>1, CreatedGrows
  <2> QED
    BY <1>2, <2>2 DEF Exists
<1> QED
  BY <1>1, <1>2

LEMMA CreateInvariant == Spec => []CreateInv
<1>1. Init => CreateInv
  <2> SUFFICES ASSUME Init PROVE CreateInv
    OBVIOUS
  <2>1. \A p \in Parents : children[p] = [k \in Keys(p) |-> 0] /\ children[p] \in [Keys(p) -> Nat]
    BY DEF Init
  <2>2. children \in [Parents -> UNION {[Keys(p) -> Nat] : p \in Parents}]
    BY <2>1 DEF Init
  <2>3. target \in [Threads -> Children]
    BY ChildNames DEF Init
  <2>4. CreateTypes
    BY <2>1, <2>2, <2>3 DEF Init, CreateTypes
  <2>5. \A t \in Threads : pc[t] = "idle"
    BY DEF Init
  <2>6. \A p \in Parents : Created(p) = {}
    BY <2>1 DEF Created
  <2>7. NumberInv
    BY <2>5 DEF NumberInv, HoldsMutex
  <2>8. ChildrenInv
    BY <2>5, <2>6 DEF ChildrenInv
  <2> QED
    BY <2>4, <2>7, <2>8 DEF CreateInv
<1>2. CreateInv /\ [Next]_vars => CreateInv'
  <2> SUFFICES ASSUME CreateTypes, NumberInv, ChildrenInv, [Next]_vars
               PROVE  CreateTypes' /\ NumberInv' /\ ChildrenInv'
    BY DEF CreateInv
  <2>0. ASSUME UNCHANGED <<children, owner, pc, target, number, creations>>
        PROVE  CreateTypes' /\ NumberInv' /\ ChildrenInv'
    <3>1. \A t \in Threads : /\ HoldsMutex(t)' = HoldsMutex(t)
                             /\ Parent(t)' = Parent(t) /\ Key(t)' = Key(t)
      BY <2>0 DEF HoldsMutex, Parent, Key
    <3>2. CreateTypes'
      BY <2>0 DEF CreateTypes
    <3>3. NumberInv'
      BY <2>0, <3>1 DEF NumberInv, Created
    <3>4. ChildrenInv'
      BY <2>0, <3>1 DEF ChildrenInv, Created, Exists
    <3> QED
      BY <3>2, <3>3, <3>4
  \* While the map stays, so does what is said of the children in it.
  <2>c. ASSUME NEW t \in Threads, UNCHANGED children,
               \A u \in Threads : u # t => pc'[u] = pc[u] /\ target'[u] = target[u],
               pc'[t] # "idle" => Exists(Parent(t)')
        PROVE  ChildrenInv'
    <3>1. \A u \in Threads : pc'[u] # "idle" => Exists(Parent(u)')
      <4> SUFFICES ASSUME NEW u \in Threads, pc'[u] # "idle" PROVE Exists(Parent(u)')
        OBVIOUS
      <4>1. CASE u = t
        BY <2>c, <4>1
      <4>2. CASE u # t
        BY <2>c, <4>2 DEF ChildrenInv, Parent
      <4> QED
        BY <4>1, <4>2
    <3> QED
      BY <2>c, <3>1 DEF ChildrenInv, Created, Exists
  \* What a thread that is not between choice and insertion does to itself
  \* concerns nobody.
  <2>1. ASSUME NEW t \in Threads, UNCHANGED children, ~HoldsMutex(t)',
               \A u \in Threads : u # t => /\ pc'[u] = pc[u] /\ target'[u] = target[u]
                                           /\ number'[u] = number[u],
               \A p \in Parents : owner[p] \in Threads \ {t} => owner'[p] = owner[p]
        PROVE  NumberInv'
    <3> SUFFICES ASSUME NEW u \in Threads, HoldsMutex(u)'
                 PROVE  /\ owner'[Parent(u)'] = u
                        /\ Key(u)' \notin Created(Parent(u))'
                        /\ number'[u] = Cardinality(Created(Parent(u))') + 1
      BY DEF NumberInv
    <3>1. u # t /\ Parent(u)' = Parent(u) /\ Key(u)' = Key(u) /\ HoldsMutex(u)
      BY <2>1 DEF HoldsMutex, Parent, Key
    <3>2. /\ owner[Parent(u)] = u /\ Key(u) \notin Created(Parent(u))
          /\ number[u] = Cardinality(Created(Parent(u))) + 1
      BY <3>1 DEF NumberInv
    <3>3. Parent(u) \in Parents
      BY TargetTypes
    <3>4. Created(Parent(u))' = Created(Parent(u))
      BY <2>1, <3>1 DEF Created
    <3> QED
      BY <2>1, <3>1, <3>2, <3>3, <3>4
  <2>2. ASSUME NEW t \in Threads, Return(t)
        PROVE  /\ pc' \in [Threads -> {"idle", "lookup", "setup", "insert"}]
               /\ target' \in [Threads -> Children] /\ number' \in [Threads -> Nat]
               /\ pc'[t] = "idle" /\ ~HoldsMutex(t)'
               /\ \A u \in Threads : u # t => /\ pc'[u] = pc[u] /\ target'[u] = target[u]
                                              /\ number'[u] = number[u]
    BY <2>2, ChildNames DEF Return, CreateTypes, HoldsMutex
  <2>3. ASSUME NEW t \in Threads, NEW p \in Parents, NEW k \in Keys(p), Create(t, p, k)
        PROVE  CreateTypes' /\ NumberInv' /\ ChildrenInv'
    <3>1. CreateTypes'
      BY <2>3, ChildNames DEF Create, CreateTypes, tree
    <3>2. /\ ~HoldsMutex(t)'
          /\ \A u \in Threads : u # t => /\ pc'[u] = pc[u] /\ target'[u] = target[u]
                                         /\ number'[u] = number[u]
      BY <2>3 DEF Create, CreateTypes, tree, HoldsMutex
    <3>3. UNCHANGED <<children, owner>>
      BY <2>3 DEF Create, tree
    <3>4. Exists(Parent(t)')
      BY <2>3 DEF Create, CreateTypes, Parent
    <3> QED
      BY <2>1, <2>c, <3>1, <3>2, <3>3, <3>4
  <2>4. ASSUME NEW t \in Threads, Lookup(t)
        PROVE  CreateTypes' /\ NumberInv' /\ ChildrenInv'
    <3> DEFINE par == Parent(t)
    <3>0. /\ pc[t] = "lookup" /\ owner[par] = NoThread
          /\ UNCHANGED <<children, creations>>
      BY <2>4 DEF Lookup
    <3>p. par \in Parents /\ Cardinality(Created(par)) \in Nat
      BY TargetTypes, CreatedFinite
    <3>1. CASE Key(t) \in Created(par)
      <4>1. Return(t) /\ UNCHANGED owner
        BY <2>4, <3>1 DEF Lookup
      <4>2. CreateTypes'
        BY <2>2, <3>0, <4>1 DEF CreateTypes
      <4> QED
        BY <2>1, <2>c, <2>2, <3>0, <4>1, <4>2
    <3>2. CASE Key(t) \notin Created(par)
      <4>1. /\ owner' = [owner EXCEPT ![par] = t]
            /\ number' = [number EXCEPT ![t] = Cardinality(Created(par)) + 1]
            /\ pc' = [pc EXCEPT ![t] = "setup"]
            /\ UNCHANGED target
        BY <2>4, <3>2 DEF Lookup, Choose, NextNumber
      <4>2. CreateTypes'
        BY <3>0, <3>p, <4>1 DEF CreateTypes
      <4>3. \A p \in Parents : Created(p)' = Created(p)
        BY <3>0 DEF Created
      <4>4. \A u \in Threads : Parent(u)' = Parent(u) /\ Key(u)' = Key(u) /\ Parent(u) \in Parents
        BY <4>1, TargetTypes DEF Parent, Key
      <4>5. NumberInv'
        <5> SUFFICES ASSUME NEW u \in Threads, HoldsMutex(u)'
                     PROVE  /\ owner'[Parent(u)] = u
                            /\ Key(u) \notin Created(Parent(u))
                            /\ number'[u] = Cardinality(Created(Parent(u))) + 1
          BY <3>0, <4>3, <4>4 DEF NumberInv, Created
        <5>1. CASE u = t
          BY <3>2, <3>p, <4>1, <5>1 DEF CreateTypes
        <5>2. CASE u # t
          <6>1. HoldsMutex(u) /\ number'[u] = number[u]
            BY <4>1, <5>2 DEF HoldsMutex, CreateTypes
          <6>2. owner[Parent(u)] = u
            BY <6>1 DEF NumberInv
          <6>3. Parent(u) # par
            BY <3>0, <6>2
          <6>4. owner'[Parent(u)] = u
            BY <4>1, <4>4, <6>2, <6>3 DEF CreateTypes
          <6> QED
            BY <6>1, <6>4 DEF NumberInv
        <5> QED
          BY <5>1, <5>2
      <4>6. ChildrenInv'
        <5>1. Exists(par)
          BY <3>0 DEF ChildrenInv
        <5>2. \A u \in Threads : u # t => pc'[u] = pc[u] /\ target'[u] = target[u]
          BY <4>1 DEF CreateTypes
        <5> QED
          BY <2>c, <3>0, <4>4, <5>1, <5>2
      <4> QED
        BY <4>2, <4>5, <4>6
    <3> QED
      BY <3>1, <3>2
  <2>5. ASSUME NEW t \in Threads, Setup(t)
        PROVE  CreateTypes' /\ NumberInv' /\ ChildrenInv'
    <3> DEFINE par == Parent(t)
    <3>0. pc[t] = "setup" /\ UNCHANGED <<children, creations>> /\ HoldsMutex(t)
      BY <2>5 DEF Setup, HoldsMutex
    <3>1. owner[par] = t /\ par \in Parents
      BY <3>0, TargetTypes DEF NumberInv
    <3>2. CASE pc' = [pc EXCEPT ![t] = "insert"] /\ UNCHANGED <<owner, target, number>>
      <4>1. CreateTypes'
        BY <3>0, <3>2 DEF CreateTypes
      <4>2. \A u \in Threads : /\ HoldsMutex(u)' <=> HoldsMutex(u)
                               /\ Parent(u)' = Parent(u) /\ Key(u)' = Key(u)
                               /\ u # t => pc'[u] = pc[u]
        BY <3>0, <3>2 DEF HoldsMutex, Parent, Key, CreateTypes
      <4>3. NumberInv'
        BY <3>0, <3>2, <4>2 DEF NumberInv, Created
      <4>4. ChildrenInv'
        <5>1. Exists(par)
          BY <3>0 DEF ChildrenInv
        <5> QED
          BY <2>c, <3>0, <3>2, <4>2, <5>1
      <4> QED
        BY <4>1, <4>3, <4>4
    <3>3. CASE Return(t) /\ owner' = [owner EXCEPT ![par] = NoThread]
      <4>1. CreateTypes'
        BY <2>2, <3>0, <3>3 DEF CreateTypes
      <4>2. \A p \in Parents : owner[p] \in Threads \ {t} => owner'[p] = owner[p]
        BY <3>1, <3>3 DEF CreateTypes
      <4> QED
        BY <2>1, <2>c, <2>2, <3>0, <3>3, <4>1, <4>2
    <3> QED
      BY <2>5, <3>2, <3>3 DEF Setup
  <2>6. ASSUME NEW t \in Threads, Insert(t)
        PROVE  CreateTypes' /\ NumberInv' /\ ChildrenInv'
    <3>p. PICK par \in Parents : par = Parent(t)
      BY TargetTypes
    <3>k. PICK key \in Keys(par) : key = Key(t)
      BY <3>p, TargetTypes
    <3>0. /\ pc[t] = "insert" /\ HoldsMutex(t) /\ Return(t) /\ UNCHANGED creations
          /\ owner' = [owner EXCEPT ![par] = NoThread]
      BY <2>6, <3>p DEF Insert, HoldsMutex
    <3>1. owner[par] = t
      BY <3>0, <3>p DEF NumberInv
    <3>2. CreateTypes'
      <4>1. owner' \in [Parents -> Threads \cup {NoThread}]
        BY <3>0 DEF CreateTypes
      <4> QED
        BY <2>2, <2>6, <3>0, <4>1, InsertEffect DEF CreateTypes
    <3>3. Created(par)' = Created(par) \cup {key}
      <4>1. Created(Parent(t)) \cup {Key(t)} = {k \in Keys(Parent(t)) : children'[Parent(t)][k] # 0}
        BY <2>6, InsertEffect
      <4>2. Created(par) \cup {key} = {k \in Keys(par) : children'[par][k] # 0}
        BY <3>p, <3>k, <4>1
      <4>3. Created(par)' = {k \in Keys(par) : children'[par][k] # 0}
        BY DEF Created
      <4> QED
        BY <4>2, <4>3
    <3>4. /\ \A p \in Parents : p # par => Created(p)' = Created(p)
          /\ number[t] = Cardinality(Created(par)') /\ number[t] \in Nat /\ number[t] # 0
      <4>1. \A p \in Parents : p # par => Created(p)' = Created(p)
        BY <2>6, <3>p, InsertEffect
      <4>2. number[t] = Cardinality(Created(par) \cup {key}) /\ number[t] \in Nat /\ number[t] # 0
        BY <2>6, <3>p, <3>k, InsertEffect
      <4> QED
        BY <3>3, <4>1, <4>2
    <3>e. \A p \in Parents : \A k \in Keys(p) :
             children'[p][k] = IF p = par /\ k = key THEN number[t] ELSE children[p][k]
      <4>1. \A p \in Parents : \A k \in Keys(p) :
               children'[p][k] = IF p = Parent(t) /\ k = Key(t) THEN number[t] ELSE children[p][k]
        BY <2>6, InsertEffect
      <4> QED
        BY <3>p, <3>k, <4>1
    <3>5. \A u \in Threads : u # t => /\ pc'[u] = pc[u] /\ number'[u] = number[u]
                                      /\ Parent(u)' = Parent(u) /\ Key(u)' = Key(u)
      BY <2>2, <3>0 DEF Parent, Key
    <3>6. NumberInv'
      <4> SUFFICES ASSUME NEW u \in Threads, HoldsMutex(u)'
                   PROVE  /\ owner'[Parent(u)'] = u
                          /\ Key(u)' \notin Created(Parent(u))'
                          /\ number'[u] = Cardinality(Created(Parent(u))') + 1
        BY DEF NumberInv
      <4>1. u # t /\ HoldsMutex(u) /\ Parent(u)' = Parent(u) /\ Key(u)' = Key(u)
        BY <2>2, <3>0, <3>5 DEF HoldsMutex
      <4>2. Parent(u) \in Parents /\ owner[Parent(u)] = u
        BY <4>1, TargetTypes DEF NumberInv
      <4>3. Parent(u) # par
        BY <3>1, <4>1, <4>2
      <4>4. Created(Parent(u))' = Created(Parent(u))
        BY <3>4, <4>1, <4>2, <4>3 DEF Created
      <4>5. owner'[Parent(u)] = u
        BY <3>0, <4>2, <4>3 DEF CreateTypes
      <4> QED
        BY <3>5, <4>1, <4>4, <4>5 DEF NumberInv
    <3>7. ChildrenInv'
      <4>1. /\ number[t] = Cardinality(Created(par)) + 1 /\ Cardinality(Created(par)) \in Nat
            /\ key \notin Created(par)
        BY <3>0, <3>p, <3>k, CreatedFinite DEF NumberInv
      <4>2. \A k \in Created(par)' :
               /\ children'[par][k] = IF k = key THEN number[t] ELSE children[par][k]
               /\ k # key => k \in Created(par)
        BY <3>3, <3>e DEF Created
      <4>3. ASSUME NEW k \in Created(par)', NEW j \in Created(par)'
            PROVE  /\ children'[par][k] \in 1..Cardinality(Created(par)')
                   /\ children'[par][j] = children'[par][k] => j = k
        <5>1. \A i \in Created(par) : children[par][i] \in 1..Cardinality(Created(par))
          BY DEF ChildrenInv
        <5>2. \A i \in Created(par)' : children'[par][i] \in 1..number[t]
                                       /\ (children'[par][i] = number[t] <=> i = key)
          BY <4>1, <4>2, <5>1
        <5>3. children'[par][k] \in 1..Cardinality(Created(par)')
          BY <3>4, <5>2
        <5>4. ASSUME children'[par][j] = children'[par][k] PROVE j = k
          <6>1. CASE k = key \/ j = key
            BY <5>2, <5>4, <6>1
          <6>2. CASE k # key /\ j # key
            BY <4>2, <5>4, <6>2 DEF ChildrenInv
          <6> QED
            BY <6>1, <6>2
        <5> QED
          BY <5>3, <5>4
      <4>4. ASSUME NEW p \in Parents, p # par, NEW k \in Created(p)'
            PROVE  /\ children'[p][k] \in 1..Cardinality(Created(p)')
                   /\ \A j \in Created(p)' : children'[p][j] = children'[p][k] => j = k
        <5>1. Created(p)' = Created(p)
          BY <3>4, <4>4
        <5>2. \A j \in Created(p) : children'[p][j] = children[p][j]
          BY <3>e, <4>4 DEF Created
        <5> QED
          BY <4>4, <5>1, <5>2 DEF ChildrenInv
      <4>5. \A u \in Threads : pc'[u] # "idle" => Exists(Parent(u))'
        <5> SUFFICES ASSUME NEW u \in Threads, pc'[u] # "idle" PROVE Exists(Parent(u))'
          OBVIOUS
        <5>1. u # t /\ pc[u] # "idle" /\ Parent(u)' = Parent(u) /\ Parent(u) \in Parents
          BY <2>2, <3>0, <3>5, TargetTypes
        <5>2. Exists(Parent(u))
          BY <5>1 DEF ChildrenInv
        <5>3. PICK q \in Parents : q = Parent(u)
          BY <5>1
        <5>4. Exists(q)'
          BY <5>2, <5>3, ExistsStays
        <5> QED
          BY <5>1, <5>3, <5>4 DEF Exists, Created
      <4> QED
        BY <4>3, <4>4, <4>5 DEF ChildrenInv
    <3> QED
      BY <3>2, <3>6, <3>7
  <2>7. CASE \/ \E p \in Parents : \E k \in Keys(p) : UnregisterObject(p, k)
             \/ Disconnect
             \/ \E s \in Services : AddService(s) \/ RemoveService(UuidOf[s])
             \/ StartWalk \/ TakeReference \/ CopyChildren \/ SendDict \/ UNCHANGED vars
    BY <2>0, <2>7 DEF UnregisterObject, Disconnect, AddService, RemoveService, StartWalk,
                      TakeReference, CopyChildren, SendDict, vars, tree, creators
  <2> QED
    BY <2>3, <2>4, <2>5, <2>6, <2>7 DEF Next
<1> QED
  BY <1>1, <1>2, PTL DEF Spec

\* A child in the map keeps its number.
LEMMA ChildKept ==
    ASSUME CreateTypes, NumberInv, [Next]_vars, NEW p \in Parents, NEW k \in Created(p)
    PROVE  k \in Created(p)' /\ children'[p][k] = children[p][k]
<1>0. k \in Keys(p) /\ children[p][k] # 0
  BY DEF Created
<1>1. children'[p][k] = children[p][k]
  <2>1. CASE UNCHANGED children
    BY <2>1
  <2>2. ASSUME NEW t \in Threads, Insert(t) PROVE children'[p][k] = children[p][k]
    <3>1. Key(t) \notin Created(Parent(t))
      BY <2>2 DEF NumberInv, Insert, HoldsMutex
    <3>2. ~(p = Parent(t) /\ k = Key(t))
      BY <3>1
    <3>3. \A q \in Parents : \A j \in Keys(q) :
             children'[q][j] = IF q = Parent(t) /\ j = Key(t) THEN number[t] ELSE children[q][j]
      BY <2>2, InsertEffect
    <3> QED
      BY <1>0, <3>2, <3>3
  <2> QED
    BY <2>1, <2>2 DEF Next, Create, Lookup, Setup, UnregisterObject, Disconnect, AddService,
                      RemoveService, StartWalk, TakeReference, CopyChildren, SendDict, vars, tree
<1> QED
  BY <1>0, <1>1 DEF Created

\* A child handed out once stays the child of its UUID.
THEOREM ChildrenStay == Spec => NeverReplaced
<1> DEFINE Stays == \A p \in Parents : \A k \in Keys(p) :
                       children[p][k] # 0 => children'[p][k] = children[p][k]
<1>1. CreateInv /\ [Next]_vars => [Stays]_vars
  <2> SUFFICES ASSUME CreateTypes, NumberInv, [Next]_vars, NEW p \in Parents, NEW k \in Keys(p),
                      children[p][k] # 0
               PROVE  children'[p][k] = children[p][k]
    BY DEF CreateInv
  <2> QED
    BY ChildKept DEF Created
<1> QED
  BY <1>1, CreateInvariant, PTL DEF Spec, NeverReplaced

-----------------------------------------------------------------------------
\* What is at a path: the child it was registered for, or one that is about to be
\* inserted and whose setup went well.  No two have the same path.
BusTypes ==
    /\ registered \subseteq Children /\ off \subseteq Children /\ connected \in BOOLEAN

ExportedInv ==
    /\ \A e \in exported :
          /\ e[1] \in Parents /\ e = <<e[1], e[2]>> /\ Exists(e[1])
          /\ \/ e[2] \in 1..Cardinality(Created(e[1]))
             \/ \E t \in Threads : pc[t] = "insert" /\ Parent(t) = e[1] /\ number[t] = e[2]
    /\ \A e, f \in exported : SamePath(e, f) => e = f

\* While the connection lasts, a child that is registered is at its path, and a child
\* that is not was taken off.
EntryOf(o) == <<o[1], children[o[1]][o[2]]>>
RegisteredInv ==
    connected =>
        /\ \A t \in Threads : pc[t] = "insert" =>
              <<Parent(t), number[t]>> \in exported /\ target[t] \in registered
        /\ \A o \in registered :
              \/ o[2] \in Created(o[1]) /\ EntryOf(o) \in exported
              \/ \E t \in Threads : pc[t] = "insert" /\ target[t] = o
        /\ \A p \in Parents : \A k \in Created(p) : <<p, k>> \in registered \cup off

BusInv == BusTypes /\ ExportedInv /\ RegisteredInv

\* Whether two entries have the same path does not change while what they are below
\* exists.
LEMMA SamePathStays ==
    ASSUME CreateTypes, NumberInv, [Next]_vars, NEW e, NEW f,
           e[1] \in Parents, f[1] \in Parents, Exists(e[1]), Exists(f[1])
    PROVE  SamePath(e, f)' <=> SamePath(e, f)
<1>1. ASSUME NEW p \in Parents \ Services, Exists(p)
      PROVE  children'[p[1]][p[2]] = children[p[1]][p[2]]
  <2>1. p[1] \in Parents /\ p[2] \in Created(p[1])
    BY <1>1 DEF Parents, Exists
  <2> QED
    BY <2>1, ChildKept
<1>2. CASE e[1] \in Services \/ f[1] \in Services
  BY <1>2 DEF SamePath
<1>3. CASE e[1] \notin Services /\ f[1] \notin Services
  <2>1. /\ children'[e[1][1]][e[1][2]] = children[e[1][1]][e[1][2]]
        /\ children'[f[1][1]][f[1][2]] = children[f[1][1]][f[1][2]]
    BY <1>1, <1>3
  <2> QED
    BY <1>3, <2>1 DEF SamePath
<1> QED
  BY <1>2, <1>3

LEMMA BusInvariant == Spec => []BusInv
<1>1. Init => BusInv
  <2> SUFFICES ASSUME Init PROVE BusInv
    OBVIOUS
  <2>1. \A p \in Parents : Created(p) = {}
    BY DEF Init, Created
  <2> QED
    BY <2>1 DEF Init, BusInv, BusTypes, ExportedInv, RegisteredInv
<1>2. CreateInv /\ CreateInv' /\ BusInv /\ [Next]_vars => BusInv'
  <2> SUFFICES ASSUME CreateTypes, NumberInv, ChildrenInv, CreateTypes', NumberInv', ChildrenInv',
                      BusTypes, ExportedInv, RegisteredInv, [Next]_vars
               PROVE  BusTypes' /\ ExportedInv' /\ RegisteredInv'
    BY DEF CreateInv, BusInv
  <2>e. \A e \in exported : e[1] \in Parents /\ e = <<e[1], e[2]>> /\ Exists(e[1]) /\ Exists(e[1])'
    BY ExistsStays DEF ExportedInv
  <2>s. \A e, f \in exported : SamePath(e, f)' <=> SamePath(e, f)
    BY <2>e, SamePathStays
  <2>o. \A o \in registered : o = <<o[1], o[2]>> /\ o[1] \in Parents /\ o[2] \in Keys(o[1])
    BY ChildNames DEF BusTypes
  \* the creating threads that insert nothing
  <2>1. ASSUME UNCHANGED <<bus, children>>,
               \A u \in Threads : pc[u] = "insert" \/ pc'[u] = "insert" =>
                  pc'[u] = pc[u] /\ target'[u] = target[u] /\ number'[u] = number[u]
        PROVE  BusTypes' /\ ExportedInv' /\ RegisteredInv'
    <3>1. BusTypes' /\ UNCHANGED <<exported, registered, connected, off>>
      BY <2>1 DEF bus, BusTypes
    <3>2. \A u \in Threads : pc[u] = "insert" \/ pc'[u] = "insert" =>
             pc'[u] = pc[u] /\ target'[u] = target[u] /\ number'[u] = number[u]
             /\ Parent(u)' = Parent(u)
      BY <2>1 DEF Parent
    <3>3. ExportedInv'
      BY <2>1, <2>e, <2>s, <3>1, <3>2 DEF ExportedInv, Created
    <3>4. RegisteredInv'
      BY <2>1, <3>1, <3>2 DEF RegisteredInv, Created, EntryOf
    <3> QED
      BY <3>1, <3>3, <3>4
  <2>2. ASSUME NEW t \in Threads, NEW p \in Parents, NEW k \in Keys(p), Create(t, p, k)
        PROVE  BusTypes' /\ ExportedInv' /\ RegisteredInv'
    BY <2>1, <2>2 DEF Create, tree, CreateTypes
  <2>3. ASSUME NEW t \in Threads, Lookup(t)
        PROVE  BusTypes' /\ ExportedInv' /\ RegisteredInv'
    BY <2>1, <2>3 DEF Lookup, Return, Choose, CreateTypes
  <2>4. ASSUME NEW t \in Threads, Setup(t)
        PROVE  BusTypes' /\ ExportedInv' /\ RegisteredInv'
    <3>0. pc[t] = "setup" /\ UNCHANGED children
      BY <2>4 DEF Setup
    <3>1. CASE Return(t) /\ UNCHANGED bus
      BY <2>1, <3>0, <3>1 DEF Return, CreateTypes
    <3>2. CASE RegisterPath(t) /\ pc' = [pc EXCEPT ![t] = "insert"] /\ UNCHANGED <<target, number>>
      <4> DEFINE e0 == <<Parent(t), number[t]>>
      <4>1. /\ connected /\ PathFree(e0) /\ UNCHANGED <<connected, off>>
            /\ exported' = exported \cup {e0}
            /\ registered' = registered \cup {target[t]}
        BY <3>2 DEF RegisterPath
      <4>2. /\ Parent(t) \in Parents /\ Exists(Parent(t)) /\ target[t] \in Children
            /\ e0[1] = Parent(t) /\ e0[2] = number[t] /\ e0 = <<e0[1], e0[2]>>
        BY <3>0, TargetTypes DEF ChildrenInv, CreateTypes
      <4>3. /\ \A u \in Threads : Parent(u)' = Parent(u)
            /\ \A u \in Threads : pc'[u] = IF u = t THEN "insert" ELSE pc[u]
            /\ \A p : Created(p)' = Created(p) /\ Exists(p)' = Exists(p)
        BY <3>0, <3>2 DEF Parent, Created, Exists, CreateTypes
      <4> HIDE DEF e0
      <4>4. BusTypes'
        BY <4>1, <4>2 DEF BusTypes
      <4>5. ExportedInv'
        <5>1. ASSUME NEW e \in exported'
              PROVE  /\ e[1] \in Parents /\ e = <<e[1], e[2]>> /\ Exists(e[1])'
                     /\ \/ e[2] \in 1..Cardinality(Created(e[1])')
                        \/ \E u \in Threads :
                              pc'[u] = "insert" /\ Parent(u)' = e[1] /\ number'[u] = e[2]
          <6>1. CASE e = e0
            BY <3>2, <4>2, <4>3, <6>1
          <6>2. CASE e \in exported
            BY <3>0, <3>2, <4>3, <6>2 DEF ExportedInv
          <6> QED
            BY <4>1, <6>1, <6>2
        <5>2. ASSUME NEW e \in exported', NEW f \in exported', SamePath(e, f)' PROVE e = f
          <6>1. SamePath(e, f) /\ SamePath(f, e)
            BY <3>0, <5>2 DEF SamePath
          <6>2. CASE e \in exported /\ f \in exported
            BY <6>1, <6>2 DEF ExportedInv
          <6>3. CASE e = e0 \/ f = e0
            BY <4>1, <6>1, <6>3 DEF PathFree
          <6> QED
            BY <4>1, <6>2, <6>3
        <5> QED
          BY <5>1, <5>2, <4>3 DEF ExportedInv
      <4>6. RegisteredInv'
        <5>1. \A u \in Threads : pc'[u] = "insert" =>
                 <<Parent(u)', number'[u]>> \in exported' /\ target'[u] \in registered'
          BY <3>2, <4>1, <4>3 DEF RegisteredInv, e0
        <5>2. \A o \in registered' :
                 \/ o[2] \in Created(o[1])' /\ EntryOf(o)' \in exported'
                 \/ \E u \in Threads : pc'[u] = "insert" /\ target'[u] = o
          BY <3>0, <3>2, <4>1, <4>3 DEF RegisteredInv, EntryOf
        <5>3. \A p \in Parents : \A k \in Created(p)' : <<p, k>> \in registered' \cup off'
          BY <4>1, <4>3 DEF RegisteredInv
        <5> QED
          BY <5>1, <5>2, <5>3 DEF RegisteredInv
      <4> QED
        BY <4>4, <4>5, <4>6
    <3> QED
      BY <2>4, <3>1, <3>2 DEF Setup
  <2>5. ASSUME NEW t \in Threads, Insert(t)
        PROVE  BusTypes' /\ ExportedInv' /\ RegisteredInv'
    <3>p. PICK par \in Parents : par = Parent(t)
      BY TargetTypes
    <3>k. PICK key \in Keys(par) : key = Key(t)
      BY <3>p, TargetTypes
    <3>0. /\ pc[t] = "insert" /\ pc'[t] = "idle" /\ UNCHANGED <<exported, registered, connected, off>>
          /\ target[t] = <<par, key>>
          /\ \A u \in Threads : u # t => /\ pc'[u] = pc[u] /\ target'[u] = target[u]
                                         /\ number'[u] = number[u] /\ Parent(u)' = Parent(u)
      <4>1. target[t] = <<target[t][1], target[t][2]>>
        BY ChildNames DEF CreateTypes
      <4> QED
        BY <2>5, <3>p, <3>k, <4>1 DEF Insert, Return, CreateTypes, Parent, Key, bus
    <3>1. \A p \in Parents : p # par => Created(p)' = Created(p)
      BY <2>5, <3>p, InsertEffect
    <3>2. /\ Created(par)' = Created(par) \cup {key}
          /\ number[t] = Cardinality(Created(par)') /\ number[t] \in Nat /\ number[t] # 0
      <4>1. Created(par)' = Created(par) \cup {key}
        <5>1. Created(Parent(t)) \cup {Key(t)} = {k \in Keys(Parent(t)) : children'[Parent(t)][k] # 0}
          BY <2>5, InsertEffect
        <5>2. Created(par) \cup {key} = {k \in Keys(par) : children'[par][k] # 0}
          BY <3>p, <3>k, <5>1
        <5>3. Created(par)' = {k \in Keys(par) : children'[par][k] # 0}
          BY DEF Created
        <5> QED
          BY <5>2, <5>3
      <4>2. number[t] = Cardinality(Created(par) \cup {key}) /\ number[t] \in Nat /\ number[t] # 0
        BY <2>5, <3>p, <3>k, InsertEffect
      <4> QED
        BY <4>1, <4>2
    <3>3. children'[par][key] = number[t]
      <4>1. \A p \in Parents : \A k \in Keys(p) :
               children'[p][k] = IF p = Parent(t) /\ k = Key(t) THEN number[t] ELSE children[p][k]
        BY <2>5, InsertEffect
      <4> QED
        BY <3>p, <3>k, <4>1
    <3>4. BusTypes'
      BY <3>0 DEF BusTypes
    <3>5. ExportedInv'
      <4>1. ASSUME NEW e \in exported
            PROVE  \/ e[2] \in 1..Cardinality(Created(e[1])')
                   \/ \E u \in Threads : pc'[u] = "insert" /\ Parent(u)' = e[1] /\ number'[u] = e[2]
        <5>1. CASE \E u \in Threads : pc[u] = "insert" /\ Parent(u) = e[1] /\ number[u] = e[2]
          <6>1. PICK u \in Threads : pc[u] = "insert" /\ Parent(u) = e[1] /\ number[u] = e[2]
            BY <5>1
          <6>2. CASE u = t
            BY <3>p, <3>2, <6>1, <6>2
          <6>3. CASE u # t
            BY <3>0, <6>1, <6>3
          <6> QED
            BY <6>2, <6>3
        <5>2. CASE e[2] \in 1..Cardinality(Created(e[1]))
          <6>2. CASE e[1] = par
            <7>1. number[t] = Cardinality(Created(par)) + 1 /\ Cardinality(Created(par)) \in Nat
              BY <3>0, <3>p, CreatedFinite DEF NumberInv, HoldsMutex
            <7>2. e[2] \in 1..Cardinality(Created(par))
              BY <5>2, <6>2
            <7>3. e[2] \in 1..Cardinality(Created(par)')
              BY <3>2, <7>1, <7>2
            <7> QED
              BY <6>2, <7>3 DEF Created
          <6>3. CASE e[1] # par
            BY <2>e, <3>1, <5>2, <6>3
          <6> QED
            BY <6>2, <6>3
        <5> QED
          BY <5>1, <5>2 DEF ExportedInv
      <4>2. \A e, f \in exported : SamePath(e, f)' => e = f
        BY <2>s DEF ExportedInv
      <4> QED
        BY <2>e, <3>0, <4>1, <4>2 DEF ExportedInv
    <3>6. RegisteredInv'
      <4> SUFFICES ASSUME connected
                   PROVE  /\ \A u \in Threads : pc'[u] = "insert" =>
                                <<Parent(u)', number'[u]>> \in exported /\ target'[u] \in registered
                          /\ \A o \in registered :
                                \/ o[2] \in Created(o[1])' /\ EntryOf(o)' \in exported
                                \/ \E u \in Threads : pc'[u] = "insert" /\ target'[u] = o
                          /\ \A p \in Parents : \A k \in Created(p)' : <<p, k>> \in registered \cup off
        BY <3>0 DEF RegisteredInv
      <4>1. \A u \in Threads : pc'[u] = "insert" =>
               <<Parent(u)', number'[u]>> \in exported /\ target'[u] \in registered
        BY <3>0 DEF RegisteredInv
      <4>2. ASSUME NEW o \in registered
            PROVE  \/ o[2] \in Created(o[1])' /\ EntryOf(o)' \in exported
                   \/ \E u \in Threads : pc'[u] = "insert" /\ target'[u] = o
        <5>1. CASE o[2] \in Created(o[1]) /\ EntryOf(o) \in exported
          <6>1. o[2] \in Created(o[1])' /\ children'[o[1]][o[2]] = children[o[1]][o[2]]
            BY <2>o, <5>1, ChildKept
          <6> QED
            BY <5>1, <6>1 DEF EntryOf
        <5>2. CASE o = target[t]
          <6>1. o[1] = par /\ o[2] = key /\ <<par, number[t]>> \in exported
            BY <3>0, <3>p, <5>2 DEF RegisteredInv
          <6> QED
            BY <3>2, <3>3, <6>1 DEF EntryOf
        <5>3. CASE \E u \in Threads : u # t /\ pc[u] = "insert" /\ target[u] = o
          BY <3>0, <5>3
        <5> QED
          BY <5>1, <5>2, <5>3 DEF RegisteredInv
      <4>3. ASSUME NEW p \in Parents, NEW k \in Created(p)' PROVE <<p, k>> \in registered \cup off
        <5>1. CASE p = par /\ k = key
          BY <3>0, <5>1 DEF RegisteredInv
        <5>2. CASE ~(p = par /\ k = key)
          BY <3>1, <3>2, <5>2 DEF RegisteredInv
        <5> QED
          BY <5>1, <5>2
      <4> QED
        BY <4>1, <4>2, <4>3
    <3> QED
      BY <3>4, <3>5, <3>6
  \* Whatever else is registered has another path, so it stays.
  <2>6. ASSUME NEW p \in Parents, NEW k \in Keys(p), UnregisterObject(p, k)
        PROVE  BusTypes' /\ ExportedInv' /\ RegisteredInv'
    <3> DEFINE own == <<p, children[p][k]>>
    <3>0. /\ k \in Created(p) /\ <<p, k>> \in registered /\ connected
          /\ exported' = {e \in exported : ~SamePath(e, own)}
          /\ registered' = registered \ {<<p, k>>} /\ off' = off \cup {<<p, k>>}
          /\ UNCHANGED <<connected, children, pc, target, number>>
      BY <2>6 DEF UnregisterObject, tree, creators
    <3>1. /\ \A u \in Threads : Parent(u)' = Parent(u)
          /\ \A q : Created(q)' = Created(q) /\ Exists(q)' = Exists(q)
      BY <3>0 DEF Parent, Created, Exists
    \* a child that is being inserted is not in the map, so own is its own entry
    <3>2. own \in exported
      <4>1. ASSUME NEW u \in Threads, pc[u] = "insert", target[u] = <<p, k>> PROVE FALSE
        BY <3>0, <4>1 DEF NumberInv, HoldsMutex, Parent, Key
      <4> QED
        BY <3>0, <4>1 DEF RegisteredInv, EntryOf
    <3>3. \A e \in exported : e # own => e \in exported'
      BY <3>0, <3>2 DEF ExportedInv
    <3> HIDE DEF own
    <3>4. BusTypes'
      BY <3>0, ChildNames DEF BusTypes
    <3>5. ExportedInv'
      <4>1. \A e, f \in exported' : SamePath(e, f)' => e = f
        BY <2>s, <3>0 DEF ExportedInv
      <4>2. \A e \in exported' :
               /\ e[1] \in Parents /\ e = <<e[1], e[2]>> /\ Exists(e[1])'
               /\ \/ e[2] \in 1..Cardinality(Created(e[1])')
                  \/ \E u \in Threads : pc'[u] = "insert" /\ Parent(u)' = e[1] /\ number'[u] = e[2]
        BY <3>0, <3>1 DEF ExportedInv
      <4> QED
        BY <4>1, <4>2 DEF ExportedInv
    <3>6. RegisteredInv'
      <4>1. ASSUME NEW u \in Threads, pc[u] = "insert"
            PROVE  <<Parent(u), number[u]>> \in exported' /\ target[u] \in registered'
        <5>1. <<Parent(u), number[u]>> \in exported /\ target[u] \in registered
          BY <3>0, <4>1 DEF RegisteredInv
        <5>2. /\ Key(u) \notin Created(Parent(u)) /\ Parent(u) \in Parents
              /\ number[u] = Cardinality(Created(Parent(u))) + 1
              /\ Cardinality(Created(Parent(u))) \in Nat
          BY <4>1, TargetTypes, CreatedFinite DEF NumberInv, HoldsMutex
        <5>3. target[u] # <<p, k>>
          BY <3>0, <5>2 DEF Parent, Key
        <5>4. children[p][k] \in 1..Cardinality(Created(p))
          BY <3>0 DEF ChildrenInv
        <5>5. <<Parent(u), number[u]>> # own
          BY <5>2, <5>4 DEF own
        <5> QED
          BY <3>0, <3>3, <5>1, <5>3, <5>5
      <4>2. ASSUME NEW o \in registered'
            PROVE  \/ o[2] \in Created(o[1]) /\ EntryOf(o) \in exported'
                   \/ \E u \in Threads : pc[u] = "insert" /\ target[u] = o
        <5>1. o \in registered /\ o # <<p, k>> /\ o = <<o[1], o[2]>> /\ o[1] \in Parents
          BY <2>o, <3>0
        <5>2. CASE o[2] \in Created(o[1]) /\ EntryOf(o) \in exported
          <6>1. EntryOf(o) # own
            BY <3>0, <5>1, <5>2 DEF EntryOf, own, ChildrenInv
          <6> QED
            BY <3>3, <5>2, <6>1
        <5> QED
          BY <3>0, <5>1, <5>2 DEF RegisteredInv
      <4>3. \A q \in Parents : \A j \in Created(q) : <<q, j>> \in registered' \cup off'
        BY <3>0 DEF RegisteredInv
      <4> QED
        BY <3>0, <3>1, <4>1, <4>2, <4>3 DEF RegisteredInv, EntryOf
    <3> QED
      BY <3>4, <3>5, <3>6
  <2>7. CASE Disconnect
    BY <2>7 DEF Disconnect, BusTypes, ExportedInv, RegisteredInv
  <2>8. CASE \/ \E s \in Services : AddService(s) \/ RemoveService(UuidOf[s])
             \/ StartWalk \/ TakeReference \/ CopyChildren \/ SendDict \/ UNCHANGED vars
    BY <2>1, <2>8 DEF AddService, RemoveService, StartWalk, TakeReference, CopyChildren, SendDict,
                      vars, tree, creators
  <2> QED
    BY <2>2, <2>3, <2>4, <2>5, <2>6, <2>7, <2>8 DEF Next
<1> QED
  BY <1>1, <1>2, CreateInvariant, PTL DEF Spec

\* The path of a new child is free whichever creations failed before it, whoever else
\* creates and whatever was taken off: it is the number of children plus one, under
\* the mutex, and the numbers of the children are no higher.
THEOREM PathIsFree == Spec => []NextPathFree
<1>1. CreateInv /\ BusInv => NextPathFree
  <2> SUFFICES ASSUME CreateTypes, NumberInv, ChildrenInv, ExportedInv,
                      NEW t \in Threads, pc[t] = "setup", OwnPath(ServiceOf(Parent(t))),
                      NEW f \in exported, SamePath(f, <<Parent(t), number[t]>>)
               PROVE  FALSE
    BY DEF NextPathFree, PathFree, CreateInv, BusInv
  <2>1. PICK par \in Parents : par = Parent(t)
    BY TargetTypes
  <2>2. /\ owner[par] = t /\ Exists(par)
        /\ number[t] = Cardinality(Created(par)) + 1 /\ Cardinality(Created(par)) \in Nat
    BY <2>1, CreatedFinite DEF HoldsMutex, NumberInv, ChildrenInv
  <2>3. /\ f[2] = number[t] /\ f[1] \in Parents /\ Exists(f[1])
        /\ \/ par \in Services /\ f[1] \in Services /\ ServicePath[f[1]] = ServicePath[par]
           \/ /\ par \notin Services /\ f[1] \notin Services
              /\ ServicePath[f[1][1]] = ServicePath[par[1]]
              /\ children[f[1][1]][f[1][2]] = children[par[1]][par[2]]
    BY <2>1 DEF SamePath, ExportedInv
  <2>4. f[1] = par
    <3>1. CASE par \in Services
      BY <2>1, <2>3, <3>1 DEF OwnPath, ServiceOf
    <3>2. CASE par \notin Services
      <4>1. /\ f[1] = <<f[1][1], f[1][2]>> /\ f[1][1] \in Services
            /\ par = <<par[1], par[2]>> /\ par[1] \in Services
        BY <2>3, <3>2 DEF Parents
      <4>2. f[1][1] = par[1]
        BY <2>1, <2>3, <3>2, <4>1 DEF OwnPath, ServiceOf
      <4>3. par[1] \in Parents /\ f[1][2] \in Created(par[1]) /\ par[2] \in Created(par[1])
        BY <2>2, <2>3, <3>2, <4>1, <4>2 DEF Parents, Exists
      <4>4. f[1][2] = par[2]
        BY <2>3, <3>2, <4>2, <4>3 DEF ChildrenInv
      <4> QED
        BY <4>1, <4>2, <4>4
    <3> QED
      BY <3>1, <3>2
  <2>5. f[2] \notin 1..Cardinality(Created(par))
    BY <2>2, <2>3
  <2>6. PICK u \in Threads : pc[u] = "insert" /\ Parent(u) = par
    BY <2>4, <2>5 DEF ExportedInv
  <2>7. owner[par] = u
    BY <2>6 DEF NumberInv, HoldsMutex
  <2> QED
    BY <2>2, <2>6, <2>7
<1> QED
  BY <1>1, CreateInvariant, BusInvariant, PTL

-----------------------------------------------------------------------------
\* Adding to the list of services and removing from it.
LEMMA AppendSet ==
    ASSUME NEW S, NEW q \in Seq(S), NEW x \in S
    PROVE  /\ Append(q, x) \in Seq(S)
           /\ ToSet(q) \subseteq S
           /\ ToSet(Append(q, x)) = ToSet(q) \cup {x}
<1>1. /\ Append(q, x) \in Seq(S) /\ Len(q) \in Nat
      /\ DOMAIN q = 1..Len(q) /\ DOMAIN Append(q, x) = 1..(Len(q) + 1)
  OBVIOUS
<1>2. /\ \A n \in 1..Len(q) : Append(q, x)[n] = q[n]
      /\ Append(q, x)[Len(q) + 1] = x
  OBVIOUS
<1>3. 1..(Len(q) + 1) = 1..Len(q) \cup {Len(q) + 1}
  BY <1>1
<1>4. ToSet(q) \subseteq S
  BY <1>1 DEF ToSet
<1>5. ToSet(Append(q, x)) = ToSet(q) \cup {x}
  BY <1>1, <1>2, <1>3 DEF ToSet
<1> QED
  BY <1>1, <1>4, <1>5

LEMMA RemoveSet ==
    ASSUME NEW S, NEW q \in Seq(S), NEW i \in DOMAIN q
    PROVE  /\ RemoveAt(q, i) \in Seq(S)
           /\ ToSet(RemoveAt(q, i)) \subseteq ToSet(q)
           /\ ToSet(q) \ {q[i]} \subseteq ToSet(RemoveAt(q, i))
<1> DEFINE a == SubSeq(q, 1, i - 1)
           b == SubSeq(q, i + 1, Len(q))
<1>1. Len(q) \in Nat /\ i \in 1..Len(q) /\ DOMAIN q = 1..Len(q)
  OBVIOUS
<1>2. /\ a \in Seq(S) /\ Len(a) = i - 1
      /\ \A n \in 1..(i - 1) : a[n] = q[n]
  BY <1>1
<1>3. /\ b \in Seq(S) /\ Len(b) = Len(q) - i
      /\ \A n \in 1..(Len(q) - i) : b[n] = q[n + i]
  BY <1>1
<1>4. RemoveAt(q, i) = a \o b
  BY DEF RemoveAt
<1> HIDE DEF a, b
<1>5. /\ a \o b \in Seq(S) /\ Len(a \o b) = Len(q) - 1
      /\ \A n \in 1..(Len(q) - 1) : (a \o b)[n] = IF n < i THEN q[n] ELSE q[n + 1]
  <2>0. Len(a) + Len(b) = Len(q) - 1
    BY <1>1, <1>2, <1>3
  <2>1. a \o b \in Seq(S) /\ Len(a \o b) = Len(q) - 1
    BY <1>2, <1>3, <2>0, ConcatProperties
  <2>2. \A n \in 1..(Len(q) - 1) :
           (a \o b)[n] = IF n <= Len(a) THEN a[n] ELSE b[n - Len(a)]
    BY <1>2, <1>3, <2>0, ConcatProperties
  <2>3. ASSUME NEW n \in 1..(Len(q) - 1)
        PROVE  (a \o b)[n] = IF n < i THEN q[n] ELSE q[n + 1]
    <3>1. CASE n < i
      BY <1>1, <1>2, <2>2, <3>1
    <3>2. CASE ~(n < i)
      <4>1. n \in Nat /\ i \in Nat /\ ~(n <= i - 1) /\ n <= Len(q) - 1
        BY <1>1, <3>2
      <4>2. (a \o b)[n] = b[n - (i - 1)]
        BY <1>2, <2>2, <4>1
      <4>3. n - (i - 1) \in 1..(Len(q) - i) /\ n - (i - 1) + i = n + 1
        BY <1>1, <4>1
      <4>4. b[n - (i - 1)] = q[n - (i - 1) + i]
        BY <1>3, <4>3
      <4> QED
        BY <3>2, <4>2, <4>3, <4>4
    <3> QED
      BY <3>1, <3>2
  <2> QED
    BY <2>1, <2>3
<1>6. DOMAIN (a \o b) = 1..(Len(q) - 1)
  BY <1>5
<1>7. ToSet(a \o b) \subseteq ToSet(q)
  <2> SUFFICES ASSUME NEW n \in 1..(Len(q) - 1) PROVE (a \o b)[n] \in ToSet(q)
    BY <1>6 DEF ToSet
  <2>1. n \in 1..Len(q) /\ n + 1 \in 1..Len(q)
    BY <1>1
  <2> QED
    BY <1>1, <1>5, <2>1 DEF ToSet
<1>8. ToSet(q) \ {q[i]} \subseteq ToSet(a \o b)
  <2> SUFFICES ASSUME NEW n \in 1..Len(q), q[n] # q[i] PROVE q[n] \in ToSet(a \o b)
    BY <1>1 DEF ToSet
  <2>1. CASE n < i
    <3>1. n \in 1..(Len(q) - 1) /\ (a \o b)[n] = q[n]
      BY <1>1, <1>5, <2>1
    <3> QED
      BY <1>6, <3>1 DEF ToSet
  <2>2. CASE ~(n < i)
    <3>1. n - 1 \in 1..(Len(q) - 1) /\ ~(n - 1 < i) /\ (n - 1) + 1 = n
      BY <1>1, <2>2
    <3>2. (a \o b)[n - 1] = q[n]
      BY <1>5, <3>1
    <3> QED
      BY <1>6, <3>1, <3>2 DEF ToSet
  <2> QED
    BY <2>1, <2>2
<1> QED
  BY <1>4, <1>5, <1>7, <1>8

-----------------------------------------------------------------------------
\* What the walk has still to do: it will come to the children of p.
WalkTypes ==
    /\ services \in Seq(Services)
    /\ walk \in {"idle", "next", "copy"}
    /\ pending \subseteq Parents /\ current \in Parents
    /\ dict \subseteq Services \cup Children
    /\ added \subseteq Services /\ torn \in BOOLEAN
    /\ known \subseteq Services \cup Children

ToCome(p) == p \in pending \/ (p \notin Services /\ p[1] \in pending)

WalkInv ==
    /\ added \subseteq ToSet(services)
    /\ \A o \in known \ Services :
          o[2] \in Created(o[1]) /\ (o[1] \notin Services => o[1][2] \in Created(o[1][1]))
    /\ ~torn =>
          /\ known \cap Services \subseteq dict
          /\ \A o \in known \ Services : o \in dict \/ ToCome(o[1])

\* The walk copies the children of a parent that is still to come, and puts children
\* into the reply that are in the map.
DictInv ==
    /\ walk = "copy" => current \in pending
    /\ ~torn => \A o \in dict \ Services : o[2] \in Created(o[1])

\* Names: a characteristic is no service, and belongs to one.
LEMMA Characteristics ==
    /\ \A p \in Parents \ Services :
          p[1] \in Services /\ p[2] \in CharUuids /\ p = <<p[1], p[2]>>
    /\ \A s \in Services : \A c \in CharUuids : <<s, c>> \in Parents /\ <<s, c>> \notin Services
    /\ \A p \in Parents : \A k \in Keys(p) : <<p, k>> \in Children /\ <<p, k>> \notin Services
<1>1. \A p \in Parents \ Services :
          p[1] \in Services /\ p[2] \in CharUuids /\ p = <<p[1], p[2]>>
  BY DEF Parents
<1>2. \A p \in Parents : \A k \in Keys(p) : <<p, k>> \in Children /\ <<p, k>> \notin Services
  BY ChildNames, ChildrenAssumption
<1>3. \A s \in Services : \A c \in CharUuids : <<s, c>> \in Parents /\ s \in Parents /\ c \in Keys(s)
  BY DEF Parents, Keys
<1> QED
  BY <1>1, <1>2, <1>3

\* The objects below some services.
LEMMA BelowServices ==
    ASSUME CreateTypes, NEW S \in SUBSET Services
    PROVE  /\ Below(S) \subseteq Services \cup Children
           /\ Below(S) \cap Services \subseteq S
           /\ \A o \in Below(S) \ Services :
                 /\ o[2] \in Created(o[1]) /\ o[1] \in Parents
                 /\ \/ o[1] \in S
                    \/ o[1] \notin Services /\ o[1][1] \in S /\ o[1][2] \in Created(o[1][1])
<1> DEFINE cs == UNION {{<<s, c>> : c \in Created(s)} : s \in S}
           ds == UNION {{<<p, k>> : k \in Created(p)} : p \in cs}
<1>1. ASSUME NEW o \in cs
      PROVE  /\ o \in Parents \ Services /\ o \in Children
             /\ o[1] \in S /\ o[2] \in Created(o[1])
  <2>1. PICK s \in S : \E c \in Created(s) : o = <<s, c>>
    OBVIOUS
  <2>c. PICK c \in Created(s) : o = <<s, c>>
    BY <2>1
  <2>2. s \in Parents /\ c \in Keys(s) /\ c \in CharUuids
    BY DEF Parents, Created, Keys
  <2> QED
    BY <2>c, <2>2, Characteristics
<1>2. ASSUME NEW o \in ds
      PROVE  /\ o \in Children /\ o \notin Services /\ o[1] \in cs /\ o[2] \in Created(o[1])
  <2>1. PICK p \in cs : \E k \in Created(p) : o = <<p, k>>
    OBVIOUS
  <2>k. PICK k \in Created(p) : o = <<p, k>>
    BY <2>1
  <2>2. p \in Parents /\ k \in Keys(p)
    BY <1>1 DEF Created
  <2> QED
    BY <2>k, <2>2, Characteristics
<1>3. Below(S) = S \cup cs \cup ds
  BY DEF Below
<1> HIDE DEF cs, ds
<1> QED
  BY <1>1, <1>2, <1>3 DEF Parents

\* What a copy of the children of p can be: it has what was there, and nothing
\* else than children of p.
LEMMA CopyEffect ==
    ASSUME CreateTypes, NEW p \in Parents, NEW ks \in Copies(p)
    PROVE  ks \subseteq Keys(p)
<1>1. \A t \in Threads : Parent(t) = p => Key(t) \in Keys(p)
  BY TargetTypes
<1>2. Created(p) \subseteq Keys(p)
  BY DEF Created
<1> QED
  BY <1>1, <1>2 DEF Copies, Inserting

LEMMA WalkTypesInvariant == Spec => []WalkTypes
<1>1. Init => WalkTypes
  <2>1. NoTarget \in Parents
    BY ChildNames DEF Parents
  <2>2. <<>> \in Seq(Services)
    OBVIOUS
  <2> QED
    BY <2>1, <2>2 DEF Init, WalkTypes
<1>2. CreateInv /\ WalkTypes /\ [Next]_vars => WalkTypes'
  <2> SUFFICES ASSUME CreateTypes, WalkTypes, [Next]_vars PROVE WalkTypes'
    BY DEF CreateInv
  <2> USE DEF WalkTypes
  <2>s. services \in Seq(Services) /\ ToSet(services) \subseteq Services
    BY DEF ToSet
  <2>n. NoTarget \in Parents
    BY ChildNames DEF Parents
  <2>1. CASE UNCHANGED <<services, added, walker>>
    BY <2>1 DEF walker
  <2>2. ASSUME NEW x \in Services, AddService(x) PROVE WalkTypes'
    <3>1. services' \in Seq(Services)
      BY <2>2, <2>s, AppendSet DEF AddService
    <3> QED
      BY <2>2, <3>1 DEF AddService, walker
  <2>3. ASSUME NEW x \in Services, RemoveService(UuidOf[x]) PROVE WalkTypes'
    <3>1. services' \in Seq(Services)
      BY <2>3, <2>s, RemoveSet DEF RemoveService
    <3>2. added' \subseteq Services
      BY <2>3 DEF RemoveService
    <3> QED
      BY <2>3, <3>1, <3>2 DEF RemoveService, walker
  <2>4. CASE StartWalk
    <3>1. Below(added) \subseteq Services \cup Children
      BY BelowServices
    <3>2. pending' \subseteq Parents /\ dict' \subseteq Services \cup Children
      BY <2>4, <2>s DEF StartWalk, Parents
    <3> QED
      BY <2>4, <3>1, <3>2 DEF StartWalk, tree
  <2>5. CASE TakeReference \/ SendDict
    BY <2>5 DEF TakeReference, SendDict, tree
  <2>6. CASE CopyChildren
    <3> DEFINE new(ks) == {<<current, k>> : k \in ks}
    <3>1. PICK ks \in Copies(current) :
             /\ dict' = dict \cup new(ks)
             /\ pending' = (pending \ {current}) \cup (IF current \in Services THEN new(ks) ELSE {})
      BY <2>6 DEF CopyChildren
    <3>2. ks \subseteq Keys(current)
      BY CopyEffect
    <3>3. new(ks) \subseteq Children
      BY <3>2, ChildNames
    <3>4. current \in Services => new(ks) \subseteq Parents
      BY <3>2, Characteristics DEF Keys
    <3>5. pending' \subseteq Parents /\ dict' \subseteq Services \cup Children
      BY <3>1, <3>3, <3>4
    <3> QED
      BY <2>6, <2>n, <3>5 DEF CopyChildren, tree
  <2> QED
    BY <2>1, <2>2, <2>3, <2>4, <2>5, <2>6
       DEF Next, vars, Create, Lookup, Setup, Insert, UnregisterObject, Disconnect, tree
<1> QED
  BY <1>1, <1>2, CreateInvariant, PTL DEF Spec

\* A copy that does not tear is the whole map.
LEMMA CleanCopy ==
    ASSUME CopyChildren, ~torn'
    PROVE  ~torn /\ Copies(current) = {Created(current)}
<1>1. torn' = (torn \/ Inserting(current) # {})
  BY DEF CopyChildren
<1>2. Inserting(current) = {}
  BY <1>1
<1> QED
  BY <1>1, <1>2 DEF Copies

\* Whatever the reply names so far is in the tree.
LEMMA DictInvariant == Spec => []DictInv
<1>1. Init => DictInv
  BY DEF Init, DictInv
<1>2. CreateInv /\ WalkTypes /\ DictInv /\ [Next]_vars => DictInv'
  <2> SUFFICES ASSUME CreateTypes, NumberInv, WalkTypes, DictInv, [Next]_vars PROVE DictInv'
    BY DEF CreateInv
  <2>c. \A p \in Parents : Created(p) \subseteq Created(p)'
    BY CreatedGrows
  <2>s. ToSet(services) \subseteq Services
    BY DEF ToSet, WalkTypes
  <2>d. ASSUME ~torn PROVE \A o \in dict \ Services : o[2] \in Created(o[1])'
    <3>1. \A o \in dict \ Services : o[1] \in Parents
      BY ChildNames DEF WalkTypes
    <3> QED
      BY <2>c, <2>d, <3>1 DEF DictInv
  <2>1. CASE UNCHANGED walker
    BY <2>d, <2>1 DEF walker, DictInv
  <2>2. CASE StartWalk
    <3>1. walk' = "next" /\ dict' \ Services = {}
      BY <2>2, <2>s DEF StartWalk
    <3> QED
      BY <3>1 DEF DictInv
  <2>3. CASE TakeReference
    <3>1. UNCHANGED <<pending, dict, torn>> /\ current' \in pending
      BY <2>3 DEF TakeReference
    <3> QED
      BY <2>d, <3>1 DEF DictInv
  <2>4. CASE CopyChildren
    <3> DEFINE new == {<<current, k>> : k \in Created(current)}
    <3>0. walk' = "next" /\ UNCHANGED children
      BY <2>4 DEF CopyChildren, tree
    <3> SUFFICES ASSUME ~torn' PROVE \A o \in dict' \ Services : o[2] \in Created(o[1])'
      BY <3>0 DEF DictInv
    <3>1. ~torn /\ dict' = dict \cup new
      BY <2>4, CleanCopy DEF CopyChildren
    <3>2. \A o \in new : o[2] \in Created(o[1])'
      BY <3>0 DEF Created
    <3> QED
      BY <2>d, <3>1, <3>2
  <2>5. CASE SendDict
    BY <2>5 DEF SendDict, DictInv
  <2> QED
    BY <2>1, <2>2, <2>3, <2>4, <2>5
       DEF Next, vars, Create, Lookup, Setup, Insert, UnregisterObject, Disconnect, AddService,
           RemoveService
<1> QED
  BY <1>1, <1>2, CreateInvariant, WalkTypesInvariant, PTL DEF Spec

\* No child there was when the walk began is forgotten: it is in the reply, or
\* what it hangs on is still to come, whatever is created, added and removed
\* meanwhile, unless a copy tore.
LEMMA WalkInvariant == Spec => []WalkInv
<1>1. Init => WalkInv
  BY DEF Init, WalkInv, ToSet
<1>2. CreateInv /\ WalkTypes /\ DictInv /\ WalkInv /\ [Next]_vars => WalkInv'
  <2> SUFFICES ASSUME CreateTypes, NumberInv, WalkTypes, DictInv, WalkInv, [Next]_vars
               PROVE  WalkInv'
    BY DEF CreateInv
  <2>c. \A p \in Parents : Created(p) \subseteq Created(p)'
    BY CreatedGrows
  <2>s. services \in Seq(Services) /\ ToSet(services) \subseteq Services
    BY DEF ToSet, WalkTypes
  <2>k. \A o \in known \ Services : /\ o = <<o[1], o[2]>> /\ o[1] \in Parents
                                    /\ o[1] \notin Services => o[1][1] \in Services /\ o[1][1] \in Parents
    <3>1. \A o \in known \ Services : o = <<o[1], o[2]>> /\ o[1] \in Parents
      BY ChildNames DEF WalkTypes
    <3> QED
      BY <3>1, Characteristics DEF Parents
  <2>g. ASSUME UNCHANGED known
        PROVE  \A o \in known' \ Services :
                  /\ o[2] \in Created(o[1])'
                  /\ o[1] \notin Services => o[1][2] \in Created(o[1][1])'
    BY <2>c, <2>k, <2>g DEF WalkInv
  <2>1. CASE UNCHANGED <<services, added, walker>>
    BY <2>1, <2>g DEF walker, WalkInv, ToCome
  <2>2. ASSUME NEW x \in Services, AddService(x) PROVE WalkInv'
    <3>1. ToSet(services') = ToSet(services) \cup {x} /\ added' = added \cup {x} /\ UNCHANGED walker
      BY <2>2, <2>s, AppendSet DEF AddService
    <3>2. added' \subseteq ToSet(services)'
      BY <3>1 DEF WalkInv
    <3> QED
      BY <2>g, <3>1, <3>2 DEF walker, WalkInv, ToCome
  <2>3. ASSUME NEW x \in Services, RemoveService(UuidOf[x]) PROVE WalkInv'
    <3>1. PICK i \in DOMAIN services : services' = RemoveAt(services, i) /\ added' = added \ {services[i]}
      BY <2>3 DEF RemoveService
    <3>2. ToSet(services) \ {services[i]} \subseteq ToSet(services')
      BY <2>s, <3>1, RemoveSet
    <3>3. added' \subseteq ToSet(services)'
      BY <3>1, <3>2 DEF WalkInv
    <3>4. UNCHANGED walker
      BY <2>3 DEF RemoveService
    <3> QED
      BY <2>g, <3>3, <3>4 DEF walker, WalkInv, ToCome
  <2>4. CASE StartWalk
    <3>1. /\ walk' = "next" /\ pending' = ToSet(services) /\ dict' = ToSet(services)
          /\ known' = Below(added) /\ UNCHANGED <<children, services, added>>
      BY <2>4 DEF StartWalk, tree
    <3>2. added \subseteq ToSet(services) /\ added \in SUBSET Services
      BY DEF WalkInv, WalkTypes
    <3>3. \A p \in Parents : Created(p)' = Created(p)
      BY <3>1 DEF Created
    <3>4. \A o \in Below(added) \ Services :
             /\ o[2] \in Created(o[1]) /\ o[1] \in Parents
             /\ \/ o[1] \in added
                \/ o[1] \notin Services /\ o[1][1] \in added /\ o[1][2] \in Created(o[1][1])
      BY <3>2, BelowServices
    <3>5. known' \cap Services \subseteq dict'
      BY <3>1, <3>2, BelowServices
    <3>6. \A o \in known' \ Services : ToCome(o[1])'
      BY <3>1, <3>2, <3>4 DEF ToCome
    <3>7. \A o \in known' \ Services :
             /\ o[2] \in Created(o[1])'
             /\ o[1] \notin Services => o[1][2] \in Created(o[1][1])'
      BY <3>1, <3>2, <3>4 DEF Created
    <3> QED
      BY <3>1, <3>2, <3>5, <3>6, <3>7 DEF WalkInv
  <2>5. CASE TakeReference
    <3>1. UNCHANGED <<services, added, pending, dict, known, torn>>
      BY <2>5 DEF TakeReference, tree
    <3> QED
      BY <2>g, <3>1 DEF WalkInv, ToCome
  <2>6. CASE CopyChildren
    <3> DEFINE new == {<<current, k>> : k \in Created(current)}
    <3>0. walk = "copy" /\ UNCHANGED <<services, added, children, known>>
      BY <2>6 DEF CopyChildren, tree
    <3>2. ASSUME ~torn'
          PROVE  /\ known \cap Services \subseteq dict'
                 /\ \A o \in known \ Services : o \in dict' \/ ToCome(o[1])'
      <4>0. /\ ~torn /\ dict' = dict \cup new
            /\ pending' = (pending \ {current}) \cup (IF current \in Services THEN new ELSE {})
        BY <2>6, <3>2, CleanCopy DEF CopyChildren
      <4>1. ASSUME NEW o \in known \ Services PROVE o \in dict' \/ ToCome(o[1])'
        <5>1. o[2] \in Created(o[1]) /\ o = <<o[1], o[2]>> /\ o[1] \in Parents
          BY <2>k DEF WalkInv
        <5>2. CASE o[1] = current
          BY <4>0, <5>1, <5>2
        <5>3. CASE o[1] # current /\ o[1] \in pending
          BY <4>0, <5>3 DEF ToCome
        \* the characteristic's service is copied: the characteristic comes next
        <5>4. CASE o[1] \notin Services /\ o[1][1] = current
          <6>1. o[1] = <<o[1][1], o[1][2]>> /\ o[1][1] \in Services
            BY <5>1, <5>4, Characteristics
          <6>2. o[1][2] \in Created(current)
            BY <5>4 DEF WalkInv
          <6> QED
            BY <4>0, <5>4, <6>1, <6>2 DEF ToCome
        <5>5. CASE o[1] \notin Services /\ o[1][1] # current /\ o[1][1] \in pending
          BY <4>0, <5>5 DEF ToCome
        <5> QED
          BY <4>0, <5>2, <5>3, <5>4, <5>5 DEF WalkInv, ToCome
      <4> QED
        BY <4>0, <4>1 DEF WalkInv
    <3> QED
      BY <2>g, <3>0, <3>2 DEF WalkInv
  <2>7. CASE SendDict
    BY <2>7 DEF SendDict, tree, WalkInv
  <2> QED
    BY <2>1, <2>2, <2>3, <2>4, <2>5, <2>6, <2>7
       DEF Next, vars, Create, Lookup, Setup, Insert, UnregisterObject, Disconnect, tree
<1> QED
  BY <1>1, <1>2, CreateInvariant, WalkTypesInvariant, DictInvariant, PTL DEF Spec

\* Every GetManagedObjects reply is complete whatever is created, taken off, added
\* and removed while it is built, unless it copied a map that was being changed.
THEOREM ReplyIsComplete == Spec => []DictComplete
<1>1. WalkInv => DictComplete
  <2> SUFFICES ASSUME WalkInv, Replying, ~torn, NEW o \in known PROVE o \in dict
    BY DEF DictComplete
  <2>1. pending = {}
    BY DEF Replying
  <2> QED
    BY <2>1 DEF WalkInv, ToCome
<1> QED
  BY <1>1, WalkInvariant, PTL

\* What such a reply names is registered on D-Bus, unless the application took that
\* very object off or the connection is gone.
THEOREM ReplyIsCallable == Spec => []DictExported
<1>1. CreateInv /\ BusInv /\ WalkTypes /\ DictInv => DictExported
  <2> SUFFICES ASSUME CreateInv, ExportedInv, RegisteredInv, WalkTypes, DictInv, ~torn,
                      NEW o \in dict \ Services
               PROVE  /\ children[o[1]][o[2]] # 0
                      /\ <<o[1], children[o[1]][o[2]]>> \in exported \/ o \in off \/ ~connected
    BY DEF DictExported, BusInv
  <2>1. o[1] \in Parents /\ o = <<o[1], o[2]>> /\ o[2] \in Created(o[1])
    BY ChildNames DEF WalkTypes, DictInv
  <2>2. ASSUME connected, o \notin off PROVE <<o[1], children[o[1]][o[2]]>> \in exported
    <3>1. o \in registered
      BY <2>1, <2>2 DEF RegisteredInv
    <3>2. ~\E t \in Threads : pc[t] = "insert" /\ target[t] = o
      BY <2>1 DEF CreateInv, NumberInv, HoldsMutex, Parent, Key
    <3> QED
      BY <2>2, <3>1, <3>2 DEF RegisteredInv, EntryOf
  <2> QED
    BY <2>1, <2>2 DEF Created
<1> QED
  BY <1>1, CreateInvariant, BusInvariant, WalkTypesInvariant, DictInvariant, PTL

\* Every variable keeps its type; in particular no path number exceeds the number
\* of UUIDs, however many creations failed.
THEOREM TypeCorrect == Spec => []TypeOK
<1>1. CreateInv /\ BusInv /\ WalkTypes => TypeOK
  <2> SUFFICES ASSUME CreateTypes, NumberInv, ChildrenInv, BusTypes, ExportedInv, WalkTypes PROVE TypeOK
    BY DEF CreateInv, BusInv
  <2>1. ASSUME NEW e \in exported PROVE e[1] \in Parents /\ e[2] \in 1..Cardinality(Keys(e[1]))
    <3>1. e[1] \in Parents
      BY DEF ExportedInv
    <3>2. /\ Cardinality(Created(e[1])) \in Nat /\ Cardinality(Keys(e[1])) \in Nat
          /\ IsFiniteSet(Keys(e[1])) /\ IsFiniteSet(Created(e[1])) /\ Created(e[1]) \subseteq Keys(e[1])
      BY <3>1, CreatedFinite, ChildNames
    <3>3. CASE e[2] \in 1..Cardinality(Created(e[1]))
      <4>1. Cardinality(Created(e[1])) <= Cardinality(Keys(e[1]))
        BY <3>2, FS_Subset
      <4> QED
        BY <3>1, <3>2, <3>3, <4>1
    <3>4. CASE \E t \in Threads : pc[t] = "insert" /\ Parent(t) = e[1] /\ number[t] = e[2]
      <4>1. PICK t \in Threads : pc[t] = "insert" /\ Parent(t) = e[1] /\ number[t] = e[2]
        BY <3>4
      <4>2. Key(t) \notin Created(e[1]) /\ e[2] = Cardinality(Created(e[1])) + 1
        BY <4>1 DEF NumberInv, HoldsMutex
      <4>3. Key(t) \in Keys(e[1])
        BY <4>1, TargetTypes
      <4>4. Created(e[1]) \cup {Key(t)} \in SUBSET Keys(e[1])
        BY <3>2, <4>3
      <4>5. Cardinality(Created(e[1]) \cup {Key(t)}) = Cardinality(Created(e[1])) + 1
        BY <3>2, <4>2, FS_AddElement
      <4>6. Cardinality(Created(e[1]) \cup {Key(t)}) <= Cardinality(Keys(e[1]))
        BY <3>2, <4>4, FS_Subset
      <4> QED
        BY <3>1, <3>2, <4>2, <4>5, <4>6
    <3> QED
      BY <3>3, <3>4 DEF ExportedInv
  <2>2. ASSUME NEW p \in Parents PROVE children[p] \in [Keys(p) -> 0..Cardinality(Keys(p))]
    <3>1. children[p] \in [Keys(p) -> Nat] /\ Cardinality(Keys(p)) \in Nat
      BY ChildNames DEF CreateTypes
    <3>2. ASSUME NEW k \in Keys(p) PROVE children[p][k] \in 0..Cardinality(Keys(p))
      <4>1. CASE children[p][k] = 0
        BY <3>1, <4>1
      <4>2. CASE children[p][k] # 0
        <5>1. children[p][k] \in 1..Cardinality(Created(p))
          BY <4>2 DEF ChildrenInv, Created
        <5>2. /\ Created(p) \subseteq Keys(p) /\ Cardinality(Created(p)) \in Nat
              /\ Cardinality(Created(p)) <= Cardinality(Keys(p))
          BY CreatedFinite, ChildNames, FS_Subset
        <5> QED
          BY <3>1, <5>1, <5>2
      <4> QED
        BY <4>1, <4>2
    <3> QED
      BY <3>1, <3>2
  <2> QED
    BY <2>1, <2>2 DEF TypeOK, CreateTypes, WalkTypes, BusTypes
<1> QED
  BY <1>1, CreateInvariant, BusInvariant, WalkTypesInvariant, PTL
=============================================================================
