# TLA+ models of the BluetoothLE GATT server

The repository is a C++ BLE peripheral. It exports a tree of GATT objects on
D-Bus, registers them with bluetoothd (BlueZ), and drives the controller through
a raw HCI socket. The modules here model the parts of it in which threads,
callbacks, the bus and the kernel meet; TLC checks them on small instances, and
TLAPS proves the properties that matter most for every instance.

Paths below are relative to `src/`, the repository's root: `src/X.cpp` is
`src/src/X.cpp` in PROJECT.json.

## 1. Inventory

| Component | State | Operations |
|---|---|---|
| `GattCharacteristic` | `value`, `notifying`, three callbacks, the descriptors; a mutex for each (`valueMutex`, `notifyMutex`, `callbackMutex`, `descriptorsMutex`) | `setValue`, `getValue`, `startNotify`, `stopNotify`, `isNotifying`, `set*Callback`, `createDescriptor`; D-Bus: ReadValue, WriteValue, StartNotify, StopNotify |
| `GattDescriptor` | `value`, two callbacks, two mutexes | `setValue` (a CCCD switches the characteristic's notifications), `getValue`; D-Bus: ReadValue, WriteValue |
| `GattService` | characteristics by UUID, one mutex | `createCharacteristic`, `getCharacteristic(s)` |
| `GattApplication` | list of services, `registered` | `addService`, `removeService`, `registerWithBlueZ`, `unregisterFromBlueZ`; D-Bus: GetManagedObjects |
| `DBusObject` | `registered`, interfaces, method handlers, one mutex | `addInterface`, `addMethod`, `registerObject`, `unregisterObject`, signals, destructor |
| `DBusConnection` | the GDBus connection, `registeredObjects`, `signalHandlers` | `connect`, `disconnect`, `callMethod`, `registerObject`, `unregisterObject`, signals, signal watches |
| `HciAdapter`, `HciSocket` | file descriptor, one run flag each, the event thread | `initialize`, `stop`, setters, event loop; `connect`, `disconnect`, `stop`, `read`, `write` |
| `Mgmt` | none | requests sent through `HciAdapter` |
| `Utils`, `DBusXml`, `DBusMessage`, `GattTypes`, `Logger` | none (logger callbacks) | conversions and text |
| `Server`, `main`, `DBusMethod`, `GattProperty` | | an earlier design: written against an earlier API of these classes; the build file lists sources that are not in the repository |

Interactions. Application threads call the public API. GDBus runs the `handle*`
methods in the thread that dispatches the connection. Characteristics and
descriptors call each other (a CCCD write calls `startNotify` on its
characteristic), user callbacks run inside their mutexes, and property changes
leave as signals while mutexes are held, or are dropped without anyone noticing.
`GattApplication::registerWithBlueZ`
blocks in a call to bluetoothd, which calls GetManagedObjects back. `HciAdapter`
shares its socket with an event thread.

What is hard here, and what it takes to be correct:

- *Lock nesting*: four mutexes of two objects, taken in several orders, with
  callbacks and signals inside. Every path releases what it takes; nobody waits
  in a circle; clients are told the state in the order it changed, and a dropped
  signal leaves them wrong no longer than to the next one.
- *Conversions*: bytes from D-Bus go through a C string, lengths into 8 bits.
- *Three records of one fact*: the object's flag, the connection's table and what
  GDBus exports; objects share a path, connections end.
- *Blocking call with a callback, timeouts and late replies*: the two processes
  must not end up with different opinions.
- *A thread to stop*: join, close and the two run flags.
- *A tree that is walked while it grows*.
- *A map of handlers that is walked while threads change it*, on a connection
  that comes and goes: no handler runs after its removal, none is left over.

PROJECT.json lists every hazard with its line and the properties that cover it.

## 2. Modules

| Module | Models | Run by |
|---|---|---|
| `GattNotify` | one characteristic and one descriptor under any number of threads | `MCGattNotify`, proofs in `GattNotifyProofs` and `GattDescriptorProofs` |
| `NotifySpec` | what clients are promised of a characteristic; `GattNotify` implements it | `MCGattNotify`, proof in `NotifySpecProofs` |
| `DBusExport` | `DBusObject` and the registration half of `DBusConnection` | `MCDBusExport`, proofs in `DBusExportProofs` |
| `DBusConnection` | extends `DBusExport` with the signal watches: the whole connection | `MCDBusConnection`, proofs in `DBusConnectionProofs` |
| `WatchSpec` | what those who add and remove signal watches are promised; `DBusConnection` implements it | `MCDBusConnection`, proof in `DBusConnectionProofs` |
| `HciAdapter` | `HciAdapter`, `HciSocket` and `Mgmt`'s requests | itself, proofs in `HciAdapterProofs` |
| `BlueZRegistration` | `GattApplication`'s registration and bluetoothd | itself, proofs in `BlueZRegistrationProofs` |
| `RegistrationSpec` | what the caller of the registration is promised; `BlueZRegistration` implements it | `GattServer`'s run, proof in `BlueZRegistrationProofs` |
| `GattServer` | extends `BlueZRegistration` with the list of services that BlueZ reads | itself, proofs in `BlueZRegistrationProofs` |
| `GattTree` | services, characteristics, descriptors and GetManagedObjects | `MCGattTree`, proofs in `GattTreeProofs` |

### GattNotify

A step is what one thread does between two points where another thread can be
seen: taking a mutex, running a callback, sending a signal. `owner` holds the
five mutexes; `pc`, `op` and `arg` hold each thread's place, entry point and
argument. A section that takes a mutex, assigns and releases it with nothing
visible in between is one step with the guard `Free`.

- `SetLock` .. `SetEmit` are `setValue`; `StartLock` .. `StopEmit` are `startNotify`
  and `stopNotify`; `Read*` and `Write*` are `handleReadValue` and
  `handleWriteValue` of both classes, whose code is the same on their own
  mutexes (`ValueLock`, `CallbackLock`); `StoreLock` .. `PublishEmit` are
  the descriptor's `setValue`, which enters `startNotify` or `stopNotify` of the
  characteristic for a CCCD and returns from it through `AfterNotify`.
- User callbacks may do anything but call back into the objects. The write
  callback accepts or refuses; what the read callback returns is not kept.
- `InstallCallback` is every callback setter. `setReadCallback` with an empty
  `std::function` is an operation of its own (`clearReadCallback`): without a read
  callback ReadValue nests the mutexes the other way.
- `CString` is `Utils::stringFromGVariantByteArray`.
- `PublishRead` is the read of the descriptor's value without its mutex: beside a
  thread that is assigning, it yields any of the values a torn read could show.
- `busValue` and `busNotifying` are what the last PropertiesChanged of each property
  that went out said. `EmitValue` and `EmitNotifying` may always drop the signal: the
  connection is gone (`src/DBusConnection.cpp:117`, `256`), emitting fails (`133`), or GLib
  refuses the empty list of invalidated properties, which lines 266-274 build with an
  indefinite type. The callers ignore the result, so the threads go on as before. What GLib
  really does with that list is external; if it always refuses it, every signal is dropped, which
  is one of the behaviours of the model.
- History: `lost` are the properties whose latest signal was dropped; `lastStore` and
  `cccdRequest` say who stored last; `contest` says what came between the latest store of the
  descriptor and its effect: another write that overlaps it, or a switch that is not its own.

Left out: branches for a GVariant that cannot be created, for absent parameters
and for null map entries, none of which the callers can produce. The handlers are
taken as called with the byte array they parse. (The introspection data declare
methods without arguments, `src/DBusXml.cpp:27`, so GDBus itself may refuse such a
call, which is outside the modelled code. Reference counts of GVariants are not
modelled either.)

### NotifySpec

The abstract side: a flag and what clients were told of it, a value and what they
were shown of it, which of the two is still to be signalled (`owed`) and of which the
latest signal was dropped (`missed`). Each `Switch` is followed by its `TellFlag`, which
tells or drops, before the next; `StoreLocal` is followed by its own `Publish` before any other
store; `StoreRemote` tells nobody, as in the code. `Client` in `GattNotify` maps
the threads' state to it: a switch is owed while a thread is about to signal it, a store
while `valueMutex` is held. Most steps of the threads map to stutters; the ones that do not
are the critical points.
The specification is safety only: that an owed signal is sent in the end needs the
locks to be granted fairly, which `std::mutex` does not promise.

### DBusExport

Each operation is a step (creation and destruction of objects by several threads
at once is not modelled; `registeredObjects` has no mutex). `exports` is what
GDBus exports: a record per interface with its registration id, an id being the
number of the `registerObject` call (which stands for the `HandlerData` it made)
and the interface. `deleted` are the `HandlerData` freed. `RegisterObject` is
`DBusConnection::registerObject` behind the checks of `DBusObject::registerObject`;
`Unregister` is shared by `unregisterObject` and the destructor. `BusLost` closes
the connection; `Connect` then does nothing until `Disconnect`, since
`g_bus_get_sync` returns the closed connection as long as it is referenced.

### DBusConnection

`addSignalWatch` and `removeSignalWatch` ask `isConnected`, then take the mutex;
these are two steps, so a `disconnect` can come in between (`Subscribe` then refuses,
or subscribes on the next connection). `Subscribe` and `Insert` are separate though
one mutex covers them: GDBus may dispatch a signal of a subscription the map does
not have yet. `DispatchSignal` is GDBus; `HandleSignal` takes the mutex and
`NextHandler` goes on to the next id of the map as it is at that moment, which is what
an iterator of a `std::map` would meet; the handlers of all watches run for each
signal, whatever it matched, as in the code. `DropWatches` is the part of
`disconnect` that `DBusExport` leaves out.

`disconnect` changes the map without the mutex, and may be called at any moment. While nobody
holds the mutex that is one step like any other. Beside a thread that holds it, it is a data
race on a `std::map`: `raced` becomes TRUE, and since nothing is defined from then on, it
is the last step of the behaviour. Whether the next `connect` finds the map clean, and what
a thread between its check and its lock then does, is in the model either way.

### WatchSpec

The abstract side of the watches: a set, and a signal that each watch in it hears once
before the next change of the set, until a `disconnect` ends it. No threads, mutex or subscriptions. `Listeners`
maps the connection to it: a signal is being heard from the moment `handleSignal` has
the mutex, and what is left of the map past the iterator is due. `Insert`, `RemoveWatch`,
`DropWatches`, `HandleSignal` and `NextHandler` are its steps; the others stutter.

### HciAdapter

The owner's `initialize` and `stop` are split where the event thread can
interleave; `OpenSocket` can fail at any of its system calls. The event thread goes
through `CheckLoop`, `Select`, `Receive`, `HandleEvent`. `Select` looks at
`HciSocket::isRunning` only, as the code does. The kernel's queue and the device
that disappears are external; the queue holds events that are whole and events that are shorter than
a header, which `Receive` drops as `src/HciAdapter.cpp:111` does. `ParameterSizes` lists what each command lays out
behind the header, `Plen` what its 8-bit length makes of it.

### BlueZRegistration

Requests and replies are queues with serials. `callMethod` blocks until its reply
or a timeout, late replies are dropped, BlueZ still carries out a call that timed
out. A call that finds the connection gone is not sent (`CallNotSent`). `Dispatch` handles
GetManagedObjects, only when some thread dispatches the connection (`HasMainLoop`). It ends in an
error reply (`src/GattApplication.cpp:214`, `228`), in the dictionary, or in nothing: line 226
hands `g_dbus_method_invocation_return_value` the bare `a{oa{sa{sv}}}` where it wants a tuple, and
`src/DBusXml.cpp:27` declares no out argument. What GDBus does then is external, so with
`SendsBareDict` = TRUE the model allows both: more behaviours than either GDBus would
have, which is safe for every property of `register_faults`, all of them safety. (With
FALSE no registration ever succeeds: `NoLoopNeverRegisters`.) A query that stays unanswered ends when
bluetoothd gives up on it. bluetoothd is external: it refuses a second
registration, asks for the objects before it answers, and may restart.
A call that finds its work done (`registered` set or not) returns at once and
changes nothing. `era` is history: how often bluetoothd had restarted when the latest
call was sent.

### RegistrationSpec

The abstract side, without messages: a call stays open until bluetoothd grants or refuses
it, calls are granted in their order, the caller is told the verdict of the call it waits
for or nothing, and only a granted call changes `registered`. A restart forgets the
application and decides every open call against it. `Caller` maps the queues to it:
the open calls are those on their way and the one BlueZ serves, a verdict is the reply to
the call that waits. The call that times out after its verdict is on the way is the
interesting one: it is granted, and its caller never learns of it.

### GattServer

`AddService` and `RemoveService` change the list at any moment, also while a
registration waits: only `servicesMutex` guards it. `Register` is
`registerWithBlueZ`, `GetManagedObjects` is `Dispatch` with the answer that
`createManagedObjectsDict` copies from the list. `answer` is what the latest reading
gave; `listed` is history. Here a service stands for all below it; `GattTree`
has the walk over that.

### GattTree

`createCharacteristic` and `createDescriptor` are the same code over different
maps, so one set of actions stands for both, the parent being a service or a
characteristic. The list of services is a sequence; `addService` refuses a UUID that is in it, and
`removeService` erases the first service with the UUID it is given.
The mutex is held from `Lookup` to `Insert`; `RegisterPath` is the registration at the end of
`setupDBusInterfaces`, which needs a connection and a free path. Services may have been given one
path, as the tests do with `/service1`; `SamePath` says when children collide, and the creation
of the second then fails. `UnregisterObject` is `DBusObject::unregisterObject` of a child, which
`test/GattIntegrationTest.cpp:196` calls: by flag and path, the child staying in its map.
`Disconnect` is the end of the connection, at any moment; after it nothing can be registered, and
what a reconnection does to the flags is `DBusExport`'s subject. Registering such a child
again is left out.
The walk copies each map through a reference that outlived
its lock (`TakeReference`, `CopyChildren`), so beside a thread at `Insert` the copy is
any part of the map, and `torn` records it. `known` and `off` are history too. Characteristics and
descriptors are never removed from their maps; `removeService` only drops the list's reference.

## 3. Runs

| Run | Instance | Shows |
|---|---|---|
| `notify_all` | 3 threads, read callbacks set, one of them cleared and set again, every kind of step, CCCD written remotely, signals dropped | `TypeOK`, `LockDiscipline`, `NoDeadlock`, `NotifyingPublished`, `LocalValuePublished`, `ImplementsNotifySpec` |
| `notify_cccd` | 3 threads, two write the CCCD locally, one also sets the value, a client stops notifications beside them, signals dropped | `CccdControlsNotify`, `DescValuePublished`, `CallsKeepReturning` |
| `dbus_reconnects` | 2 objects at one path, 1 interface, 2 connections, 3 registrations; 2 threads with 2 watches, a dispatcher | `TypeOK`, `NoDanglingExport`, `TableIsLive`, `RegisteredIffExported`, `OnlyOwnerRemoves`; `ConnTypeOK`, `WatchesAreLive`, `RemovedNeverRuns`, `WalkUndisturbed`, `ImplementsWatchSpec` |
| `hci_lifecycle` | all commands but `Mgmt::setName`, queue of 2, whole and short events | `TypeOK`, `NoUseAfterClose`, `StoppedMeansNoThread`, `StopAfterSocketStop`, `EventsHandled` |
| `register_faults` | 4 calls, 2 timeouts, 1 restart, 2 services, with a dispatcher | `TypeOK`, `OkMeansAgreed`, `AgreedWhenUndisturbed`, `RegisteredAsListed`, `ImplementsRegistrationSpec` |
| `tree_live` | 2 threads, 3 services of which two share a path and two a UUID, 2 characteristic UUIDs, 1 descriptor UUID, 2 creations | `TypeOK`, `NextPathFree`, `DictComplete`, `DictExported`, `NeverReplaced` |

Six runs show where the code does not do what its texts say (PROJECT.json quotes
them):

| Run | Property | The behaviour TLC finds |
|---|---|---|
| `notify_deadlock` | `NoDeadlock` | no read callback: `setValue` holds `valueMutex` and waits for `callbackMutex`, ReadValue the other way round |
| `notify_cccd_remote` | `CccdControlsNotify` | a client's `01 00` arrives as `01`, is no CCCD value, and switches nothing |
| `dbus_two_interfaces` | `NoDanglingExport` | unregistering removes the last interface and frees the data of all |
| `hci_stop` | `StopTerminates` | `stop` joins a thread that waits for a flag nobody clears |
| `hci_set_name` | `CommandsWhole` | 260 bytes of parameters in an 8-bit length: 8 bytes of 264 are written |
| `register_no_loop` | `RegisterSucceeds` | nothing dispatches the connection while `registerWithBlueZ` waits for bluetoothd, which waits for an answer |

Bounds, and why they do. Three threads let two application threads race each
other and the dispatcher; every circle of the lock graph needs at most three, and
the proofs cover any number. Byte strings are at most two long: values with and
without zero bytes, CCCD values off, notify, indicate, and a short one. Two
objects at one path is what it takes to collide; two watches make a walk with a
first and a later handler, and two threads let one change the map beside the
other; the two objects and the two threads are interchangeable in every
definition, so TLC may treat them as symmetric; two connections are a first one and a
reconnection, after a loss or after a `disconnect`. `MaxCalls` = 4 is register, unregister and
a retry of each.
Two creations are two concurrent ones in one map or in two, a failure and its retry, a second
service at a taken path, or a characteristic and its descriptor; the proofs cover more. `CHECK_DEADLOCK` is off where the
bounds end the run (`DBusConnection`, `DBusExport`, `BlueZRegistration`, `GattServer`); in `GattNotify`, `HciAdapter`
and `GattTree` TLC's own deadlock check is on.

Fairness. `GattNotify` assumes weak fairness of each thread inside an operation:
the scheduler runs it; when a call is made, and who gets a mutex next, is left
open, so `CallsKeepReturning` asks for the progress of some call, which is all
`std::mutex` gives. `HciAdapter` assumes that both threads run. In
`BlueZRegistration` the bus delivers and bluetoothd answers, each step weakly fair, while
timeouts and restarts are never fair; only `register_no_loop` uses it, `register_faults` checks
safety alone. `EventsHandled` needs the adapter to be
running and its socket not stopped, as nothing sets the socket's flag again.

Conditions some properties need, each for a reason in the code:

- `NotifyingPublished`, `LocalValuePublished` and `DescValuePublished` speak of a property whose
  latest signal was not dropped. After a dropped one clients are wrong until the next that goes
  out: the code neither looks at the result nor sends again.
- `CccdControlsNotify` and `DescValuePublished` say nothing of a write that overlapped another
  (`contest`): the store and the switch (or the publication) of one can enclose those of the
  other, as `src/GattDescriptor.cpp:23` releases the mutex in between, and line 50 can read a
  value that is being assigned. They do say that this lasts only until the next write that overlaps none.
  `CccdControlsNotify` also ends with a direct call of `startNotify` or `stopNotify`, which
  leaves the CCCD as it is.
- `RegisteredIffExported` and `OnlyOwnerRemoves` speak of the first connection:
  nothing resets `DBusObject::registered` when a connection ends, so afterwards
  `registerObject` claims success without exporting anything.
- `DictComplete` and `DictExported` except a reply for which a map was copied in the middle of an
  insertion (`torn`): that is undefined. `DictExported` also excepts the children the
  application itself took off, and a connection that is gone.
- `NextPathFree` needs a service with a path of its own: below a shared one the second child is
  refused, and the creation returns nothing.
- `WalkUndisturbed` excepts the `disconnect` that races with the walk.
- `CallsKeepReturning` runs with a read callback that nobody clears on the
  characteristic; without one the threads can wait for each other
  (`notify_deadlock`).
- `OkMeansAgreed` excludes a restart of bluetoothd since the call was sent, which
  nothing watches for; earlier restarts do it no harm. `RegisteredAsListed` needs no such
  condition: it is about what bluetoothd read. It speaks of the services listed when the
  call is sent: one added later is known only if the list had not been read yet.

Every property of a passing run comes with a mutant: a faulty variant of one
definition, kept beside it in its module and marked as such, under which TLC
finds the property violated.

## 4. Proofs

Each theorem holds for every value of the constants that the named assumptions of
its module allow: any set of threads, objects, commands, bytes, UUIDs, any bounds.
Where a theorem needs more, it says so as its own hypothesis. Every type invariant
is inductive, alone or (in `DBusConnection`, `GattTree`) with the first invariants
named below; the other proofs use it.

- `GattNotifyProofs`. `LocksAreReleased`: `LockDiscipline` is inductive over
  `TypeOK`; the lemma `OwnerStep` reduces a step to the mutexes its own thread takes
  or releases, and `HoldsFrame` says that other threads' holdings do not change.
  `ClientsKnowNotifying`: `NotifyInv` adds to `NotifyingPublished` where flag and
  last signal stand at each point of the two operations, whether or not signals before were dropped.
  `ClientsSeeLocalStores`: inductive as it stands.
  `NoCircularWait`, assuming a read callback on both objects from the start and no
  thread that clears one: `ReadsUseCallback` is invariant, so no thread takes
  a value mutex inside a callback mutex, and the mutexes that remain nest
  in one order: the thread of a set that holds the innermost one is not blocked on
  the set. Without the assumption the property is false (`notify_deadlock`).
- `NotifySpecProofs`. `ClientsSeeNotifySpec`, the refinement: initial states map to
  initial states, and each action of each thread maps to the step of `NotifySpec`
  named beside it, or leaves `clientView`, all the mapping sees, alone. It rests
  on `TypeCorrect`, `LocksAreReleased`, `NotifyInvariant` (so that `Switch` finds nothing owed)
  and `SignalInv` (signals go out for a registered object only).
- `GattDescriptorProofs`. `OpInv` ties a thread's place to the operation it is in.
  `Alone`: while `contest` is not "overlap" at most one thread is anywhere in a write of the
  descriptor, so the read without the mutex is whole. `DescriptorPublished`, with no hypothesis:
  `DescInv` says that such a write owes clients the value between its store and its signal, and
  that otherwise they saw it unless the signal was dropped. `CccdInControl`, for any number of
  application threads that write the CCCD with no reserved bits, beside any calls of
  `startNotify` and `stopNotify`: `CccdInv` says that the writer stands before the switch it
  asked for, or the flag is what was asked, until something contests it.
  `RemoteCccdSwitchesNothing` generalises what
  `notify_cccd_remote` shows: `CString` leaves at most one byte of a value with a zero in its
  first two (`CStringOfCurtailed`), one byte is no CCCD value, and so a write over D-Bus
  never reaches the switch (`RemoteInv`), for any number of threads. Its hypothesis on
  the bytes holds of every CCCD value Bluetooth defines; `03 03` is the kind it excludes.
- `DBusExportProofs`. `NoUseAfterFree`, for objects with one
  interface: `ExportInv` adds that each call's ids and data are its own, that an
  export's owner is alive and registered, and that its path's entry is its id.
  `TableNeverStale`: `TableInv` relates entries to exports the same way. With two
  interfaces the first is false (`dbus_two_interfaces`). `FlagTellsTruth` and
  `NobodyElseRemoves`: on the first connection a registered object owns an export
  and no two exports share an id (`FlagInv`), so what `unregisterObject` finds by
  the path (`TakesItsOwn`) is the object's own.
- `DBusConnectionProofs`. `ExportsUndisturbed`: the connection with its watches
  implements `DBusExport`, so the theorems above hold of it. `WatchInv` says who
  holds the mutex, that the map lacks at most the id its holder is inserting, that
  the running handler is in the map, and that removed ids never come back (`Undisturbed`), until a
  `disconnect` races with the holder, after which there is no step. `WatchesStayLive` and
  `NoRunAfterRemoval` follow for a `disconnect` at any moment. `WalkSeesAll` says that this
  race is the only step that can change the map under a walk: every other change keeps to the
  mutex. `WatchesImplement`, the refinement to `WatchSpec`, rests on the same invariant:
  the mutex excludes every other change of the map from a walk, an id is new when it is
  inserted, and what is past the iterator loses exactly its least id at each handler.
- `HciAdapterProofs`. `ThreadInv` says where the owner is while the event thread
  exists; `DescriptorStaysOpen` and `StopEndsThread` follow. `OnlySetNameCut`
  says, for all commands, that a command is written whole if and only if it is not
  `Mgmt::setName`, so `hci_set_name` shows the only one cut. `OnlyControllerEndsStop` is the safety
  half of what `hci_stop` shows: while `stop` waits for a thread that waits for data, every
  step is the controller's.
- `BlueZRegistrationProofs`. `NoFaultNoDisagreement`: without timeouts and restarts
  there is one message at a time, and `UndisturbedInv` lists where it can be.
  `LateRepliesAgree` holds for any number of timeouts and restarts: `LateInv` says that requests
  reach bluetoothd in the order of their serials, so that an answer to
  the latest call means nothing older is on its way; a restart answers the open calls with
  refusals and takes back no reply that is under way (`RestartAnswers`).
  `RegistrationImplements`, the refinement to `RegistrationSpec`, adds `CallInv` (every
  call under way asks for what `registered` lacks, so a grant always flips the flag of a caller that
  waits) and `OrderInv` (open calls are in the order of their serials, so what BlueZ decides is the
  oldest, and the latest call is open or answered in one way); each action then maps to a step of
  `RegistrationSpec` or to a stutter.
  `NoLoopNeverRegisters`, for a process without a thread that dispatches, or a GDBus that sends
  no reply that is not a tuple: `NoLoopInv` says that the list of objects never reaches
  bluetoothd, so no call is granted; it is the safety half of `register_no_loop`.
  `RegistrationUndisturbed`: `GattServer` implements `BlueZRegistration`, so all of these hold
  of it. `SuccessListsServices`: `ListInv` says that from the reading for the
  latest registration on, the answer covers what was listed when it was sent; it
  rests on `LateInv`, which keeps earlier readings from being taken for it.
- `GattTreeProofs`, for any creations beside the walk, shared service paths, children taken off
  and the end of the connection. `CreateInv`: who holds the mutex of a parent found its key
  missing and its number the next one (`NumberInv`), and the numbers of children differ and do not
  exceed their count (`ChildrenInv`). `BusInv`: what is at a path is a child, or one about to be
  inserted, and no two share it (`ExportedInv`); a registered child that is not at its path was
  taken off, while the connection lasts (`RegisteredInv`). `ChildrenStay` and `PathIsFree`
  follow. `DictInv`: the reply names only what is in the tree. `WalkInv`: what is missing in it
  is still to come, unless a copy tore; a copy that does not tear is the whole map
  (`CleanCopy`). `ReplyIsComplete` and `ReplyIsCallable` follow.

Model-checked only: the liveness properties `CallsKeepReturning`,
`StopAfterSocketStop` and `EventsHandled` (fairness and ENABLED are out of the prover's reach). Every
invariant, action property and refinement of the passing runs is proved, under the hypotheses above.

## 5. Not modelled

- Callbacks and signal handlers that re-enter the API; a `std::mutex` locked twice
  by one thread is undefined, and a callback that calls `setValue`, or a handler that
  calls `removeSignalWatch`, does that.
- `registeredObjects` changed by two threads at once: it has no mutex, so anything can happen;
  `DBusExport` takes each operation as one step. Of `disconnect` beside a thread that holds the
  mutex of the watches only the race itself is modelled, not what comes of it.
- What GDBus and GLib make of the reply that is no tuple and of the builder of indefinite
  type: the models allow both outcomes.
- In `GattTree`: registering a child again that was taken off, and what follows a
  reconnection; `DBusExport` has both for single objects.
- `handleGetProperty`, `handleSetProperty`, `DBusObject::getProperty` and
  `setProperty`: lookups in tables that never change once an object is registered. No
  GATT property has a setter; the getter of "Notifying" is `isNotifying`.
- A bus or a bluetoothd that comes back and is asked nothing: the code has no step
  that notices (`src/DBusConnection.cpp:27`, `src/GattApplication.cpp:120`).
- What BlueZ makes of changes of the tree after the registration: nothing
  announces them (`src/GattApplication.cpp:76`).
- Text: XML, UUIDs, messages, logging; the conversions of `Utils` but the one that
  cuts bytes. Memory management of GLib values.
- `Server`, `main`, `DBusMethod`, `GattProperty`: see the inventory.

## 6. Plan

Done: the five components' modules with their runs, in the order of what a failure
would cost; the abstract specifications `NotifySpec`, `WatchSpec` and `RegistrationSpec` with
their refinements; `DBusConnection` with the signal watches; `GattServer` with the services
BlueZ reads; theorems for every safety property of the passing runs, and for the safety half of
the findings about remote CCCD writes, `stop`, `setName` and a process without a main loop.

Left:

1. `GattServer` with `GattTree`'s walk in place of its one-step answer.
2. `GattNotify` with callbacks that re-enter the API, once the code says which
   calls a callback may make.
3. An abstract specification of the object tree (children that only come, replies that list what
   was there), implemented by `GattTree` up to a torn copy.
