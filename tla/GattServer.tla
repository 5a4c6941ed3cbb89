------------------------------ MODULE GattServer ------------------------------
(***************************************************************************)
(* A GattApplication whose list of services changes while it registers:    *)
(* BlueZRegistration together with addService, removeService and the list  *)
(* that GetManagedObjects answers with.  What is below a service, and the  *)
(* walk over it, is GattTree's.                                            *)
(* Code: src/GattApplication.cpp (addService, removeService,               *)
(* registerWithBlueZ, createManagedObjectsDict).                           *)
(***************************************************************************)
EXTENDS BlueZRegistration

CONSTANT Services   \* GattService objects, each with a UUID of its own

VARIABLES
    services,       \* GattApplication::services
    answer,         \* the services in the latest answer to GetManagedObjects
    listed          \* history: the services there were when the latest registration
                    \* was sent, and still are

treeVars == <<services, answer, listed>>
serverVars == <<vars, treeVars>>

\* Other threads change the list, also while a registration waits.
AddService(s) ==
    /\ services' = services \cup {s}
    /\ UNCHANGED <<vars, answer, listed>>

RemoveService(s) ==
    /\ services' = services \ {s}
    /\ listed' = listed \ {s}
    /\ UNCHANGED <<vars, answer>>

Register ==
    /\ RegisterWithBlueZ
    /\ listed' = services
    /\ UNCHANGED <<services, answer>>

\* Faulty variant: the dictionary is built once and kept.
ServicesListOnce == IF answer = {} THEN services ELSE answer

\* createManagedObjectsDict copies the list under servicesMutex, at each call.
ServicesList == services

GetManagedObjects ==
    /\ Dispatch
    /\ answer' = IF query' = "answered" THEN ServicesList ELSE answer
    /\ UNCHANGED <<services, listed>>

OtherSteps ==
    \/ SetupRefused \/ CallNotSent \/ UnregisterFromBlueZ \/ UnregisterObject
    \/ ReplyArrives \/ BlueZTakesRegister \/ BlueZTakesUnregister \/ BlueZConcludes
    \/ CallTimesOut \/ QueryTimesOut \/ BlueZRestarts

ServerInit ==
    /\ Init
    /\ services = {} /\ answer = {} /\ listed = {}

ServerNext ==
    \/ \E s \in Services : AddService(s) \/ RemoveService(s)
    \/ Register \/ GetManagedObjects
    \/ OtherSteps /\ UNCHANGED treeVars

ServerSpec == ServerInit /\ [][ServerNext]_serverVars

-----------------------------------------------------------------------------
\* After a registration that reports success BlueZ has read every service that was
\* there when it was asked and still is, also when answers to earlier calls were
\* on their way: no late answer passes for the one to this call.  (A service
\* added later is known only if BlueZ had not read the list yet: nothing
\* announces it.)
RegisteredAsListed ==
    appPc = "idle" /\ outcome = "ok" /\ registered => listed \subseteq answer
=============================================================================
