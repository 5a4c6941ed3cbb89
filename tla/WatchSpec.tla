------------------------------ MODULE WatchSpec ------------------------------
(***************************************************************************)
(* What the signal watches of a connection promise those who add them,     *)
(* without threads, mutex or subscriptions: a signal is heard by every     *)
(* watch there is, once each, and none comes or goes meanwhile, until the  *)
(* connection is given up.                                                 *)
(* DBusConnection implements it.                                           *)
(* Code: src/DBusConnection.cpp (addSignalWatch, removeSignalWatch,        *)
(* handleSignal, disconnect).                                              *)
(***************************************************************************)
EXTENDS Integers

CONSTANT Watches    \* the ids of watches, numbers from 1

VARIABLES
    watching,       \* the watches there are
    removed,        \* the watches removeSignalWatch removed
    walking,        \* a signal is being heard
    due,            \* the watches that have yet to hear it
    hearing         \* the watch whose handler runs, 0 for none

spec_vars == <<watching, removed, walking, due, hearing>>

Init ==
    /\ watching = {} /\ removed = {}
    /\ walking = FALSE /\ due = {} /\ hearing = 0

\* An id is never given again once it was removed.
Add(w) ==
    /\ ~walking
    /\ w \notin removed
    /\ watching' = watching \cup {w}
    /\ UNCHANGED <<removed, walking, due, hearing>>

Remove(w) ==
    /\ ~walking
    /\ w \in watching
    /\ watching' = watching \ {w} /\ removed' = removed \cup {w}
    /\ UNCHANGED <<walking, due, hearing>>

\* disconnect, at any time: nobody hears any more of the signal either
Clear ==
    /\ watching' = {} /\ due' = {}
    /\ UNCHANGED <<removed, walking, hearing>>

Signal ==
    /\ ~walking
    /\ walking' = TRUE /\ due' = watching
    /\ UNCHANGED <<watching, removed, hearing>>

\* The handlers run one after the other.
Hear(w) ==
    /\ walking /\ w \in due
    /\ hearing' = w /\ due' = due \ {w}
    /\ UNCHANGED <<watching, removed, walking>>

Over ==
    /\ walking /\ due = {}
    /\ walking' = FALSE /\ hearing' = 0
    /\ UNCHANGED <<watching, removed, due>>

Next ==
    \/ Clear \/ Signal \/ Over
    \/ \E w \in Watches : Add(w) \/ Remove(w) \/ Hear(w)

Spec == Init /\ [][Next]_spec_vars
=============================================================================
