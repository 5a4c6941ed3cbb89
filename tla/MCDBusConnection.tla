-------------------------- MODULE MCDBusConnection --------------------------
(* Objects that share a path, as when an application object is built anew at
   the path of the old one, on a connection with signal watches. *)
EXTENDS DBusConnection, TLC

CONSTANTS o1, o2, p, app, app2, dispatcher

MCPathOf == [o \in Objects |-> p]

\* The objects are alike, and so are the threads of the application.
Symmetries == Permutations(Objects) \cup Permutations(Callers)
=============================================================================
