---------------------------- MODULE MCDBusExport ----------------------------
(* Two objects that share a path, as when an application object is built anew
   at the path of the old one, and a third with a path of its own. *)
EXTENDS DBusExport, TLC

CONSTANTS o1, o2, o3, p, q

MCPathOf == [o \in Objects |-> IF o = o3 THEN q ELSE p]
=============================================================================
