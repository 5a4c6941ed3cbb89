----------------------------- MODULE MCGattTree -----------------------------
(* Three services, two of them with one path, and two threads that build them. *)
EXTENDS GattTree, TLC

CONSTANTS t1, t2, s1, s2, s3, u1, u2, c1, c2, d1, path, other

MCUuidOf == s1 :> u1 @@ s2 :> u2 @@ s3 :> u1
MCServicePath == s1 :> path @@ s2 :> path @@ s3 :> other

\* The threads are alike.
Symmetries == Permutations(Threads)
=============================================================================
