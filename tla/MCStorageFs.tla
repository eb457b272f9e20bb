---------------------------- MODULE MCStorageFs ----------------------------
(* StorageFs on small sets, for TLC. *)
EXTENDS StorageFs, TLC

CONSTANT b1   \* the bucket of every object

OneBucket == [o \in Objects |-> b1]

(* No two bodies have the same length. *)
OwnLength == [r \in Requests |-> r]

Interchangeable == Permutations(Requests)
=============================================================================
