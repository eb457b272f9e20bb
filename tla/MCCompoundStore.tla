-------------------------- MODULE MCCompoundStore --------------------------
(* CompoundStore on small sets, for TLC. *)
EXTENDS CompoundStore, TLC

CONSTANT b1   \* the bucket of every object

OneBucket == [o \in Objects |-> b1]

(* No two bodies have the same length. *)
OwnLength == [r \in Requests |-> r]

Interchangeable == Permutations(Requests)
=============================================================================
