---------------------------- MODULE MCAccessSQL ----------------------------
(* AccessSQL on small sets, for TLC: one url key, the first key limited. *)
EXTENDS AccessSQL, TLC

CONSTANTS k1, k2, u1

SharedUrl == [k \in Keys |-> u1]
Limits == [k \in Keys |-> IF k = k1 THEN 1 ELSE 0]

Interchangeable == Permutations(Downloads)
=============================================================================
