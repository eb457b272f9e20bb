---------------------------- MODULE MCAccessRedis ----------------------------
(* AccessRedis on small sets, for TLC: one url key, the first key limited   *)
(* and made with two valid keys, the second with none.                      *)
EXTENDS AccessRedis, TLC

CONSTANTS k1, k2, u1, e1, e2

SharedUrl == [k \in Keys |-> u1]
Limits == [k \in Keys |-> IF k = k1 THEN 1 ELSE 0]
TwoValid == [k \in Keys |-> IF k = k1 THEN {e1, e2} ELSE {}]

Interchangeable == {p @@ q : p \in Permutations(Downloads), q \in Permutations({e1, e2})}
=============================================================================
