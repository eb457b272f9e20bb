------------------------------- MODULE MCUsers -------------------------------
(* Users on small sets, for TLC: the first and the second new user share    *)
(* the name, the second and the third the id, the third and the first the   *)
(* api key.  Root and the first may create users.                           *)
EXTENDS Users, TLC

CONSTANTS root, x1, x2, x3, i0, i1, i2, a0, a1, a2, n0, n1, n2

IdsOf == root :> i0 @@ x1 :> i1 @@ x2 :> i2 @@ x3 :> i2
ApiKeysOf == root :> a0 @@ x1 :> a1 @@ x2 :> a2 @@ x3 :> a1
NamesOf == root :> n0 @@ x1 :> n1 @@ x2 :> n1 @@ x3 :> n2

Interchangeable == Permutations(Deletes)
=============================================================================
