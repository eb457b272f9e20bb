--------------------------- MODULE SecurityMemory ---------------------------
(***************************************************************************)
(* security.MemorySecurityStore: bucket -> key -> EncryptionKey under one  *)
(* mutex.  An encryption key is 32 fresh random bytes per upload           *)
(* (security.NewEncryptionKey), so it is named by its upload.  Every       *)
(* method is one critical section; e is the error it returns.              *)
(***************************************************************************)
EXTENDS StoreBase

VARIABLES
  secBuckets,    \* the buckets the outer map has
  encKey         \* encKey[o]: the upload whose encryption key is stored for o

secVars == <<secBuckets, encKey>>

SecTypeOK ==
  /\ secBuckets \in SUBSET Buckets
  /\ encKey \in [Objects -> Entry]

(* The outer map has a bucket for every entry. *)
SecInBuckets == \A o \in Objects : encKey[o] # None => BucketOf[o] \in secBuckets

SecInit ==
  /\ secBuckets = {}
  /\ encKey = [o \in Objects |-> None]

SecNewBucket(b, e) ==
  \/ /\ b \in secBuckets
     /\ e = BucketAlreadyExists
     /\ UNCHANGED secVars
  \/ /\ b \notin secBuckets
     /\ e = Ok
     /\ secBuckets' = secBuckets \cup {b}
     /\ UNCHANGED encKey

(* Mutant: replaces the key an object has, as the metadata store does. *)
SecWriteKey_Replaces(o, u, e) ==
  \/ /\ BucketOf[o] \notin secBuckets
     /\ e = BucketDoesNotExist
     /\ UNCHANGED secVars
  \/ /\ BucketOf[o] \in secBuckets
     /\ e = Ok
     /\ encKey' = [encKey EXCEPT ![o] = u]
     /\ UNCHANGED secBuckets

(* Unlike metadata, an encryption key is never replaced. *)
SecWriteKey(o, u, e) ==
  \/ /\ BucketOf[o] \notin secBuckets
     /\ e = BucketDoesNotExist
     /\ UNCHANGED secVars
  \/ /\ BucketOf[o] \in secBuckets
     /\ encKey[o] # None
     /\ e = ObjectAlreadyExists
     /\ UNCHANGED secVars
  \/ /\ BucketOf[o] \in secBuckets
     /\ encKey[o] = None
     /\ e = Ok
     /\ encKey' = [encKey EXCEPT ![o] = u]
     /\ UNCHANGED secBuckets

SecReadKey(o, e) ==
  /\ e = IF BucketOf[o] \notin secBuckets THEN BucketDoesNotExist
         ELSE IF encKey[o] = None THEN ObjectDoesNotExists ELSE Ok
  /\ UNCHANGED secVars

SecDeleteKey(o, e) ==
  \/ /\ BucketOf[o] \notin secBuckets
     /\ e = BucketDoesNotExist
     /\ UNCHANGED secVars
  \/ /\ BucketOf[o] \in secBuckets
     /\ encKey[o] = None
     /\ e = ObjectDoesNotExists
     /\ UNCHANGED secVars
  \/ /\ BucketOf[o] \in secBuckets
     /\ encKey[o] # None
     /\ e = Ok
     /\ encKey' = [encKey EXCEPT ![o] = None]
     /\ UNCHANGED secBuckets

SecDeleteBucket(b, e) ==
  \/ /\ b \notin secBuckets
     /\ e = BucketDoesNotExist
     /\ UNCHANGED secVars
  \/ /\ b \in secBuckets
     /\ e = Ok
     /\ secBuckets' = secBuckets \ {b}
     /\ encKey' = WithoutBucket(encKey, b)
=============================================================================
