--------------------------- MODULE MetadataMemory ---------------------------
(***************************************************************************)
(* metadata.MemoryStore: bucket -> key -> *Metadata under one mutex.       *)
(* Every method holds the mutex from its first line to its return, so each *)
(* is one action; its last parameter e is the error the method returns.    *)
(***************************************************************************)
EXTENDS StoreBase

VARIABLES
  metaBuckets,   \* the buckets the outer map has
  meta           \* meta[o]: the upload whose metadata is stored for o

metaVars == <<metaBuckets, meta>>

MetaTypeOK ==
  /\ metaBuckets \in SUBSET Buckets
  /\ meta \in [Objects -> Entry]

(* The outer map has a bucket for every entry. *)
MetaInBuckets == \A o \in Objects : meta[o] # None => BucketOf[o] \in metaBuckets

MetaInit ==
  /\ metaBuckets = {}
  /\ meta = [o \in Objects |-> None]

(* Mutant: makes the bucket afresh without looking whether it exists. *)
MetaNewBucket_Afresh(b, e) ==
  /\ e = Ok
  /\ metaBuckets' = metaBuckets \cup {b}
  /\ meta' = WithoutBucket(meta, b)

MetaNewBucket(b, e) ==
  \/ /\ b \in metaBuckets
     /\ e = BucketAlreadyExists
     /\ UNCHANGED metaVars
  \/ /\ b \notin metaBuckets
     /\ e = Ok
     /\ metaBuckets' = metaBuckets \cup {b}
     /\ UNCHANGED meta

(* Replaces whatever entry the object has; without the bucket, the inner   *)
(* map is nil and the assignment panics.                                   *)
MetaWrite(o, u, e) ==
  \/ /\ BucketOf[o] \notin metaBuckets
     /\ e = NilMapPanic
     /\ UNCHANGED metaVars
  \/ /\ BucketOf[o] \in metaBuckets
     /\ e = Ok
     /\ meta' = [meta EXCEPT ![o] = u]
     /\ UNCHANGED metaBuckets

(* "there is no bucket" is the error for a missing bucket and for a        *)
(* missing key alike.                                                      *)
MetaRead(o, e) ==
  /\ e = IF BucketOf[o] \in metaBuckets /\ meta[o] # None
         THEN Ok ELSE BucketDoesNotExist
  /\ UNCHANGED metaVars

MetaDelete(o, e) ==
  \/ /\ BucketOf[o] \notin metaBuckets
     /\ e = BucketDoesNotExist
     /\ UNCHANGED metaVars
  \/ /\ BucketOf[o] \in metaBuckets
     /\ meta[o] = None
     /\ e = ObjectDoesNotExists
     /\ UNCHANGED metaVars
  \/ /\ BucketOf[o] \in metaBuckets
     /\ meta[o] # None
     /\ e = Ok
     /\ meta' = [meta EXCEPT ![o] = None]
     /\ UNCHANGED metaBuckets

MetaDeleteBucket(b, e) ==
  \/ /\ b \notin metaBuckets
     /\ e = BucketDoesNotExist
     /\ UNCHANGED metaVars
  \/ /\ b \in metaBuckets
     /\ e = Ok
     /\ metaBuckets' = metaBuckets \ {b}
     /\ meta' = WithoutBucket(meta, b)
=============================================================================
