--------------------------- MODULE StorageMemory ---------------------------
(***************************************************************************)
(* storage.MemoryStorage: bucket -> key -> bytes under one mutex.  Write   *)
(* keeps the mutex while it reads the whole request body, so it is two     *)
(* actions with the mutex held in between (holder); every other method is  *)
(* one critical section and waits until no upload holds the mutex.         *)
(* data[o] = u says that the bytes stored for o are the body of upload u,  *)
(* encrypted with the key of u: Write is only ever handed the stream       *)
(* reader made from the upload's own key.  e is the error returned.        *)
(***************************************************************************)
EXTENDS StoreBase

VARIABLES
  storageBuckets,   \* the buckets the outer map has
  data,             \* data[o]: the upload whose encrypted body is stored for o
  holder            \* the upload whose body is being read under the mutex

storageVars == <<storageBuckets, data, holder>>

StorageTypeOK ==
  /\ storageBuckets \in SUBSET Buckets
  /\ data \in [Objects -> Entry]
  /\ holder \in Entry

(* The outer map has a bucket for every entry. *)
StorageInBuckets == \A o \in Objects : data[o] # None => BucketOf[o] \in storageBuckets

StorageInit ==
  /\ storageBuckets = {}
  /\ data = [o \in Objects |-> None]
  /\ holder = None

StorageNewBucket(b, e) ==
  /\ holder = None
  /\ \/ /\ b \in storageBuckets
        /\ e = BucketAlreadyExists
        /\ UNCHANGED storageVars
     \/ /\ b \notin storageBuckets
        /\ e = Ok
        /\ storageBuckets' = storageBuckets \cup {b}
        /\ UNCHANGED <<data, holder>>

(* Mutant: does not look whether the object is there. *)
StorageWrite_Overwrites(o, u, e) ==
  /\ holder = None
  /\ \/ /\ BucketOf[o] \notin storageBuckets
        /\ e = BucketDoesNotExist
        /\ UNCHANGED storageVars
     \/ /\ BucketOf[o] \in storageBuckets
        /\ e = Ok
        /\ holder' = u
        /\ UNCHANGED <<storageBuckets, data>>

(* Takes the mutex, looks the object up, and starts on the body. *)
StorageWrite(o, u, e) ==
  /\ holder = None
  /\ \/ /\ BucketOf[o] \notin storageBuckets
        /\ e = BucketDoesNotExist
        /\ UNCHANGED storageVars
     \/ /\ BucketOf[o] \in storageBuckets
        /\ data[o] # None
        /\ e = ObjectAlreadyExists
        /\ UNCHANGED storageVars
     \/ /\ BucketOf[o] \in storageBuckets
        /\ data[o] = None
        /\ e = Ok
        /\ holder' = u
        /\ UNCHANGED <<storageBuckets, data>>

(* Mutant: stores what it has read even when the body broke off. *)
StorageWriteBody_KeepsPart(o, u, e) ==
  /\ holder = u
  /\ e \in {Ok, BodyError}
  /\ data' = [data EXCEPT ![o] = u]
  /\ holder' = None
  /\ UNCHANGED storageBuckets

(* Mutant: returns the body's error without the deferred unlock. *)
StorageWriteBody_StaysLocked(o, u, e) ==
  /\ holder = u
  /\ e \in {Ok, BodyError}
  /\ data' = IF e = Ok THEN [data EXCEPT ![o] = u] ELSE data
  /\ holder' = IF e = Ok THEN None ELSE u
  /\ UNCHANGED storageBuckets

(* io.ReadAll returns: the whole body is stored, or nothing of it is.      *)
(* Either way the deferred unlock releases the mutex.                      *)
StorageWriteBody(o, u, e) ==
  /\ holder = u
  /\ e \in {Ok, BodyError}
  /\ data' = IF e = Ok THEN [data EXCEPT ![o] = u] ELSE data
  /\ holder' = None
  /\ UNCHANGED storageBuckets

StorageRead(o, e) ==
  /\ holder = None
  /\ e = IF BucketOf[o] \notin storageBuckets THEN BucketDoesNotExist
         ELSE IF data[o] = None THEN ObjectDoesNotExists ELSE Ok
  /\ UNCHANGED storageVars

(* Mutant: answers as if it had deleted, and leaves the body. *)
StorageDelete_LeavesBody(o, e) ==
  /\ holder = None
  /\ e = IF BucketOf[o] \notin storageBuckets THEN BucketDoesNotExist
         ELSE IF data[o] = None THEN ObjectDoesNotExists ELSE Ok
  /\ UNCHANGED storageVars

StorageDelete(o, e) ==
  /\ holder = None
  /\ \/ /\ BucketOf[o] \notin storageBuckets
        /\ e = BucketDoesNotExist
        /\ UNCHANGED storageVars
     \/ /\ BucketOf[o] \in storageBuckets
        /\ data[o] = None
        /\ e = ObjectDoesNotExists
        /\ UNCHANGED storageVars
     \/ /\ BucketOf[o] \in storageBuckets
        /\ data[o] # None
        /\ e = Ok
        /\ data' = [data EXCEPT ![o] = None]
        /\ UNCHANGED <<storageBuckets, holder>>

(* Mutant: empties the bucket and leaves it. *)
StorageDeleteBucket_OnlyEmpties(b, e) ==
  /\ holder = None
  /\ e = IF b \in storageBuckets THEN Ok ELSE BucketDoesNotExist
  /\ data' = WithoutBucket(data, b)
  /\ UNCHANGED <<storageBuckets, holder>>

StorageDeleteBucket(b, e) ==
  /\ holder = None
  /\ \/ /\ b \notin storageBuckets
        /\ e = BucketDoesNotExist
        /\ UNCHANGED storageVars
     \/ /\ b \in storageBuckets
        /\ e = Ok
        /\ storageBuckets' = storageBuckets \ {b}
        /\ data' = WithoutBucket(data, b)
        /\ UNCHANGED holder
=============================================================================
