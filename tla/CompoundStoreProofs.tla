------------------------ MODULE CompoundStoreProofs ------------------------
(***************************************************************************)
(* What is proved of CompoundStore for every set of buckets, objects and   *)
(* requests, and every interleaving of their steps.                        *)
(***************************************************************************)
EXTENDS CompoundStore, FiniteSetTheorems, TLAPS

USE DEF Ok, BucketDoesNotExist, BucketAlreadyExists, ObjectDoesNotExists,
        ObjectAlreadyExists, NilMapPanic, BodyError

-----------------------------------------------------------------------------
(* Each method of a store keeps the types of that store's state, whatever  *)
(* the object is; a bucket is only ever added under a bucket id.           *)

LEMMA MetaTypes ==
  ASSUME MetaTypeOK, NEW b, NEW o, NEW u \in Requests, NEW e,
         \/ b \in Buckets /\ MetaNewBucket(b, e)
         \/ MetaWrite(o, u, e) \/ MetaRead(o, e) \/ MetaDelete(o, e)
         \/ MetaDeleteBucket(b, e) \/ UNCHANGED metaVars
  PROVE  MetaTypeOK'
<1> USE DEF MetaTypeOK, Entry, metaVars
<1>1. CASE b \in Buckets /\ MetaNewBucket(b, e)
  BY <1>1 DEF MetaNewBucket
<1>2. CASE MetaWrite(o, u, e)
  BY <1>2 DEF MetaWrite
<1>3. CASE MetaRead(o, e) \/ UNCHANGED metaVars
  BY <1>3 DEF MetaRead
<1>4. CASE MetaDelete(o, e)
  BY <1>4 DEF MetaDelete
<1>5. CASE MetaDeleteBucket(b, e)
  BY <1>5 DEF MetaDeleteBucket, WithoutBucket
<1> QED
  BY <1>1, <1>2, <1>3, <1>4, <1>5

LEMMA SecTypes ==
  ASSUME SecTypeOK, NEW b, NEW o, NEW u \in Requests, NEW e,
         \/ b \in Buckets /\ SecNewBucket(b, e)
         \/ SecWriteKey(o, u, e) \/ SecReadKey(o, e) \/ SecDeleteKey(o, e)
         \/ SecDeleteBucket(b, e) \/ UNCHANGED secVars
  PROVE  SecTypeOK'
<1> USE DEF SecTypeOK, Entry, secVars
<1>1. CASE b \in Buckets /\ SecNewBucket(b, e)
  BY <1>1 DEF SecNewBucket
<1>2. CASE SecWriteKey(o, u, e)
  BY <1>2 DEF SecWriteKey
<1>3. CASE SecReadKey(o, e) \/ UNCHANGED secVars
  BY <1>3 DEF SecReadKey
<1>4. CASE SecDeleteKey(o, e)
  BY <1>4 DEF SecDeleteKey
<1>5. CASE SecDeleteBucket(b, e)
  BY <1>5 DEF SecDeleteBucket, WithoutBucket
<1> QED
  BY <1>1, <1>2, <1>3, <1>4, <1>5

LEMMA StorageTypes ==
  ASSUME StorageTypeOK, NEW b, NEW o, NEW u \in Requests, NEW e,
         \/ b \in Buckets /\ StorageNewBucket(b, e)
         \/ StorageWrite(o, u, e) \/ StorageWriteBody(o, u, e)
         \/ StorageRead(o, e) \/ StorageDelete(o, e)
         \/ StorageDeleteBucket(b, e) \/ UNCHANGED storageVars
  PROVE  StorageTypeOK'
<1> USE DEF StorageTypeOK, Entry, storageVars
<1>1. CASE b \in Buckets /\ StorageNewBucket(b, e)
  BY <1>1 DEF StorageNewBucket
<1>2. CASE StorageWrite(o, u, e)
  BY <1>2 DEF StorageWrite
<1>3. CASE StorageWriteBody(o, u, e)
  BY <1>3 DEF StorageWriteBody
<1>4. CASE StorageRead(o, e) \/ UNCHANGED storageVars
  BY <1>4 DEF StorageRead
<1>5. CASE StorageDelete(o, e)
  BY <1>5 DEF StorageDelete
<1>6. CASE StorageDeleteBucket(b, e)
  BY <1>6 DEF StorageDeleteBucket, WithoutBucket
<1> QED
  BY <1>1, <1>2, <1>3, <1>4, <1>5, <1>6

-----------------------------------------------------------------------------
(* Every step of a handler is one call, after which the handler goes on or *)
(* is answered.                                                            *)

LEMMA StepContinues ==
  ASSUME NEW r \in Requests, Serve(r) \/ WriteBody(r)
  PROVE  \E e \in Outcomes, next \in Places \ {"idle"} :
            /\ InFlight(r)
            /\ Continue(r, e, next)
            /\ next = "body" => op[r] = "Write"
<1> USE DEF MetadataStep, SecurityStep, StorageStep, InFlight, Places
<1>1. CASE NewBucket(r)
  BY <1>1 DEF NewBucket
<1>2. CASE Write(r)
  BY <1>2 DEF Write
<1>3. CASE WriteBody(r)
  BY <1>3 DEF WriteBody
<1>4. CASE Read(r)
  BY <1>4 DEF Read
<1>5. CASE Delete(r)
  BY <1>5 DEF Delete
<1>6. CASE DeleteBucket(r)
  BY <1>6 DEF DeleteBucket
<1> QED
  BY <1>1, <1>2, <1>3, <1>4, <1>5, <1>6 DEF Serve

LEMMA ContinueTypes ==
  ASSUME CallTypeOK, CallsWellFormed, NEW r \in Requests, NEW e \in Outcomes,
         NEW next \in Places \ {"idle"}, InFlight(r), Continue(r, e, next),
         next = "body" => op[r] = "Write"
  PROVE  CallTypeOK' /\ CallsWellFormed'
<1>1. CallTypeOK'
  BY DEF CallTypeOK, Continue, callVars, Places
<1>2. CallsWellFormed'
  <2> SUFFICES ASSUME NEW q \in Requests
               PROVE  /\ at'[q] = "idle" <=> op'[q] = None
                      /\ at'[q] = "body" => op'[q] = "Write"
                      /\ status'[q] = Ok => at'[q] = "done"
                      /\ op'[q] \in BucketOps => bucket'[q] \in Buckets
                      /\ op'[q] \in ObjectOps =>
                           object'[q] \in Objects /\ bucket'[q] = BucketOf[object'[q]]
    BY DEF CallsWellFormed
  <2>1. CASE q = r
    BY <2>1, NoneIsNoName
    DEF CallsWellFormed, CallTypeOK, Continue, callVars, InFlight, Places, Outcomes
  <2>2. CASE q # r
    BY <2>2 DEF CallsWellFormed, CallTypeOK, Continue, callVars
  <2> QED
    BY <2>1, <2>2
<1> QED
  BY <1>1, <1>2
-----------------------------------------------------------------------------
(* Type correctness.  A NewBucket puts the bucket of its call into a       *)
(* store, so the types rest on the calls being well formed.                *)

Typed == TypeOK /\ CallsWellFormed

LEMMA TypedInit == Init => Typed
<1> SUFFICES ASSUME Init PROVE Typed
  OBVIOUS
<1>1. TypeOK
  BY DEF Init, TypeOK, MetaInit, SecInit, StorageInit, MetaTypeOK, SecTypeOK,
         StorageTypeOK, CallTypeOK, GotTypeOK, Entry, Places
<1>2. CallsWellFormed
  BY NoneIsNoName
  DEF Init, CallsWellFormed, BucketOps, ObjectOps, Ops, Outcomes
<1> QED
  BY <1>1, <1>2 DEF Typed

LEMMA StartTyped ==
  ASSUME Typed, NEW r \in Requests, Start(r)
  PROVE  Typed'
<1> USE DEF Typed, TypeOK, Start, BucketOps, ObjectOps, Ops
<1>1. MetaTypeOK' /\ SecTypeOK' /\ StorageTypeOK' /\ GotTypeOK'
  BY DEF MetaTypeOK, SecTypeOK, StorageTypeOK, GotTypeOK, metaVars, secVars,
         storageVars, got
<1>2. CallTypeOK'
  BY BucketOfAssumption DEF CallTypeOK, Places
<1>3. CallsWellFormed'
  BY BucketOfAssumption, NoneIsNoName DEF CallsWellFormed, CallTypeOK, Places
<1> QED
  BY <1>1, <1>2, <1>3

LEMMA StepTyped ==
  ASSUME Typed, NEW r \in Requests, Serve(r) \/ WriteBody(r)
  PROVE  Typed'
<1> USE DEF Typed, TypeOK
<1>1. CallTypeOK' /\ CallsWellFormed'
  BY StepContinues, ContinueTypes
<1>2. op[r] \in BucketOps => bucket[r] \in Buckets
  BY DEF CallsWellFormed
<1>3. MetaTypeOK' /\ SecTypeOK' /\ StorageTypeOK' /\ GotTypeOK'
  <2> USE DEF MetadataStep, SecurityStep, StorageStep
  <2>1. CASE NewBucket(r)
    BY <1>2, <2>1, MetaTypes, SecTypes, StorageTypes
    DEF NewBucket, BucketOps, GotTypeOK, got
  <2>2. CASE Write(r)
    BY <2>2, MetaTypes, SecTypes, StorageTypes DEF Write, GotTypeOK, got
  <2>3. CASE WriteBody(r)
    BY <2>3, MetaTypes, SecTypes, StorageTypes DEF WriteBody, GotTypeOK, got
  <2>4. CASE Read(r)
    <3>1. object[r] \in Objects
      BY <2>4 DEF Read, CallsWellFormed, ObjectOps
    <3>2. MetaTypeOK' /\ SecTypeOK' /\ StorageTypeOK'
      BY <2>4, MetaTypes, SecTypes, StorageTypes DEF Read
    <3>3. GotTypeOK'
      BY <2>4, <3>1 DEF Read, GotTypeOK, MetaTypeOK, SecTypeOK, StorageTypeOK
    <3> QED
      BY <3>2, <3>3
  <2>5. CASE Delete(r)
    BY <2>5, MetaTypes, SecTypes, StorageTypes DEF Delete, GotTypeOK, got
  <2>6. CASE DeleteBucket(r)
    BY <2>6, MetaTypes, SecTypes, StorageTypes DEF DeleteBucket, GotTypeOK, got
  <2> QED
    BY <2>1, <2>2, <2>3, <2>4, <2>5, <2>6 DEF Serve
<1> QED
  BY <1>1, <1>3

LEMMA TypedStep == Typed /\ [Next]_vars => Typed'
<1> SUFFICES ASSUME Typed, [Next]_vars PROVE Typed'
  OBVIOUS
<1>1. CASE Next
  BY <1>1, StartTyped, StepTyped DEF Next
<1>2. CASE UNCHANGED vars
  BY <1>2
  DEF vars, metaVars, secVars, storageVars, callVars, got, Typed, TypeOK,
      MetaTypeOK, SecTypeOK, StorageTypeOK, CallTypeOK, GotTypeOK, CallsWellFormed
<1> QED
  BY <1>1, <1>2

(* In every state of every interleaving the stores hold uploads under      *)
(* known buckets, each handler is before one of its calls or done, and its *)
(* answer is one of the outcomes the store methods return.                 *)
THEOREM TypeCorrect == Spec => []TypeOK
<1>1. Typed => TypeOK
  BY DEF Typed
<1> QED
  BY TypedInit, TypedStep, <1>1, PTL DEF Spec
-----------------------------------------------------------------------------
(* Entries lie in buckets.  The body of an upload is stored under a bucket *)
(* that was looked up before the body was read: it is still there because  *)
(* the mutex was held all the while.                                       *)

LEMMA MetaStaysInBuckets ==
  ASSUME MetaTypeOK, MetaInBuckets, NEW b, NEW o, NEW u, NEW e,
         \/ MetaNewBucket(b, e)
         \/ MetaWrite(o, u, e) \/ MetaRead(o, e) \/ MetaDelete(o, e)
         \/ MetaDeleteBucket(b, e) \/ UNCHANGED metaVars
  PROVE  MetaInBuckets'
<1> USE DEF MetaTypeOK, MetaInBuckets, metaVars
<1>1. CASE MetaNewBucket(b, e)
  BY <1>1 DEF MetaNewBucket
<1>2. CASE MetaWrite(o, u, e)
  BY <1>2 DEF MetaWrite
<1>3. CASE MetaRead(o, e) \/ UNCHANGED metaVars
  BY <1>3 DEF MetaRead
<1>4. CASE MetaDelete(o, e)
  BY <1>4 DEF MetaDelete
<1>5. CASE MetaDeleteBucket(b, e)
  BY <1>5 DEF MetaDeleteBucket, WithoutBucket
<1> QED
  BY <1>1, <1>2, <1>3, <1>4, <1>5

LEMMA SecStaysInBuckets ==
  ASSUME SecTypeOK, SecInBuckets, NEW b, NEW o, NEW u, NEW e,
         \/ SecNewBucket(b, e)
         \/ SecWriteKey(o, u, e) \/ SecReadKey(o, e) \/ SecDeleteKey(o, e)
         \/ SecDeleteBucket(b, e) \/ UNCHANGED secVars
  PROVE  SecInBuckets'
<1> USE DEF SecTypeOK, SecInBuckets, secVars
<1>1. CASE SecNewBucket(b, e)
  BY <1>1 DEF SecNewBucket
<1>2. CASE SecWriteKey(o, u, e)
  BY <1>2 DEF SecWriteKey
<1>3. CASE SecReadKey(o, e) \/ UNCHANGED secVars
  BY <1>3 DEF SecReadKey
<1>4. CASE SecDeleteKey(o, e)
  BY <1>4 DEF SecDeleteKey
<1>5. CASE SecDeleteBucket(b, e)
  BY <1>5 DEF SecDeleteBucket, WithoutBucket
<1> QED
  BY <1>1, <1>2, <1>3, <1>4, <1>5

LEMMA StorageStaysInBuckets ==
  ASSUME StorageTypeOK, StorageInBuckets, NEW b, NEW o, NEW u, NEW e,
         \/ StorageNewBucket(b, e)
         \/ StorageWrite(o, u, e)
         \/ StorageWriteBody(o, u, e) /\ BucketOf[o] \in storageBuckets
         \/ StorageRead(o, e) \/ StorageDelete(o, e)
         \/ StorageDeleteBucket(b, e) \/ UNCHANGED storageVars
  PROVE  StorageInBuckets'
<1> USE DEF StorageTypeOK, StorageInBuckets, storageVars
<1>1. CASE StorageNewBucket(b, e)
  BY <1>1 DEF StorageNewBucket
<1>2. CASE StorageWrite(o, u, e)
  BY <1>2 DEF StorageWrite
<1>3. CASE StorageWriteBody(o, u, e) /\ BucketOf[o] \in storageBuckets
  BY <1>3 DEF StorageWriteBody
<1>4. CASE StorageRead(o, e) \/ UNCHANGED storageVars
  BY <1>4 DEF StorageRead
<1>5. CASE StorageDelete(o, e)
  BY <1>5 DEF StorageDelete
<1>6. CASE StorageDeleteBucket(b, e)
  BY <1>6 DEF StorageDeleteBucket, WithoutBucket
<1> QED
  BY <1>1, <1>2, <1>3, <1>4, <1>5, <1>6

LEMMA StepStaysInBuckets ==
  ASSUME TypeOK, MetaInBuckets, SecInBuckets, StorageInBuckets, BodyUnderMutex,
         NEW r \in Requests, Serve(r) \/ WriteBody(r)
  PROVE  MetaInBuckets' /\ SecInBuckets' /\ StorageInBuckets'
<1> USE MetaStaysInBuckets, SecStaysInBuckets, StorageStaysInBuckets
    DEF TypeOK, MetadataStep, SecurityStep, StorageStep
<1>1. CASE NewBucket(r)
  BY <1>1 DEF NewBucket
<1>2. CASE Write(r)
  BY <1>2 DEF Write
<1>3. CASE WriteBody(r)
  BY <1>3 DEF WriteBody, BodyUnderMutex
<1>4. CASE Read(r)
  BY <1>4 DEF Read
<1>5. CASE Delete(r)
  BY <1>5 DEF Delete
<1>6. CASE DeleteBucket(r)
  BY <1>6 DEF DeleteBucket
<1> QED
  BY <1>1, <1>2, <1>3, <1>4, <1>5, <1>6 DEF Serve

(* Either the storage is left alone, or the mutex was free and is again,   *)
(* or an upload takes it, or the upload that has it gives it back.         *)
LEMMA StepUnderMutex ==
  ASSUME Typed, BodyUnderMutex, NEW r \in Requests, Serve(r) \/ WriteBody(r)
  PROVE  BodyUnderMutex'
<1> USE NoneAssumption
    DEF Typed, TypeOK, StorageTypeOK, CallTypeOK, Entry, BodyUnderMutex, Continue,
        callVars
<1>1. CASE UNCHANGED storageVars /\ at[r] # "body"
           /\ \E e \in Outcomes, next \in Places \ {"body"} : Continue(r, e, next)
  BY <1>1 DEF storageVars
<1>2. CASE holder = None /\ holder' = None
           /\ \E e \in Outcomes, next \in Places \ {"body"} : Continue(r, e, next)
  BY <1>2
<1>3. ASSUME at[r] = "storage", NEW e \in Outcomes, StorageWrite(object[r], r, e),
             Continue(r, e, "body")
      PROVE  BodyUnderMutex'
  <2>1. CASE e = Ok
    <3>1. /\ holder = None /\ holder' = r
          /\ data' = data /\ storageBuckets' = storageBuckets
          /\ BucketOf[object[r]] \in storageBuckets /\ data[object[r]] = None
      BY <1>3, <2>1 DEF StorageWrite
    <3>2. at' = [at EXCEPT ![r] = "body"] /\ object' = object
      BY <1>3, <2>1
    <3> QED
      BY <3>1, <3>2
  <2>2. CASE e # Ok
    <3>1. holder = None /\ holder' = None
      BY <1>3, <2>2 DEF StorageWrite, storageVars
    <3>2. at' = [at EXCEPT ![r] = "done"] /\ object' = object
      BY <1>3, <2>2
    <3> QED
      BY <3>1, <3>2
  <2> QED
    BY <2>1, <2>2
<1>4. CASE WriteBody(r)
  <2>1. holder = r /\ holder' = None
    BY <1>4 DEF WriteBody, StorageWriteBody
  <2>2. at' = [at EXCEPT ![r] = "done"] /\ object' = object
    BY <1>4 DEF WriteBody
  <2> QED
    BY <2>1, <2>2
<1> HIDE DEF Continue, BodyUnderMutex
<1> USE DEF MetadataStep, SecurityStep, StorageStep, Places
<1>5. CASE NewBucket(r)
  BY <1>5, <1>1, <1>2 DEF NewBucket, StorageNewBucket, storageVars
<1>6. CASE Write(r)
  BY <1>6, <1>1, <1>3 DEF Write
<1>7. CASE Read(r)
  BY <1>7, <1>1, <1>2 DEF Read, StorageRead, storageVars
<1>8. CASE Delete(r)
  BY <1>8, <1>1, <1>2 DEF Delete, StorageDelete, storageVars
<1>9. CASE DeleteBucket(r)
  BY <1>9, <1>1, <1>2 DEF DeleteBucket, StorageDeleteBucket, storageVars
<1> QED
  BY <1>4, <1>5, <1>6, <1>7, <1>8, <1>9 DEF Serve
-----------------------------------------------------------------------------
(* No step takes away what the stores have of an object, unless its        *)
(* handler was asked to remove the object: uploads and bucket creations    *)
(* only add, and metadata is replaced but not removed.                     *)

StoresKeep(o) ==
  /\ BucketOf[o] \in metaBuckets => BucketOf[o] \in metaBuckets'
  /\ BucketOf[o] \in secBuckets => BucketOf[o] \in secBuckets'
  /\ BucketOf[o] \in storageBuckets => BucketOf[o] \in storageBuckets'
  /\ meta[o] # None => meta'[o] # None
  /\ encKey[o] # None => encKey'[o] = encKey[o]
  /\ data[o] # None => data'[o] = data[o]

LEMMA StepKeeps ==
  ASSUME Typed, BodyUnderMutex, NEW o \in Objects,
         NEW r \in Requests, ~Removes(r, o), Serve(r) \/ WriteBody(r)
  PROVE  StoresKeep(o)
<1> USE DEF StoresKeep, Typed, TypeOK, MetaTypeOK, SecTypeOK, StorageTypeOK,
            MetadataStep, SecurityStep, StorageStep, metaVars, secVars, storageVars
<1>1. CASE NewBucket(r)
  BY <1>1 DEF NewBucket, MetaNewBucket, SecNewBucket, StorageNewBucket
<1>2. CASE Write(r)
  <2>1. ASSUME NEW e, MetaWrite(object[r], r, e), MetadataStep(r, e)
        PROVE  StoresKeep(o)
    BY <2>1, NoneAssumption DEF MetaWrite
  <2>2. ASSUME NEW e, SecWriteKey(object[r], r, e), SecurityStep(r, e)
        PROVE  StoresKeep(o)
    BY <2>2 DEF SecWriteKey
  <2>3. ASSUME NEW e, StorageWrite(object[r], r, e), StorageStep(r, e, "body")
        PROVE  StoresKeep(o)
    BY <2>3 DEF StorageWrite
  <2> QED
    BY <1>2, <2>1, <2>2, <2>3 DEF Write
<1>3. CASE WriteBody(r)
  BY <1>3 DEF WriteBody, StorageWriteBody, BodyUnderMutex
<1>4. CASE Read(r)
  BY <1>4 DEF Read, MetaRead, SecReadKey, StorageRead
<1>5. CASE Delete(r)
  <2>1. object[r] # o
    BY <1>5 DEF Delete, Removes
  <2> QED
    BY <1>5, <2>1 DEF Delete, MetaDelete, SecDeleteKey, StorageDelete
<1>6. CASE DeleteBucket(r)
  <2>1. bucket[r] # BucketOf[o]
    BY <1>6 DEF DeleteBucket, Removes
  <2> QED
    BY <1>6, <2>1
    DEF DeleteBucket, MetaDeleteBucket, SecDeleteBucket, StorageDeleteBucket,
        WithoutBucket
<1> QED
  BY <1>1, <1>2, <1>3, <1>4, <1>5, <1>6 DEF Serve

(* So a request that takes no step stays undisturbed. *)
LEMMA OthersUndisturbed ==
  ASSUME NEW o \in Objects, NEW q \in Requests, CallUndisturbed(q, o),
         StoresKeep(o), UNCHANGED callVars,
         at'[q] = at[q], status'[q] = status[q],
         gotKey'[q] = gotKey[q], gotData'[q] = gotData[q]
  PROVE  CallUndisturbed(q, o)'
BY NoneAssumption DEF CallUndisturbed, StoresKeep, callVars
(* What a step of r does to an object nobody asked to remove: the stores   *)
(* keep their order, and r has found or left what its next call relies on. *)
LEMMA StepUndisturbed ==
  ASSUME Typed, MetaInBuckets, SecInBuckets, StorageInBuckets, BodyUnderMutex,
         NEW o \in Objects, NeverRemoved(o), StoresUndisturbed(o),
         NEW r \in Requests, CallUndisturbed(r, o), Serve(r) \/ WriteBody(r)
  PROVE  StoresUndisturbed(o)' /\ CallUndisturbed(r, o)'
<1>1. StoresKeep(o)
  BY StepKeeps DEF NeverRemoved
<1> USE NoneAssumption, NoneIsNoName
    DEF StoresUndisturbed, CallUndisturbed, StoresKeep, Typed, TypeOK, CallTypeOK,
        Continue, callVars, metaVars, secVars, storageVars
<1>2. CASE NewBucket(r)
  <2> USE DEF NewBucket
  <2>1. PICK e \in Outcomes :
          \/ MetaNewBucket(bucket[r], e) /\ MetadataStep(r, e)
          \/ SecNewBucket(bucket[r], e) /\ SecurityStep(r, e)
          \/ StorageNewBucket(bucket[r], e) /\ StorageStep(r, e, "done")
    BY <1>2
  <2>2. CASE MetaNewBucket(bucket[r], e) /\ MetadataStep(r, e)
    BY <1>1, <1>2, <2>2 DEF MetadataStep, MetaNewBucket, MetaTypeOK
  <2>3. CASE SecNewBucket(bucket[r], e) /\ SecurityStep(r, e)
    BY <1>1, <1>2, <2>3 DEF SecurityStep, SecNewBucket, SecTypeOK
  <2>4. CASE StorageNewBucket(bucket[r], e) /\ StorageStep(r, e, "done")
    BY <1>1, <1>2, <2>4 DEF StorageStep, StorageNewBucket, StorageTypeOK
  <2> QED
    BY <2>1, <2>2, <2>3, <2>4
<1>3. CASE Write(r)
  <2> USE DEF Write
  <2>1. PICK e \in Outcomes :
          \/ MetaWrite(object[r], r, e) /\ MetadataStep(r, e)
          \/ SecWriteKey(object[r], r, e) /\ SecurityStep(r, e)
          \/ StorageWrite(object[r], r, e) /\ StorageStep(r, e, "body")
    BY <1>3
  <2>2. CASE MetaWrite(object[r], r, e) /\ MetadataStep(r, e)
    BY <1>1, <1>3, <2>2 DEF MetadataStep, MetaWrite, MetaTypeOK, CallsWellFormed
  <2>3. CASE SecWriteKey(object[r], r, e) /\ SecurityStep(r, e)
    <3>1. e = Ok => /\ encKey' = [encKey EXCEPT ![object[r]] = r]
                    /\ encKey[object[r]] = None
                    /\ at'[r] = "storage" /\ status'[r] = None
      BY <2>3 DEF SecurityStep, SecWriteKey
    <3>2. e # Ok => encKey' = encKey /\ at'[r] = "done" /\ status'[r] = e
      BY <2>3 DEF SecurityStep, SecWriteKey
    <3>3. UNCHANGED <<metaVars, storageVars, callVars>> /\ at[r] = "security"
      BY <2>3 DEF SecurityStep
    <3>4. secBuckets' = secBuckets
      BY <2>3 DEF SecWriteKey
    <3> HIDE DEF Continue
    <3>5. StoresUndisturbed(o)'
      BY <1>3, <3>1, <3>2, <3>3, <3>4 DEF SecTypeOK
    <3>6. CallUndisturbed(r, o)'
      BY <1>3, <3>1, <3>2, <3>3 DEF SecTypeOK
    <3> QED
      BY <3>5, <3>6
  <2>4. CASE StorageWrite(object[r], r, e) /\ StorageStep(r, e, "body")
    <3>1. e = Ok => at'[r] = "body" /\ status'[r] = None
      BY <2>4 DEF StorageStep
    <3>2. e # Ok => at'[r] = "done" /\ status'[r] = e
      BY <2>4 DEF StorageStep
    <3>3. /\ UNCHANGED <<metaVars, secVars, callVars>> /\ at[r] = "storage"
          /\ UNCHANGED <<storageBuckets, data>>
      BY <2>4 DEF StorageStep, StorageWrite
    <3> HIDE DEF Continue
    <3> QED
      BY <1>3, <3>1, <3>2, <3>3
  <2> QED
    BY <2>1, <2>2, <2>3, <2>4
<1>4. CASE WriteBody(r)
  BY <1>1, <1>4 DEF WriteBody, StorageWriteBody, StorageTypeOK, CallsWellFormed
<1>5. CASE Read(r)
  <2> USE DEF Read
  <2>1. PICK e \in Outcomes :
          \/ MetaRead(object[r], e) /\ MetadataStep(r, e)
          \/ /\ SecReadKey(object[r], e) /\ SecurityStep(r, e)
             /\ gotKey' = [gotKey EXCEPT ![r] = encKey[object[r]]]
          \/ /\ StorageRead(object[r], e) /\ StorageStep(r, e, "done")
             /\ gotData' = [gotData EXCEPT ![r] = data[object[r]]]
             /\ UNCHANGED gotKey
    BY <1>5
  <2>2. CASE MetaRead(object[r], e) /\ MetadataStep(r, e)
    BY <1>1, <1>5, <2>2 DEF MetadataStep, MetaRead, CallsWellFormed
  <2>3. CASE /\ SecReadKey(object[r], e) /\ SecurityStep(r, e)
             /\ gotKey' = [gotKey EXCEPT ![r] = encKey[object[r]]]
    BY <1>1, <1>5, <2>3 DEF SecurityStep, SecReadKey, CallsWellFormed, GotTypeOK
  <2>4. CASE /\ StorageRead(object[r], e) /\ StorageStep(r, e, "done")
             /\ gotData' = [gotData EXCEPT ![r] = data[object[r]]]
             /\ UNCHANGED gotKey
    BY <1>1, <1>5, <2>4 DEF StorageStep, StorageRead, CallsWellFormed, GotTypeOK
  <2> QED
    BY <2>1, <2>2, <2>3, <2>4
<1>6. CASE Delete(r)
  <2>1. object[r] # o
    BY <1>6 DEF Delete, NeverRemoved, Removes
  <2> QED
    BY <1>1, <1>6, <2>1
    DEF Delete, MetaDelete, SecDeleteKey, StorageDelete, MetadataStep, SecurityStep,
        StorageStep, MetaTypeOK, SecTypeOK, StorageTypeOK
<1>7. CASE DeleteBucket(r)
  <2>1. bucket[r] # BucketOf[o]
    BY <1>7 DEF DeleteBucket, NeverRemoved, Removes
  <2> QED
    BY <1>1, <1>7, <2>1
    DEF DeleteBucket, MetaDeleteBucket, SecDeleteBucket, StorageDeleteBucket,
        WithoutBucket, MetadataStep, SecurityStep, StorageStep
<1> QED
  BY <1>2, <1>3, <1>4, <1>5, <1>6, <1>7 DEF Serve
-----------------------------------------------------------------------------
(* Undisturbed, with the types, is inductive.                              *)

Inv == TypeOK /\ Undisturbed

LEMMA InvInit == Init => Inv
<1> SUFFICES ASSUME Init PROVE Inv
  OBVIOUS
<1>1. TypeOK /\ CallsWellFormed
  BY TypedInit DEF Typed
<1>2. MetaInBuckets /\ SecInBuckets /\ StorageInBuckets
  BY DEF Init, MetaInit, SecInit, StorageInit, MetaInBuckets, SecInBuckets,
         StorageInBuckets
<1>3. BodyUnderMutex
  BY NoneAssumption DEF Init, StorageInit, BodyUnderMutex
<1>4. ASSUME NEW o \in Objects
      PROVE  StoresUndisturbed(o) /\ \A r \in Requests : CallUndisturbed(r, o)
  BY NoneIsNoName
  DEF Init, MetaInit, SecInit, StorageInit, StoresUndisturbed, CallUndisturbed,
      BucketOps, ObjectOps, Ops
<1> QED
  BY <1>1, <1>2, <1>3, <1>4 DEF Inv, Undisturbed

(* A call that arrives finds its handler before the first store; if it     *)
(* asks for nothing to be removed, it disturbs nothing.                    *)
LEMMA InvStart ==
  ASSUME Inv, NEW r \in Requests, Start(r)
  PROVE  Inv'
<1> USE DEF Inv, Undisturbed
<1>1. TypeOK' /\ CallsWellFormed'
  BY StartTyped DEF Typed
<1>2. op[r] = None /\ at[r] = "idle" /\ status[r] # Ok
  BY DEF Start, CallsWellFormed
<1>3. /\ UNCHANGED <<metaVars, secVars, storageVars, status, got>>
      /\ at' = [at EXCEPT ![r] = "metadata"]
      /\ \A q \in Requests \ {r} : /\ op'[q] = op[q] /\ bucket'[q] = bucket[q]
                                   /\ object'[q] = object[q]
  BY DEF Start, TypeOK, CallTypeOK
<1>4. MetaInBuckets' /\ SecInBuckets' /\ StorageInBuckets'
  BY <1>3 DEF metaVars, secVars, storageVars, MetaInBuckets, SecInBuckets,
              StorageInBuckets
<1>5. BodyUnderMutex'
  BY <1>2, <1>3 DEF storageVars, BodyUnderMutex, TypeOK, CallTypeOK
<1>6. ASSUME NEW o \in Objects, NeverRemoved(o)'
      PROVE  StoresUndisturbed(o)' /\ \A q \in Requests : CallUndisturbed(q, o)'
  <2>1. NeverRemoved(o)
    BY <1>2, <1>3, <1>6, NoneIsNoName
    DEF NeverRemoved, Removes, Ops, BucketOps, ObjectOps
  <2>2. StoresUndisturbed(o)'
    BY <1>3, <2>1 DEF StoresUndisturbed, metaVars, secVars, storageVars
  <2>3. CallUndisturbed(r, o)'
    BY <1>2, <1>3 DEF CallUndisturbed, TypeOK, CallTypeOK
  <2>4. ASSUME NEW q \in Requests \ {r} PROVE CallUndisturbed(q, o)'
    BY <1>3, <2>1, <2>4
    DEF CallUndisturbed, TypeOK, CallTypeOK, metaVars, secVars, storageVars, got
  <2> QED
    BY <2>2, <2>3, <2>4
<1> QED
  BY <1>1, <1>4, <1>5, <1>6

LEMMA InvStep ==
  ASSUME Inv, NEW r \in Requests, Serve(r) \/ WriteBody(r)
  PROVE  Inv'
<1> USE DEF Inv, Undisturbed
<1>0. Typed
  BY DEF Typed
<1>1. TypeOK' /\ CallsWellFormed'
  BY <1>0, StepTyped DEF Typed
<1>2. MetaInBuckets' /\ SecInBuckets' /\ StorageInBuckets'
  BY StepStaysInBuckets
<1>3. BodyUnderMutex'
  BY <1>0, StepUnderMutex
<1>4. /\ UNCHANGED callVars
      /\ \A q \in Requests \ {r} : at'[q] = at[q] /\ status'[q] = status[q]
  BY StepContinues DEF Continue, TypeOK, CallTypeOK
<1>5. \A q \in Requests \ {r} : gotKey'[q] = gotKey[q] /\ gotData'[q] = gotData[q]
  BY DEF Serve, NewBucket, Write, WriteBody, Read, Delete, DeleteBucket, got,
         TypeOK, GotTypeOK
<1>6. ASSUME NEW o \in Objects, NeverRemoved(o)'
      PROVE  StoresUndisturbed(o)' /\ \A q \in Requests : CallUndisturbed(q, o)'
  <2>1. NeverRemoved(o)
    BY <1>4, <1>6 DEF NeverRemoved, Removes, callVars
  <2>2. StoresUndisturbed(o)' /\ CallUndisturbed(r, o)'
    BY <1>0, <2>1, StepUndisturbed
  <2>3. StoresKeep(o)
    BY <1>0, <2>1, StepKeeps DEF NeverRemoved
  <2>4. ASSUME NEW q \in Requests \ {r} PROVE CallUndisturbed(q, o)'
    BY <1>4, <1>5, <2>1, <2>3, OthersUndisturbed
  <2> QED
    BY <2>2, <2>4
<1> QED
  BY <1>1, <1>2, <1>3, <1>6

LEMMA InvStutter == Inv /\ UNCHANGED vars => Inv'
<1> SUFFICES ASSUME Inv, UNCHANGED vars PROVE Inv'
  OBVIOUS
<1>1. UNCHANGED <<metaVars, secVars, storageVars, callVars, at, status, got>>
  BY DEF vars
<1>2. TypeOK' /\ CallsWellFormed'
  BY TypedStep DEF Inv, Undisturbed, Typed
<1>3. MetaInBuckets' /\ SecInBuckets' /\ StorageInBuckets' /\ BodyUnderMutex'
  BY <1>1 DEF Inv, Undisturbed, MetaInBuckets, SecInBuckets, StorageInBuckets,
              BodyUnderMutex, metaVars, secVars, storageVars, callVars
<1>4. ASSUME NEW o \in Objects, NeverRemoved(o)'
      PROVE  StoresUndisturbed(o)' /\ \A q \in Requests : CallUndisturbed(q, o)'
  <2>1. NeverRemoved(o)
    BY <1>1, <1>4 DEF NeverRemoved, Removes, callVars
  <2> QED
    BY <1>1, <2>1
    DEF Inv, Undisturbed, StoresUndisturbed, CallUndisturbed, metaVars, secVars,
        storageVars, callVars, got
<1> QED
  BY <1>2, <1>3, <1>4 DEF Inv, Undisturbed

LEMMA AlwaysInv == Spec => []Inv
<1>1. Inv /\ [Next]_vars => Inv'
  BY InvStart, InvStep, InvStutter DEF Next
<1> QED
  BY InvInit, <1>1, PTL DEF Spec

(* A Read answered 200 decrypts with the key of the body it returns, unless *)
(* someone asked to delete its object or its bucket.                        *)
THEOREM GarbledByRemovalOnly == Spec => []GarbledOnlyByRemoval
<1>1. Inv => GarbledOnlyByRemoval
  BY DEF Inv, Undisturbed, GarbledOnlyByRemoval, CallsWellFormed, ObjectOps,
         CallUndisturbed
<1> QED
  BY AlwaysInv, <1>1, PTL
-----------------------------------------------------------------------------
(* A body that broke off is never served.  A stored body is that of an     *)
(* answered upload of the same object, and answers are final.              *)

Whole == Inv /\ StoredIsAcked /\ WholeBodies

LEMMA AckedForGood ==
  ASSUME Inv, [Next]_vars, NEW w \in Requests, AckedWrite(w)
  PROVE  AckedWrite(w)' /\ object'[w] = object[w]
<1> USE DEF Inv, Undisturbed, AckedWrite
<1>1. at[w] = "done"
  BY DEF CallsWellFormed
<1>2. ASSUME NEW r \in Requests, Start(r) PROVE AckedWrite(w)' /\ object'[w] = object[w]
  BY <1>1, <1>2 DEF Start, TypeOK, CallTypeOK
<1>3. ASSUME NEW r \in Requests, Serve(r) \/ WriteBody(r)
      PROVE  AckedWrite(w)' /\ object'[w] = object[w]
  <2>1. PICK e \in Outcomes, next \in Places : InFlight(r) /\ Continue(r, e, next)
    BY <1>3, StepContinues
  <2> QED
    BY <1>1, <2>1 DEF InFlight, Continue, callVars, TypeOK, CallTypeOK
<1> QED
  BY <1>2, <1>3 DEF Next, vars, callVars

(* A body enters the storage with the answer to its upload, and no other   *)
(* way.                                                                    *)
LEMMA BodyEnters ==
  ASSUME Inv, [Next]_vars, NEW o \in Objects, data'[o] # None
  PROVE  \/ data'[o] = data[o]
         \/ \E w \in Requests : data'[o] = w /\ AckedWrite(w)' /\ object'[w] = o
<1> USE DEF Inv, TypeOK, StorageTypeOK, MetadataStep, SecurityStep, StorageStep,
            storageVars
<1>1. ASSUME NEW r \in Requests, WriteBody(r)
      PROVE  \/ data'[o] = data[o]
             \/ data'[o] = r /\ AckedWrite(r)' /\ object'[r] = o
  <2>1. PICK e \in {Ok, BodyError} :
          /\ data' = IF e = Ok THEN [data EXCEPT ![object[r]] = r] ELSE data
          /\ op[r] = "Write" /\ UNCHANGED callVars
          /\ status' = [status EXCEPT ![r] = e]
    BY <1>1 DEF WriteBody, StorageWriteBody, Continue
  <2>2. CASE e = Ok
    BY <2>1, <2>2 DEF callVars, AckedWrite, CallTypeOK
  <2>3. CASE e # Ok
    BY <2>1, <2>3
  <2> QED
    BY <2>1, <2>2, <2>3
<1>2. ASSUME NEW r \in Requests, Serve(r) PROVE data'[o] = data[o]
  <2>1. CASE NewBucket(r)
    BY <2>1 DEF NewBucket, StorageNewBucket
  <2>2. CASE Write(r)
    BY <2>2 DEF Write, StorageWrite
  <2>3. CASE Read(r)
    BY <2>3 DEF Read, StorageRead
  <2>4. CASE Delete(r)
    BY <2>4 DEF Delete, StorageDelete
  <2>5. CASE DeleteBucket(r)
    BY <2>5 DEF DeleteBucket, StorageDeleteBucket, WithoutBucket
  <2> QED
    BY <1>2, <2>1, <2>2, <2>3, <2>4, <2>5 DEF Serve
<1>3. ASSUME NEW r \in Requests, Start(r) PROVE data'[o] = data[o]
  BY <1>3 DEF Start
<1> QED
  BY <1>1, <1>2, <1>3 DEF Next, vars

(* A Read is answered 200 with what the storage has at its last call.      *)
LEMMA ReadAnswered ==
  ASSUME Inv, [Next]_vars, NEW q \in Requests, op'[q] = "Read", status'[q] = Ok
  PROVE  \/ /\ op[q] = "Read" /\ status[q] = Ok
            /\ object'[q] = object[q] /\ gotData'[q] = gotData[q]
         \/ /\ object[q] \in Objects /\ object'[q] = object[q]
            /\ data' = data /\ data[object[q]] # None
            /\ gotData'[q] = data[object[q]]
<1> USE DEF Inv, Undisturbed, TypeOK
<1>1. ASSUME NEW r \in Requests, Start(r)
      PROVE  op[q] = "Read" /\ status[q] = Ok /\ object'[q] = object[q]
             /\ gotData'[q] = gotData[q]
  BY <1>1 DEF Start, CallsWellFormed, CallTypeOK, got
<1>2. ASSUME NEW r \in Requests, Serve(r) \/ WriteBody(r), r # q
      PROVE  op[q] = "Read" /\ status[q] = Ok /\ object'[q] = object[q]
             /\ gotData'[q] = gotData[q]
  <2>1. PICK e \in Outcomes, next \in Places : Continue(r, e, next)
    BY <1>2, StepContinues
  <2>2. gotData'[q] = gotData[q]
    BY <1>2 DEF Serve, NewBucket, Write, WriteBody, Read, Delete, DeleteBucket, got,
                GotTypeOK
  <2> QED
    BY <1>2, <2>1, <2>2 DEF Continue, callVars, CallTypeOK
<1>3. ASSUME Serve(q) \/ WriteBody(q)
      PROVE  /\ object[q] \in Objects /\ object'[q] = object[q]
             /\ data' = data /\ data[object[q]] # None
             /\ gotData'[q] = data[object[q]]
  <2>1. op[q] = "Read" /\ object'[q] = object[q]
    BY <1>3, StepContinues DEF Continue, callVars
  <2>2. Read(q)
    BY <1>3, <2>1 DEF Serve, NewBucket, Write, WriteBody, Delete, DeleteBucket
  <2>3. object[q] \in Objects
    BY <2>1 DEF CallsWellFormed, ObjectOps
  <2>4. PICK e \in Outcomes :
          \/ MetadataStep(q, e)
          \/ SecurityStep(q, e)
          \/ /\ StorageRead(object[q], e) /\ StorageStep(q, e, "done")
             /\ gotData' = [gotData EXCEPT ![q] = data[object[q]]]
    BY <2>2 DEF Read
  <2>5. status'[q] = IF e = Ok /\ at[q] # "storage" THEN None ELSE e
    BY <2>4 DEF MetadataStep, SecurityStep, StorageStep, Continue, CallTypeOK
  <2>6. e = Ok /\ at[q] = "storage"
    BY <2>5, NoneIsNoName DEF Outcomes
  <2> QED
    BY <2>1, <2>3, <2>4, <2>6
    DEF MetadataStep, SecurityStep, StorageRead, storageVars, GotTypeOK
<1>4. CASE UNCHANGED vars
  BY <1>4 DEF vars, callVars, got
<1> QED
  BY <1>1, <1>2, <1>3, <1>4 DEF Next

(* A Read answered 200 carries the whole body of an upload of the same     *)
(* object that was itself answered 200: nothing of a broken upload, of     *)
(* another object, or of an upload still under way.                        *)
LEMMA AlwaysWhole == Spec => []WholeBodies
<1>1. Init => Whole
  <2> SUFFICES ASSUME Init PROVE Whole
    OBVIOUS
  <2>1. StoredIsAcked /\ WholeBodies
    BY NoneIsNoName
    DEF Init, StorageInit, StoredIsAcked, WholeBodies, Ops, ObjectOps
  <2> QED
    BY <2>1, InvInit DEF Whole
<1>2. Whole /\ [Next]_vars => Whole'
  <2> SUFFICES ASSUME Whole, [Next]_vars PROVE Whole'
    OBVIOUS
  <2> USE DEF Whole
  <2>1. Inv'
    BY InvStart, InvStep, InvStutter DEF Next
  <2>2. \A o \in Objects : data[o] # None => data[o] \in Requests
    BY DEF Inv, TypeOK, StorageTypeOK, Entry
  <2>3. StoredIsAcked'
    <3> SUFFICES ASSUME NEW o \in Objects, data'[o] # None
                 PROVE  (AckedWrite(data[o]) /\ object[data[o]] = o)'
      BY DEF StoredIsAcked
    <3>1. CASE data'[o] = data[o]
      <4>1. data[o] \in Requests /\ AckedWrite(data[o]) /\ object[data[o]] = o
        BY <2>2, <3>1 DEF StoredIsAcked
      <4>2. PICK w \in Requests : w = data[o]
        BY <4>1
      <4>3. AckedWrite(w)' /\ object'[w] = o
        BY <4>1, <4>2, AckedForGood
      <4> QED
        BY <3>1, <4>2, <4>3 DEF AckedWrite
    <3>2. CASE \E w \in Requests : data'[o] = w /\ AckedWrite(w)' /\ object'[w] = o
      BY <3>2 DEF AckedWrite
    <3> QED
      BY <3>1, <3>2, BodyEnters
  <2>4. ASSUME NEW q \in Requests, op'[q] = "Read", status'[q] = Ok
        PROVE  \E w \in Requests : /\ AckedWrite(w)' /\ object'[w] = object'[q]
                                   /\ gotData'[q] = w
    <3>1. CASE /\ op[q] = "Read" /\ status[q] = Ok
               /\ object'[q] = object[q] /\ gotData'[q] = gotData[q]
      BY <3>1, AckedForGood DEF WholeBodies
    <3>2. CASE /\ object[q] \in Objects /\ object'[q] = object[q]
               /\ data' = data /\ data[object[q]] # None
               /\ gotData'[q] = data[object[q]]
      BY <3>2, <2>2, AckedForGood DEF StoredIsAcked
    <3> QED
      BY <2>4, <3>1, <3>2, ReadAnswered
  <2> QED
    BY <2>1, <2>3, <2>4 DEF WholeBodies
<1>3. Whole => WholeBodies
  BY DEF Whole
<1> QED
  BY <1>1, <1>2, <1>3, PTL DEF Spec

-----------------------------------------------------------------------------
(* Metadata is replaced freely, but only by uploads of the same object.    *)

LEMMA UploadForGood ==
  ASSUME Inv, [Next]_vars, NEW w \in Requests, NEW o \in Objects, UploadTo(w, o)
  PROVE  UploadTo(w, o)'
<1> USE DEF Inv, Undisturbed, CallsWellFormed, UploadTo
<1>1. ASSUME NEW r \in Requests, Start(r) PROVE UploadTo(w, o)'
  BY <1>1, NoneIsNoName DEF Start, TypeOK, CallTypeOK, Ops, ObjectOps
<1>2. ASSUME NEW r \in Requests, Serve(r) \/ WriteBody(r) PROVE UploadTo(w, o)'
  <2>1. PICK e \in Outcomes, next \in Places : Continue(r, e, next)
    BY <1>2, StepContinues
  <2> QED
    BY <2>1 DEF Continue, callVars
<1> QED
  BY <1>1, <1>2 DEF Next, vars, callVars

(* Where new metadata comes from. *)
LEMMA LabelEnters ==
  ASSUME Inv, [Next]_vars, NEW o \in Objects, meta'[o] # None
  PROVE  \/ meta'[o] = meta[o]
         \/ \E w \in Requests : meta'[o] = w /\ UploadTo(w, o)
<1> USE DEF Inv, TypeOK, MetaTypeOK, MetadataStep, SecurityStep, StorageStep, metaVars
<1>1. ASSUME NEW r \in Requests, Write(r)
      PROVE  meta'[o] = meta[o] \/ (meta'[o] = r /\ UploadTo(r, o))
  <2>1. CASE meta' = [meta EXCEPT ![object[r]] = r]
    BY <1>1, <2>1 DEF Write, UploadTo
  <2>2. CASE meta' = meta
    BY <2>2
  <2> QED
    BY <1>1, <2>1, <2>2 DEF Write, MetaWrite
<1>2. ASSUME NEW r \in Requests, Serve(r), ~Write(r) PROVE meta'[o] = meta[o]
  <2>1. CASE NewBucket(r)
    BY <2>1 DEF NewBucket, MetaNewBucket
  <2>2. CASE Read(r)
    BY <2>2 DEF Read, MetaRead
  <2>3. CASE Delete(r)
    BY <2>3 DEF Delete, MetaDelete
  <2>4. CASE DeleteBucket(r)
    BY <2>4 DEF DeleteBucket, MetaDeleteBucket, WithoutBucket
  <2> QED
    BY <1>2, <2>1, <2>2, <2>3, <2>4 DEF Serve
<1>3. ASSUME NEW r \in Requests, Start(r) \/ WriteBody(r) PROVE meta'[o] = meta[o]
  BY <1>3 DEF Start, WriteBody
<1> QED
  BY <1>1, <1>2, <1>3 DEF Next, vars

(* A Read past its first call has the metadata that was there then.        *)
LEMMA LabelGot ==
  ASSUME Inv, [Next]_vars, NEW q \in Requests, op'[q] = "Read",
         at'[q] \in {"security", "storage"} \/ status'[q] = Ok
  PROVE  /\ op[q] = "Read" /\ object'[q] = object[q] /\ object[q] \in Objects
         /\ \/ /\ at[q] \in {"security", "storage"} \/ status[q] = Ok
               /\ gotMeta'[q] = gotMeta[q]
            \/ /\ meta[object[q]] # None
               /\ gotMeta'[q] = meta[object[q]]
<1> USE DEF Inv, Undisturbed, TypeOK
<1>1. ASSUME NEW r \in Requests, Start(r)
      PROVE  /\ op[q] = "Read" /\ object'[q] = object[q]
             /\ at[q] \in {"security", "storage"} \/ status[q] = Ok
             /\ gotMeta'[q] = gotMeta[q]
  BY <1>1 DEF Start, CallsWellFormed, CallTypeOK, got
<1>2. ASSUME NEW r \in Requests, Serve(r) \/ WriteBody(r), r # q
      PROVE  /\ op[q] = "Read" /\ object'[q] = object[q]
             /\ at[q] \in {"security", "storage"} \/ status[q] = Ok
             /\ gotMeta'[q] = gotMeta[q]
  <2>1. PICK e \in Outcomes, next \in Places : Continue(r, e, next)
    BY <1>2, StepContinues
  <2>2. gotMeta'[q] = gotMeta[q]
    BY <1>2 DEF Serve, NewBucket, Write, WriteBody, Read, Delete, DeleteBucket, got,
                GotTypeOK
  <2> QED
    BY <1>2, <2>1, <2>2 DEF Continue, callVars, CallTypeOK
<1>3. ASSUME Serve(q) \/ WriteBody(q)
      PROVE  /\ op[q] = "Read" /\ object'[q] = object[q]
             /\ \/ /\ at[q] \in {"security", "storage"}
                   /\ gotMeta'[q] = gotMeta[q]
                \/ /\ meta[object[q]] # None
                   /\ gotMeta'[q] = meta[object[q]]
  <2>1. op[q] = "Read" /\ object'[q] = object[q]
    BY <1>3, StepContinues DEF Continue, callVars
  <2>2. Read(q)
    BY <1>3, <2>1 DEF Serve, NewBucket, Write, WriteBody, Delete, DeleteBucket
  <2>3. PICK e \in Outcomes :
          \/ /\ MetaRead(object[q], e) /\ MetadataStep(q, e)
             /\ gotMeta' = [gotMeta EXCEPT ![q] = meta[object[q]]]
          \/ SecurityStep(q, e) /\ UNCHANGED gotMeta
          \/ StorageStep(q, e, "done") /\ UNCHANGED gotMeta
    BY <2>2 DEF Read
  <2>4. CASE /\ MetaRead(object[q], e) /\ MetadataStep(q, e)
             /\ gotMeta' = [gotMeta EXCEPT ![q] = meta[object[q]]]
    <3>1. e = Ok
      BY <2>4 DEF MetadataStep, Continue, CallTypeOK
    <3>2. meta[object[q]] # None
      BY <2>4, <3>1 DEF MetaRead, Ok, BucketDoesNotExist
    <3> QED
      BY <2>1, <2>4, <3>2 DEF GotTypeOK
  <2>5. CASE (SecurityStep(q, e) \/ StorageStep(q, e, "done")) /\ UNCHANGED gotMeta
    BY <2>1, <2>5 DEF SecurityStep, StorageStep
  <2> QED
    BY <2>3, <2>4, <2>5
<1>4. op[q] = "Read" => object[q] \in Objects
  BY DEF CallsWellFormed, ObjectOps
<1>5. CASE UNCHANGED vars
  BY <1>4, <1>5 DEF vars, callVars, got
<1> QED
  BY <1>1, <1>2, <1>3, <1>4, <1>5 DEF Next

LEMMA StepLabels ==
  ASSUME Inv, LabelsOfUploads, [Next]_vars
  PROVE  LabelsOfUploads'
<1>1. ASSUME NEW o \in Objects, meta'[o] # None PROVE UploadTo(meta[o], o)'
  <2>1. PICK w \in Requests : meta'[o] = w /\ UploadTo(w, o)
    <3>1. CASE meta'[o] = meta[o]
      BY <1>1, <3>1 DEF LabelsOfUploads, Inv, TypeOK, MetaTypeOK, Entry
    <3> QED
      BY <1>1, <3>1, LabelEnters
  <2>2. UploadTo(w, o)'
    BY <2>1, UploadForGood
  <2> QED
    BY <2>1, <2>2 DEF UploadTo
<1>2. ASSUME NEW q \in Requests, op'[q] = "Read",
             at'[q] \in {"security", "storage"} \/ status'[q] = Ok
      PROVE  Labelled(q)'
  <2>1. object'[q] = object[q] /\ object[q] \in Objects
    BY <1>2, LabelGot
  <2>2. PICK w \in Requests : UploadTo(w, object[q]) /\ gotMeta'[q] = w
    BY <1>2, LabelGot
    DEF LabelsOfUploads, Labelled, Inv, TypeOK, MetaTypeOK, Entry
  <2>3. UploadTo(w, object[q])'
    <3>1. PICK o \in Objects : o = object[q]
      BY <2>1
    <3>2. UploadTo(w, o)'
      BY <2>2, <3>1, UploadForGood
    <3> QED
      BY <2>1, <3>1, <3>2 DEF UploadTo
  <2> QED
    BY <2>1, <2>2, <2>3 DEF Labelled, UploadTo
<1> QED
  BY <1>1, <1>2 DEF LabelsOfUploads

LEMMA LabelsInit == Init => LabelsOfUploads
BY NoneIsNoName DEF Init, MetaInit, LabelsOfUploads, Ops, ObjectOps

LEMMA AlwaysLabelled == Spec => []LabelsOfUploads
<1>1. Inv /\ LabelsOfUploads /\ [Next]_vars => LabelsOfUploads'
  BY StepLabels
<1> QED
  BY LabelsInit, <1>1, AlwaysInv, PTL DEF Spec

(* As long as nobody asks to remove an object, it has the body of the one  *)
(* upload that was acknowledged.  An upload of another length is another.  *)
LEMMA AckedIsStored ==
  ASSUME Inv, NEW o \in Objects, NeverRemoved(o), NEW w \in Requests,
         UploadTo(w, o), AckedWrite(w)
  PROVE  data[o] = w
BY DEF Inv, Undisturbed, CallUndisturbed, UploadTo, AckedWrite

LEMMA OwnLengthFits == \A w : Fits(w, w)
BY DEF Fits

(* An upload that was answered 200 stays in the stores, under the key its  *)
(* body was encrypted with, until someone asks to delete it or its bucket, *)
(* whatever uploads, reads and bucket creations run at the same time; only *)
(* an upload that was not acknowledged can replace the length it is        *)
(* downloaded with by a wrong one.                                         *)
THEOREM AckedFilesLive == Spec => []AckedFileLives
<1>1. Inv /\ LabelsOfUploads => AckedFileLives
  <2> SUFFICES ASSUME Inv, LabelsOfUploads, NEW w \in Requests, AckedWrite(w),
                      NEW o, o = object[w], NeverRemoved(o)
               PROVE  Stored(o, w) /\ (Fits(meta[o], w) \/ Misleads(meta[o], o, w))
    BY DEF AckedFileLives
  <2>1. o \in Objects /\ UploadTo(w, o)
    BY DEF Inv, Undisturbed, AckedWrite, CallsWellFormed, ObjectOps, UploadTo
  <2>2. data[o] = w
    BY <2>1, AckedIsStored
  <2>3. StoresUndisturbed(o) /\ StorageInBuckets
    BY <2>1 DEF Inv, Undisturbed
  <2>4. Stored(o, w)
    BY <2>1, <2>2, <2>3, NoneAssumption
    DEF Stored, StoresUndisturbed, StorageInBuckets
  <2>5. PICK u \in Requests : u = meta[o] /\ UploadTo(u, o)
    BY <2>1, <2>4
    DEF Stored, LabelsOfUploads, Inv, TypeOK, MetaTypeOK, Entry
  <2>6. AckedWrite(u) => u = w
    BY <2>1, <2>2, <2>5, AckedIsStored
  <2> QED
    BY <2>4, <2>5, <2>6, OwnLengthFits DEF Misleads
<1> QED
  BY AlwaysInv, AlwaysLabelled, <1>1, PTL

(* A Read answered 200 has got a whole acknowledged body of its object,    *)
(* and only another upload of that object can make its reply break.        *)
THEOREM RepliesBrokenByUploads == Spec => []BrokenOnlyByUpload
<1>1. Inv /\ WholeBodies /\ LabelsOfUploads => BrokenOnlyByUpload
  <2> SUFFICES ASSUME Inv, WholeBodies, LabelsOfUploads, NEW r \in Requests,
                      op[r] = "Read", status[r] = Ok,
                      ~Fits(gotMeta[r], gotData[r])
               PROVE  \E u \in Requests \ {gotData[r]} :
                        /\ UploadTo(u, object[r]) /\ ~Fits(u, gotData[r])
                        /\ NeverRemoved(object[r]) => ~AckedWrite(u)
    BY DEF BrokenOnlyByUpload
  <2>1. PICK o \in Objects : o = object[r]
    BY DEF Inv, Undisturbed, CallsWellFormed, ObjectOps
  <2>2. PICK w \in Requests : AckedWrite(w) /\ object[w] = o /\ gotData[r] = w
    BY <2>1 DEF WholeBodies
  <2>3. PICK u \in Requests : UploadTo(u, o) /\ gotMeta[r] = u
    BY <2>1 DEF LabelsOfUploads, Labelled
  <2>4. NeverRemoved(o) /\ AckedWrite(u) => u = w
    BY <2>2, <2>3, AckedIsStored DEF UploadTo, AckedWrite
  <2> QED
    BY <2>1, <2>2, <2>3, <2>4, OwnLengthFits
<1> QED
  BY <1>1, AlwaysInv, AlwaysWhole, AlwaysLabelled, PTL

-----------------------------------------------------------------------------
(* The calls of each object operation: what they find, what they change,   *)
(* and how the handler goes on.  A call changes one of stores, or none     *)
(* when the request is refused.                                            *)

LEMMA StepUnchanged ==
  ASSUME Inv, NEW r \in Requests, Serve(r) \/ WriteBody(r)
  PROVE  /\ InFlight(r) /\ UNCHANGED callVars
         /\ \A q \in Requests \ {r} :
              /\ at'[q] = at[q] /\ status'[q] = status[q]
              /\ gotMeta'[q] = gotMeta[q]
              /\ gotKey'[q] = gotKey[q] /\ gotData'[q] = gotData[q]
<1> USE DEF Inv, TypeOK
<1>1. InFlight(r) /\ UNCHANGED callVars
      /\ \A q \in Requests \ {r} : at'[q] = at[q] /\ status'[q] = status[q]
  BY StepContinues DEF Continue, CallTypeOK
<1>2. \A q \in Requests \ {r} : /\ gotMeta'[q] = gotMeta[q]
                                /\ gotKey'[q] = gotKey[q] /\ gotData'[q] = gotData[q]
  BY DEF Serve, NewBucket, Write, WriteBody, Read, Delete, DeleteBucket, got,
         GotTypeOK
<1> QED
  BY <1>1, <1>2

stores == <<metaBuckets, meta, secBuckets, encKey, storageBuckets, data>>
GoesOn(r, p) == at'[r] = p /\ status'[r] = None
Succeeds(r) == at'[r] = "done" /\ status'[r] = Ok
IsRefused(r) == at'[r] = "done" /\ status'[r] \notin {Ok, None} /\ UNCHANGED stores

LEMMA Continues ==
  ASSUME CallTypeOK, NEW r \in Requests, NEW e \in Outcomes, NEW next,
         Continue(r, e, next)
  PROVE  /\ e # Ok => at'[r] = "done" /\ status'[r] \notin {Ok, None}
         /\ e = Ok /\ next = "done" => Succeeds(r)
         /\ e = Ok /\ next # "done" => GoesOn(r, next)
BY NoneIsNoName DEF CallTypeOK, Continue, Succeeds, GoesOn, Outcomes

LEMMA WriteEffect ==
  ASSUME Inv, NEW r \in Requests, Write(r) \/ WriteBody(r), NEW o, o = object[r]
  PROVE  \/ /\ at[r] = "metadata" /\ GoesOn(r, "security")
            /\ BucketOf[o] \in metaBuckets /\ meta' = [meta EXCEPT ![o] = r]
            /\ UNCHANGED <<metaBuckets, secBuckets, encKey, storageBuckets, data>>
         \/ /\ at[r] = "security" /\ GoesOn(r, "storage")
            /\ encKey[o] = None /\ encKey' = [encKey EXCEPT ![o] = r]
            /\ UNCHANGED <<metaBuckets, meta, secBuckets, storageBuckets, data>>
         \/ at[r] = "storage" /\ GoesOn(r, "body") /\ UNCHANGED stores
         \/ /\ at[r] = "body" /\ Succeeds(r)
            /\ data[o] = None /\ data' = [data EXCEPT ![o] = r]
            /\ UNCHANGED <<metaBuckets, meta, secBuckets, encKey, storageBuckets>>
         \/ IsRefused(r)
<1> USE DEF Inv, TypeOK, stores, IsRefused
<1>1. ASSUME NEW e \in Outcomes, MetaWrite(object[r], r, e) /\ MetadataStep(r, e)
      PROVE  \/ /\ at[r] = "metadata" /\ GoesOn(r, "security")
                /\ BucketOf[o] \in metaBuckets /\ meta' = [meta EXCEPT ![o] = r]
                /\ UNCHANGED <<metaBuckets, secBuckets, encKey, storageBuckets, data>>
             \/ IsRefused(r)
  BY <1>1, Continues DEF MetaWrite, MetadataStep, metaVars, secVars, storageVars
<1>2. ASSUME NEW e \in Outcomes, SecWriteKey(object[r], r, e) /\ SecurityStep(r, e)
      PROVE  \/ /\ at[r] = "security" /\ GoesOn(r, "storage")
                /\ encKey[o] = None /\ encKey' = [encKey EXCEPT ![o] = r]
                /\ UNCHANGED <<metaBuckets, meta, secBuckets, storageBuckets, data>>
             \/ IsRefused(r)
  BY <1>2, Continues DEF SecWriteKey, SecurityStep, metaVars, secVars, storageVars
<1>3. ASSUME NEW e \in Outcomes,
             StorageWrite(object[r], r, e) /\ StorageStep(r, e, "body")
      PROVE  \/ at[r] = "storage" /\ GoesOn(r, "body") /\ UNCHANGED stores
             \/ IsRefused(r)
  BY <1>3, Continues DEF StorageWrite, StorageStep, metaVars, secVars, storageVars
<1>4. CASE WriteBody(r)
  <2>1. data[o] = None
    BY <1>4 DEF WriteBody, Undisturbed, BodyUnderMutex
  <2> QED
    BY <1>4, <2>1, Continues DEF WriteBody, StorageWriteBody, metaVars, secVars
<1> QED
  BY <1>1, <1>2, <1>3, <1>4 DEF Write

LEMMA ReadEffect ==
  ASSUME Inv, NEW r \in Requests, Read(r), NEW o, o = object[r]
  PROVE  /\ UNCHANGED stores
         /\ \/ at[r] = "metadata" /\ GoesOn(r, "security") /\ meta[o] # None
            \/ /\ at[r] = "security" /\ GoesOn(r, "storage")
               /\ encKey[o] # None /\ gotKey'[r] = encKey[o]
            \/ /\ at[r] = "storage" /\ Succeeds(r) /\ data[o] # None
               /\ gotData'[r] = data[o] /\ gotKey'[r] = gotKey[r]
            \/ /\ IsRefused(r)
               /\ \/ at[r] = "metadata" /\ meta[o] = None
                  \/ at[r] = "security" /\ encKey[o] = None
                  \/ at[r] = "storage" /\ data[o] = None
<1> USE DEF Inv, TypeOK, GotTypeOK, Undisturbed, Read, stores, IsRefused
<1>0. object[r] \in Objects
  BY DEF CallsWellFormed, ObjectOps
<1>1. ASSUME NEW e \in Outcomes, MetaRead(object[r], e) /\ MetadataStep(r, e)
      PROVE  /\ UNCHANGED stores
             /\ \/ at[r] = "metadata" /\ GoesOn(r, "security") /\ meta[o] # None
                \/ IsRefused(r) /\ at[r] = "metadata" /\ meta[o] = None
  BY <1>0, <1>1, Continues
  DEF MetaRead, MetadataStep, MetaInBuckets, metaVars, secVars, storageVars
<1>2. ASSUME NEW e \in Outcomes, SecReadKey(object[r], e) /\ SecurityStep(r, e),
             gotKey' = [gotKey EXCEPT ![r] = encKey[object[r]]]
      PROVE  /\ UNCHANGED stores
             /\ \/ /\ at[r] = "security" /\ GoesOn(r, "storage")
                   /\ encKey[o] # None /\ gotKey'[r] = encKey[o]
                \/ IsRefused(r) /\ at[r] = "security" /\ encKey[o] = None
  BY <1>0, <1>2, Continues
  DEF SecReadKey, SecurityStep, SecInBuckets, metaVars, secVars, storageVars
<1>3. ASSUME NEW e \in Outcomes,
             StorageRead(object[r], e) /\ StorageStep(r, e, "done"),
             gotData' = [gotData EXCEPT ![r] = data[object[r]]], UNCHANGED gotKey
      PROVE  /\ UNCHANGED stores
             /\ \/ /\ at[r] = "storage" /\ Succeeds(r) /\ data[o] # None
                   /\ gotData'[r] = data[o] /\ gotKey'[r] = gotKey[r]
                \/ IsRefused(r) /\ at[r] = "storage" /\ data[o] = None
  BY <1>0, <1>3, Continues
  DEF StorageRead, StorageStep, StorageInBuckets, metaVars, secVars, storageVars
<1> QED
  BY <1>1, <1>2, <1>3

LEMMA DeleteEffect ==
  ASSUME Inv, NEW r \in Requests, Delete(r), NEW o, o = object[r]
  PROVE  \/ /\ at[r] = "metadata" /\ GoesOn(r, "security")
            /\ meta[o] # None /\ meta' = [meta EXCEPT ![o] = None]
            /\ UNCHANGED <<metaBuckets, secBuckets, encKey, storageBuckets, data>>
         \/ /\ at[r] = "security" /\ GoesOn(r, "storage")
            /\ encKey' = [encKey EXCEPT ![o] = None]
            /\ UNCHANGED <<metaBuckets, meta, secBuckets, storageBuckets, data>>
         \/ /\ at[r] = "storage" /\ Succeeds(r)
            /\ data[o] # None /\ data' = [data EXCEPT ![o] = None]
            /\ UNCHANGED <<metaBuckets, meta, secBuckets, encKey, storageBuckets>>
         \/ /\ IsRefused(r)
            /\ \/ at[r] = "metadata" /\ meta[o] = None
               \/ at[r] = "security" /\ encKey[o] = None
               \/ at[r] = "storage" /\ data[o] = None
<1> USE DEF Inv, TypeOK, Undisturbed, Delete, stores, IsRefused
<1>0. object[r] \in Objects
  BY DEF CallsWellFormed, ObjectOps
<1>1. ASSUME NEW e \in Outcomes, MetaDelete(object[r], e) /\ MetadataStep(r, e)
      PROVE  \/ /\ at[r] = "metadata" /\ GoesOn(r, "security")
                /\ meta[o] # None /\ meta' = [meta EXCEPT ![o] = None]
                /\ UNCHANGED <<metaBuckets, secBuckets, encKey, storageBuckets, data>>
             \/ IsRefused(r) /\ at[r] = "metadata" /\ meta[o] = None
  BY <1>0, <1>1, Continues
  DEF MetaDelete, MetadataStep, MetaInBuckets, metaVars, secVars, storageVars
<1>2. ASSUME NEW e \in Outcomes, SecDeleteKey(object[r], e) /\ SecurityStep(r, e)
      PROVE  \/ /\ at[r] = "security" /\ GoesOn(r, "storage")
                /\ encKey' = [encKey EXCEPT ![o] = None]
                /\ UNCHANGED <<metaBuckets, meta, secBuckets, storageBuckets, data>>
             \/ IsRefused(r) /\ at[r] = "security" /\ encKey[o] = None
  BY <1>0, <1>2, Continues
  DEF SecDeleteKey, SecurityStep, SecInBuckets, metaVars, secVars, storageVars
<1>3. ASSUME NEW e \in Outcomes,
             StorageDelete(object[r], e) /\ StorageStep(r, e, "done")
      PROVE  \/ /\ at[r] = "storage" /\ Succeeds(r)
                /\ data[o] # None /\ data' = [data EXCEPT ![o] = None]
                /\ UNCHANGED <<metaBuckets, meta, secBuckets, encKey, storageBuckets>>
             \/ IsRefused(r) /\ at[r] = "storage" /\ data[o] = None
  BY <1>0, <1>3, Continues
  DEF StorageDelete, StorageStep, StorageInBuckets, metaVars, secVars, storageVars
<1> QED
  BY <1>1, <1>2, <1>3

-----------------------------------------------------------------------------
(* Uploads of an object win it by turns: one is answered 200 when there is *)
(* no body and leaves one, and a body only goes with a removal that is     *)
(* answered 200.  Only finitely many requests have been answered at all.   *)

Acked(o) == {w \in Requests : AckedWrite(w) /\ object[w] = o}
Removals(o) == {d \in Requests : Removes(d, o) /\ status[d] = Ok}

TurnsTaken(o) ==
  /\ IsFiniteSet(Acked(o)) /\ IsFiniteSet(Removals(o))
  /\ Cardinality(Acked(o))
       <= Cardinality(Removals(o)) + (IF data[o] = None THEN 0 ELSE 1)

(* The answer to an upload fills the object, and what empties it is a      *)
(* removal that is answered 200 by the same call.                          *)
LEMMA TakesTurn ==
  ASSUME Inv, NEW r \in Requests, Serve(r) \/ WriteBody(r), NEW o \in Objects
  PROVE  /\ op[r] = "Write" /\ object[r] = o /\ status'[r] = Ok =>
              data[o] = None /\ data'[o] # None
         /\ data[o] # None /\ data'[o] = None => Removes(r, o) /\ status'[r] = Ok
<1> USE DEF Inv, TypeOK, StorageTypeOK
<1>1. CASE Write(r) \/ WriteBody(r)
  BY <1>1, WriteEffect, NoneAssumption, NoneIsNoName
  DEF Write, WriteBody, GoesOn, IsRefused, stores, Outcomes
<1>2. CASE Delete(r)
  BY <1>2, DeleteEffect DEF Delete, Removes, Succeeds, IsRefused, stores
<1>3. CASE DeleteBucket(r)
  <2>1. ASSUME NEW e \in Outcomes,
               StorageDeleteBucket(bucket[r], e) /\ StorageStep(r, e, "done"),
               data'[o] # data[o]
        PROVE  Removes(r, o) /\ status'[r] = Ok
    BY <1>3, <2>1, Continues
    DEF StorageDeleteBucket, StorageStep, WithoutBucket, DeleteBucket, Removes,
        Succeeds, storageVars
  <2> QED
    BY <1>3, <2>1 DEF DeleteBucket, MetadataStep, SecurityStep, storageVars
<1>4. CASE NewBucket(r)
  BY <1>4 DEF NewBucket, MetadataStep, SecurityStep, StorageNewBucket, storageVars
<1>5. CASE Read(r)
  BY <1>5, ReadEffect DEF Read, stores
<1> QED
  BY <1>1, <1>2, <1>3, <1>4, <1>5 DEF Serve

LEMMA TurnsKept ==
  ASSUME Inv, [Next]_vars, NEW o \in Objects, TurnsTaken(o)
  PROVE  TurnsTaken(o)'
<1> USE DEF Inv, Undisturbed
<1>1. ASSUME Acked(o)' = Acked(o), Removals(o)' = Removals(o), data'[o] = data[o]
      PROVE  TurnsTaken(o)'
  BY <1>1 DEF TurnsTaken
<1>2. ASSUME NEW r \in Requests, Start(r) PROVE TurnsTaken(o)'
  <2>1. /\ status' = status /\ data' = data /\ status[r] # Ok
        /\ \A q \in Requests \ {r} : /\ op'[q] = op[q] /\ bucket'[q] = bucket[q]
                                     /\ object'[q] = object[q]
    BY <1>2 DEF Start, CallsWellFormed, TypeOK, CallTypeOK, storageVars
  <2> QED
    BY <1>1, <2>1 DEF Acked, Removals, AckedWrite, Removes
<1>3. ASSUME NEW r \in Requests, Serve(r) \/ WriteBody(r) PROVE TurnsTaken(o)'
  <2>1. /\ UNCHANGED callVars /\ status[r] # Ok
        /\ \A q \in Requests \ {r} : status'[q] = status[q]
    BY <1>3, StepUnchanged DEF CallsWellFormed, InFlight
  <2> DEFINE wins == op[r] = "Write" /\ object[r] = o /\ status'[r] = Ok
             empties == Removes(r, o) /\ status'[r] = Ok
  <2>2. /\ r \notin Acked(o)
        /\ Acked(o)' = IF wins THEN Acked(o) \cup {r} ELSE Acked(o)
    BY <2>1 DEF Acked, AckedWrite, callVars
  <2>3. /\ r \notin Removals(o)
        /\ Removals(o)' = IF empties THEN Removals(o) \cup {r} ELSE Removals(o)
    BY <2>1 DEF Removals, Removes, callVars
  <2>4. ~(wins /\ empties)
    BY DEF Removes
  <2>5. /\ IsFiniteSet(Acked(o)') /\ Cardinality(Acked(o)) \in Nat
        /\ Cardinality(Acked(o)') = Cardinality(Acked(o)) + (IF wins THEN 1 ELSE 0)
    <3>1. IsFiniteSet(Acked(o)) /\ Cardinality(Acked(o)) \in Nat
      BY FS_CardinalityType DEF TurnsTaken
    <3>2. /\ IsFiniteSet(Acked(o) \cup {r})
          /\ Cardinality(Acked(o) \cup {r}) = Cardinality(Acked(o)) + 1
      BY <2>2, <3>1, FS_AddElement
    <3> HIDE DEF wins
    <3> QED
      BY <2>2, <3>1, <3>2
  <2>6. /\ IsFiniteSet(Removals(o)') /\ Cardinality(Removals(o)) \in Nat
        /\ Cardinality(Removals(o)')
             = Cardinality(Removals(o)) + (IF empties THEN 1 ELSE 0)
    <3>1. IsFiniteSet(Removals(o)) /\ Cardinality(Removals(o)) \in Nat
      BY FS_CardinalityType DEF TurnsTaken
    <3>2. /\ IsFiniteSet(Removals(o) \cup {r})
          /\ Cardinality(Removals(o) \cup {r}) = Cardinality(Removals(o)) + 1
      BY <2>3, <3>1, FS_AddElement
    <3> HIDE DEF empties
    <3> QED
      BY <2>3, <3>1, <3>2
  <2>7. /\ wins => data[o] = None /\ data'[o] # None
        /\ data[o] # None /\ data'[o] = None => empties
    BY <1>3, TakesTurn
  <2>8. Cardinality(Acked(o))
          <= Cardinality(Removals(o)) + (IF data[o] = None THEN 0 ELSE 1)
    BY DEF TurnsTaken
  <2> HIDE DEF wins, empties
  <2>9. Cardinality(Acked(o)')
          <= Cardinality(Removals(o)') + (IF data'[o] = None THEN 0 ELSE 1)
    BY <2>4, <2>5, <2>6, <2>7, <2>8
  <2> QED
    BY <2>5, <2>6, <2>9 DEF TurnsTaken
<1>4. CASE UNCHANGED vars
  BY <1>1, <1>4
  DEF vars, callVars, storageVars, Acked, Removals, AckedWrite, Removes
<1> QED
  BY <1>2, <1>3, <1>4 DEF Next

(* However uploads, removals and broken connections interleave, no object  *)
(* has more uploads answered 200 than removals answered 200, plus one.     *)
THEOREM AckedInTurns == Spec => []AckedOnce
<1> DEFINE Turns == \A o \in Objects : TurnsTaken(o)
<1>1. Init => Turns
  <2> SUFFICES ASSUME Init, NEW o \in Objects PROVE TurnsTaken(o)
    OBVIOUS
  <2>1. Acked(o) = {} /\ Removals(o) = {} /\ data[o] = None
    BY NoneIsNoName
    DEF Init, StorageInit, Acked, Removals, AckedWrite, Removes, Ops, ObjectOps,
        BucketOps
  <2> QED
    BY <2>1, FS_EmptySet DEF TurnsTaken
<1>2. Inv /\ Turns /\ [Next]_vars => Turns'
  BY TurnsKept
<1>3. Turns => AckedOnce
  <2> SUFFICES ASSUME Turns, NEW o \in Objects
               PROVE  Cardinality(Acked(o)) <= 1 + Cardinality(Removals(o))
    BY DEF AckedOnce, Acked, Removals
  <2>1. Cardinality(Acked(o)) \in Nat /\ Cardinality(Removals(o)) \in Nat
    BY FS_CardinalityType DEF TurnsTaken
  <2> QED
    BY <2>1 DEF TurnsTaken
<1> HIDE DEF Turns
<1> QED
  BY <1>1, <1>2, <1>3, AlwaysInv, PTL DEF Spec
=============================================================================
