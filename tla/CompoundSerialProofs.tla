------------------------ MODULE CompoundSerialProofs ------------------------
(***************************************************************************)
(* What is proved of CompoundStore when its clients coordinate their       *)
(* deletes (SerialSpec): Reads decrypt, the three stores agree whenever    *)
(* nothing is in flight, and the whole keeps the promise of ObjectStore.   *)
(***************************************************************************)
EXTENDS CompoundStoreProofs

USE DEF Ok, BucketDoesNotExist, BucketAlreadyExists, ObjectDoesNotExists,
        ObjectAlreadyExists, NilMapPanic, BodyError

-----------------------------------------------------------------------------
(* The inductive invariant.  Between two calls of a request the stores     *)
(* disagree, and every disagreement is the work of one request that is     *)
(* still half way and will end it.                                         *)

Halfway(r) == at[r] \in {"security", "storage"}

AnsweredWhenDone == \A r \in Requests : status[r] = None <=> at[r] # "done"

(* A bucket operation past its first call has changed the stores it called *)
(* and finds the others as it expects them.                                *)
BucketCallInOrder(r) ==
  LET b == bucket[r] IN
  /\ op[r] = "NewBucket" /\ at[r] = "security" =>
       b \in metaBuckets /\ b \notin secBuckets /\ b \notin storageBuckets
  /\ op[r] = "NewBucket" /\ at[r] = "storage" =>
       b \in metaBuckets /\ b \in secBuckets /\ b \notin storageBuckets
  /\ op[r] = "DeleteBucket" /\ at[r] = "security" =>
       b \notin metaBuckets /\ b \in secBuckets /\ b \in storageBuckets
  /\ op[r] = "DeleteBucket" /\ at[r] = "storage" =>
       b \notin metaBuckets /\ b \notin secBuckets /\ b \in storageBuckets

ChangesBucket(r, b) == op[r] \in BucketOps /\ Halfway(r) /\ bucket[r] = b

BucketsInOrder ==
  /\ \A r \in Requests : BucketCallInOrder(r)
  /\ \A r, q \in Requests : \A b \in Buckets :
       ChangesBucket(r, b) /\ ChangesBucket(q, b) => r = q
  /\ \A b \in Buckets :
       \/ \E r \in Requests : ChangesBucket(r, b)
       \/ /\ b \in metaBuckets <=> b \in secBuckets
          /\ b \in secBuckets <=> b \in storageBuckets

(* A body without its key, or a key without metadata, is about to go. *)
ObjectInOrder(o) ==
  /\ data[o] # None =>
       \/ encKey[o] = data[o]
       \/ \E d \in Requests : Removes(d, o) /\ at[d] = "storage"
  /\ encKey[o] # None =>
       \/ meta[o] # None
       \/ \E d \in Requests : Removes(d, o) /\ at[d] = "security"

(* What an object operation relies on having found or left. *)
CallInOrder(r) ==
  LET o == object[r] IN
  /\ op[r] = "Write" =>
       /\ at[r] = "security" => meta[o] # None
       /\ at[r] \in {"storage", "body"} => encKey[o] = r
  /\ op[r] = "Read" =>
       /\ at[r] = "storage" => encKey[o] # None /\ gotKey[r] = encKey[o]
       /\ status[r] = Ok => gotKey[r] = gotData[r]
  /\ op[r] = "Delete" =>
       /\ Halfway(r) => meta[o] = None
       /\ at[r] = "storage" => encKey[o] = None

SerialInv ==
  /\ Inv
  /\ AnsweredWhenDone
  /\ DeletesAlone
  /\ BucketsInOrder
  /\ \A o \in Objects : ObjectInOrder(o)
  /\ \A r \in Requests : CallInOrder(r)

-----------------------------------------------------------------------------
(* What a step leaves alone.                                               *)

(* A step changes nothing of another bucket than its own. *)
LEMMA OtherBuckets ==
  ASSUME Inv, NEW r \in Requests, Serve(r) \/ WriteBody(r)
  PROVE  /\ \A o \in Objects : BucketOf[o] # bucket[r] =>
              meta'[o] = meta[o] /\ encKey'[o] = encKey[o] /\ data'[o] = data[o]
         /\ \A b \in Buckets : b # bucket[r] =>
              /\ b \in metaBuckets <=> b \in metaBuckets'
              /\ b \in secBuckets <=> b \in secBuckets'
              /\ b \in storageBuckets <=> b \in storageBuckets'
<1> USE DEF Inv, TypeOK, MetaTypeOK, SecTypeOK, StorageTypeOK, Undisturbed,
            MetadataStep, SecurityStep, StorageStep, metaVars, secVars, storageVars
<1>1. op[r] \in ObjectOps => bucket[r] = BucketOf[object[r]]
  BY DEF CallsWellFormed
<1>2. CASE NewBucket(r)
  BY <1>2 DEF NewBucket, MetaNewBucket, SecNewBucket, StorageNewBucket
<1>3. CASE Write(r)
  BY <1>1, <1>3 DEF Write, MetaWrite, SecWriteKey, StorageWrite, ObjectOps
<1>4. CASE WriteBody(r)
  BY <1>1, <1>4 DEF WriteBody, StorageWriteBody, ObjectOps
<1>5. CASE Read(r)
  BY <1>5 DEF Read, MetaRead, SecReadKey, StorageRead
<1>6. CASE Delete(r)
  BY <1>1, <1>6 DEF Delete, MetaDelete, SecDeleteKey, StorageDelete, ObjectOps
<1>7. CASE DeleteBucket(r)
  BY <1>7
  DEF DeleteBucket, MetaDeleteBucket, SecDeleteBucket, StorageDeleteBucket,
      WithoutBucket
<1> QED
  BY <1>2, <1>3, <1>4, <1>5, <1>6, <1>7 DEF Serve

(* Only the bucket operations change which buckets there are. *)
LEMMA ObjectOpsKeepBuckets ==
  ASSUME Inv, NEW r \in Requests, Serve(r) \/ WriteBody(r), op[r] \notin BucketOps
  PROVE  UNCHANGED <<metaBuckets, secBuckets, storageBuckets>>
<1> USE DEF MetadataStep, SecurityStep, StorageStep, metaVars, secVars, storageVars
<1>1. CASE Write(r)
  BY <1>1 DEF Write, MetaWrite, SecWriteKey, StorageWrite
<1>2. CASE WriteBody(r)
  BY <1>2 DEF WriteBody, StorageWriteBody
<1>3. CASE Read(r)
  BY <1>3 DEF Read, MetaRead, SecReadKey, StorageRead
<1>4. CASE Delete(r)
  BY <1>4 DEF Delete, MetaDelete, SecDeleteKey, StorageDelete
<1> QED
  BY <1>1, <1>2, <1>3, <1>4 DEF Serve, NewBucket, DeleteBucket, BucketOps

(* A request in flight meets no removal of its bucket but its own. *)
LEMMA RemovalAlone ==
  ASSUME Inv, DeletesAlone, NEW r \in Requests, InFlight(r),
         NEW o \in Objects, bucket[r] = BucketOf[o],
         NEW d \in Requests, InFlight(d), Removes(d, o)
  PROVE  d = r
<1>1. op[d] \in Deletes /\ bucket[d] = BucketOf[o]
  BY DEF Removes, Deletes, Inv, Undisturbed, CallsWellFormed, ObjectOps
<1> QED
  BY <1>1 DEF DeletesAlone

(* What holds of an object that is not being removed. *)
Settled(o) ==
  /\ data[o] # None => encKey[o] = data[o]
  /\ encKey[o] # None => meta[o] # None

LEMMA MeetsSettled ==
  ASSUME SerialInv, NEW r \in Requests, InFlight(r), NEW o \in Objects,
         bucket[r] = BucketOf[o], ~(Removes(r, o) /\ Halfway(r))
  PROVE  Settled(o)
<1>1. ASSUME NEW d \in Requests, Removes(d, o), at[d] \in {"security", "storage"}
      PROVE  FALSE
  <2>1. InFlight(d)
    BY <1>1 DEF InFlight
  <2>2. d = r
    BY <1>1, <2>1, RemovalAlone DEF SerialInv
  <2> QED
    BY <1>1, <2>2 DEF Halfway
<1> QED
  BY <1>1 DEF SerialInv, ObjectInOrder, Settled

-----------------------------------------------------------------------------
(* The calls of the bucket operations, as the invariant lets them come     *)
(* out: past the first call, none of them fails.                           *)

LEMMA NewBucketEffect ==
  ASSUME SerialInv, NEW r \in Requests, NewBucket(r), NEW b, b = bucket[r]
  PROVE  \/ /\ at[r] = "metadata" /\ b \notin metaBuckets /\ GoesOn(r, "security")
            /\ metaBuckets' = metaBuckets \cup {b}
            /\ UNCHANGED <<meta, secBuckets, encKey, storageBuckets, data>>
         \/ /\ at[r] = "metadata" /\ b \in metaBuckets /\ IsRefused(r)
         \/ /\ at[r] = "security" /\ GoesOn(r, "storage")
            /\ secBuckets' = secBuckets \cup {b}
            /\ UNCHANGED <<metaBuckets, meta, encKey, storageBuckets, data>>
         \/ /\ at[r] = "storage" /\ Succeeds(r)
            /\ storageBuckets' = storageBuckets \cup {b}
            /\ UNCHANGED <<metaBuckets, meta, secBuckets, encKey, data>>
<1> USE DEF SerialInv, Inv, TypeOK, NewBucket
<1>0. /\ at[r] = "security" => b \notin secBuckets
      /\ at[r] = "storage" => b \notin storageBuckets
  BY DEF BucketsInOrder, BucketCallInOrder
<1>1. ASSUME NEW e \in Outcomes, MetaNewBucket(bucket[r], e) /\ MetadataStep(r, e)
      PROVE  \/ /\ at[r] = "metadata" /\ b \notin metaBuckets /\ GoesOn(r, "security")
                /\ metaBuckets' = metaBuckets \cup {b}
                /\ UNCHANGED <<meta, secBuckets, encKey, storageBuckets, data>>
             \/ /\ at[r] = "metadata" /\ b \in metaBuckets /\ IsRefused(r)
  BY <1>1, Continues
  DEF MetaNewBucket, MetadataStep, metaVars, secVars, storageVars, stores, IsRefused
<1>2. ASSUME NEW e \in Outcomes, SecNewBucket(bucket[r], e) /\ SecurityStep(r, e)
      PROVE  /\ at[r] = "security" /\ GoesOn(r, "storage")
             /\ secBuckets' = secBuckets \cup {b}
             /\ UNCHANGED <<metaBuckets, meta, encKey, storageBuckets, data>>
  BY <1>0, <1>2, Continues DEF SecNewBucket, SecurityStep, metaVars, storageVars
<1>3. ASSUME NEW e \in Outcomes,
             StorageNewBucket(bucket[r], e) /\ StorageStep(r, e, "done")
      PROVE  /\ at[r] = "storage" /\ Succeeds(r)
             /\ storageBuckets' = storageBuckets \cup {b}
             /\ UNCHANGED <<metaBuckets, meta, secBuckets, encKey, data>>
  BY <1>0, <1>3, Continues DEF StorageNewBucket, StorageStep, metaVars, secVars
<1> QED
  BY <1>1, <1>2, <1>3

LEMMA DeleteBucketEffect ==
  ASSUME SerialInv, NEW r \in Requests, DeleteBucket(r), NEW b, b = bucket[r]
  PROVE  \/ /\ at[r] = "metadata" /\ b \in metaBuckets /\ GoesOn(r, "security")
            /\ metaBuckets' = metaBuckets \ {b} /\ meta' = WithoutBucket(meta, b)
            /\ UNCHANGED <<secBuckets, encKey, storageBuckets, data>>
         \/ /\ at[r] = "metadata" /\ b \notin metaBuckets /\ IsRefused(r)
         \/ /\ at[r] = "security" /\ GoesOn(r, "storage")
            /\ secBuckets' = secBuckets \ {b} /\ encKey' = WithoutBucket(encKey, b)
            /\ UNCHANGED <<metaBuckets, meta, storageBuckets, data>>
         \/ /\ at[r] = "storage" /\ Succeeds(r)
            /\ storageBuckets' = storageBuckets \ {b}
            /\ data' = WithoutBucket(data, b)
            /\ UNCHANGED <<metaBuckets, meta, secBuckets, encKey>>
<1> USE DEF SerialInv, Inv, TypeOK, DeleteBucket
<1>0. /\ at[r] = "security" => b \in secBuckets
      /\ at[r] = "storage" => b \in storageBuckets
  BY DEF BucketsInOrder, BucketCallInOrder
<1>1. ASSUME NEW e \in Outcomes, MetaDeleteBucket(bucket[r], e) /\ MetadataStep(r, e)
      PROVE  \/ /\ at[r] = "metadata" /\ b \in metaBuckets /\ GoesOn(r, "security")
                /\ metaBuckets' = metaBuckets \ {b} /\ meta' = WithoutBucket(meta, b)
                /\ UNCHANGED <<secBuckets, encKey, storageBuckets, data>>
             \/ /\ at[r] = "metadata" /\ b \notin metaBuckets /\ IsRefused(r)
  BY <1>1, Continues
  DEF MetaDeleteBucket, MetadataStep, metaVars, secVars, storageVars, stores, IsRefused
<1>2. ASSUME NEW e \in Outcomes, SecDeleteBucket(bucket[r], e) /\ SecurityStep(r, e)
      PROVE  /\ at[r] = "security" /\ GoesOn(r, "storage")
             /\ secBuckets' = secBuckets \ {b} /\ encKey' = WithoutBucket(encKey, b)
             /\ UNCHANGED <<metaBuckets, meta, storageBuckets, data>>
  BY <1>0, <1>2, Continues DEF SecDeleteBucket, SecurityStep, metaVars, storageVars
<1>3. ASSUME NEW e \in Outcomes,
             StorageDeleteBucket(bucket[r], e) /\ StorageStep(r, e, "done")
      PROVE  /\ at[r] = "storage" /\ Succeeds(r)
             /\ storageBuckets' = storageBuckets \ {b}
             /\ data' = WithoutBucket(data, b)
             /\ UNCHANGED <<metaBuckets, meta, secBuckets, encKey>>
  BY <1>0, <1>3, Continues DEF StorageDeleteBucket, StorageStep, metaVars, secVars
<1> QED
  BY <1>1, <1>2, <1>3


-----------------------------------------------------------------------------
(* The step of a handler keeps SerialInv, part by part. *)

LEMMA AnswersKept ==
  ASSUME SerialInv, NEW r \in Requests, Serve(r) \/ WriteBody(r)
  PROVE  AnsweredWhenDone' /\ DeletesAlone'
<1> USE DEF SerialInv, Inv, TypeOK
<1>1. PICK e \in Outcomes, next \in Places : InFlight(r) /\ Continue(r, e, next)
  BY StepContinues
<1>2. AnsweredWhenDone'
  BY <1>1, NoneIsNoName DEF Continue, AnsweredWhenDone, CallTypeOK, Outcomes
<1>3. DeletesAlone'
  <2>1. \A q \in Requests : InFlight(q)' => InFlight(q)
    BY <1>1, StepUnchanged DEF InFlight
  <2> QED
    BY <2>1, StepUnchanged DEF DeletesAlone, callVars
<1> QED
  BY <1>2, <1>3

LEMMA BucketsKept ==
  ASSUME SerialInv, NEW r \in Requests, Serve(r) \/ WriteBody(r)
  PROVE  BucketsInOrder'
<1> USE DEF SerialInv, BucketsInOrder
<1>1. /\ UNCHANGED callVars /\ \A q \in Requests \ {r} : at'[q] = at[q]
      /\ \A q \in Requests \ {r}, b \in Buckets :
           ChangesBucket(q, b)' <=> ChangesBucket(q, b)
  BY StepUnchanged DEF ChangesBucket, Halfway, callVars
<1>2. CASE op[r] \notin BucketOps
  <2>1. UNCHANGED <<metaBuckets, secBuckets, storageBuckets>>
    BY <1>2, ObjectOpsKeepBuckets
  <2>2. \A b \in Buckets : ~ChangesBucket(r, b) /\ ~ChangesBucket(r, b)'
    BY <1>1, <1>2 DEF ChangesBucket, callVars
  <2>3. ASSUME NEW q \in Requests PROVE BucketCallInOrder(q)'
    BY <1>1, <1>2, <2>1 DEF BucketCallInOrder, BucketOps, callVars
  <2> QED
    BY <1>1, <2>1, <2>2, <2>3
<1>3. CASE op[r] \in BucketOps
  <2>0. PICK b \in Buckets : b = bucket[r]
    BY <1>3 DEF Inv, Undisturbed, CallsWellFormed
  <2>1. NewBucket(r) \/ DeleteBucket(r)
    BY <1>3 DEF Serve, Write, WriteBody, Read, Delete, BucketOps
  <2>2. \A c \in Buckets \ {b} : /\ c \in metaBuckets' <=> c \in metaBuckets
                                 /\ c \in secBuckets' <=> c \in secBuckets
                                 /\ c \in storageBuckets' <=> c \in storageBuckets
    BY <2>0, OtherBuckets
  <2>3. \A c \in Buckets \ {b} : ~ChangesBucket(r, c) /\ ~ChangesBucket(r, c)'
    BY <1>1, <2>0 DEF ChangesBucket, callVars
  <2> HIDE DEF BucketsInOrder
  <2>4. CASE at[r] = "metadata" /\ IsRefused(r)
    <3>1. UNCHANGED <<metaBuckets, secBuckets, storageBuckets>>
      BY <2>4 DEF IsRefused, stores
    <3>2. \A c \in Buckets : ~ChangesBucket(r, c) /\ ~ChangesBucket(r, c)'
      BY <2>4 DEF ChangesBucket, Halfway, IsRefused
    <3>3. \A q \in Requests : BucketCallInOrder(q)'
      BY <1>1, <2>4, <3>1 DEF BucketsInOrder, BucketCallInOrder, IsRefused, callVars
    <3> QED
      BY <1>1, <3>1, <3>2, <3>3 DEF BucketsInOrder
  <2>5. CASE ~(at[r] = "metadata" /\ IsRefused(r))
    <3>1. ASSUME NEW q \in Requests \ {r}, ChangesBucket(q, b) PROVE FALSE
      <4>1. at[r] = "metadata"
        BY <1>3, <2>0, <2>1, <2>5, <3>1, NewBucketEffect, DeleteBucketEffect
        DEF BucketsInOrder, ChangesBucket, Halfway
      <4>2. op[q] \notin Deletes /\ op[r] \notin Deletes
        BY <2>0, <3>1, StepUnchanged DEF DeletesAlone, ChangesBucket, Halfway, InFlight
      <4>3. b \in metaBuckets
        BY <3>1, <4>2
        DEF BucketsInOrder, BucketCallInOrder, ChangesBucket, Halfway, BucketOps,
            Deletes
      <4>4. NewBucket(r) /\ b \notin metaBuckets
        BY <2>0, <2>1, <2>5, <4>1, <4>2, NewBucketEffect DEF DeleteBucket, Deletes
      <4> QED
        BY <4>3, <4>4
    <3>2. at[r] = "metadata" => /\ b \in metaBuckets <=> b \in secBuckets
                                /\ b \in secBuckets <=> b \in storageBuckets
      BY <3>1 DEF BucketsInOrder, ChangesBucket, Halfway
    <3>3. /\ BucketCallInOrder(r)'
          /\ \/ ChangesBucket(r, b)'
             \/ /\ b \in metaBuckets' <=> b \in secBuckets'
                /\ b \in secBuckets' <=> b \in storageBuckets'
      <4>1. BucketCallInOrder(r)
        BY DEF BucketsInOrder
      <4>2. CASE NewBucket(r)
        <5>1. op'[r] = "NewBucket" /\ op[r] = "NewBucket" /\ bucket'[r] = b
          BY <1>1, <2>0, <4>2 DEF NewBucket, callVars
        <5> QED
          BY <2>0, <2>5, <3>2, <4>1, <4>2, <5>1, NewBucketEffect
          DEF BucketCallInOrder, ChangesBucket, Halfway, BucketOps, GoesOn, Succeeds
      <4>3. CASE DeleteBucket(r)
        <5>1. op'[r] = "DeleteBucket" /\ op[r] = "DeleteBucket" /\ bucket'[r] = b
          BY <1>1, <2>0, <4>3 DEF DeleteBucket, callVars
        <5> QED
          BY <2>0, <2>5, <3>2, <4>1, <4>3, <5>1, DeleteBucketEffect
          DEF BucketCallInOrder, ChangesBucket, Halfway, BucketOps, GoesOn, Succeeds
      <4> QED
        BY <2>1, <4>2, <4>3
    <3>4. ASSUME NEW q \in Requests \ {r} PROVE BucketCallInOrder(q)'
      <4>1. BucketCallInOrder(q)
        BY DEF BucketsInOrder
      <4>2. CASE ChangesBucket(q, bucket[q])
        <5>1. bucket[q] # b /\ bucket[q] \in Buckets
          BY <3>1, <4>2
          DEF ChangesBucket, Inv, Undisturbed, CallsWellFormed
        <5> QED
          BY <1>1, <2>2, <4>1, <5>1 DEF BucketCallInOrder, callVars
      <4>3. CASE ~ChangesBucket(q, bucket[q])
        BY <1>1, <4>3 DEF BucketCallInOrder, ChangesBucket, Halfway, BucketOps, callVars
      <4> QED
        BY <4>2, <4>3
    <3>5. ASSUME NEW c \in Buckets
          PROVE  \/ \E q \in Requests : ChangesBucket(q, c)'
                 \/ /\ c \in metaBuckets' <=> c \in secBuckets'
                    /\ c \in secBuckets' <=> c \in storageBuckets'
      <4>1. CASE c = b
        BY <3>3, <4>1
      <4>2. ASSUME c # b, NEW q \in Requests, ChangesBucket(q, c)
            PROVE  ChangesBucket(q, c)'
        BY <1>1, <2>3, <4>2
      <4>3. CASE c # b /\ ~\E q \in Requests : ChangesBucket(q, c)
        <5>1. /\ c \in metaBuckets <=> c \in secBuckets
              /\ c \in secBuckets <=> c \in storageBuckets
          BY <4>3 DEF BucketsInOrder
        <5> QED
          BY <2>2, <4>3, <5>1
      <4> QED
        BY <4>1, <4>2, <4>3
    <3>6. ASSUME NEW q \in Requests, NEW p \in Requests, NEW c \in Buckets,
                 ChangesBucket(q, c)', ChangesBucket(p, c)'
          PROVE  q = p
      BY <1>1, <2>3, <3>1, <3>6 DEF BucketsInOrder
    <3> QED
      BY <3>3, <3>4, <3>5, <3>6 DEF BucketsInOrder
  <2> QED
    BY <2>4, <2>5
<1> QED
  BY <1>2, <1>3

(* An upload, a Read or a new bucket leaves the objects of its bucket      *)
(* settled, as it finds them.                                              *)
LEMMA StaysSettled ==
  ASSUME SerialInv, NEW r \in Requests, Serve(r) \/ WriteBody(r),
         op[r] \notin Deletes, NEW o \in Objects, bucket[r] = BucketOf[o]
  PROVE  Settled(o)'
<1> USE DEF SerialInv, Inv
<1>1. Settled(o) /\ InFlight(r)
  BY StepUnchanged, MeetsSettled DEF Removes, Deletes
<1>2. CASE NewBucket(r)
  BY <1>1, <1>2, NewBucketEffect DEF Settled, IsRefused, stores
<1>3. CASE Write(r) \/ WriteBody(r)
  <2>1. /\ at[r] = "security" => meta[object[r]] # None
        /\ at[r] = "body" => encKey[object[r]] = r
    BY <1>3 DEF CallInOrder, Write, WriteBody
  <2> QED
    BY <1>1, <1>3, <2>1, WriteEffect, NoneAssumption
    DEF Settled, IsRefused, stores, TypeOK, MetaTypeOK, SecTypeOK, StorageTypeOK
<1>4. CASE Read(r)
  BY <1>1, <1>4, ReadEffect DEF Settled, stores
<1> QED
  BY <1>2, <1>3, <1>4 DEF Serve, Delete, DeleteBucket, Deletes

LEMMA ObjectsKept ==
  ASSUME SerialInv, NEW r \in Requests, Serve(r) \/ WriteBody(r), NEW o \in Objects
  PROVE  ObjectInOrder(o)'
<1> USE DEF SerialInv, Inv, Undisturbed
<1>1. InFlight(r) /\ UNCHANGED callVars /\ \A q \in Requests \ {r} : at'[q] = at[q]
  BY StepUnchanged
<1>2. Settled(o)' => ObjectInOrder(o)'
  BY DEF Settled, ObjectInOrder
<1>3. \A d \in Requests : Removes(d, o)' <=> Removes(d, o)
  BY <1>1 DEF Removes, callVars
<1>4. CASE bucket[r] # BucketOf[o]
  <2>1. meta'[o] = meta[o] /\ encKey'[o] = encKey[o] /\ data'[o] = data[o]
    BY <1>4, OtherBuckets
  <2>2. ~Removes(r, o)
    BY <1>4 DEF Removes, CallsWellFormed, ObjectOps
  <2> QED
    BY <1>1, <1>3, <2>1, <2>2 DEF ObjectInOrder
<1>5. CASE bucket[r] = BucketOf[o] /\ op[r] \notin Deletes
  BY <1>2, <1>5, StaysSettled
<1>6. CASE Delete(r) /\ bucket[r] = BucketOf[o]
  <2>1. CASE object[r] = o
    <3>1. Removes(r, o) /\ Removes(r, o)'
      BY <1>3, <1>6, <2>1 DEF Delete, Removes
    <3>2. at[r] = "metadata" => Settled(o)
      BY <1>1, <1>6, MeetsSettled DEF Halfway
    <3>3. Halfway(r) => meta[o] = None
      BY <1>6, <2>1 DEF CallInOrder, Delete
    <3>4. at[r] = "storage" => encKey[o] = None
      BY <1>6, <2>1 DEF CallInOrder, Delete
    <3>5. at[r] = "security" => (data[o] # None => encKey[o] = data[o])
      <4>1. ASSUME at[r] = "security", NEW d \in Requests, Removes(d, o),
                   at[d] = "storage"
            PROVE  FALSE
        BY <1>1, <1>6, <4>1, RemovalAlone DEF InFlight
      <4> QED
        BY <4>1 DEF ObjectInOrder
    <3> QED
      BY <1>6, <2>1, <3>1, <3>2, <3>3, <3>4, <3>5, DeleteEffect
      DEF Settled, ObjectInOrder, Halfway, GoesOn, IsRefused, stores, TypeOK,
          MetaTypeOK, SecTypeOK, StorageTypeOK
  <2>2. CASE object[r] # o
    <3>1. Settled(o)
      BY <1>1, <1>6, <2>2, MeetsSettled DEF Removes, Delete
    <3> QED
      BY <1>2, <1>6, <2>2, <3>1, DeleteEffect
      DEF Settled, IsRefused, stores, TypeOK, MetaTypeOK, SecTypeOK, StorageTypeOK
  <2> QED
    BY <2>1, <2>2
<1>7. CASE DeleteBucket(r) /\ bucket[r] = BucketOf[o]
  <2>1. Removes(r, o) /\ Removes(r, o)'
    BY <1>3, <1>7 DEF DeleteBucket, Removes
  <2>2. at[r] = "metadata" => Settled(o)
    BY <1>1, <1>7, MeetsSettled DEF Halfway
  <2>3. /\ Halfway(r) => BucketOf[o] \notin metaBuckets
        /\ at[r] = "storage" => BucketOf[o] \notin secBuckets
    BY <1>7 DEF BucketsInOrder, BucketCallInOrder, DeleteBucket, Halfway
  <2>4. /\ Halfway(r) => meta[o] = None
        /\ at[r] = "storage" => encKey[o] = None
    BY <2>3 DEF MetaInBuckets, SecInBuckets, Halfway
  <2>5. at[r] = "security" => (data[o] # None => encKey[o] = data[o])
    <3>1. ASSUME at[r] = "security", NEW d \in Requests, Removes(d, o),
                 at[d] = "storage"
          PROVE  FALSE
      BY <1>1, <1>7, <3>1, RemovalAlone DEF InFlight
    <3> QED
      BY <3>1 DEF ObjectInOrder
  <2> QED
    BY <1>7, <2>1, <2>2, <2>4, <2>5, DeleteBucketEffect
    DEF Settled, ObjectInOrder, Halfway, GoesOn, IsRefused, stores, WithoutBucket
<1> QED
  BY <1>4, <1>5, <1>6, <1>7
  DEF Serve, NewBucket, Write, WriteBody, Read, Delete, DeleteBucket, Deletes

(* The calls of another request find what they rely on as it was: either   *)
(* the step is in another bucket, or it removes nothing.                   *)
LEMMA OtherCallsKept ==
  ASSUME SerialInv, NEW r \in Requests, Serve(r) \/ WriteBody(r),
         NEW q \in Requests \ {r}
  PROVE  CallInOrder(q)'
<1> USE DEF SerialInv, Inv, Undisturbed
<1>1. /\ InFlight(r) /\ UNCHANGED callVars
      /\ at'[q] = at[q] /\ status'[q] = status[q]
      /\ gotKey'[q] = gotKey[q] /\ gotData'[q] = gotData[q]
  BY StepUnchanged
<1>2. CallInOrder(q) /\ (status[q] = Ok => at[q] = "done")
  BY DEF CallsWellFormed
<1>3. CASE op[q] \notin ObjectOps \/ ~InFlight(q)
  BY <1>1, <1>2, <1>3 DEF CallInOrder, Halfway, InFlight, ObjectOps, callVars
<1>4. CASE op[q] \in ObjectOps /\ InFlight(q)
  <2>1. PICK o \in Objects : o = object[q] /\ bucket[q] = BucketOf[o]
    BY <1>4 DEF CallsWellFormed
  <2>2. CASE bucket[r] # BucketOf[o]
    BY <1>1, <1>2, <2>1, <2>2, OtherBuckets DEF CallInOrder, Halfway, callVars
  <2>3. CASE bucket[r] = BucketOf[o]
    <3>1. op[q] \notin Deletes /\ op[r] \notin Deletes
      BY <1>1, <1>4, <2>1, <2>3 DEF DeletesAlone
    <3>2. StoresKeep(o)
      BY <3>1, StepKeeps DEF Removes, Deletes, Typed
    <3> QED
      BY <1>1, <1>2, <2>1, <3>1, <3>2, NoneAssumption
      DEF CallInOrder, StoresKeep, Halfway, Deletes, callVars
  <2> QED
    BY <2>2, <2>3
<1> QED
  BY <1>3, <1>4

LEMMA OwnCallKept ==
  ASSUME SerialInv, NEW r \in Requests, Serve(r) \/ WriteBody(r)
  PROVE  CallInOrder(r)'
<1> USE DEF SerialInv, Inv, Undisturbed, CallInOrder, TypeOK, MetaTypeOK, SecTypeOK
<1>1. InFlight(r) /\ UNCHANGED callVars
  BY StepUnchanged
<1>2. CASE op[r] \notin ObjectOps
  BY <1>1, <1>2 DEF ObjectOps, callVars
<1>3. CASE op[r] \in ObjectOps
  <2>1. PICK o \in Objects : o = object[r] /\ bucket[r] = BucketOf[o]
    BY <1>3 DEF CallsWellFormed
  <2>2. object'[r] = o /\ op'[r] = op[r]
    BY <1>1, <2>1 DEF callVars
  <2>3. CASE Write(r) \/ WriteBody(r)
    BY <2>1, <2>2, <2>3, WriteEffect, NoneAssumption
    DEF Write, WriteBody, GoesOn, Succeeds, IsRefused, stores
  <2>4. CASE Read(r)
    <3>1. Settled(o)
      BY <1>1, <2>1, <2>4, MeetsSettled DEF Removes, Read
    <3>2. op[r] = "Read" /\ (at[r] = "storage" => gotKey[r] = encKey[o])
      BY <2>1, <2>4 DEF Read
    <3>3. UNCHANGED stores
      BY <2>4, ReadEffect
    <3>4. /\ at'[r] = "storage" => encKey[o] # None /\ gotKey'[r] = encKey[o]
          /\ status'[r] = Ok => gotKey'[r] = gotData'[r]
      BY <2>1, <2>4, <3>1, <3>2, ReadEffect, NoneIsNoName
      DEF Settled, GoesOn, Succeeds, IsRefused, Outcomes
    <3> QED
      BY <2>2, <3>2, <3>3, <3>4 DEF stores
  <2>5. CASE Delete(r)
    BY <2>1, <2>2, <2>5, DeleteEffect
    DEF Delete, GoesOn, Succeeds, IsRefused, stores, Halfway
  <2> QED
    BY <1>3, <2>3, <2>4, <2>5
    DEF Serve, NewBucket, DeleteBucket, ObjectOps
<1> QED
  BY <1>2, <1>3

-----------------------------------------------------------------------------
(* SerialInv is an invariant of coordinated deletes. *)

LEMMA SerialInit == Init => SerialInv
<1> SUFFICES ASSUME Init PROVE SerialInv
  OBVIOUS
<1>1. Inv
  BY InvInit
<1>2. AnsweredWhenDone /\ DeletesAlone
  BY DEF Init, AnsweredWhenDone, DeletesAlone, InFlight
<1>3. BucketsInOrder
  BY DEF Init, MetaInit, SecInit, StorageInit, BucketsInOrder, BucketCallInOrder,
         ChangesBucket, Halfway
<1>4. (\A o \in Objects : ObjectInOrder(o)) /\ \A r \in Requests : CallInOrder(r)
  BY NoneIsNoName
  DEF Init, SecInit, StorageInit, ObjectInOrder, CallInOrder, Halfway, Outcomes
<1> QED
  BY <1>1, <1>2, <1>3, <1>4 DEF SerialInv

LEMMA SerialStart ==
  ASSUME SerialInv, NEW r \in Requests, Start(r), DeletesAlone'
  PROVE  SerialInv'
<1> USE DEF SerialInv
<1>1. Inv'
  BY InvStart
<1>2. /\ UNCHANGED <<metaVars, secVars, storageVars, status, got>>
      /\ at[r] = "idle" /\ at' = [at EXCEPT ![r] = "metadata"]
      /\ op[r] = None /\ status[r] = None
      /\ \A q \in Requests \ {r} : /\ op'[q] = op[q] /\ bucket'[q] = bucket[q]
                                   /\ object'[q] = object[q]
  BY DEF Start, Inv, TypeOK, CallTypeOK, Undisturbed, CallsWellFormed,
         AnsweredWhenDone
<1>3. at'[r] = "metadata" /\ \A q \in Requests \ {r} : at'[q] = at[q]
  BY <1>2 DEF Inv, TypeOK, CallTypeOK
<1> USE <1>2, <1>3
    DEF metaVars, secVars, storageVars, got
<1> HIDE DEF SerialInv
<1>4. AnsweredWhenDone'
  BY DEF SerialInv, AnsweredWhenDone
<1>5. BucketsInOrder'
  <2>1. \A q \in Requests, b \in Buckets : ChangesBucket(q, b)' <=> ChangesBucket(q, b)
    BY DEF ChangesBucket, Halfway
  <2>2. \A q \in Requests : BucketCallInOrder(q)'
    BY DEF SerialInv, BucketsInOrder, BucketCallInOrder
  <2> QED
    BY <2>1, <2>2 DEF SerialInv, BucketsInOrder
<1>6. ASSUME NEW o \in Objects PROVE ObjectInOrder(o)'
  <2>1. ASSUME NEW d \in Requests, Removes(d, o), Halfway(d)
        PROVE  Removes(d, o)' /\ at'[d] = at[d]
    BY <2>1 DEF Removes, Halfway
  <2> QED
    BY <2>1 DEF SerialInv, ObjectInOrder, Halfway
<1>7. ASSUME NEW q \in Requests PROVE CallInOrder(q)'
  <2>1. CASE q = r
    BY <2>1, NoneIsNoName DEF CallInOrder, Halfway, Outcomes
  <2>2. CASE q # r
    BY <2>2 DEF SerialInv, CallInOrder, Halfway
  <2> QED
    BY <2>1, <2>2
<1> QED
  BY <1>1, <1>4, <1>5, <1>6, <1>7 DEF SerialInv

LEMMA SerialStep ==
  ASSUME SerialInv, NEW r \in Requests, Serve(r) \/ WriteBody(r)
  PROVE  SerialInv'
<1>1. Inv'
  BY InvStep DEF SerialInv
<1>2. AnsweredWhenDone' /\ DeletesAlone' /\ BucketsInOrder'
  BY AnswersKept, BucketsKept
<1>3. \A o \in Objects : ObjectInOrder(o)'
  BY ObjectsKept
<1>4. \A q \in Requests : CallInOrder(q)'
  BY OwnCallKept, OtherCallsKept
<1> QED
  BY <1>1, <1>2, <1>3, <1>4 DEF SerialInv

LEMMA SerialStutter == SerialInv /\ UNCHANGED vars => SerialInv'
<1> SUFFICES ASSUME SerialInv, UNCHANGED vars PROVE SerialInv'
  OBVIOUS
<1>1. UNCHANGED <<metaVars, secVars, storageVars, callVars, at, status, got>>
  BY DEF vars
<1> USE <1>1 DEF SerialInv, metaVars, secVars, storageVars, callVars, got
<1>2. Inv'
  BY InvStutter
<1>3. AnsweredWhenDone' /\ DeletesAlone'
  BY DEF AnsweredWhenDone, DeletesAlone, InFlight
<1>4. BucketsInOrder'
  BY DEF BucketsInOrder, BucketCallInOrder, ChangesBucket, Halfway
<1>5. \A o \in Objects : ObjectInOrder(o)'
  BY DEF ObjectInOrder, Removes
<1>6. \A r \in Requests : CallInOrder(r)'
  BY DEF CallInOrder, Halfway
<1> QED
  BY <1>2, <1>3, <1>4, <1>5, <1>6

LEMMA AlwaysSerial == SerialSpec => []SerialInv
<1>1. SerialInv /\ [SerialNext]_vars => SerialInv'
  BY SerialStart, SerialStep, SerialStutter DEF SerialNext
<1> QED
  BY SerialInit, <1>1, PTL DEF SerialSpec

(* With coordinated deletes a Read answered 200 decrypts with the key of   *)
(* the body it returns, although the key and the body were collected by    *)
(* two calls with other requests in between.                               *)
THEOREM SerialReadsDecrypt == SerialSpec => []ReadsDecrypt
<1>1. SerialInv => ReadsDecrypt
  BY DEF SerialInv, CallInOrder, ReadsDecrypt
<1> QED
  BY AlwaysSerial, <1>1, PTL

(* With coordinated deletes, whatever was refused or broke off half way:   *)
(* when nothing is in flight the three stores have the same buckets, and   *)
(* every stored body has its key and its metadata.                         *)
THEOREM SerialStoresAgree == SerialSpec => []QuietStoresAgree
<1>1. SerialInv => QuietStoresAgree
  <2> SUFFICES ASSUME SerialInv, \A r \in Requests : ~InFlight(r)
               PROVE  /\ metaBuckets = secBuckets /\ secBuckets = storageBuckets
                      /\ \A o \in Objects : data[o] # None =>
                           encKey[o] = data[o] /\ meta[o] # None
    BY DEF QuietStoresAgree
  <2>1. \A r \in Requests : ~Halfway(r)
    BY DEF InFlight, Halfway
  <2>2. \A b \in Buckets : /\ b \in metaBuckets <=> b \in secBuckets
                           /\ b \in secBuckets <=> b \in storageBuckets
    BY <2>1 DEF SerialInv, BucketsInOrder, ChangesBucket
  <2>3. metaBuckets = secBuckets /\ secBuckets = storageBuckets
    BY <2>2 DEF SerialInv, Inv, TypeOK, MetaTypeOK, SecTypeOK, StorageTypeOK
  <2>4. \A o \in Objects : data[o] # None => encKey[o] = data[o] /\ meta[o] # None
    BY <2>1 DEF SerialInv, ObjectInOrder, Halfway
  <2> QED
    BY <2>3, <2>4
<1> QED
  BY AlwaysSerial, <1>1, PTL

-----------------------------------------------------------------------------
(* CompoundStore implements ObjectStore under the mapping of Promise.  The *)
(* file of an object is its body while it has metadata; the answer of a    *)
(* request is settled when it takes effect, which for NewBucket and the    *)
(* deletes is their first call, two calls before they are answered.        *)

File(o) == IF meta[o] = None THEN None ELSE data[o]
Files == [o \in Objects |-> File(o)]
Answers == [r \in Requests |-> Answer(r)]

(* What a request has been promised, by where it is.                       *)
LEMMA AnswerNow ==
  ASSUME SerialInv, NEW r \in Requests, op[r] # None
  PROVE  /\ at[r] \in {"metadata", "body"} => Answer(r) = None
         /\ Halfway(r) =>
              Answer(r) = IF op[r] \in BucketOps THEN Ok
                          ELSE IF op[r] = "Delete"
                          THEN IF data[object[r]] = None THEN "refused" ELSE Ok
                          ELSE None
         /\ at[r] = "done" =>
              Answer(r) = IF status[r] # Ok THEN "refused"
                          ELSE IF op[r] = "Read" THEN Reply(r) ELSE Ok
<1> USE DEF Answer, Halfway
<1>1. op[r] \in Ops /\ (status[r] = None <=> at[r] # "done")
  BY DEF SerialInv, AnsweredWhenDone, Inv, TypeOK, CallTypeOK
<1>3. ASSUME at[r] \in {"metadata", "body"} PROVE Answer(r) = None
  BY <1>1, <1>3, NoneIsNoName DEF Outcomes
<1>4. ASSUME Halfway(r)
      PROVE  Answer(r) = IF op[r] \in BucketOps THEN Ok
                         ELSE IF op[r] = "Delete"
                         THEN IF data[object[r]] = None THEN "refused" ELSE Ok
                         ELSE None
  BY <1>1, <1>4, NoneIsNoName DEF Outcomes, BucketOps
<1>5. ASSUME at[r] = "done"
      PROVE  Answer(r) = IF status[r] # Ok THEN "refused"
                         ELSE IF op[r] = "Read" THEN Reply(r) ELSE Ok
  BY <1>1, <1>5 DEF Ops, BucketOps, ObjectOps
<1> QED
  BY <1>3, <1>4, <1>5

(* A step of another request settles nothing for q: a Delete half way is   *)
(* alone in its bucket, so the body it will remove stays as it is.         *)
LEMMA OtherAnswers ==
  ASSUME SerialInv, NEW r \in Requests, Serve(r) \/ WriteBody(r),
         NEW q \in Requests \ {r}
  PROVE  Answer(q)' = Answer(q)
<1>1. /\ InFlight(r) /\ UNCHANGED callVars
      /\ at'[q] = at[q] /\ status'[q] = status[q]
      /\ Reply(q)' = Reply(q)
  BY StepUnchanged DEF SerialInv, Reply
<1>2. CASE op[q] = "Delete" /\ Halfway(q)
  <2>1. object[q] \in Objects /\ bucket[q] = BucketOf[object[q]]
    BY <1>2 DEF SerialInv, Inv, Undisturbed, CallsWellFormed, ObjectOps
  <2>2. bucket[r] # bucket[q]
    BY <1>1, <1>2 DEF SerialInv, DeletesAlone, InFlight, Halfway, Deletes
  <2>3. data'[object[q]] = data[object[q]]
    BY <2>1, <2>2, OtherBuckets DEF SerialInv
  <2> QED
    BY <1>1, <1>2, <2>3 DEF Answer, callVars
<1>3. CASE ~(op[q] = "Delete" /\ Halfway(q))
  BY <1>1, <1>3 DEF Answer, Halfway, callVars
<1> QED
  BY <1>2, <1>3

(* An answer of r alone. *)
LEMMA AnswersChange ==
  ASSUME SerialInv, NEW r \in Requests, Serve(r) \/ WriteBody(r),
         NEW a, Answer(r)' = a
  PROVE  Answers' = [Answers EXCEPT ![r] = a]
BY OtherAnswers DEF Answers

(* What its step makes of the answer of r. *)
LEMMA AnswerNext ==
  ASSUME SerialInv, NEW r \in Requests, Serve(r) \/ WriteBody(r)
  PROVE  /\ GoesOn(r, "body") => Answer(r)' = None
         /\ GoesOn(r, "security") \/ GoesOn(r, "storage") =>
              Answer(r)' = IF op[r] \in BucketOps THEN Ok
                           ELSE IF op[r] = "Delete"
                           THEN IF data'[object[r]] = None THEN "refused" ELSE Ok
                           ELSE None
         /\ IsRefused(r) => Answer(r)' = "refused"
         /\ Succeeds(r) => Answer(r)' = IF op[r] = "Read" THEN Reply(r)' ELSE Ok
<1> USE DEF Answer
<1>1. op[r] \in Ops /\ op'[r] = op[r] /\ object'[r] = object[r]
  BY StepUnchanged
  DEF SerialInv, Inv, TypeOK, CallTypeOK, Undisturbed, CallsWellFormed, InFlight,
      callVars
<1>3. ASSUME GoesOn(r, "body") PROVE Answer(r)' = None
  BY <1>1, <1>3, NoneIsNoName DEF Outcomes, GoesOn
<1>4. ASSUME GoesOn(r, "security") \/ GoesOn(r, "storage")
      PROVE  Answer(r)' = IF op[r] \in BucketOps THEN Ok
                          ELSE IF op[r] = "Delete"
                          THEN IF data'[object[r]] = None THEN "refused" ELSE Ok
                          ELSE None
  BY <1>1, <1>4, NoneIsNoName DEF Outcomes, GoesOn, BucketOps
<1>5. ASSUME IsRefused(r) PROVE Answer(r)' = "refused"
  BY <1>1, <1>5 DEF IsRefused
<1>6. ASSUME Succeeds(r)
      PROVE  Answer(r)' = IF op[r] = "Read" THEN Reply(r)' ELSE Ok
  BY <1>1, <1>6 DEF Succeeds, Ops, BucketOps, ObjectOps
<1> QED
  BY <1>3, <1>4, <1>5, <1>6

(* The abstract step of each step: the action of the request's method, or  *)
(* nothing.                                                                *)
Promised(r) ==
  \/ Promise!Create(r) \/ Promise!Put(r) \/ Promise!Get(r)
  \/ Promise!Remove(r) \/ Promise!RemoveBucket(r)
  \/ UNCHANGED <<op, bucket, object, metaBuckets, Files, Answers>>

LEMMA NewBucketPromised ==
  ASSUME SerialInv, NEW r \in Requests, NewBucket(r)
  PROVE  Promised(r)
<1>1. op[r] = "NewBucket" /\ op[r] # None /\ UNCHANGED callVars /\ Serve(r)
  BY NoneIsNoName, StepUnchanged
  DEF SerialInv, NewBucket, Serve, Ops, BucketOps
<1>2. PICK b : b = bucket[r]
  OBVIOUS
<1> HIDE DEF NewBucket, Promised
<1>3. CASE at[r] = "metadata" /\ b \notin metaBuckets /\ GoesOn(r, "security")
           /\ metaBuckets' = metaBuckets \cup {b}
           /\ UNCHANGED <<meta, secBuckets, encKey, storageBuckets, data>>
  <2>1. Answer(r) = None /\ Answer(r)' = Ok
    BY <1>1, <1>3, AnswerNow, AnswerNext DEF BucketOps
  <2>2. Answers' = [Answers EXCEPT ![r] = Ok] /\ Answers[r] = None /\ Files' = Files
    BY <1>1, <1>3, <2>1, AnswersChange DEF Answers, Files, File
  <2> QED
    BY <1>1, <1>2, <1>3, <2>2
    DEF Promised, Promise!Create, Promise!TakesEffect, Promise!calls, Promise!Ok,
        Answers, Files, File, callVars
<1>4. CASE at[r] = "metadata" /\ b \in metaBuckets /\ IsRefused(r)
  <2>1. Answer(r) = None /\ Answer(r)' = "refused"
    BY <1>1, <1>4, AnswerNow, AnswerNext
  <2>2. Answers' = [Answers EXCEPT ![r] = "refused"] /\ Answers[r] = None
    BY <1>1, <2>1, AnswersChange DEF Answers
  <2>3. Files' = Files /\ metaBuckets' = metaBuckets \cup {b}
    BY <1>4 DEF Files, File, IsRefused, stores
  <2> QED
    BY <1>1, <1>2, <1>4, <2>2, <2>3
    DEF Promised, Promise!Create, Promise!TakesEffect, Promise!calls,
        Promise!Refused, Answers, Files, File, callVars
<1>5. CASE Halfway(r) /\ (GoesOn(r, "storage") \/ Succeeds(r))
           /\ UNCHANGED <<metaBuckets, meta, data>>
  <2>1. Answer(r) = Ok /\ Answer(r)' = Ok
    BY <1>1, <1>5, AnswerNow, AnswerNext DEF BucketOps
  <2>2. Answers' = Answers /\ Files' = Files
    BY <1>1, <1>5, <2>1, AnswersChange DEF Answers, Files, File
  <2> QED
    BY <1>1, <1>5, <2>2 DEF Promised, callVars
<1> QED
  BY <1>2, <1>3, <1>4, <1>5, NewBucketEffect DEF Halfway

LEMMA DeleteBucketPromised ==
  ASSUME SerialInv, NEW r \in Requests, DeleteBucket(r)
  PROVE  Promised(r)
<1>1. /\ op[r] = "DeleteBucket" /\ op[r] # None /\ UNCHANGED callVars /\ Serve(r)
      /\ bucket[r] \in Buckets
  BY NoneIsNoName, StepUnchanged
  DEF SerialInv, Inv, Undisturbed, CallsWellFormed, DeleteBucket, Serve, Ops,
      BucketOps
<1>2. PICK b \in Buckets : b = bucket[r]
  BY <1>1
<1>3. \A o \in Objects : BucketOf[o] = b /\ b \notin metaBuckets => meta[o] = None
  BY DEF SerialInv, Inv, Undisturbed, MetaInBuckets
<1> HIDE DEF DeleteBucket, Promised
<1>4. CASE at[r] = "metadata" /\ b \in metaBuckets /\ GoesOn(r, "security")
           /\ metaBuckets' = metaBuckets \ {b} /\ meta' = WithoutBucket(meta, b)
           /\ UNCHANGED <<secBuckets, encKey, storageBuckets, data>>
  <2>1. Answer(r) = None /\ Answer(r)' = Ok
    BY <1>1, <1>4, AnswerNow, AnswerNext DEF BucketOps
  <2>2. Answers' = [Answers EXCEPT ![r] = Ok] /\ Answers[r] = None
    BY <1>1, <2>1, AnswersChange DEF Answers
  <2>3. Files' = Promise!WithoutBucket(Files, b)
    BY <1>4 DEF Promise!WithoutBucket, WithoutBucket, Files, File
  <2> QED
    BY <1>1, <1>2, <1>4, <2>2, <2>3
    DEF Promised, Promise!RemoveBucket, Promise!TakesEffect, Promise!calls,
        Promise!Ok, Answers, Files, File, callVars
<1>5. CASE at[r] = "metadata" /\ b \notin metaBuckets /\ IsRefused(r)
  <2>1. Answer(r) = None /\ Answer(r)' = "refused"
    BY <1>1, <1>5, AnswerNow, AnswerNext
  <2>2. Answers' = [Answers EXCEPT ![r] = "refused"] /\ Answers[r] = None
    BY <1>1, <2>1, AnswersChange DEF Answers
  <2>3. Files' = Promise!WithoutBucket(Files, b) /\ metaBuckets' = metaBuckets \ {b}
    BY <1>3, <1>5 DEF Promise!WithoutBucket, Files, File, IsRefused, stores
  <2> QED
    BY <1>1, <1>2, <1>5, <2>2, <2>3
    DEF Promised, Promise!RemoveBucket, Promise!TakesEffect, Promise!calls,
        Promise!Refused, Answers, Files, File, callVars
<1>6. CASE Halfway(r) /\ (GoesOn(r, "storage") \/ Succeeds(r))
           /\ UNCHANGED <<metaBuckets, meta>>
           /\ (data' = data \/ data' = WithoutBucket(data, b))
  <2>1. Answer(r) = Ok /\ Answer(r)' = Ok
    BY <1>1, <1>6, AnswerNow, AnswerNext DEF BucketOps
  <2>2. b \notin metaBuckets
    BY <1>1, <1>2, <1>6 DEF SerialInv, BucketsInOrder, BucketCallInOrder, Halfway
  <2>3. Answers' = Answers
    BY <1>1, <2>1, AnswersChange DEF Answers
  <2>4. Files' = Files
    BY <1>3, <1>6, <2>2 DEF Files, File, WithoutBucket
  <2> QED
    BY <1>1, <1>6, <2>3, <2>4 DEF Promised, callVars
<1> QED
  BY <1>2, <1>4, <1>5, <1>6, DeleteBucketEffect DEF Halfway

(* An upload takes effect when its body is in; until then the object has   *)
(* no file, whatever metadata and key it has.                              *)
LEMMA WritePromised ==
  ASSUME SerialInv, NEW r \in Requests, Write(r) \/ WriteBody(r)
  PROVE  Promised(r)
<1>1. /\ op[r] = "Write" /\ op[r] # None /\ UNCHANGED callVars /\ InFlight(r)
      /\ object[r] \in Objects /\ bucket[r] = BucketOf[object[r]]
      /\ Serve(r) \/ WriteBody(r)
  BY NoneIsNoName, StepUnchanged
  DEF SerialInv, Inv, Undisturbed, CallsWellFormed, Write, WriteBody, Serve, Ops,
      ObjectOps
<1>2. PICK o \in Objects : o = object[r]
  BY <1>1
<1>3. Settled(o)
  BY <1>1, <1>2, MeetsSettled DEF Removes
<1>4. at[r] # "done" => Answer(r) = None
  BY <1>1, AnswerNow DEF Halfway, BucketOps, SerialInv, Inv, TypeOK, CallTypeOK,
                         InFlight, Places
<1>5. at[r] # "done"
  BY <1>1 DEF InFlight
<1> HIDE DEF Promised
<1>6. CASE IsRefused(r)
  <2>1. Answers' = [Answers EXCEPT ![r] = "refused"] /\ Answers[r] = None
    BY <1>1, <1>4, <1>5, <1>6, AnswerNext, AnswersChange DEF Answers
  <2>2. Files' = Files /\ metaBuckets' = metaBuckets
    BY <1>6 DEF Files, File, IsRefused, stores
  <2> QED
    BY <1>1, <2>1, <2>2
    DEF Promised, Promise!Put, Promise!TakesEffect, Promise!calls,
        Promise!Refused, Answers, Files, File, callVars
<1>7. CASE at[r] = "body" /\ Succeeds(r)
           /\ data[o] = None /\ data' = [data EXCEPT ![o] = r]
           /\ UNCHANGED <<metaBuckets, meta, secBuckets, encKey, storageBuckets>>
  <2>1. Answers' = [Answers EXCEPT ![r] = Ok] /\ Answers[r] = None
    BY <1>1, <1>4, <1>5, <1>7, AnswerNext, AnswersChange DEF Answers
  <2>2. meta[o] # None /\ bucket[r] \in metaBuckets
    BY <1>1, <1>2, <1>3, <1>7, NoneAssumption
    DEF Settled, SerialInv, CallInOrder, Inv, Undisturbed, MetaInBuckets
  <2>3. Files[o] = None /\ Files' = [Files EXCEPT ![o] = r]
    BY <1>7, <2>2 DEF Files, File, SerialInv, Inv, TypeOK, StorageTypeOK
  <2> QED
    BY <1>1, <1>2, <1>7, <2>1, <2>2, <2>3
    DEF Promised, Promise!Put, Promise!TakesEffect, Promise!calls, Promise!Ok,
        Answers, Files, File, callVars
<1>8. CASE /\ GoesOn(r, "security") \/ GoesOn(r, "storage") \/ GoesOn(r, "body")
           /\ meta' = meta \/ meta' = [meta EXCEPT ![o] = r]
           /\ UNCHANGED <<metaBuckets, data>>
  <2>1. Answer(r)' = None
    BY <1>1, <1>8, AnswerNext DEF BucketOps
  <2>2. Answers' = Answers
    BY <1>1, <1>4, <1>5, <2>1, AnswersChange DEF Answers
  <2>3. meta[o] = None => data[o] = None
    BY <1>3 DEF Settled
  <2>4. Files' = Files
    BY <1>8, <2>3, NoneAssumption DEF Files, File, SerialInv, Inv, TypeOK, MetaTypeOK
  <2> QED
    BY <1>1, <1>8, <2>2, <2>4 DEF Promised, callVars
<1> QED
  BY <1>2, <1>6, <1>7, <1>8, WriteEffect DEF SerialInv, stores

(* The reply to a Read is the file there is, or is broken, and then by the *)
(* upload whose metadata it has read.                                      *)
LEMMA ReadPromised ==
  ASSUME SerialInv, NEW r \in Requests, Read(r), LabelsOfUploads'
  PROVE  Promised(r)
<1>1. /\ op[r] = "Read" /\ op[r] # None /\ UNCHANGED callVars /\ InFlight(r)
      /\ object[r] \in Objects /\ bucket[r] = BucketOf[object[r]] /\ Serve(r)
  BY NoneIsNoName, StepUnchanged
  DEF SerialInv, Inv, Undisturbed, CallsWellFormed, Read, Serve, Ops, ObjectOps
<1>2. PICK o \in Objects : o = object[r]
  BY <1>1
<1>3. Settled(o)
  BY <1>1, <1>2, MeetsSettled DEF Removes
<1>4. at[r] \in {"metadata", "security", "storage"} => Answer(r) = None
  BY <1>1, AnswerNow DEF Halfway, BucketOps
<1>5. UNCHANGED stores
  BY ReadEffect DEF SerialInv
<1>6. Files' = Files /\ metaBuckets' = metaBuckets
  BY <1>5 DEF Files, File, stores
<1> HIDE DEF Promised, Read
<1>7. CASE (GoesOn(r, "security") \/ GoesOn(r, "storage"))
           /\ at[r] \in {"metadata", "security"}
  <2>1. Answers' = Answers
    BY <1>1, <1>4, <1>7, AnswerNext, AnswersChange DEF Answers, BucketOps
  <2> QED
    BY <1>1, <1>6, <2>1 DEF Promised, callVars
<1>8. CASE at[r] = "storage" /\ Succeeds(r) /\ data[o] # None /\ gotData'[r] = data[o]
  <2>1. Answers' = [Answers EXCEPT ![r] = Reply(r)'] /\ Answers[r] = None
    BY <1>1, <1>4, <1>8, AnswerNext, AnswersChange DEF Answers
  <2>2. Files[o] = data[o]
    BY <1>3, <1>8 DEF Settled, Files, File
  <2>3. /\ op' = op /\ object' = object /\ gotKey'[r] = gotData'[r]
    BY <1>1, <1>8, OwnCallKept DEF CallInOrder, callVars, Succeeds
  <2>4. PICK u \in Requests : op[u] = "Write" /\ object[u] = o /\ gotMeta'[r] = u
    BY <1>1, <1>2, <1>8, <2>3
    DEF LabelsOfUploads, Labelled, UploadTo, Succeeds
  <2>5. Reply(r)' = IF Fits(u, data[o]) THEN data[o] ELSE Broken
    BY <1>8, <2>3, <2>4 DEF Reply, Fits
  <2>6. CASE Fits(u, data[o])
    BY <1>1, <1>2, <1>6, <1>8, <2>1, <2>2, <2>5, <2>6
    DEF Promised, Promise!Get, Promise!TakesEffect, Promise!calls,
        Answers, Files, File, callVars
  <2>7. CASE ~Fits(u, data[o])
    <3>1. \E w \in Requests : /\ op[w] = "Write" /\ object[w] = object[r]
                              /\ ~Promise!Fits(w, Files[object[r]])
      BY <1>2, <2>2, <2>4, <2>7 DEF Promise!Fits, Fits
    <3>2. Promise!TakesEffect(r, "Read", Promise!Broken)
      BY <1>1, <2>1, <2>5, <2>7
      DEF Promise!TakesEffect, Promise!calls, Promise!Broken, Broken, Answers, callVars
    <3>3. Files[object[r]] # None
      BY <1>2, <1>8, <2>2
    <3> QED
      BY <1>6, <3>1, <3>2, <3>3 DEF Promised, Promise!Get, Files, File
  <2> QED
    BY <2>6, <2>7
<1>9. CASE IsRefused(r) /\ \/ at[r] = "metadata" /\ meta[o] = None
                           \/ at[r] = "security" /\ encKey[o] = None
                           \/ at[r] = "storage" /\ data[o] = None
  <2>1. Answers' = [Answers EXCEPT ![r] = "refused"] /\ Answers[r] = None
    BY <1>1, <1>4, <1>9, AnswerNext, AnswersChange DEF Answers
  <2>2. data[o] # None => data[o] \in Requests
    BY DEF SerialInv, Inv, TypeOK, StorageTypeOK, Entry
  <2>3. Files[o] = None
    BY <1>3, <1>9, <2>2, NoneAssumption DEF Settled, Files, File
  <2> QED
    BY <1>1, <1>2, <1>6, <2>1, <2>3
    DEF Promised, Promise!Get, Promise!TakesEffect, Promise!calls, Promise!Refused,
        Answers, Files, File, callVars
<1> QED
  BY <1>2, <1>7, <1>8, <1>9, ReadEffect DEF SerialInv

LEMMA DeletePromised ==
  ASSUME SerialInv, NEW r \in Requests, Delete(r)
  PROVE  Promised(r)
<1>1. /\ op[r] = "Delete" /\ op[r] # None /\ UNCHANGED callVars /\ InFlight(r)
      /\ object[r] \in Objects /\ bucket[r] = BucketOf[object[r]] /\ Serve(r)
  BY NoneIsNoName, StepUnchanged
  DEF SerialInv, Inv, Undisturbed, CallsWellFormed, Delete, Serve, Ops, ObjectOps
<1>2. PICK o \in Objects : o = object[r]
  BY <1>1
<1>3. Halfway(r) => meta[o] = None
  BY <1>1, <1>2 DEF SerialInv, CallInOrder
<1>4. at[r] = "metadata" => Answer(r) = None
  BY <1>1, AnswerNow
<1>5. Halfway(r) => Answer(r) = IF data[o] = None THEN "refused" ELSE Ok
  BY <1>1, <1>2, AnswerNow DEF BucketOps
<1> HIDE DEF Promised, Delete
<1>6. CASE at[r] = "metadata" /\ GoesOn(r, "security")
           /\ meta[o] # None /\ meta' = [meta EXCEPT ![o] = None]
           /\ UNCHANGED <<metaBuckets, secBuckets, encKey, storageBuckets, data>>
  <2> DEFINE a == IF data[o] = None THEN "refused" ELSE Ok
  <2>1. Answers' = [Answers EXCEPT ![r] = a] /\ Answers[r] = None
    BY <1>1, <1>2, <1>4, <1>6, AnswerNext, AnswersChange DEF Answers, BucketOps
  <2>2. Files[o] = data[o] /\ Files' = [Files EXCEPT ![o] = None]
    BY <1>6 DEF Files, File, SerialInv, Inv, TypeOK, MetaTypeOK
  <2> QED
    BY <1>1, <1>2, <1>6, <2>1, <2>2
    DEF Promised, Promise!Remove, Promise!TakesEffect, Promise!calls,
        Promise!Refused, Promise!Ok, Answers, Files, File, callVars
<1>7. CASE at[r] = "metadata" /\ IsRefused(r) /\ meta[o] = None
  <2>1. Answers' = [Answers EXCEPT ![r] = "refused"] /\ Answers[r] = None
    BY <1>1, <1>4, <1>7, AnswerNext, AnswersChange DEF Answers
  <2>2. Files[o] = None /\ Files' = Files /\ metaBuckets' = metaBuckets
    BY <1>7 DEF Files, File, IsRefused, stores
  <2>3. Files' = [Files EXCEPT ![o] = None]
    BY <2>2 DEF Files
  <2> QED
    BY <1>1, <1>2, <2>1, <2>2, <2>3
    DEF Promised, Promise!Remove, Promise!TakesEffect, Promise!calls,
        Promise!Refused, Answers, Files, File, callVars
<1>8. CASE at[r] = "security" /\ GoesOn(r, "storage")
           /\ UNCHANGED <<metaBuckets, meta, data>>
  <2>1. Answer(r)' = Answer(r)
    BY <1>1, <1>2, <1>5, <1>8, AnswerNext DEF Halfway, BucketOps
  <2>2. Answers' = Answers /\ Files' = Files
    BY <1>1, <1>8, <2>1, AnswersChange DEF Answers, Files, File
  <2> QED
    BY <1>1, <1>8, <2>2 DEF Promised, callVars
<1>9. CASE at[r] = "storage" /\ Succeeds(r)
           /\ data[o] # None /\ data' = [data EXCEPT ![o] = None]
           /\ UNCHANGED <<metaBuckets, meta>>
  <2>1. Answer(r)' = Answer(r)
    BY <1>1, <1>5, <1>9, AnswerNext DEF Halfway
  <2>2. Answers' = Answers
    BY <1>1, <2>1, AnswersChange DEF Answers
  <2>3. Files' = Files
    BY <1>3, <1>9 DEF Halfway, Files, File, SerialInv, Inv, TypeOK, StorageTypeOK
  <2> QED
    BY <1>1, <1>9, <2>2, <2>3 DEF Promised, callVars
<1>10. CASE IsRefused(r) /\ \/ at[r] = "security" /\ encKey[o] = None
                            \/ at[r] = "storage" /\ data[o] = None
  <2>1. data[o] = None
    <3>1. ASSUME at[r] = "security", NEW d \in Requests, Removes(d, o),
                 at[d] = "storage"
          PROVE  FALSE
      BY <1>1, <1>2, <3>1, RemovalAlone DEF InFlight, SerialInv
    <3> QED
      BY <1>10, <3>1 DEF SerialInv, ObjectInOrder
  <2>2. Answer(r)' = Answer(r)
    BY <1>1, <1>5, <1>10, <2>1, AnswerNext DEF Halfway
  <2>3. Answers' = Answers /\ Files' = Files /\ metaBuckets' = metaBuckets
    BY <1>1, <1>10, <2>2, AnswersChange DEF Answers, Files, File, IsRefused, stores
  <2> QED
    BY <1>1, <2>3 DEF Promised, callVars
<1> QED
  BY <1>2, <1>6, <1>7, <1>8, <1>9, <1>10, DeleteEffect DEF SerialInv

(* A request that arrives is a call, and settles nothing. *)
LEMMA StartPromised ==
  ASSUME SerialInv, NEW r \in Requests, Start(r)
  PROVE  Promise!Call(r) /\ UNCHANGED <<metaBuckets, Files, Answers>>
<1>1. /\ UNCHANGED <<metaVars, secVars, storageVars, status, got>>
      /\ at[r] = "idle" /\ at'[r] = "metadata"
      /\ op[r] = None /\ op'[r] \in Ops /\ status[r] = None
      /\ \A q \in Requests \ {r} : /\ op'[q] = op[q] /\ object'[q] = object[q]
                                   /\ at'[q] = at[q]
  BY DEF Start, SerialInv, Inv, TypeOK, CallTypeOK, Undisturbed, CallsWellFormed,
         AnsweredWhenDone, Ops
<1>2. Answer(r) = None /\ Answer(r)' = None
  BY <1>1, NoneIsNoName DEF Answer, Ops, BucketOps, ObjectOps, Outcomes
<1>3. \A q \in Requests \ {r} : Answer(q)' = Answer(q)
  BY <1>1 DEF Answer, Reply, storageVars, got
<1>4. UNCHANGED <<metaBuckets, Files, Answers>>
  BY <1>1, <1>2, <1>3 DEF Files, File, Answers, metaVars, storageVars
<1>5. Promise!Call(r)
  BY <1>1, <1>4 DEF Start, Promise!Call, BucketOps, ObjectOps, Files, File, Answers
<1> QED
  BY <1>4, <1>5

LEMMA AlwaysSerialLabels == SerialSpec => []LabelsOfUploads
<1>1. SerialInv /\ LabelsOfUploads /\ [SerialNext]_vars => LabelsOfUploads'
  BY StepLabels DEF SerialInv, SerialNext, Next
<1> QED
  BY LabelsInit, <1>1, AlwaysSerial, PTL DEF SerialSpec

LEMMA StepPromised ==
  SerialInv /\ LabelsOfUploads' /\ [SerialNext]_vars
    => [Promise!Next]_(Promise!objectStoreVars)
<1> SUFFICES ASSUME SerialInv, LabelsOfUploads', [SerialNext]_vars
             PROVE  [Promise!Next]_(Promise!objectStoreVars)
  OBVIOUS
<1>1. ASSUME NEW r \in Requests, Promised(r)
      PROVE  [Promise!Next]_(Promise!objectStoreVars)
  BY <1>1 DEF Promised, Promise!Next, Promise!objectStoreVars, Promise!calls,
              Files, File, Answers
<1>2. ASSUME NEW r \in Requests, Start(r)
      PROVE  [Promise!Next]_(Promise!objectStoreVars)
  BY <1>2, StartPromised DEF Promise!Next
<1>3. ASSUME NEW r \in Requests, Serve(r) \/ WriteBody(r)
      PROVE  [Promise!Next]_(Promise!objectStoreVars)
  BY <1>1, <1>3, NewBucketPromised, WritePromised, ReadPromised, DeletePromised,
     DeleteBucketPromised DEF Serve
<1>4. CASE UNCHANGED vars
  <2>1. UNCHANGED <<metaVars, storageVars, callVars, at, status, got>>
    BY <1>4 DEF vars
  <2>2. UNCHANGED <<Files, Answers>>
    BY <2>1 DEF Files, File, Answers, Answer, Reply, metaVars, storageVars,
                callVars, got
  <2> QED
    BY <2>1, <2>2
    DEF Promise!objectStoreVars, Promise!calls, Files, File, Answers, callVars,
        metaVars
<1> QED
  BY <1>2, <1>3, <1>4 DEF SerialNext

(* With coordinated deletes, the three stores and the three calls of each  *)
(* request implement one store of files that changes in one step per       *)
(* request; the reply of a download carries the file, or is broken, and    *)
(* that only if an upload of the object announced another length.          *)
THEOREM SerialKeepsPromise == SerialSpec => KeepsPromise
<1>1. Init => Promise!Init
  <2> SUFFICES ASSUME Init PROVE Promise!Init
    OBVIOUS
  <2>1. \A r \in Requests : Answer(r) = None
    BY NoneIsNoName DEF Init, Answer, Ops, BucketOps, ObjectOps
  <2> QED
    BY <2>1 DEF Init, MetaInit, Promise!Init
<1> QED
  BY <1>1, StepPromised, AlwaysSerial, AlwaysSerialLabels, PTL
  DEF SerialSpec, KeepsPromise, Promise!Spec
=============================================================================
