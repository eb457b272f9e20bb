-------------------------- MODULE CompoundFsProofs --------------------------
(***************************************************************************)
(* What is proved of CompoundFs, the three stores with bodies in files,    *)
(* for every set of buckets, objects and requests, and any number of       *)
(* restarts.  What is known of the storage alone comes from                *)
(* StorageFsProofs: every step of the whole is a step of the storage, or   *)
(* leaves it alone.                                                        *)
(***************************************************************************)
EXTENDS CompoundFs, TLAPS

Files == INSTANCE StorageFsProofs

USE DEF Ok, BucketDoesNotExist, BucketAlreadyExists, ObjectDoesNotExists,
        ObjectAlreadyExists, NilMapPanic, BodyError

-----------------------------------------------------------------------------
(* The storage of CompoundFs is that of StorageFsProofs.                   *)

LEMMA SameStorage ==
  /\ Storage!Init => Files!Init
  /\ Storage!Restart => Files!Restart
  /\ Storage!TypeOK <=> Files!TypeOK
BY DEF Storage!Init, Files!Init, Storage!Blank, Files!Blank, Storage!Chunks,
       Files!Chunks, Storage!Restart, Files!Restart, Storage!disk, Files!disk,
       Storage!TypeOK, Files!TypeOK, Storage!Places, Files!Places,
       Storage!Methods, Files!Methods, Storage!Outcomes, Files!Outcomes,
       Storage!Entry, Files!Entry, Storage!Ok, Files!Ok,
       Storage!BucketDoesNotExist, Files!BucketDoesNotExist,
       Storage!BucketAlreadyExists, Files!BucketAlreadyExists,
       Storage!ObjectDoesNotExists, Files!ObjectDoesNotExists,
       Storage!ObjectAlreadyExists, Files!ObjectAlreadyExists,
       Storage!NilMapPanic, Files!NilMapPanic, Storage!BodyError, Files!BodyError,
       Storage!PathError, Files!PathError, Storage!ReplyError, Files!ReplyError

LEMMA SameBucketCalls ==
  ASSUME NEW r, NEW b
  PROVE  /\ Storage!NewBucket(r, b) => Files!NewBucket(r, b)
         /\ Storage!DeleteBucket(r, b) => Files!DeleteBucket(r, b)
         /\ Storage!RemoveDirectory(r) => Files!RemoveDirectory(r)
BY DEF Storage!NewBucket, Files!NewBucket, Storage!DeleteBucket,
       Files!DeleteBucket, Storage!BucketCall, Files!BucketCall, Storage!Goes,
       Files!Goes, Storage!WithoutBucket, Files!WithoutBucket, Storage!Unsettled,
       Files!Unsettled, Storage!RemoveDirectory, Files!RemoveDirectory,
       Storage!Exists, Files!Exists, Storage!history, Files!history, Storage!Ok,
       Files!Ok, Storage!BucketDoesNotExist, Files!BucketDoesNotExist,
       Storage!BucketAlreadyExists, Files!BucketAlreadyExists, Storage!PathError,
       Files!PathError

LEMMA SameObjectCalls ==
  ASSUME NEW r, NEW o
  PROVE  /\ Storage!Write(r, o) => Files!Write(r, o)
         /\ Storage!Read(r, o) => Files!Read(r, o)
         /\ Storage!Delete(r, o) => Files!Delete(r, o)
BY DEF Storage!Write, Files!Write, Storage!Read, Files!Read, Storage!Delete,
       Files!Delete, Storage!ObjectCall, Files!ObjectCall, Storage!Goes,
       Files!Goes, Storage!Unsettled, Files!Unsettled, Storage!Refusal,
       Files!Refusal, Storage!Missing, Files!Missing, Storage!disk, Files!disk,
       Storage!BucketDoesNotExist, Files!BucketDoesNotExist,
       Storage!ObjectAlreadyExists, Files!ObjectAlreadyExists,
       Storage!ObjectDoesNotExists, Files!ObjectDoesNotExists

LEMMA SameFileSteps ==
  ASSUME NEW r
  PROVE  /\ Storage!Create(r) => Files!Create(r)
         /\ Storage!WriteBody(r) => Files!WriteBody(r)
         /\ Storage!Open(r) => Files!Open(r)
         /\ Storage!ReadBody(r) => Files!ReadBody(r)
         /\ Storage!Remove(r) => Files!Remove(r)
BY DEF Storage!Create, Files!Create, Storage!WriteBody, Files!WriteBody,
       Storage!WriteChunk, Files!WriteChunk, Storage!Open, Files!Open,
       Storage!ReadBody, Files!ReadBody, Storage!ReadChunk, Files!ReadChunk,
       Storage!Remove, Files!Remove, Storage!Exists, Files!Exists, Storage!Goes,
       Files!Goes, Storage!Blank, Files!Blank, Storage!Chunks, Files!Chunks,
       Storage!memRep, Files!memRep, Storage!disk, Files!disk, Storage!history,
       Files!history, Storage!Ok, Files!Ok, Storage!BodyError, Files!BodyError,
       Storage!PathError, Files!PathError, Storage!ReplyError, Files!ReplyError

(* What StorageFsProofs assumes of the constants. *)
LEMMA StorageAssumptions ==
  /\ BucketOf \in [Objects -> Buckets]
  /\ DOMAIN LengthOf = Requests /\ Chunked \subseteq Requests
  /\ None \notin Requests \cup Buckets \cup Objects
  /\ MaxRestarts \in Nat
  /\ None \notin Files!Methods \cup Files!Outcomes
                   \cup {Files!PathError, Files!ReplyError}
<1>1. None \notin Files!Methods \cup Files!Outcomes
                    \cup {Files!PathError, Files!ReplyError}
  BY NoneIsNoName
  DEF Outcomes, Storage!Methods, Storage!PathError, Storage!ReplyError, Files!Methods,
      Files!Outcomes, Files!PathError, Files!ReplyError, Files!Ok, Files!BucketDoesNotExist, Files!BucketAlreadyExists,
      Files!ObjectDoesNotExists, Files!ObjectAlreadyExists, Files!NilMapPanic,
      Files!BodyError
<1> QED
  BY <1>1, BucketOfAssumption, LengthAssumption, NoneAssumption, MaxRestartsAssumption

-----------------------------------------------------------------------------
(* The inductive invariant: what a request relies on between its calls.    *)

ObjectMethods == {"Write", "Read", "Delete"}
BucketMethods == {"NewBucket", "DeleteBucket"}

CallInOrder(r) ==
  /\ stage[r] = "idle" => method[r] = None
  /\ stage[r] # "storage" => at[r] = "idle"
  /\ at[r] # "idle" => op[r] = method[r] /\ target[r] = argument[r]
  /\ stage[r] # "idle" =>
       \/ method[r] \in ObjectMethods /\ argument[r] \in Objects
       \/ method[r] \in BucketMethods /\ argument[r] \in Buckets

(* An upload past its metadata finds it there, and past its key owns the   *)
(* key; only a restart takes them from it.                                 *)
UploadInOrder(r, o) ==
  (method[r] = "Write" /\ argument[r] = o) =>
    /\ stage[r] = "security" => meta[o] # None
    /\ (stage[r] = "storage" /\ (at[r] # "done" \/ restarts = 0)) => encKey[o] = r

(* A download has the key that belongs to what it was promised. *)
DownloadInOrder(r, o) ==
  (method[r] = "Read" /\ argument[r] = o /\ stage[r] = "storage") =>
    /\ (at[r] = "idle" \/ restarts = 0) => encKey[o] # None /\ gotKey[r] = encKey[o]
    /\ at[r] # "idle" /\ expects[r] # None => gotKey[r] = expects[r]

UploadTo(u, o) == u \in Requests /\ method[u] = "Write" /\ argument[u] = o

(* Metadata is that of an upload of the object, and if the upload has come *)
(* past the key, the key is its own.                                       *)
EntryLabelled(o) ==
  meta[o] # None =>
    UploadTo(meta[o], o) /\ (stage[meta[o]] = "storage" => encKey[o] = meta[o])

(* A download keeps both as they belong together.  Whoever is still at the *)
(* key when the download has got it finds it taken.                        *)
DownloadLabelled(r, o) ==
  (method[r] = "Read" /\ argument[r] = o /\ stage[r] \in {"security", "storage"}) =>
    /\ UploadTo(gotMeta[r], o)
    /\ stage[r] = "security" /\ stage[gotMeta[r]] = "storage" => encKey[o] = gotMeta[r]
    /\ stage[r] = "storage" /\ stage[gotMeta[r]] = "storage" => gotKey[r] = gotMeta[r]
    /\ stage[r] = "storage" /\ stage[gotMeta[r]] = "security" => encKey[o] # None

(* The reply refuses a promised body only if it is of the wrong length. *)
ReplyInOrder(r, o) ==
  (/\ method[r] = "Read" /\ argument[r] = o /\ stage[r] = "storage"
   /\ status[r] = Storage!ReplyError /\ expects[r] # None)
    => at[r] = "done" /\ ~Fits(gotMeta[r], expects[r])

ObjectInOrder(o) ==
  /\ encKey[o] # None => meta[o] # None
  /\ promised[o] # None => encKey[o] = promised[o]
  /\ \A r \in Requests : UploadInOrder(r, o) /\ DownloadInOrder(r, o)

LabelsInOrder(o) ==
  /\ EntryLabelled(o)
  /\ \A r \in Requests : DownloadLabelled(r, o) /\ ReplyInOrder(r, o)

(* r is between two calls of the creation of bucket b. *)
Creating(r, b) ==
  /\ method[r] = "NewBucket" /\ argument[r] = b
  /\ stage[r] = "security" \/ (stage[r] = "storage" /\ at[r] # "done")

(* A bucket goes from store to store, carried by who creates it. *)
BucketInOrder(b) ==
  /\ b \in buckets => b \in secBuckets
  /\ b \in secBuckets => b \in metaBuckets
  /\ b \in metaBuckets \ secBuckets =>
       \E r \in Requests : Creating(r, b) /\ stage[r] = "security"
  /\ b \in secBuckets \ buckets =>
       \E r \in Requests : Creating(r, b) /\ stage[r] = "storage"
  /\ \A r \in Requests : Creating(r, b) =>
       /\ b \in metaBuckets
       /\ stage[r] = "storage" => b \in secBuckets

NoBucketDeleted == \A r \in Requests : method[r] # "DeleteBucket"

DisturbedRemoved == \A o \in disturbed : ~NeverRemoved(o)

(* What is known of the storage, and where the requests are. *)
Grounds ==
  /\ Files!FilesInv /\ Files!BodiesKnown
  /\ TypeOK
  /\ \A r \in Requests : CallInOrder(r)

WholeInv ==
  /\ Grounds
  /\ MetaInBuckets /\ SecInBuckets
  /\ DisturbedRemoved
  /\ \A o \in Objects : NeverRemoved(o) => ObjectInOrder(o) /\ LabelsInOrder(o)
  /\ NoBucketDeleted => \A b \in Buckets : BucketInOrder(b)

-----------------------------------------------------------------------------
(* Every step of a request is a call of a store, and the calls of the      *)
(* storage are steps of StorageFs.                                         *)

StepOf(r) == Metadata(r) \/ Security(r) \/ CallStorage(r) \/ InStorage(r)

LEMMA StorageSteps ==
  ASSUME NEW r \in Requests, CallInOrder(r), CallStorage(r) \/ InStorage(r)
  PROVE  Files!StepOf(r)
<1>1. CASE InStorage(r)
  BY <1>1, SameBucketCalls, SameFileSteps DEF InStorage, SendBody, Files!StepOf
<1>2. CASE CallStorage(r)
  <2>1. method[r] \in BucketMethods => argument[r] \in Buckets
    BY <1>2 DEF CallStorage, CallInOrder, BucketMethods, ObjectMethods
  <2>2. method[r] \in ObjectMethods => argument[r] \in Objects
    BY <1>2 DEF CallStorage, CallInOrder, BucketMethods, ObjectMethods
  <2> QED
    BY <1>2, <2>1, <2>2, SameBucketCalls, SameObjectCalls
    DEF CallStorage, Files!StepOf, BucketMethods, ObjectMethods
<1> QED
  BY <1>1, <1>2

LEMMA StepsOfStorage ==
  ASSUME Grounds, [Next]_vars
  PROVE  [Files!Next]_(Files!vars)
<1>1. ASSUME NEW r \in Requests, StepOf(r)
      PROVE  [Files!Next]_(Files!vars)
  <2>1. CASE Metadata(r) \/ Security(r)
    BY <2>1
    DEF Metadata, Security, Start, Continue, storageVars, Files!vars, Files!memRep,
        Files!disk, Files!calls, Files!history
  <2>2. CASE CallStorage(r) \/ InStorage(r)
    BY <2>2, StorageSteps DEF Grounds, Files!StepOf, Files!Next
  <2> QED
    BY <1>1, <2>1, <2>2 DEF StepOf
<1>2. CASE Restart
  BY <1>2, SameStorage DEF Restart, Files!Next
<1>3. CASE UNCHANGED vars
  BY <1>3
  DEF vars, storageVars, Files!vars, Files!memRep, Files!disk, Files!calls,
      Files!history
<1> QED
  BY <1>1, <1>2, <1>3 DEF Next, StepOf

LEMMA StorageKept ==
  ASSUME Grounds, [Next]_vars
  PROVE  Files!FilesInv' /\ Files!BodiesKnown'
<1>1. [Files!Next]_(Files!vars)
  BY StepsOfStorage
<1>2. Files!WellFormed
  BY DEF Grounds, Files!FilesInv
<1>3. Files!FilesInv'
  BY <1>1, StorageAssumptions, Files!FilesInvStep DEF Grounds
<1>4. Files!BodiesKnown'
  BY <1>1, <1>2, StorageAssumptions, Files!BodiesInv DEF Grounds
<1> QED
  BY <1>3, <1>4

(* A request touches nobody else's call, and its method once it has one is *)
(* for good.                                                               *)
LEMMA OtherCalls ==
  ASSUME Grounds, NEW r \in Requests, StepOf(r), NEW q \in Requests, q # r
  PROVE  /\ stage'[q] = stage[q] /\ method'[q] = method[q]
         /\ argument'[q] = argument[q] /\ gotKey'[q] = gotKey[q]
         /\ gotMeta'[q] = gotMeta[q]
         /\ op'[q] = op[q] /\ target'[q] = target[q] /\ at'[q] = at[q]
         /\ status'[q] = status[q] /\ fd'[q] = fd[q] /\ got'[q] = got[q]
         /\ expects'[q] = expects[q]
<1>1. TypeOK
  BY DEF Grounds
<1>2. CASE Metadata(r)
  BY <1>1, <1>2 DEF Metadata, Start, Continue, storageVars, TypeOK
<1>3. CASE Security(r)
  BY <1>1, <1>3 DEF Security, Continue, storageVars, callVars, TypeOK
<1>4. CASE CallStorage(r) \/ InStorage(r)
  <2>1. Files!StepOf(r) /\ Files!WellFormed
    BY <1>4, StorageSteps DEF Grounds, Files!FilesInv
  <2>2. /\ op'[q] = op[q] /\ target'[q] = target[q] /\ at'[q] = at[q]
        /\ status'[q] = status[q] /\ fd'[q] = fd[q] /\ got'[q] = got[q]
        /\ expects'[q] = expects[q]
    BY <2>1, StorageAssumptions, Files!OtherCalls
  <2> QED
    BY <1>4, <2>2 DEF CallStorage, InStorage, callVars, replyVars
<1> QED
  BY <1>2, <1>3, <1>4 DEF StepOf

LEMMA MethodStays ==
  ASSUME Grounds, NEW r \in Requests, StepOf(r), NEW q \in Requests,
         method[q] # None
  PROVE  method'[q] = method[q] /\ argument'[q] = argument[q]
<1>1. CASE q # r
  BY <1>1, OtherCalls
<1>2. CASE q = r
  BY <1>2
  DEF Grounds, CallInOrder, StepOf, Metadata, Start, Continue, Security, CallStorage,
      InStorage, callVars
<1> QED
  BY <1>1, <1>2

LEMMA StaysRemoved ==
  ASSUME Grounds, NEW r \in Requests, StepOf(r), NEW o \in Objects
  PROVE  NeverRemoved(o)' => NeverRemoved(o)
<1>1. ASSUME NEW d \in Requests, Removes(d, o)
      PROVE  Removes(d, o)'
  BY <1>1, NoneIsNoName, MethodStays DEF Removes, Storage!Methods
<1> QED
  BY <1>1 DEF NeverRemoved

-----------------------------------------------------------------------------
(* Types, and where each request is. *)

CallTypes ==
  /\ stage \in [Requests -> Stages]
  /\ method \in [Requests -> Storage!Methods \cup {None}]
  /\ argument \in [Requests -> Objects \cup Buckets \cup {None}]
  /\ gotMeta \in [Requests -> Entry]
  /\ gotKey \in [Requests -> Entry]

LEMMA TypeParts ==
  /\ TypeOK <=> MetaTypeOK /\ SecTypeOK /\ Storage!TypeOK /\ CallTypes
  /\ TypeOK' <=> MetaTypeOK' /\ SecTypeOK' /\ (Storage!TypeOK)' /\ CallTypes'
BY Zenon DEF TypeOK, CallTypes

(* A step of the metadata store keeps its types and leaves the rest. *)
LEMMA MetadataStep ==
  ASSUME Grounds, NEW r \in Requests, Metadata(r)
  PROVE  /\ MetaTypeOK' /\ CallTypes'
         /\ stage[r] = "idle" /\ method[r] = None /\ at[r] = "idle"
         /\ stage'[r] \in {"security", "refused"} /\ at'[r] = "idle"
         /\ \/ method'[r] \in ObjectMethods /\ argument'[r] \in Objects
            \/ method'[r] \in BucketMethods /\ argument'[r] \in Buckets
         /\ UNCHANGED <<secVars, storageVars, gotKey>>
<1> MetaTypeOK /\ CallTypes /\ CallInOrder(r)
  BY TypeParts DEF Grounds
<1> PICK e \in Outcomes, p \in Storage!Methods, x \in Objects \cup Buckets :
      /\ Start(r, p, x, e)
      /\ \/ p = "NewBucket" /\ x \in Buckets /\ MetaNewBucket(x, e)
         \/ p = "DeleteBucket" /\ x \in Buckets /\ MetaDeleteBucket(x, e)
         \/ p = "Write" /\ x \in Objects /\ MetaWrite(x, r, e)
         \/ p = "Read" /\ x \in Objects /\ MetaRead(x, e)
         \/ p = "Delete" /\ x \in Objects /\ MetaDelete(x, e)
  BY DEF Metadata, Storage!Methods
<1>6. gotMeta' \in [Requests -> Entry]
  BY DEF Metadata, CallTypes, MetaTypeOK
<1>1. CallTypes' /\ stage[r] = "idle" /\ stage'[r] \in {"security", "refused"}
  BY <1>6 DEF CallTypes, Stages, Start, Continue, Metadata
<1>2. method[r] = None /\ at[r] = "idle"
  BY <1>1 DEF CallInOrder
<1>3. UNCHANGED <<secVars, storageVars, gotKey>>
  BY DEF Metadata, Start, Continue
<1>4. method'[r] = p /\ argument'[r] = x
  BY DEF Start, CallTypes
<1>5. MetaTypeOK'
  BY DEF MetaTypeOK, Entry, metaVars, MetaNewBucket, MetaDeleteBucket, MetaWrite,
         MetaRead, MetaDelete, WithoutBucket
<1> QED
  BY <1>1, <1>2, <1>3, <1>4, <1>5 DEF storageVars, ObjectMethods, BucketMethods

(* So does a step of the security store. *)
LEMMA SecurityStep ==
  ASSUME Grounds, NEW r \in Requests, Security(r)
  PROVE  /\ SecTypeOK' /\ CallTypes'
         /\ stage[r] = "security" /\ at[r] = "idle"
         /\ stage'[r] \in {"storage", "refused"} /\ at'[r] = "idle"
         /\ UNCHANGED <<metaVars, storageVars, callVars, gotMeta>>
<1> SecTypeOK /\ CallTypes /\ CallInOrder(r)
  BY TypeParts DEF Grounds
<1>1. PICK e \in Outcomes : Continue(r, "security", e, "storage")
  BY DEF Security
<1>2. stage[r] = "security" /\ stage'[r] \in {"storage", "refused"} /\ at[r] = "idle"
  BY <1>1 DEF Continue, CallTypes, CallInOrder
<1>3. UNCHANGED <<metaVars, storageVars, callVars, gotMeta>>
  BY <1>1 DEF Security, Continue
<1>4. method[r] \in BucketMethods => argument[r] \in Buckets
  BY <1>2 DEF CallInOrder, ObjectMethods, BucketMethods
<1>5. SecTypeOK'
  BY <1>4 DEF Security, SecTypeOK, Entry, secVars, SecNewBucket, SecDeleteBucket,
              SecWriteKey, SecReadKey, SecDeleteKey, WithoutBucket, BucketMethods
<1>6. gotKey' \in [Requests -> Entry]
  <2>1. CASE UNCHANGED gotKey
    BY <2>1 DEF CallTypes
  <2>2. CASE method[r] = "Read" /\ gotKey' = [gotKey EXCEPT ![r] = encKey[argument[r]]]
    <3>1. argument[r] \in Objects
      BY <1>2, <2>2 DEF CallInOrder, ObjectMethods, BucketMethods
    <3> QED
      BY <2>2, <3>1 DEF CallTypes, SecTypeOK
  <2> QED
    BY <2>1, <2>2 DEF Security
<1>7. CallTypes'
  BY <1>1, <1>3, <1>6 DEF CallTypes, Stages, Continue, callVars
<1> QED
  BY <1>2, <1>3, <1>5, <1>7 DEF storageVars

(* A step of the storage is its method's, and leaves the others alone. *)
LEMMA StorageStep ==
  ASSUME Grounds, NEW r \in Requests, CallStorage(r) \/ InStorage(r)
  PROVE  /\ stage[r] = "storage" /\ at[r] # "done" /\ at'[r] # "idle"
         /\ op'[r] = method[r] /\ target'[r] = argument[r]
         /\ Files!StepOf(r) /\ Files!WellFormed
         /\ UNCHANGED <<metaVars, secVars, stage, callVars, replyVars>>
<1> CallInOrder(r) /\ Files!WellFormed
  BY DEF Grounds, Files!FilesInv
<1>1. Files!StepOf(r)
  BY StorageSteps
<1>2. /\ at[r] # "done" /\ at'[r] # "idle"
      /\ at[r] # "idle" => op'[r] = op[r] /\ target'[r] = target[r]
  BY <1>1, StorageAssumptions, Files!CallsGoOn
<1>3. CASE InStorage(r)
  <2>1. at[r] # "idle"
    BY <1>3 DEF InStorage, SendBody, Storage!RemoveDirectory, Storage!Create,
                Storage!WriteBody, Storage!WriteChunk, Storage!Open, Storage!ReadBody,
                Storage!ReadChunk, Storage!Remove
  <2> QED
    BY <1>1, <1>2, <1>3, <2>1 DEF InStorage, CallInOrder
<1>4. CASE CallStorage(r)
  <2>1. op'[r] = method[r] /\ target'[r] = argument[r]
    <3> op \in [Requests -> Storage!Methods \cup {None}]
        /\ target \in [Requests -> Objects \cup Buckets \cup {None}]
      BY DEF Grounds, TypeOK, Storage!TypeOK
    <3> QED
      BY <1>4 DEF CallStorage, Storage!NewBucket, Storage!DeleteBucket,
                  Storage!BucketCall, Storage!Write, Storage!Read, Storage!Delete,
                  Storage!ObjectCall
  <2> QED
    BY <1>1, <1>2, <1>4, <2>1 DEF CallStorage
<1> QED
  BY <1>3, <1>4

LEMMA RestartStep ==
  ASSUME Grounds, Restart
  PROVE  /\ MetaTypeOK' /\ SecTypeOK' /\ CallTypes'
         /\ UNCHANGED <<method, argument, gotMeta, gotKey, op, target>>
         /\ buckets' = {} /\ restarts' # 0
         /\ \A r \in Requests :
              /\ stage[r] # "idle" <=> stage'[r] # "idle"
              /\ stage[r] = "refused" => stage'[r] = "refused"
              /\ stage'[r] # "security"
              /\ stage'[r] = "storage" <=> stage[r] = "storage" /\ at[r] # "idle"
              /\ at[r] = "idle" <=> at'[r] = "idle"
              /\ at'[r] \in {"idle", "done"}
         /\ \A o \in Objects : promised'[o] = None
<1> CallTypes /\ restarts \in Nat
  BY MaxRestartsAssumption, TypeParts DEF Grounds, Storage!TypeOK
<1> USE DEF Restart, Storage!Restart
<1>1. MetaTypeOK' /\ SecTypeOK'
  BY DEF MetaTypeOK, SecTypeOK, Entry
<1>2. CallTypes' /\ UNCHANGED <<method, argument, gotMeta, gotKey, op, target>>
  BY DEF CallTypes, Stages, callVars, replyVars
<1>3. buckets' = {} /\ restarts' # 0 /\ \A o \in Objects : promised'[o] = None
  OBVIOUS
<1>4. ASSUME NEW r \in Requests
      PROVE  /\ stage[r] # "idle" <=> stage'[r] # "idle"
             /\ stage[r] = "refused" => stage'[r] = "refused"
             /\ stage'[r] # "security"
             /\ stage'[r] = "storage" <=> stage[r] = "storage" /\ at[r] # "idle"
             /\ at[r] = "idle" <=> at'[r] = "idle"
             /\ at'[r] \in {"idle", "done"}
  <2>1. at'[r] = IF at[r] = "idle" THEN "idle" ELSE "done"
    OBVIOUS
  <2>2. stage'[r] = IF stage[r] = "security" \/ (stage[r] = "storage" /\ at[r] = "idle")
                    THEN "refused" ELSE stage[r]
    OBVIOUS
  <2> QED
    BY <2>1, <2>2
<1> QED
  BY <1>1, <1>2, <1>3, <1>4

LEMMA SameTypes == (Storage!TypeOK)' <=> (Files!TypeOK)'
BY SameStorage, PTL

LEMMA GroundsKept ==
  ASSUME Grounds, [Next]_vars
  PROVE  Grounds'
<1> CallTypes /\ MetaTypeOK /\ SecTypeOK /\ \A q \in Requests : CallInOrder(q)
  BY TypeParts DEF Grounds
<1>1. Files!FilesInv' /\ Files!BodiesKnown' /\ (Storage!TypeOK)'
  <2>1. Files!FilesInv' /\ Files!BodiesKnown'
    BY StorageKept
  <2>2. Files!TypeOK'
    BY <2>1 DEF Files!FilesInv, Files!WellFormed
  <2> QED
    BY <2>1, <2>2, SameTypes
<1>2. ASSUME NEW r \in Requests, StepOf(r)
      PROVE  TypeOK' /\ \A q \in Requests : CallInOrder(q)'
  <2>1. ASSUME NEW q \in Requests, q # r
        PROVE  CallInOrder(q)'
    BY <1>2, <2>1, OtherCalls DEF CallInOrder
  <2>2. CASE Metadata(r)
    BY <1>1, <2>1, <2>2, MetadataStep, TypeParts DEF CallInOrder, secVars, SecTypeOK
  <2>3. CASE Security(r)
    BY <1>1, <2>1, <2>3, SecurityStep, TypeParts
    DEF CallInOrder, metaVars, MetaTypeOK, callVars
  <2>4. CASE CallStorage(r) \/ InStorage(r)
    <3>1. CallInOrder(r)'
      BY <2>4, StorageStep DEF CallInOrder, callVars
    <3>2. MetaTypeOK' /\ SecTypeOK' /\ CallTypes'
      BY <2>4, StorageStep
      DEF metaVars, secVars, callVars, replyVars, MetaTypeOK, SecTypeOK, CallTypes
    <3> QED
      BY <1>1, <2>1, <3>1, <3>2, TypeParts
  <2> QED
    BY <1>2, <2>2, <2>3, <2>4 DEF StepOf
<1>3. CASE Restart
  <2>1. \A q \in Requests : CallInOrder(q)'
    BY <1>3, RestartStep DEF CallInOrder
  <2> QED
    BY <1>1, <1>3, <2>1, RestartStep, TypeParts DEF Grounds
<1>4. CASE UNCHANGED vars
  <2>1. \A q \in Requests : CallInOrder(q)'
    BY <1>4 DEF vars, storageVars, callVars, CallInOrder
  <2>2. MetaTypeOK' /\ SecTypeOK' /\ CallTypes'
    BY <1>4
    DEF vars, metaVars, secVars, callVars, replyVars, MetaTypeOK, SecTypeOK, CallTypes
  <2> QED
    BY <1>1, <2>1, <2>2, TypeParts DEF Grounds
<1> QED
  BY <1>1, <1>2, <1>3, <1>4 DEF Grounds, Next, StepOf

(* Whatever was removed without rest is an object that is removed. *)
LEMMA DisturbedKept ==
  ASSUME Grounds, DisturbedRemoved, [Next]_vars
  PROVE  DisturbedRemoved'
<1>1. ASSUME NEW r \in Requests, StepOf(r), NEW o \in disturbed'
      PROVE  ~NeverRemoved(o)'
  <2>1. disturbed' \subseteq Objects /\ \A q \in Requests : CallInOrder(q)'
    BY GroundsKept, <1>1 DEF Grounds, TypeOK, Storage!TypeOK, Next, StepOf
  <2>2. CASE o \in disturbed
    BY <1>1, <2>1, <2>2, StaysRemoved DEF DisturbedRemoved
  <2>3. CASE Metadata(r) \/ Security(r)
    BY <1>1, <2>2, <2>3, MetadataStep, SecurityStep DEF storageVars
  <2>4. CASE o \notin disturbed /\ (CallStorage(r) \/ InStorage(r))
    <3>1. PICK d \in Requests : /\ at'[d] # "idle"
                                /\ \/ op'[d] = "Delete" /\ target'[d] = o
                                   \/ op'[d] = "DeleteBucket" /\ target'[d] = BucketOf[o]
      BY <1>1, <2>4, StorageStep, StorageAssumptions, Files!DisturbedByRemoval
    <3>2. Removes(d, o)'
      BY <2>1, <3>1 DEF CallInOrder, Removes
    <3> QED
      BY <3>2 DEF NeverRemoved
  <2> QED
    BY <1>1, <2>2, <2>3, <2>4 DEF StepOf
<1>2. CASE Restart \/ UNCHANGED vars
  <2>1. UNCHANGED <<disturbed, method, argument>>
    BY <1>2 DEF Restart, Storage!Restart, vars, storageVars, callVars
  <2> QED
    BY <2>1 DEF DisturbedRemoved, NeverRemoved, Removes
<1> QED
  BY <1>1, <1>2 DEF Next, StepOf, DisturbedRemoved

LEMMA EntriesInBuckets ==
  ASSUME Grounds, MetaInBuckets, SecInBuckets, [Next]_vars
  PROVE  MetaInBuckets' /\ SecInBuckets'
<1> MetaTypeOK /\ SecTypeOK
  BY DEF Grounds, TypeOK
<1>1. MetaInBuckets'
  <2>1. CASE UNCHANGED metaVars \/ Restart
    BY <2>1 DEF MetaInBuckets, metaVars, Restart
  <2>2. ASSUME NEW r \in Requests, Metadata(r)
        PROVE  MetaInBuckets'
    BY <2>2
    DEF Metadata, MetaNewBucket, MetaDeleteBucket, MetaWrite, MetaRead, MetaDelete,
        metaVars, WithoutBucket, MetaInBuckets, MetaTypeOK
  <2> QED
    BY <2>1, <2>2, SecurityStep, StorageStep DEF Next, vars
<1>2. SecInBuckets'
  <2>1. CASE UNCHANGED secVars \/ Restart
    BY <2>1 DEF SecInBuckets, secVars, Restart
  <2>2. ASSUME NEW r \in Requests, Security(r)
        PROVE  SecInBuckets'
    BY <2>2 DEF Security, SecNewBucket, SecDeleteBucket, SecWriteKey, SecReadKey,
                SecDeleteKey, secVars, WithoutBucket, SecInBuckets, SecTypeOK
  <2> QED
    BY <2>1, <2>2, MetadataStep, StorageStep DEF Next, vars
<1> QED
  BY <1>1, <1>2

LEMMA RestartsStay ==
  ASSUME NEW r \in Requests, StepOf(r)
  PROVE  UNCHANGED restarts
<1>1. CASE Metadata(r) \/ Security(r)
  BY <1>1 DEF Metadata, Security, Start, Continue, storageVars
<1>2. CASE CallStorage(r)
  BY <1>2
  DEF CallStorage, Storage!NewBucket, Storage!DeleteBucket, Storage!BucketCall,
      Storage!Write, Storage!Read, Storage!Delete, Storage!ObjectCall
<1>3. CASE InStorage(r)
  BY <1>3
  DEF InStorage, SendBody, Storage!RemoveDirectory, Storage!Create, Storage!WriteBody,
      Storage!WriteChunk, Storage!Open, Storage!ReadBody, Storage!ReadChunk,
      Storage!Remove
<1> QED
  BY <1>1, <1>2, <1>3 DEF StepOf

-----------------------------------------------------------------------------
(* An object nobody removes: its entries stay, and its key is given once,  *)
(* to the upload that goes on with it.                                     *)

TakesKey(r, o) ==
  /\ method[r] = "Write" /\ argument[r] = o
  /\ stage[r] = "security" /\ stage'[r] = "storage"

LEMMA EntriesStay ==
  ASSUME Grounds, NEW r \in Requests, StepOf(r), NEW o \in Objects, NeverRemoved(o)'
  PROVE  /\ meta[o] # None => meta'[o] # None
         /\ \/ encKey'[o] = encKey[o]
            \/ encKey[o] = None /\ encKey'[o] = r /\ TakesKey(r, o)
<1> MetaTypeOK /\ SecTypeOK /\ CallTypes /\ ~Removes(r, o)'
  BY TypeParts DEF Grounds, NeverRemoved
<1>1. CASE Metadata(r)
  <2>1. ASSUME NEW e, NEW b \in Buckets,
               \/ Start(r, "NewBucket", b, e) /\ MetaNewBucket(b, e)
               \/ Start(r, "DeleteBucket", b, e) /\ MetaDeleteBucket(b, e),
               meta[o] # None
        PROVE  meta'[o] # None
    <3>1. b = BucketOf[o] => ~Start(r, "DeleteBucket", b, e)
      BY DEF Start, CallTypes, Removes
    <3> QED
      BY <2>1, <3>1
      DEF MetaNewBucket, MetaDeleteBucket, metaVars, WithoutBucket, MetaTypeOK
  <2>2. ASSUME NEW e, NEW x \in Objects,
               \/ Start(r, "Write", x, e) /\ MetaWrite(x, r, e)
               \/ Start(r, "Read", x, e) /\ MetaRead(x, e)
               \/ Start(r, "Delete", x, e) /\ MetaDelete(x, e),
               meta[o] # None
        PROVE  meta'[o] # None
    <3>1. x = o => ~Start(r, "Delete", x, e)
      BY DEF Start, CallTypes, Removes
    <3> QED
      BY <2>2, <3>1, NoneAssumption
      DEF MetaWrite, MetaRead, MetaDelete, metaVars, MetaTypeOK
  <2>3. meta[o] # None => meta'[o] # None
    BY <1>1, <2>1, <2>2 DEF Metadata
  <2> QED
    BY <1>1, <2>3, MetadataStep DEF secVars
<1>2. CASE Security(r)
  <2>1. UNCHANGED metaVars /\ method'[r] = method[r] /\ argument'[r] = argument[r]
    BY <1>2, SecurityStep DEF callVars
  <2>2. CASE method[r] = "Write"
    BY <1>2, <2>1, <2>2
    DEF Security, Continue, SecWriteKey, secVars, SecTypeOK, metaVars, TakesKey,
        CallTypes
  <2>3. CASE method[r] # "Write"
    BY <1>2, <2>1, <2>3
    DEF Security, SecNewBucket, SecReadKey, SecDeleteKey, SecDeleteBucket, secVars,
        WithoutBucket, SecTypeOK, metaVars, Removes
  <2> QED
    BY <2>2, <2>3
<1>3. CASE CallStorage(r) \/ InStorage(r)
  BY <1>3, StorageStep DEF metaVars, secVars
<1> QED
  BY <1>1, <1>2, <1>3 DEF StepOf

LEMMA ObjectStep ==
  ASSUME Grounds, NEW r \in Requests, StepOf(r), NEW o \in Objects,
         ObjectInOrder(o), NeverRemoved(o)'
  PROVE  ObjectInOrder(o)'
<1> /\ MetaTypeOK /\ SecTypeOK /\ CallTypes /\ CallInOrder(r)
    /\ UploadInOrder(r, o) /\ DownloadInOrder(r, o)
  BY TypeParts DEF Grounds, ObjectInOrder
<1>1. /\ meta[o] # None => meta'[o] # None
      /\ \/ encKey'[o] = encKey[o]
         \/ encKey[o] = None /\ encKey'[o] = r /\ TakesKey(r, o)
  BY EntriesStay
<1>2. encKey[o] # None => encKey'[o] = encKey[o]
  BY <1>1
<1>3. encKey'[o] # None => meta'[o] # None
  BY <1>1 DEF ObjectInOrder, UploadInOrder, TakesKey
<1>4. promised'[o] # None => encKey'[o] = promised'[o]
  <2>1. CASE Metadata(r) \/ Security(r)
    BY <1>2, <2>1, MetadataStep, SecurityStep DEF ObjectInOrder, storageVars
  <2>2. CASE CallStorage(r) \/ InStorage(r)
    <3>1. \/ promised'[o] \in {promised[o], None}
          \/ promised'[o] = r /\ op[r] = "Write" /\ target[r] = o /\ at[r] = "write 2"
      BY <2>2, StorageStep, StorageAssumptions, Files!PromisesMove
    <3>2. CASE promised'[o] = r /\ op[r] = "Write" /\ target[r] = o /\ at[r] = "write 2"
      <4>1. encKey[o] = r
        BY <2>2, <3>2, StorageStep DEF CallInOrder, UploadInOrder
      <4> QED
        BY <1>2, <3>2, <4>1, NoneAssumption
    <3> QED
      BY <1>2, <3>1, <3>2 DEF ObjectInOrder
  <2> QED
    BY <2>1, <2>2 DEF StepOf
<1>5. ASSUME NEW q \in Requests, q # r
      PROVE  UploadInOrder(q, o)' /\ DownloadInOrder(q, o)'
  <2>1. UploadInOrder(q, o) /\ DownloadInOrder(q, o)
    BY DEF ObjectInOrder
  <2> QED
    BY <1>1, <1>2, <1>5, <2>1, OtherCalls, RestartsStay, NoneAssumption
    DEF UploadInOrder, DownloadInOrder
<1>6. UploadInOrder(r, o)'
  <2>1. CASE Metadata(r)
    <3>1. ASSUME stage'[r] = "security", method'[r] = "Write", argument'[r] = o
          PROVE  meta'[o] # None
      BY <2>1, <3>1, NoneAssumption
      DEF Metadata, Start, Continue, CallTypes, MetaWrite, MetaTypeOK
    <3> QED
      BY <2>1, <3>1, MetadataStep DEF UploadInOrder
  <2>2. CASE Security(r)
    <3>1. ASSUME stage'[r] = "storage", method[r] = "Write", argument[r] = o
          PROVE  encKey'[o] = r
      BY <2>2, <3>1 DEF Security, Continue, CallTypes, SecWriteKey, SecTypeOK
    <3> QED
      BY <2>2, <3>1, SecurityStep DEF UploadInOrder, callVars
  <2>3. CASE CallStorage(r) \/ InStorage(r)
    BY <2>3, StorageStep DEF UploadInOrder, callVars, secVars, replyVars
  <2> QED
    BY <2>1, <2>2, <2>3 DEF StepOf
<1>7. DownloadInOrder(r, o)'
  <2>1. CASE Metadata(r)
    BY <2>1, MetadataStep DEF DownloadInOrder
  <2>2. CASE Security(r)
    <3>1. ASSUME stage'[r] = "storage", method[r] = "Read", argument[r] = o
          PROVE  encKey'[o] # None /\ gotKey'[r] = encKey'[o]
      BY <2>2, <3>1
      DEF Security, Continue, CallTypes, SecReadKey, SecTypeOK, secVars
    <3> QED
      BY <2>2, <3>1, SecurityStep DEF DownloadInOrder, callVars
  <2>3. CASE CallStorage(r) \/ InStorage(r)
    <3> SUFFICES ASSUME method[r] = "Read", argument[r] = o, stage[r] = "storage"
                 PROVE  /\ restarts = 0 => encKey[o] # None /\ gotKey[r] = encKey[o]
                        /\ expects'[r] # None => gotKey[r] = expects'[r]
      BY <2>3, StorageStep, RestartsStay DEF DownloadInOrder, callVars, secVars, replyVars
    <3>1. \/ expects'[r] = expects[r]
          \/ at[r] = "idle" /\ expects'[r] = promised[target'[r]]
      BY <2>3, StorageStep, StorageAssumptions, Files!ExpectationsMove
    <3>2. at[r] = "idle" => expects[r] = None
      BY <2>3, StorageStep
      DEF Files!WellFormed, Files!CallsWellFormed, Files!CallWellFormed
    <3>3. target'[r] = o
      BY <2>3, StorageStep
    <3> QED
      BY <3>1, <3>2, <3>3 DEF DownloadInOrder, ObjectInOrder
  <2> QED
    BY <2>1, <2>2, <2>3 DEF StepOf
<1> QED
  BY <1>3, <1>4, <1>5, <1>6, <1>7 DEF ObjectInOrder

(* An upload comes past the key of its object only by setting it. *)
LEMMA UploadMoves ==
  ASSUME Grounds, NEW r \in Requests, StepOf(r), NEW o \in Objects, NeverRemoved(o)',
         NEW u, UploadTo(u, o)
  PROVE  /\ UploadTo(u, o)'
         /\ stage'[u] = "security" => stage[u] = "security"
         /\ stage'[u] = "storage" /\ stage[u] # "storage" =>
              stage[u] = "security" /\ encKey[o] = None /\ encKey'[o] = u
<1> u \in Requests /\ method[u] = "Write" /\ argument[u] = o
    /\ SecTypeOK /\ CallTypes /\ CallInOrder(r)
  BY TypeParts DEF UploadTo, Grounds
<1>1. UploadTo(u, o)'
  BY MethodStays, NoneIsNoName DEF UploadTo, Storage!Methods
<1>2. CASE u # r
  BY <1>1, <1>2, OtherCalls
<1>3. CASE u = r
  <2>1. CASE Metadata(r)
    BY <1>3, <2>1, MetadataStep, NoneIsNoName DEF Storage!Methods
  <2>2. CASE Security(r)
    <3>1. ASSUME stage'[r] = "storage"
          PROVE  encKey[o] = None /\ encKey'[o] = r
      BY <1>3, <2>2, <3>1 DEF Security, Continue, CallTypes, SecWriteKey, SecTypeOK
    <3> QED
      BY <1>1, <1>3, <2>2, <3>1, SecurityStep
  <2>3. CASE CallStorage(r) \/ InStorage(r)
    BY <1>1, <1>3, <2>3, StorageStep
  <2> QED
    BY <2>1, <2>2, <2>3 DEF StepOf
<1> QED
  BY <1>2, <1>3

LEMMA EntryStaysLabelled ==
  ASSUME Grounds, NEW r \in Requests, StepOf(r), NEW o \in Objects, NeverRemoved(o)',
         EntryLabelled(o)
  PROVE  EntryLabelled(o)'
<1> MetaTypeOK /\ CallTypes
  BY TypeParts DEF Grounds
<1>1. \/ meta'[o] \in {meta[o], None}
      \/ meta'[o] = r /\ UploadTo(r, o)' /\ stage'[r] # "storage"
  <2>1. CASE Metadata(r)
    <3>1. stage'[r] # "storage"
      BY <2>1, MetadataStep
    <3> QED
      BY <2>1, <3>1
      DEF Metadata, Start, CallTypes, MetaTypeOK, MetaNewBucket, MetaDeleteBucket,
          MetaWrite, MetaRead, MetaDelete, metaVars, WithoutBucket, UploadTo
  <2>2. CASE ~Metadata(r)
    BY <2>2, SecurityStep, StorageStep DEF StepOf, metaVars
  <2> QED
    BY <2>1, <2>2
<1>2. ASSUME meta[o] # None, meta'[o] = meta[o]
      PROVE  EntryLabelled(o)'
  <2>1. UploadTo(meta[o], o) /\ (stage[meta[o]] = "storage" => encKey[o] = meta[o])
    BY <1>2 DEF EntryLabelled
  <2> QED
    BY <1>2, <2>1, UploadMoves, EntriesStay DEF EntryLabelled
<1> QED
  BY <1>1, <1>2 DEF EntryLabelled

LEMMA DownloadStaysLabelled ==
  ASSUME Grounds, NEW r \in Requests, StepOf(r), NEW o \in Objects, NeverRemoved(o)',
         EntryLabelled(o), NEW q \in Requests, DownloadLabelled(q, o)
  PROVE  DownloadLabelled(q, o)'
<1> MetaTypeOK /\ SecTypeOK /\ CallTypes
  BY TypeParts DEF Grounds
<1>1. encKey[o] # None => encKey'[o] = encKey[o]
  BY EntriesStay
<1>2. CASE UNCHANGED <<stage[q], method[q], argument[q], gotMeta[q], gotKey[q]>>
  <2> SUFFICES ASSUME method[q] = "Read", argument[q] = o,
                      stage[q] \in {"security", "storage"}
               PROVE  DownloadLabelled(q, o)'
    BY <1>2 DEF DownloadLabelled
  <2> PICK u \in Entry : u = gotMeta[q]
    BY DEF CallTypes
  <2>1. /\ UploadTo(u, o)
        /\ stage[q] = "security" /\ stage[u] = "storage" => encKey[o] = u
        /\ stage[q] = "storage" /\ stage[u] = "storage" => gotKey[q] = u
        /\ stage[q] = "storage" /\ stage[u] = "security" => encKey[o] # None
    BY DEF DownloadLabelled
  <2>2. /\ UploadTo(u, o)'
        /\ stage'[u] = "security" => stage[u] = "security"
        /\ stage'[u] = "storage" /\ stage[u] # "storage" =>
             stage[u] = "security" /\ encKey[o] = None /\ encKey'[o] = u
    BY <2>1, UploadMoves
  <2>3. u # None
    BY <2>1, NoneAssumption DEF UploadTo
  <2> QED
    BY <1>1, <1>2, <2>1, <2>2, <2>3 DEF DownloadLabelled
<1>3. CASE q = r /\ Metadata(r)
  <2> SUFFICES ASSUME method'[r] = "Read", argument'[r] = o, stage'[r] = "security"
               PROVE  DownloadLabelled(r, o)'
    BY <1>3, MetadataStep DEF DownloadLabelled
  <2>1. meta'[o] # None /\ gotMeta'[r] = meta'[o]
    BY <1>3 DEF Metadata, Start, Continue, CallTypes, MetaRead, metaVars
  <2>2. EntryLabelled(o)'
    BY EntryStaysLabelled
  <2> QED
    BY <2>1, <2>2 DEF DownloadLabelled, EntryLabelled
<1>4. CASE q = r /\ Security(r)
  <2>1. /\ UNCHANGED <<method, argument, gotMeta>>
        /\ stage[r] = "security" /\ stage'[r] \in {"storage", "refused"}
    BY <1>4, SecurityStep DEF callVars
  <2> SUFFICES ASSUME method[r] = "Read", argument[r] = o, stage'[r] = "storage"
               PROVE  DownloadLabelled(r, o)'
    BY <1>4, <2>1 DEF DownloadLabelled
  <2>2. encKey[o] # None /\ gotKey'[r] = encKey[o]
    BY <1>4 DEF Security, Continue, CallTypes, SecReadKey
  <2> PICK u \in Entry : u = gotMeta[r]
    BY DEF CallTypes
  <2>3. UploadTo(u, o) /\ (stage[u] = "storage" => encKey[o] = u)
    BY <1>4, <2>1 DEF DownloadLabelled
  <2>4. UploadTo(u, o)' /\ (stage'[u] = "storage" => stage[u] = "storage")
    BY <2>2, <2>3, UploadMoves
  <2> QED
    BY <1>1, <1>4, <2>1, <2>2, <2>3, <2>4 DEF DownloadLabelled
<1>5. CASE q = r /\ (CallStorage(r) \/ InStorage(r))
  BY <1>2, <1>5, StorageStep DEF callVars, replyVars
<1>6. CASE q # r
  BY <1>2, <1>6, OtherCalls
<1> QED
  BY <1>3, <1>4, <1>5, <1>6 DEF StepOf

(* While a download sends a promised body, the reply can only refuse it    *)
(* for its length.                                                         *)
LEMMA ReplyStep ==
  ASSUME Grounds, NEW r \in Requests, StepOf(r), NEW o \in Objects, o \notin disturbed',
         NEW q \in Requests, ReplyInOrder(q, o)
  PROVE  ReplyInOrder(q, o)'
<1> CallTypes /\ CallInOrder(r) /\ Files!CallWellFormed(r)
  BY TypeParts
  DEF Grounds, Files!FilesInv, Files!WellFormed, Files!CallsWellFormed
<1>1. CASE q # r
  BY <1>1, OtherCalls DEF ReplyInOrder
<1>2. CASE q = r /\ (Metadata(r) \/ Security(r))
  <2>1. at[r] = "idle" /\ expects'[r] = expects[r]
    BY <1>2, MetadataStep, SecurityStep DEF storageVars
  <2>2. expects[r] = None
    BY <2>1 DEF Files!CallWellFormed
  <2> QED
    BY <1>2, <2>1, <2>2 DEF ReplyInOrder
<1>3. CASE q = r /\ (CallStorage(r) \/ InStorage(r))
  <2>1. /\ UNCHANGED <<method, argument, gotMeta, stage>>
        /\ op'[r] = method[r] /\ target'[r] = argument[r]
    BY <1>3, StorageStep DEF callVars, replyVars
  <2> SUFFICES ASSUME method[r] = "Read", argument[r] = o,
                      status'[r] = Storage!ReplyError, expects'[r] # None
               PROVE  at'[r] = "done" /\ ~Fits(gotMeta[r], expects'[r])
    BY <1>3, <2>1 DEF ReplyInOrder
  <2>2. /\ at[r] \in {"read 1", "read 2"} /\ at'[r] = "done"
        /\ op[r] = "Read" /\ target[r] = o /\ expects'[r] = expects[r]
    <3>1. Files!WellFormed /\ Files!StepOf(r) /\ status'[r] = Files!ReplyError
      BY <1>3, StorageStep DEF Storage!ReplyError, Files!ReplyError
    <3> QED
      BY <2>1, <3>1, StorageAssumptions, Files!RefusedWhileRead
  <2>3. SendBody(r)
    BY <1>3, <2>2
    DEF CallStorage, InStorage, Storage!NewBucket, Storage!DeleteBucket,
        Storage!BucketCall, Storage!Write, Storage!Read, Storage!Delete,
        Storage!ObjectCall, Storage!RemoveDirectory, Storage!Create,
        Storage!WriteBody, Storage!WriteChunk, Storage!Open, Storage!Remove
  <2>4. content[fd[r]] = Files!Whole(expects[r])
    <3>1. o \notin disturbed
      BY <2>3
      DEF SendBody, Storage!ReadBody, Storage!ReadChunk, Storage!history
    <3>2. Files!ReaderInOrder(r, o)
      BY <3>1 DEF Grounds, Files!FilesInv, Files!InOrder, Files!CallInOrder
    <3> QED
      BY <2>2, <3>2 DEF Files!ReaderInOrder
  <2>5. PICK i \in Storage!Chunks : ~Fits(gotMeta[r], content[fd[r]][i])
    BY <2>3 DEF SendBody, WrongLength
  <2>6. content[fd[r]][i] = expects[r]
    BY <2>4 DEF Files!Whole, Files!Chunks, Storage!Chunks
  <2> QED
    BY <2>2, <2>5, <2>6
<1> QED
  BY <1>1, <1>2, <1>3 DEF StepOf

LEMMA ObjectsKept ==
  ASSUME Grounds, DisturbedRemoved, [Next]_vars, NEW o \in Objects,
         NeverRemoved(o) => ObjectInOrder(o) /\ LabelsInOrder(o), NeverRemoved(o)'
  PROVE  ObjectInOrder(o)' /\ LabelsInOrder(o)'
<1>1. ASSUME NEW r \in Requests, StepOf(r)
      PROVE  ObjectInOrder(o)' /\ LabelsInOrder(o)'
  <2>1. NeverRemoved(o) /\ o \notin disturbed'
    BY <1>1, StaysRemoved, DisturbedKept DEF DisturbedRemoved
  <2>2. ObjectInOrder(o)'
    BY <1>1, <2>1, ObjectStep
  <2>3. EntryLabelled(o)'
    BY <1>1, <2>1, EntryStaysLabelled DEF LabelsInOrder
  <2>4. ASSUME NEW q \in Requests
        PROVE  DownloadLabelled(q, o)' /\ ReplyInOrder(q, o)'
    BY <1>1, <2>1, DownloadStaysLabelled, ReplyStep DEF LabelsInOrder
  <2> QED
    BY <2>2, <2>3, <2>4 DEF LabelsInOrder
<1>2. CASE Restart
  <2>1. ObjectInOrder(o) /\ LabelsInOrder(o)
    BY <1>2, RestartStep DEF NeverRemoved, Removes
  <2>4. EntryLabelled(o)'
    BY <1>2 DEF Restart, EntryLabelled
  <2>5. ASSUME NEW r \in Requests
        PROVE  DownloadLabelled(r, o)' /\ ReplyInOrder(r, o)'
    <3>1. DownloadLabelled(r, o)'
      <4> SUFFICES ASSUME method[r] = "Read", argument[r] = o, stage[r] = "storage"
                   PROVE  DownloadLabelled(r, o)'
        BY <1>2, RestartStep DEF DownloadLabelled
      <4>1. /\ UploadTo(gotMeta[r], o)
            /\ stage[gotMeta[r]] = "storage" => gotKey[r] = gotMeta[r]
        BY <2>1 DEF LabelsInOrder, DownloadLabelled
      <4> QED
        BY <1>2, <4>1, RestartStep DEF DownloadLabelled, UploadTo
    <3>2. ReplyInOrder(r, o)'
      <4>1. status' = status /\ (expects'[r] # None => expects'[r] = expects[r])
        BY <1>2 DEF Restart, Storage!Restart
      <4>2. ReplyInOrder(r, o)
        BY <2>1 DEF LabelsInOrder
      <4>3. at[r] = "done" => at'[r] = "done"
        BY <1>2, RestartStep
      <4> QED
        BY <1>2, <4>1, <4>2, <4>3, RestartStep DEF ReplyInOrder
    <3> QED
      BY <3>1, <3>2
  <2>2. encKey'[o] = None /\ promised'[o] = None
    BY <1>2, RestartStep DEF Restart
  <2>3. ASSUME NEW r \in Requests
        PROVE  UploadInOrder(r, o)' /\ DownloadInOrder(r, o)'
    <3>1. expects'[r] # None => at[r] = "done" /\ expects'[r] = expects[r]
      BY <1>2 DEF Restart, Storage!Restart
    <3> QED
      BY <1>2, <2>1, <3>1, RestartStep DEF ObjectInOrder, UploadInOrder, DownloadInOrder
  <2> QED
    BY <2>2, <2>3, <2>4, <2>5 DEF ObjectInOrder, LabelsInOrder
<1>3. CASE UNCHANGED vars
  BY <1>3
  DEF vars, metaVars, secVars, storageVars, callVars, replyVars, NeverRemoved, Removes,
      ObjectInOrder, UploadInOrder, DownloadInOrder, LabelsInOrder, EntryLabelled,
      DownloadLabelled, ReplyInOrder, UploadTo
<1> QED
  BY <1>1, <1>2, <1>3 DEF Next, StepOf

-----------------------------------------------------------------------------
(* The buckets, while none is deleted. *)

(* The creation of a bucket ends with the bucket in the storage, whether   *)
(* it has found a directory there or not.                                  *)
LEMMA CreationEnds ==
  ASSUME Grounds, NEW r \in Requests, CallStorage(r) \/ InStorage(r),
         method[r] = "NewBucket"
  PROVE  argument[r] \in buckets'
<1>1. CASE CallStorage(r)
  BY <1>1 DEF CallStorage, Storage!NewBucket
<1>2. CASE InStorage(r)
  <2>1. /\ at[r] # "idle"
        /\ op[r] \in {"Write", "Read", "Delete", "DeleteBucket"}
    BY <1>2, StorageStep
    DEF Files!WellFormed, Files!CallsWellFormed, Files!CallWellFormed, InStorage,
        SendBody, Storage!RemoveDirectory, Storage!Create, Storage!WriteBody,
        Storage!WriteChunk, Storage!Open, Storage!ReadBody, Storage!ReadChunk,
        Storage!Remove
  <2> QED
    BY <2>1 DEF Grounds, CallInOrder
<1> QED
  BY <1>1, <1>2

LEMMA BucketStep ==
  ASSUME Grounds, NEW r \in Requests, StepOf(r), NEW b \in Buckets,
         BucketInOrder(b), method'[r] # "DeleteBucket"
  PROVE  BucketInOrder(b)'
<1> MetaTypeOK /\ SecTypeOK /\ CallTypes /\ CallInOrder(r)
  BY TypeParts DEF Grounds
<1>1. ASSUME NEW q \in Requests, q # r
      PROVE  (Creating(q, b)' <=> Creating(q, b)) /\ stage'[q] = stage[q]
  BY <1>1, OtherCalls DEF Creating
<1>2. CASE Metadata(r)
  <2>1. /\ ~Creating(r, b)
        /\ UNCHANGED <<secBuckets, buckets>>
        /\ Creating(r, b)' => stage'[r] = "security"
    BY <1>2, MetadataStep DEF Creating, secVars, storageVars
  <2>2. /\ metaBuckets \subseteq metaBuckets'
        /\ b \in metaBuckets' \ metaBuckets => Creating(r, b)'
        /\ Creating(r, b)' => b \in metaBuckets'
    <3>1. ASSUME NEW e, NEW x \in Buckets,
                 \/ Start(r, "NewBucket", x, e) /\ MetaNewBucket(x, e)
                 \/ Start(r, "DeleteBucket", x, e) /\ MetaDeleteBucket(x, e)
          PROVE  /\ metaBuckets \subseteq metaBuckets'
                 /\ b \in metaBuckets' \ metaBuckets => Creating(r, b)'
                 /\ Creating(r, b)' => b \in metaBuckets'
      <4>1. ~Start(r, "DeleteBucket", x, e)
        BY DEF Start, CallTypes
      <4>2. stage'[r] = (IF e = Ok THEN "security" ELSE "refused") /\ argument'[r] = x
            /\ method'[r] = "NewBucket"
        BY <3>1, <4>1 DEF Start, Continue, CallTypes
      <4> QED
        BY <3>1, <4>1, <4>2 DEF MetaNewBucket, metaVars, Creating
    <3>2. ASSUME NEW e, NEW x \in Objects,
                 \/ Start(r, "Write", x, e) /\ MetaWrite(x, r, e)
                 \/ Start(r, "Read", x, e) /\ MetaRead(x, e)
                 \/ Start(r, "Delete", x, e) /\ MetaDelete(x, e)
          PROVE  metaBuckets' = metaBuckets /\ ~Creating(r, b)'
      BY <3>2
      DEF Start, CallTypes, Creating, MetaWrite, MetaRead, MetaDelete, metaVars
    <3> QED
      BY <1>2, <3>1, <3>2 DEF Metadata
  <2>3. \A q \in Requests : Creating(q, b) =>
          Creating(q, b)' /\ q # r /\ stage'[q] = stage[q]
    BY <1>1, <2>1
  <2>4. b \in metaBuckets' \ secBuckets' =>
          \E q \in Requests : Creating(q, b)' /\ stage'[q] = "security"
    BY <2>1, <2>2, <2>3 DEF BucketInOrder
  <2>5. b \in secBuckets' \ buckets' =>
          \E q \in Requests : Creating(q, b)' /\ stage'[q] = "storage"
    BY <2>1, <2>3 DEF BucketInOrder
  <2>6. ASSUME NEW q \in Requests, Creating(q, b)'
        PROVE  b \in metaBuckets' /\ (stage'[q] = "storage" => b \in secBuckets')
    BY <1>1, <2>1, <2>2, <2>6 DEF BucketInOrder
  <2> QED
    BY <2>1, <2>2, <2>4, <2>5, <2>6 DEF BucketInOrder
<1>3. CASE Security(r)
  <2>1. /\ UNCHANGED <<metaBuckets, buckets>> /\ stage[r] = "security"
        /\ stage'[r] # "security" /\ method'[r] = method[r] /\ argument'[r] = argument[r]
        /\ at'[r] = "idle"
    BY <1>3, SecurityStep DEF metaVars, storageVars, callVars
  <2>2. /\ secBuckets \subseteq secBuckets'
        /\ b \in secBuckets' \ secBuckets => Creating(r, b)' /\ Creating(r, b)
        /\ Creating(r, b)' => b \in secBuckets' /\ Creating(r, b)
        /\ Creating(r, b) => b \in secBuckets'
    <3>1. CASE method[r] = "NewBucket"
      BY <1>3, <2>1, <3>1
      DEF Security, Continue, CallTypes, SecNewBucket, secVars, Creating
    <3>2. CASE method[r] # "NewBucket"
      BY <1>3, <2>1, <3>2
      DEF Security, SecWriteKey, SecReadKey, SecDeleteKey, secVars, Creating
    <3> QED
      BY <3>1, <3>2
  <2>3. \A q \in Requests : Creating(q, b) /\ q # r =>
          Creating(q, b)' /\ stage'[q] = stage[q]
    BY <1>1
  <2>4. b \in metaBuckets' \ secBuckets' =>
          \E q \in Requests : Creating(q, b)' /\ stage'[q] = "security"
    BY <2>1, <2>2, <2>3 DEF BucketInOrder
  <2>5. b \in secBuckets' \ buckets' =>
          \E q \in Requests : Creating(q, b)' /\ stage'[q] = "storage"
    <3>1. Creating(r, b)' => stage'[r] = "storage"
      BY <2>1 DEF Creating
    <3> QED
      BY <2>1, <2>2, <2>3, <3>1 DEF BucketInOrder
  <2>6. ASSUME NEW q \in Requests, Creating(q, b)'
        PROVE  b \in metaBuckets' /\ (stage'[q] = "storage" => b \in secBuckets')
    BY <1>1, <2>1, <2>2, <2>6 DEF BucketInOrder
  <2>7. b \in buckets' => b \in secBuckets'
    BY <2>1, <2>2 DEF BucketInOrder
  <2>8. b \in secBuckets' => b \in metaBuckets'
    BY <2>1, <2>2 DEF BucketInOrder
  <2> QED
    BY <2>4, <2>5, <2>6, <2>7, <2>8 DEF BucketInOrder
<1>4. CASE CallStorage(r) \/ InStorage(r)
  <2>1. /\ UNCHANGED <<metaBuckets, secBuckets, stage, method, argument>>
        /\ stage[r] = "storage" /\ at[r] # "done"
    BY <1>4, StorageStep DEF metaVars, secVars, callVars
  <2>2. /\ buckets \subseteq buckets'
        /\ b \in buckets' \ buckets => method[r] = "NewBucket" /\ argument[r] = b
    BY <1>4, <2>1, StorageStep, StorageAssumptions, Files!BucketsMove
  <2>3. b \in buckets' \ buckets => Creating(r, b)
    BY <2>1, <2>2 DEF Creating
  <2>4. Creating(r, b) => b \in buckets'
    BY <1>4, CreationEnds DEF Creating
  <2>5. Creating(r, b)' => Creating(r, b)
    BY <2>1 DEF Creating
  <2> QED
    BY <1>1, <2>1, <2>2, <2>3, <2>4, <2>5 DEF BucketInOrder
<1> QED
  BY <1>2, <1>3, <1>4 DEF StepOf

LEMMA BucketsKept ==
  ASSUME Grounds, [Next]_vars, NoBucketDeleted', NEW b \in Buckets,
         NoBucketDeleted => BucketInOrder(b)
  PROVE  BucketInOrder(b)'
<1>1. ASSUME NEW r \in Requests, StepOf(r)
      PROVE  BucketInOrder(b)'
  <2>1. NoBucketDeleted
    BY <1>1, NoneIsNoName, MethodStays DEF NoBucketDeleted, Storage!Methods
  <2> QED
    BY <1>1, <2>1, BucketStep DEF NoBucketDeleted
<1>2. CASE Restart
  <2>1. \A r \in Requests : ~Creating(r, b)'
    BY <1>2, RestartStep DEF Creating
  <2> QED
    BY <1>2, <2>1, RestartStep DEF Restart, BucketInOrder
<1>3. CASE UNCHANGED vars
  BY <1>3
  DEF vars, metaVars, secVars, storageVars, callVars, NoBucketDeleted, BucketInOrder,
      Creating
<1> QED
  BY <1>1, <1>2, <1>3 DEF Next, StepOf

-----------------------------------------------------------------------------
(* The invariant, and what it gives. *)

LEMMA WholeInit == Init => WholeInv
<1> SUFFICES ASSUME Init PROVE WholeInv
  OBVIOUS
<1>1. Files!Init
  BY SameStorage DEF Init
<1>2. Files!FilesInv
  BY <1>1, StorageAssumptions, Files!FilesInit
<1>3. Files!BodiesKnown
  BY <1>1, StorageAssumptions, Files!BodiesInv
<1>4. TypeOK
  <2>1. Storage!TypeOK
    BY <1>2, SameStorage DEF Files!FilesInv, Files!WellFormed
  <2> QED
    BY <2>1
    DEF Init, MetaInit, SecInit, TypeOK, MetaTypeOK, SecTypeOK, Entry, Stages
<1> USE DEF Init, MetaInit, SecInit, Storage!Init
<1>5. \A r \in Requests : CallInOrder(r)
  BY DEF CallInOrder
<1>6. MetaInBuckets /\ SecInBuckets /\ DisturbedRemoved
  BY DEF MetaInBuckets, SecInBuckets, DisturbedRemoved
<1>7. \A o \in Objects : ObjectInOrder(o) /\ LabelsInOrder(o)
  BY DEF ObjectInOrder, UploadInOrder, DownloadInOrder, LabelsInOrder, EntryLabelled,
         DownloadLabelled, ReplyInOrder
<1>8. \A b \in Buckets : BucketInOrder(b)
  BY DEF BucketInOrder, Creating
<1> QED
  BY <1>2, <1>3, <1>4, <1>5, <1>6, <1>7, <1>8 DEF WholeInv, Grounds

LEMMA WholeStep == WholeInv /\ [Next]_vars => WholeInv'
<1> SUFFICES ASSUME WholeInv, [Next]_vars PROVE WholeInv'
  OBVIOUS
<1>1. Grounds' /\ MetaInBuckets' /\ SecInBuckets' /\ DisturbedRemoved'
  BY GroundsKept, EntriesInBuckets, DisturbedKept DEF WholeInv
<1>2. ASSUME NEW o \in Objects, NeverRemoved(o)'
      PROVE  ObjectInOrder(o)' /\ LabelsInOrder(o)'
  BY <1>2, ObjectsKept DEF WholeInv
<1>3. ASSUME NEW b \in Buckets, NoBucketDeleted'
      PROVE  BucketInOrder(b)'
  BY <1>3, BucketsKept DEF WholeInv
<1> QED
  BY <1>1, <1>2, <1>3 DEF WholeInv

LEMMA AlwaysWhole == Spec => []WholeInv
BY WholeInit, WholeStep, PTL DEF Spec

(* Every variable keeps to its type. *)
THEOREM TypeCorrect == Spec => []TypeOK
<1>1. WholeInv => TypeOK
  BY DEF WholeInv, Grounds
<1> QED
  BY <1>1, AlwaysWhole, PTL

(* What the storage keeps for an object nobody removes, and for who asks   *)
(* for it.                                                                 *)
LEMMA PromisesKept ==
  ASSUME WholeInv, NEW o \in Objects, NeverRemoved(o)
  PROVE  /\ promised[o] # None =>
              /\ o \in listed /\ BucketOf[o] \in buckets
              /\ Storage!Exists(o)
              /\ content[inode[o]] = Storage!Whole(promised[o])
         /\ \A r \in Requests :
              (/\ op[r] = "Read" /\ at[r] = "done"
               /\ expects[r] # None /\ target[r] = o)
                => \/ status[r] = Ok /\ got[r] = Storage!Whole(expects[r])
                   \/ /\ status[r] = Storage!ReplyError
                      /\ \A i \in Storage!Chunks : got[r][i] \in {None, expects[r]}
<1>1. Files!AckedFileKept /\ Files!PromisedIsServed
  BY StorageAssumptions, Files!PromisesKept DEF WholeInv, Grounds
<1>2. o \notin disturbed
  BY DEF WholeInv, DisturbedRemoved
<1>3. Storage!Exists(o) <=> Files!Exists(o)
  BY DEF Storage!Exists, Files!Exists
<1>4. \A u : Storage!Whole(u) = Files!Whole(u)
  BY DEF Storage!Whole, Files!Whole, Storage!Chunks, Files!Chunks
<1>5. Storage!Chunks = Files!Chunks /\ Storage!ReplyError = Files!ReplyError
  BY DEF Storage!Chunks, Files!Chunks, Storage!ReplyError, Files!ReplyError
<1> QED
  BY <1>1, <1>2, <1>3, <1>4, <1>5
  DEF Files!AckedFileKept, Files!PromisedIsServed, Files!Ok

(* An upload that was acknowledged stays in the three stores, under its    *)
(* own key, until its removal is asked for or the process ends; only its   *)
(* metadata may become that of an upload that does not come past the key.  *)
THEOREM AckedLives == Spec => []AckedFileLives
<1>1. WholeInv => AckedFileLives
  <2> SUFFICES ASSUME WholeInv, NEW o \in Objects, promised[o] # None, NeverRemoved(o)
               PROVE  /\ BucketOf[o] \in metaBuckets \cap secBuckets \cap buckets
                      /\ meta[o] \in OnlyLabels(o) \cup {promised[o]}
                      /\ encKey[o] = promised[o]
                      /\ o \in listed
                      /\ Storage!Exists(o)
                      /\ content[inode[o]] = Storage!Whole(promised[o])
    BY DEF AckedFileLives
  <2>1. encKey[o] = promised[o] /\ meta[o] # None
    BY DEF WholeInv, ObjectInOrder
  <2>2. BucketOf[o] \in metaBuckets \cap secBuckets
    BY <2>1 DEF WholeInv, MetaInBuckets, SecInBuckets
  <2>3. meta[o] \in OnlyLabels(o) \cup {promised[o]}
    BY <2>1 DEF WholeInv, LabelsInOrder, EntryLabelled, UploadTo, OnlyLabels
  <2> QED
    BY <2>1, <2>2, <2>3, PromisesKept
<1> QED
  BY <1>1, AlwaysWhole, PTL

(* A download that gets to the storage after the upload was acknowledged   *)
(* has the key to it and sends its body and nothing else: all of it unless *)
(* it is announced with another length, that of an upload which does not   *)
(* come past the key.                                                      *)
THEOREM AckedServed == Spec => []AckedIsServed
<1>1. WholeInv => AckedIsServed
  <2> SUFFICES ASSUME WholeInv, NEW r \in Requests, method[r] = "Read", at[r] = "done",
                      expects[r] # None, NeverRemoved(argument[r])
               PROVE  /\ gotKey[r] = expects[r]
                      /\ gotMeta[r] \in OnlyLabels(argument[r]) \cup {expects[r]}
                      /\ \/ status[r] = Ok /\ got[r] = Storage!Whole(expects[r])
                         \/ /\ status[r] = Storage!ReplyError
                            /\ ~Fits(gotMeta[r], expects[r])
                            /\ \A i \in Storage!Chunks : got[r][i] \in {None, expects[r]}
    BY DEF AckedIsServed
  <2>1. /\ stage[r] = "storage" /\ op[r] = "Read" /\ target[r] = argument[r]
        /\ argument[r] \in Objects
    BY DEF WholeInv, Grounds, CallInOrder, ObjectMethods, BucketMethods
  <2>2. gotKey[r] = expects[r]
    BY <2>1 DEF WholeInv, ObjectInOrder, DownloadInOrder
  <2>3. DownloadLabelled(r, argument[r]) /\ ReplyInOrder(r, argument[r])
    BY <2>1 DEF WholeInv, LabelsInOrder
  <2>4. gotMeta[r] \in OnlyLabels(argument[r]) \cup {expects[r]}
    BY <2>1, <2>2, <2>3 DEF DownloadLabelled, UploadTo, OnlyLabels
  <2>5. status[r] = Storage!ReplyError => ~Fits(gotMeta[r], expects[r])
    BY <2>1, <2>3 DEF ReplyInOrder
  <2> QED
    BY <2>1, <2>2, <2>4, <2>5, PromisesKept
<1> QED
  BY <1>1, AlwaysWhole, PTL

(* Until the first restart, a download of an object nobody removes is      *)
(* never sent a part of a body with the key of another.                    *)
THEOREM GarbledByRemoval == Spec => []GarbledOnlyByRemoval
<1>1. WholeInv => GarbledOnlyByRemoval
  <2> SUFFICES ASSUME WholeInv, restarts = 0, NEW r \in Requests, method[r] = "Read",
                      NeverRemoved(argument[r]), NEW i \in Storage!Chunks,
                      got[r][i] # None
               PROVE  got[r][i] = gotKey[r]
    BY DEF GarbledOnlyByRemoval
  <2>1. at[r] # "idle" /\ Files!FileOf(got[r][i], target[r])
    BY DEF WholeInv, Grounds, Files!BodiesKnown, Storage!Chunks, Files!Chunks
  <2>2. /\ stage[r] = "storage" /\ target[r] = argument[r] /\ argument[r] \in Objects
        /\ ObjectInOrder(argument[r])
    BY <2>1 DEF WholeInv, Grounds, CallInOrder, ObjectMethods, BucketMethods
  <2> DEFINE q == got[r][i]
  <2>3. /\ q \in Requests /\ stage[q] = "storage"
        /\ method[q] = "Write" /\ argument[q] = argument[r]
    BY <2>1, <2>2 DEF Files!FileOf, WholeInv, Grounds, CallInOrder
  <2>4. encKey[argument[r]] = q
    BY <2>2, <2>3 DEF ObjectInOrder, UploadInOrder
  <2>5. gotKey[r] = encKey[argument[r]]
    BY <2>2 DEF ObjectInOrder, DownloadInOrder
  <2> QED
    BY <2>4, <2>5
<1> QED
  BY <1>1, AlwaysWhole, PTL

(* Until a bucket is deleted the three stores have the same buckets        *)
(* whenever nothing is under way, also after a restart.                    *)
THEOREM BucketsAgreed == Spec => []BucketsAgree
<1>1. WholeInv => BucketsAgree
  <2> SUFFICES ASSUME WholeInv, NoBucketDeleted, \A r \in Requests : ~InFlight(r)
               PROVE  metaBuckets = secBuckets /\ secBuckets = buckets
    BY DEF BucketsAgree, NoBucketDeleted
  <2>1. \A r \in Requests, b \in Buckets : ~Creating(r, b)
    <3>1. \A r \in Requests : stage[r] = "security" => at[r] # "done"
      BY DEF WholeInv, Grounds, CallInOrder
    <3> QED
      BY <3>1 DEF Creating, InFlight
  <2>2. \A b \in Buckets : /\ b \in metaBuckets <=> b \in secBuckets
                           /\ b \in secBuckets <=> b \in buckets
    BY <2>1 DEF WholeInv, BucketInOrder
  <2>3. metaBuckets \subseteq Buckets /\ secBuckets \subseteq Buckets
        /\ buckets \subseteq Buckets
    BY DEF WholeInv, Grounds, TypeOK, MetaTypeOK, SecTypeOK, Storage!TypeOK
  <2> QED
    BY <2>2, <2>3
<1> QED
  BY <1>1, AlwaysWhole, PTL

(* CompoundStore asks nothing of the storage that StorageFs does not       *)
(* provide: seen from the storage alone, every behaviour of the whole is   *)
(* one of StorageFs, whose theorems hold of it.                            *)
THEOREM StorageImplemented == Spec => Files!Spec
<1>1. Init => Files!Init
  BY SameStorage DEF Init
<1>2. WholeInv /\ [Next]_vars => [Files!Next]_(Files!vars)
  BY StepsOfStorage DEF WholeInv
<1> QED
  BY <1>1, <1>2, AlwaysWhole, PTL DEF Spec, Files!Spec

=============================================================================
