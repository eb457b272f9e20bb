--------------------------- MODULE CompoundStore ---------------------------
(***************************************************************************)
(* CompoundStore (storeend.go) over the in-memory metadata, security and   *)
(* storage stores, driven by the object handlers of router.go.             *)
(*                                                                         *)
(* gin serves every request on a goroutine of its own.  A handler calls    *)
(* the three stores in the order metadata, security, storage and gives up  *)
(* at the first error; each call is atomic, because the store holds its    *)
(* mutex throughout, but nothing holds between the calls.  So a request is *)
(* a process that takes one step per call, and requests interleave freely. *)
(***************************************************************************)
EXTENDS MetadataMemory, SecurityMemory, StorageMemory,
        Naturals, FiniteSets

VARIABLES
  op,       \* op[r]: the CompoundStore method request r calls
  bucket,   \* bucket[r]: the bucket it addresses, or the bucket of its object
  object,   \* object[r]: the object it addresses, None for a bucket method
  at,       \* at[r]: the store r calls next; "body" while its body is read
  status,   \* status[r]: the outcome r was answered with, None before
  gotMeta,  \* gotMeta[r]: the metadata a Read has collected
  gotKey,   \* gotKey[r]: the encryption key it has collected
  gotData   \* gotData[r]: the encrypted body it has collected

callVars == <<op, bucket, object>>
got == <<gotMeta, gotKey, gotData>>
vars == <<metaVars, secVars, storageVars, callVars, at, status, got>>

BucketOps == {"NewBucket", "DeleteBucket"}
ObjectOps == {"Write", "Read", "Delete"}
Ops == BucketOps \cup ObjectOps
Deletes == {"Delete", "DeleteBucket"}

ASSUME NoneIsNoName == None \notin Ops \cup Outcomes

Places == {"idle", "metadata", "security", "storage", "body", "done"}

CallTypeOK ==
  /\ op \in [Requests -> Ops \cup {None}]
  /\ bucket \in [Requests -> Buckets \cup {None}]
  /\ object \in [Requests -> Objects \cup {None}]
  /\ at \in [Requests -> Places]
  /\ status \in [Requests -> Outcomes \cup {None}]

GotTypeOK ==
  /\ gotMeta \in [Requests -> Entry]
  /\ gotKey \in [Requests -> Entry]
  /\ gotData \in [Requests -> Entry]

TypeOK == MetaTypeOK /\ SecTypeOK /\ StorageTypeOK /\ CallTypeOK /\ GotTypeOK

Init ==
  /\ MetaInit
  /\ SecInit
  /\ StorageInit
  /\ op = [r \in Requests |-> None]
  /\ bucket = [r \in Requests |-> None]
  /\ object = [r \in Requests |-> None]
  /\ at = [r \in Requests |-> "idle"]
  /\ status = [r \in Requests |-> None]
  /\ gotMeta = [r \in Requests |-> None]
  /\ gotKey = [r \in Requests |-> None]
  /\ gotData = [r \in Requests |-> None]

InFlight(r) == at[r] \notin {"idle", "done"}

(***************************************************************************)
(* A request arrives whose ids the matcher accepts (others are answered    *)
(* 400 before any store is called).                                        *)
(***************************************************************************)
Start(r) ==
  /\ at[r] = "idle"
  /\ at' = [at EXCEPT ![r] = "metadata"]
  /\ \/ \E p \in BucketOps, b \in Buckets :
          /\ op' = [op EXCEPT ![r] = p]
          /\ bucket' = [bucket EXCEPT ![r] = b]
          /\ UNCHANGED object
     \/ \E p \in ObjectOps, o \in Objects :
          /\ op' = [op EXCEPT ![r] = p]
          /\ bucket' = [bucket EXCEPT ![r] = BucketOf[o]]
          /\ object' = [object EXCEPT ![r] = o]
  /\ UNCHANGED <<metaVars, secVars, storageVars, status, got>>

(* if err != nil { return err }: after an error the request is answered    *)
(* with it, after nil it goes on to next; nil from the last call is the    *)
(* answer 200.                                                             *)
Continue(r, e, next) ==
  /\ at' = [at EXCEPT ![r] = IF e = Ok THEN next ELSE "done"]
  /\ status' = [status EXCEPT ![r] = IF e = Ok /\ next # "done" THEN None ELSE e]
  /\ UNCHANGED callVars

MetadataStep(r, e) ==
  /\ at[r] = "metadata"
  /\ Continue(r, e, "security")
  /\ UNCHANGED <<secVars, storageVars>>

SecurityStep(r, e) ==
  /\ at[r] = "security"
  /\ Continue(r, e, "storage")
  /\ UNCHANGED <<metaVars, storageVars>>

StorageStep(r, e, next) ==
  /\ at[r] = "storage"
  /\ Continue(r, e, next)
  /\ UNCHANGED <<metaVars, secVars>>

NewBucket(r) ==
  /\ op[r] = "NewBucket"
  /\ \E e \in Outcomes :
       \/ MetaNewBucket(bucket[r], e) /\ MetadataStep(r, e)
       \/ SecNewBucket(bucket[r], e) /\ SecurityStep(r, e)
       \/ StorageNewBucket(bucket[r], e) /\ StorageStep(r, e, "done")
  /\ UNCHANGED got

Write(r) ==
  /\ op[r] = "Write"
  /\ \E e \in Outcomes :
       \/ MetaWrite(object[r], r, e) /\ MetadataStep(r, e)
       \/ SecWriteKey(object[r], r, e) /\ SecurityStep(r, e)
       \/ StorageWrite(object[r], r, e) /\ StorageStep(r, e, "body")
  /\ UNCHANGED got

(* The end of the body, or of the connection that carries it. *)
WriteBody(r) ==
  /\ op[r] = "Write"
  /\ at[r] = "body"
  /\ \E e \in Outcomes :
       /\ StorageWriteBody(object[r], r, e)
       /\ Continue(r, e, "done")
  /\ UNCHANGED <<metaVars, secVars, got>>

(* What was collected is kept as it was read, whatever happens to the      *)
(* object afterwards; the reply decrypts gotData with gotKey, and is       *)
(* announced with the length and the file name of gotMeta (see Reply).     *)
Read(r) ==
  /\ op[r] = "Read"
  /\ \E e \in Outcomes :
       \/ /\ MetaRead(object[r], e)
          /\ MetadataStep(r, e)
          /\ gotMeta' = [gotMeta EXCEPT ![r] = meta[object[r]]]
          /\ UNCHANGED <<gotKey, gotData>>
       \/ /\ SecReadKey(object[r], e)
          /\ SecurityStep(r, e)
          /\ gotKey' = [gotKey EXCEPT ![r] = encKey[object[r]]]
          /\ UNCHANGED <<gotMeta, gotData>>
       \/ /\ StorageRead(object[r], e)
          /\ StorageStep(r, e, "done")
          /\ gotData' = [gotData EXCEPT ![r] = data[object[r]]]
          /\ UNCHANGED <<gotMeta, gotKey>>

(* Mutant: never gets to the storage. *)
Delete_SkipsStorage(r) ==
  /\ op[r] = "Delete"
  /\ \E e \in Outcomes :
       \/ MetaDelete(object[r], e) /\ MetadataStep(r, e)
       \/ /\ at[r] = "security"
          /\ SecDeleteKey(object[r], e)
          /\ Continue(r, e, "done")
          /\ UNCHANGED <<metaVars, storageVars>>
  /\ UNCHANGED got

Delete(r) ==
  /\ op[r] = "Delete"
  /\ \E e \in Outcomes :
       \/ MetaDelete(object[r], e) /\ MetadataStep(r, e)
       \/ SecDeleteKey(object[r], e) /\ SecurityStep(r, e)
       \/ StorageDelete(object[r], e) /\ StorageStep(r, e, "done")
  /\ UNCHANGED got

DeleteBucket(r) ==
  /\ op[r] = "DeleteBucket"
  /\ \E e \in Outcomes :
       \/ MetaDeleteBucket(bucket[r], e) /\ MetadataStep(r, e)
       \/ SecDeleteBucket(bucket[r], e) /\ SecurityStep(r, e)
       \/ StorageDeleteBucket(bucket[r], e) /\ StorageStep(r, e, "done")
  /\ UNCHANGED got

(* A step of r's handler that waits for nothing but a mutex. *)
Serve(r) ==
  \/ NewBucket(r)
  \/ Write(r)
  \/ Read(r)
  \/ Delete(r)
  \/ DeleteBucket(r)

Next == \E r \in Requests : Start(r) \/ Serve(r) \/ WriteBody(r)

Spec == Init /\ [][Next]_vars

(***************************************************************************)
(* Go's scheduler runs every goroutine that can run, and sync.Mutex hands  *)
(* itself to a waiter that has waited too long, so a handler that waits    *)
(* for a mutex that keeps being released gets it: strong fairness.         *)
(* Nothing in the code makes a body end (the server is started without     *)
(* read timeouts), so WriteBody has no fairness.                           *)
(***************************************************************************)
FairSpec == Spec /\ \A r \in Requests : SF_vars(Serve(r))

(***************************************************************************)
(* Clients that coordinate their deletes: while a Delete or DeleteBucket   *)
(* is in flight, no other request addresses its bucket.  This is a         *)
(* discipline of the clients, nothing in the code enforces it.             *)
(***************************************************************************)
DeletesAlone ==
  \A d, r \in Requests :
    (d # r /\ InFlight(d) /\ InFlight(r) /\ op[d] \in Deletes)
      => bucket[d] # bucket[r]

SerialNext ==
  \E r \in Requests : (Start(r) /\ DeletesAlone') \/ Serve(r) \/ WriteBody(r)

SerialSpec == Init /\ [][SerialNext]_vars

-----------------------------------------------------------------------------
(* Properties of every interleaving, under Spec.                           *)

AckedWrite(w) == op[w] = "Write" /\ status[w] = Ok

(* Request d is a Delete of o or a DeleteBucket of o's bucket. *)
Removes(d, o) ==
  \/ op[d] = "Delete" /\ object[d] = o
  \/ op[d] = "DeleteBucket" /\ bucket[d] = BucketOf[o]

NeverRemoved(o) == \A d \in Requests : ~Removes(d, o)

UploadTo(w, o) == op[w] = "Write" /\ object[w] = o

(* A Read of o would now be answered 200, with the body of upload w,       *)
(* decrypted with the key it was encrypted with.                           *)
Stored(o, w) ==
  /\ BucketOf[o] \in metaBuckets \cap secBuckets \cap storageBuckets
  /\ meta[o] # None
  /\ encKey[o] = w
  /\ data[o] = w

(* u, an upload of o that was not acknowledged, has announced a length     *)
(* that is not that of the body of w.                                      *)
Misleads(u, o, w) == UploadTo(u, o) /\ ~AckedWrite(u) /\ ~Fits(u, w)

(* An upload that was answered 200 stays in the stores, with its own key,  *)
(* as long as nobody has asked to delete it or its bucket: no refused or   *)
(* unfinished upload, refused bucket creation or read takes it away.  A    *)
(* download gets all of it, too, until an upload of another length, which  *)
(* can only be a refused or unfinished one, replaces the metadata: from    *)
(* then on the body is announced with the length of that upload, and does  *)
(* not reach the client whole.                                             *)
AckedFileLives ==
  \A w \in Requests :
    LET o == object[w]
    IN (AckedWrite(w) /\ NeverRemoved(o)) =>
         /\ Stored(o, w)
         /\ Fits(meta[o], w) \/ Misleads(meta[o], o, w)

(* A Read answered 200 pairs the body with the key it was encrypted with,  *)
(* unless a removal of the object was under way: the three calls of Read   *)
(* and the three of Write are not one critical section, and this is what   *)
(* their order saves of it.                                                *)
GarbledOnlyByRemoval ==
  \A r \in Requests :
    (op[r] = "Read" /\ status[r] = Ok /\ NeverRemoved(object[r]))
      => gotKey[r] = gotData[r]

(* Uploads race for an object, and only one of them is told that it won:   *)
(* another is only after a removal that was answered 200 as well.          *)
AckedOnce ==
  \A o \in Objects :
    Cardinality({w \in Requests : AckedWrite(w) /\ object[w] = o})
      <= 1 + Cardinality({d \in Requests : Removes(d, o) /\ status[d] = Ok})

(* The body a Read answered 200 has got is the whole body of an upload to  *)
(* the same object that was acknowledged: never a part of one that broke   *)
(* off, never another object's.                                            *)
WholeBodies ==
  \A r \in Requests :
    (op[r] = "Read" /\ status[r] = Ok)
      => \E w \in Requests : /\ AckedWrite(w)
                             /\ object[w] = object[r]
                             /\ gotData[r] = w

Labelled(r) == \E w \in Requests : UploadTo(w, object[r]) /\ gotMeta[r] = w

(* What the client of a Read answered 200 gets.  The reply is cut off or   *)
(* refused on the way when gotMeta announces the wrong length.             *)
Garbled == "garbled"
Broken == "broken"

Reply(r) ==
  IF gotKey[r] # gotData[r] THEN Garbled
  ELSE IF Fits(gotMeta[r], gotData[r]) THEN gotData[r] ELSE Broken

(* A Read answered 200 has got a whole acknowledged body of its object,    *)
(* and its reply only breaks when another upload of the object announced   *)
(* another length: as long as nobody asks to remove the object, an upload  *)
(* that was refused or is not finished.                                    *)
BrokenOnlyByUpload ==
  /\ WholeBodies
  /\ \A r \in Requests :
       (op[r] = "Read" /\ status[r] = Ok /\ ~Fits(gotMeta[r], gotData[r])) =>
         \E u \in Requests \ {gotData[r]} :
           /\ UploadTo(u, object[r]) /\ ~Fits(u, gotData[r])
           /\ NeverRemoved(object[r]) => ~AckedWrite(u)

(* What makes it so: only a body that was read to its end is stored, and   *)
(* its upload is answered in the same step; metadata is that of an upload  *)
(* of its object, and a Read keeps what it has got.                        *)
StoredIsAcked ==
  \A o \in Objects :
    data[o] # None => AckedWrite(data[o]) /\ object[data[o]] = o

LabelsOfUploads ==
  /\ \A o \in Objects : meta[o] # None => UploadTo(meta[o], o)
  /\ \A r \in Requests :
       (op[r] = "Read" /\ (at[r] \in {"security", "storage"} \/ status[r] = Ok))
         => Labelled(r)

(* The inductive invariant behind AckedFileLives and GarbledOnlyByRemoval: *)
(* calls are well formed, entries lie in buckets, a body is read under the *)
(* mutex, and an object that nobody asked to remove only moves forward,    *)
(* metadata before key before body, and keeps its key for good.            *)
CallsWellFormed ==
  \A r \in Requests :
    /\ at[r] = "idle" <=> op[r] = None
    /\ at[r] = "body" => op[r] = "Write"
    /\ status[r] = Ok => at[r] = "done"
    /\ op[r] \in BucketOps => bucket[r] \in Buckets
    /\ op[r] \in ObjectOps =>
         object[r] \in Objects /\ bucket[r] = BucketOf[object[r]]

BodyUnderMutex ==
  \A r \in Requests :
    /\ at[r] = "body" <=> holder = r
    /\ at[r] = "body" => /\ BucketOf[object[r]] \in storageBuckets
                         /\ data[object[r]] = None

StoresUndisturbed(o) ==
  /\ BucketOf[o] \in storageBuckets => BucketOf[o] \in secBuckets
  /\ BucketOf[o] \in secBuckets => BucketOf[o] \in metaBuckets
  /\ data[o] # None => encKey[o] = data[o]
  /\ encKey[o] # None => meta[o] # None

CallUndisturbed(r, o) ==
  /\ op[r] = "NewBucket" /\ bucket[r] = BucketOf[o] =>
       /\ at[r] \in {"security", "storage"} => BucketOf[o] \in metaBuckets
       /\ at[r] = "storage" => BucketOf[o] \in secBuckets
  /\ op[r] = "Write" /\ object[r] = o =>
       /\ at[r] = "security" => meta[o] # None
       /\ at[r] \in {"storage", "body"} => encKey[o] = r
       /\ status[r] = Ok => data[o] = r
  /\ op[r] = "Read" /\ object[r] = o =>
       /\ at[r] = "storage" => encKey[o] # None /\ gotKey[r] = encKey[o]
       /\ status[r] = Ok => gotKey[r] = gotData[r]

Undisturbed ==
  /\ CallsWellFormed
  /\ MetaInBuckets /\ SecInBuckets /\ StorageInBuckets
  /\ BodyUnderMutex
  /\ \A o \in Objects : NeverRemoved(o) =>
       StoresUndisturbed(o) /\ \A r \in Requests : CallUndisturbed(r, o)

(* If every body that is read comes to an end, every request is answered:  *)
(* the handlers wait for the storage mutex only, never for each other.     *)
BodiesEnd == []<>(\A r \in Requests : at[r] # "body")
EveryRequestAnswered == \A r \in Requests : at[r] # "idle" ~> at[r] = "done"
AnsweredIfBodiesEnd == BodiesEnd => EveryRequestAnswered

-----------------------------------------------------------------------------
(* Properties of coordinated deletes, under SerialSpec.                    *)

(* A Read answered 200 decrypts to the plaintext that was uploaded: the    *)
(* key it decrypts with is the key of the body it decrypts.                *)
ReadsDecrypt ==
  \A r \in Requests :
    (op[r] = "Read" /\ status[r] = Ok) => gotKey[r] = gotData[r]

(* Whenever nothing is in flight, the three stores have the same buckets   *)
(* and every stored body has its key and its metadata entry: nothing that  *)
(* went wrong half way left a body nobody can decrypt or delete.           *)
QuietStoresAgree ==
  (\A r \in Requests : ~InFlight(r)) =>
    /\ metaBuckets = secBuckets /\ secBuckets = storageBuckets
    /\ \A o \in Objects :
         data[o] # None => encKey[o] = data[o] /\ meta[o] # None

(* The refinement mapping: a file exists while both its metadata entry and *)
(* its body do.  A removal takes effect, and its answer is settled, when   *)
(* the metadata goes; the creation of a bucket when its metadata comes;    *)
(* an upload when its body is in; a Read with its last call.               *)
Answer(r) ==
  LET halfway == at[r] \in {"security", "storage"}
  IN CASE op[r] \in BucketOps /\ (halfway \/ status[r] = Ok) -> Ok
       [] op[r] = "Delete" /\ halfway ->
            IF data[object[r]] = None THEN "refused" ELSE Ok
       [] op[r] \in {"Write", "Delete"} /\ status[r] = Ok -> Ok
       [] op[r] = "Read" /\ status[r] = Ok -> Reply(r)
       [] status[r] \notin {Ok, None} -> "refused"
       [] OTHER -> None

Promise == INSTANCE ObjectStore WITH
  buckets <- metaBuckets,
  files <- [o \in Objects |-> IF meta[o] = None THEN None ELSE data[o]],
  answer <- [r \in Requests |-> Answer(r)]

(* With coordinated deletes, the three calls of each request look to its   *)
(* clients like one atomic operation on one store of files, though not of  *)
(* their lengths: a download may still be broken by an upload of another   *)
(* length, refused or not (ObjectStore.Get).                               *)
KeepsPromise == Promise!Spec
=============================================================================
