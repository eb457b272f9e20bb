------------------------------ MODULE CompoundFs ------------------------------
(***************************************************************************)
(* CompoundStore over the storage on the file system, as main.go wires it  *)
(* for FS_STORAGE: metadata and encryption keys in memory, bodies in       *)
(* files.  A restart forgets the first two and what the third has of its   *)
(* buckets, and leaves the files.                                          *)
(*                                                                         *)
(* The calls of the metadata and the security store are one step each; the *)
(* call of the storage is the request's part in StorageFs, which begins    *)
(* when the two others have returned nil.                                  *)
(***************************************************************************)
EXTENDS MetadataMemory, SecurityMemory, Naturals

CONSTANT MaxRestarts   \* how often the process is started again

ASSUME MaxRestartsAssumption == MaxRestarts \in Nat

VARIABLES
  buckets, listed, holder, dirs, inode, content, op, target, at, status, fd,
  got, restarts, promised, expects, disturbed   \* those of StorageFs

VARIABLES
  stage,      \* stage[r]: the store r calls next
  method,     \* method[r]: the method of CompoundStore it calls
  argument,   \* argument[r]: the object or bucket it addresses
  gotMeta,    \* gotMeta[r]: the metadata a Read has got
  gotKey      \* gotKey[r]: the encryption key it has got

Storage == INSTANCE StorageFs

callVars == <<method, argument>>
storageVars == <<buckets, listed, holder, dirs, inode, content, op, target, at,
                 status, fd, got, restarts, promised, expects, disturbed>>
replyVars == <<gotMeta, gotKey>>
vars == <<metaVars, secVars, storageVars, stage, callVars, replyVars>>

ASSUME NoneIsNoName ==
  None \notin Storage!Methods \cup Outcomes
                \cup {Storage!PathError, Storage!ReplyError}

Stages == {"idle", "security", "storage", "refused"}

TypeOK ==
  /\ MetaTypeOK /\ SecTypeOK /\ Storage!TypeOK
  /\ stage \in [Requests -> Stages]
  /\ method \in [Requests -> Storage!Methods \cup {None}]
  /\ argument \in [Requests -> Objects \cup Buckets \cup {None}]
  /\ gotMeta \in [Requests -> Entry]
  /\ gotKey \in [Requests -> Entry]

Init ==
  /\ MetaInit /\ SecInit /\ Storage!Init
  /\ stage = [r \in Requests |-> "idle"]
  /\ method = [r \in Requests |-> None]
  /\ argument = [r \in Requests |-> None]
  /\ gotMeta = [r \in Requests |-> None]
  /\ gotKey = [r \in Requests |-> None]

(* if err != nil { return err } *)
Continue(r, from, e, next) ==
  /\ stage[r] = from
  /\ stage' = [stage EXCEPT ![r] = IF e = Ok THEN next ELSE "refused"]
  /\ UNCHANGED storageVars

(* The handler has accepted a request and makes its first call; nothing    *)
(* that others see comes between.                                          *)
Start(r, p, x, e) ==
  /\ Continue(r, "idle", e, "security")
  /\ method' = [method EXCEPT ![r] = p]
  /\ argument' = [argument EXCEPT ![r] = x]

Metadata(r) ==
  /\ \E e \in Outcomes :
       \/ /\ \/ \E b \in Buckets :
                  \/ Start(r, "NewBucket", b, e) /\ MetaNewBucket(b, e)
                  \/ Start(r, "DeleteBucket", b, e) /\ MetaDeleteBucket(b, e)
             \/ \E o \in Objects :
                  \/ Start(r, "Write", o, e) /\ MetaWrite(o, r, e)
                  \/ Start(r, "Delete", o, e) /\ MetaDelete(o, e)
          /\ UNCHANGED gotMeta
       \/ \E o \in Objects :
            /\ Start(r, "Read", o, e) /\ MetaRead(o, e)
            /\ gotMeta' = [gotMeta EXCEPT ![r] = meta[o]]
  /\ UNCHANGED <<secVars, gotKey>>

Security(r) ==
  LET x == argument[r]
      Calls(p, e) == method[r] = p /\ Continue(r, "security", e, "storage")
  IN /\ \E e \in Outcomes :
          \/ Calls("NewBucket", e) /\ SecNewBucket(x, e) /\ UNCHANGED gotKey
          \/ Calls("Write", e) /\ SecWriteKey(x, r, e) /\ UNCHANGED gotKey
          \/ /\ Calls("Read", e) /\ SecReadKey(x, e)
             /\ gotKey' = [gotKey EXCEPT ![r] = encKey[x]]
          \/ Calls("Delete", e) /\ SecDeleteKey(x, e) /\ UNCHANGED gotKey
          \/ Calls("DeleteBucket", e) /\ SecDeleteBucket(x, e) /\ UNCHANGED gotKey
     /\ UNCHANGED <<metaVars, callVars, gotMeta>>

(* The storage is called, or goes on with the call. *)
CallStorage(r) ==
  LET x == argument[r]
  IN /\ stage[r] = "storage"
     /\ \/ method[r] = "NewBucket" /\ Storage!NewBucket(r, x)
        \/ method[r] = "Write" /\ Storage!Write(r, x)
        \/ method[r] = "Read" /\ Storage!Read(r, x)
        \/ method[r] = "Delete" /\ Storage!Delete(r, x)
        \/ method[r] = "DeleteBucket" /\ Storage!DeleteBucket(r, x)
     /\ UNCHANGED <<metaVars, secVars, stage, callVars, replyVars>>

(* The file r sends is not of the length the reply is announced with,      *)
(* that of the metadata it has got.                                        *)
WrongLength(r) ==
  \E i \in Storage!Chunks :
    LET w == content[fd[r]][i] IN w # None /\ ~Fits(gotMeta[r], w)

(* The handler sends the body.  Only a file that is longer than announced  *)
(* makes the reply refuse it; which of two lengths is the longer one is    *)
(* left open.  (A client may hang up as well; nobody is served then.)      *)
SendBody(r) ==
  /\ Storage!ReadBody(r)
  /\ status'[r] = Storage!ReplyError => WrongLength(r)

InStorage(r) ==
  /\ \/ Storage!RemoveDirectory(r) \/ Storage!Create(r) \/ Storage!WriteBody(r)
     \/ Storage!Open(r) \/ SendBody(r) \/ Storage!Remove(r)
  /\ UNCHANGED <<metaVars, secVars, stage, callVars, replyVars>>

(* Whoever has been called is not answered any more. *)
Restart ==
  /\ Storage!Restart
  /\ metaBuckets' = {} /\ secBuckets' = {}
  /\ meta' = [o \in Objects |-> None]
  /\ encKey' = [o \in Objects |-> None]
  /\ stage' = [r \in Requests |->
                 IF stage[r] = "security" \/ (stage[r] = "storage" /\ at[r] = "idle")
                 THEN "refused" ELSE stage[r]]
  /\ UNCHANGED <<callVars, replyVars>>

Next ==
  \/ \E r \in Requests :
       Metadata(r) \/ Security(r) \/ CallStorage(r) \/ InStorage(r)
  \/ Restart

Spec == Init /\ [][Next]_vars

-----------------------------------------------------------------------------
(* Properties *)

InFlight(r) == stage[r] \notin {"idle", "refused"} /\ at[r] # "done"

Removes(d, o) ==
  \/ method[d] = "Delete" /\ argument[d] = o
  \/ method[d] = "DeleteBucket" /\ argument[d] = BucketOf[o]

NeverRemoved(o) == \A d \in Requests : ~Removes(d, o)

(* The uploads of o that have not come past the key: of all that a         *)
(* download looks at, they have only written the metadata.                 *)
OnlyLabels(o) ==
  {u \in Requests : method[u] = "Write" /\ argument[u] = o /\ stage[u] # "storage"}

(* An upload that was acknowledged stays in the stores until its removal   *)
(* is asked for or the process ends: the body is in the file, whole, the   *)
(* key is its own, and no body that a former process has left is in its    *)
(* way.  The metadata is its own, too, or that of another upload, which    *)
(* was refused at the key or has yet to be: its length is what downloads   *)
(* are announced with from then on.                                        *)
AckedFileLives ==
  \A o \in Objects :
    LET w == promised[o]
    IN (w # None /\ NeverRemoved(o)) =>
         /\ BucketOf[o] \in metaBuckets \cap secBuckets \cap buckets
         /\ meta[o] \in OnlyLabels(o) \cup {w}
         /\ encKey[o] = w
         /\ o \in listed
         /\ Storage!Exists(o) /\ content[inode[o]] = Storage!Whole(w)

(* A download that gets to the storage after the upload was acknowledged   *)
(* has the key to it, and reads its body and nothing else.  It sends the   *)
(* whole of it, unless the metadata it got is that of an upload refused at *)
(* the key, or about to be, and of another length: the reply takes a part  *)
(* of the body then, or all of it and ends short of what it announced.     *)
AckedIsServed ==
  \A r \in Requests :
    LET w == expects[r]
    IN (/\ method[r] = "Read" /\ at[r] = "done"
        /\ w # None /\ NeverRemoved(argument[r])) =>
          /\ gotKey[r] = w
          /\ gotMeta[r] \in OnlyLabels(argument[r]) \cup {w}
          /\ \/ status[r] = Ok /\ got[r] = Storage!Whole(w)
             \/ /\ status[r] = Storage!ReplyError /\ ~Fits(gotMeta[r], w)
                /\ \A i \in Storage!Chunks : got[r][i] \in {None, w}

(* A download that gets there before may be sent a part of the body, or    *)
(* nothing, but until the first restart never a body with the key of       *)
(* another.  (After a restart it may get a body the former process left,   *)
(* and the key of the upload that is about to replace it.)                 *)
GarbledOnlyByRemoval ==
  restarts = 0 =>
    \A r \in Requests :
      (method[r] = "Read" /\ NeverRemoved(argument[r])) =>
        \A i \in Storage!Chunks : got[r][i] \in {None, gotKey[r]}

(* Until a bucket is deleted, the stores have the same buckets whenever    *)
(* nothing is under way, also after a restart, when the creation of the    *)
(* bucket is answered with the error that its directory exists.            *)
BucketsAgree ==
  (\A r \in Requests : ~InFlight(r) /\ method[r] # "DeleteBucket") =>
    metaBuckets = secBuckets /\ secBuckets = buckets
=============================================================================
