-------------------------- MODULE StorageFsProofs --------------------------
(***************************************************************************)
(* What is proved of StorageFs for every set of buckets, objects and       *)
(* requests, and any number of restarts.                                   *)
(***************************************************************************)
EXTENDS StorageFs, TLAPS

USE DEF Ok, BucketDoesNotExist, BucketAlreadyExists, ObjectDoesNotExists,
        ObjectAlreadyExists, NilMapPanic, BodyError, PathError, ReplyError

-----------------------------------------------------------------------------
(* The inductive invariant: where a call is, whose file is whose, and for  *)
(* every object no removal of which was disturbed, what each of its calls  *)
(* relies on.                                                              *)

Writing(q, o) == target[q] = o /\ at[q] \in {"create", "write 1", "write 2"}
Removing(d, o) == target[d] = o /\ at[d] = "remove"
Clearing(r, o) == target[r] = BucketOf[o] /\ at[r] = "remove directory"

CallWellFormed(r) ==
  /\ at[r] = "idle" => op[r] = None /\ fd[r] = None /\ expects[r] = None
  /\ at[r] \in {"create", "write 1", "write 2"} => op[r] = "Write"
  /\ at[r] \in {"open", "read 1", "read 2"} => op[r] = "Read"
  /\ at[r] = "remove" => op[r] = "Delete"
  /\ op[r] \in {"Write", "Read", "Delete"} => target[r] \in Objects
  /\ at[r] = "remove directory" => op[r] = "DeleteBucket" /\ target[r] \in Buckets
  /\ at[r] = "remove directory" <=> holder = r
  /\ at[r] \in {"idle", "open", "read 1"} => got[r] = Blank
  /\ at[r] = "read 2" => got[r][2] = None

CallsWellFormed == \A r \in Requests : CallWellFormed(r)

(* f is a file that an upload of o has created.  It keeps to o, so nobody  *)
(* else's upload is written into it.                                       *)
FileOf(f, o) ==
  f \in Requests /\ target[f] = o /\ op[f] = "Write" /\ at[f] \notin {"idle", "create"}

FilesWellFormed ==
  /\ \A o \in Objects : inode[o] # None => FileOf(inode[o], o)
  /\ \A r \in Requests :
       /\ fd[r] # None => FileOf(fd[r], target[r])
       /\ at[r] \in {"write 1", "write 2", "read 1", "read 2"} => fd[r] # None

WellFormed == TypeOK /\ CallsWellFormed /\ FilesWellFormed

(* A directory without a bucket in memory holds what a disturbed removal   *)
(* left there.                                                             *)
KeysInBuckets ==
  /\ \A o \in listed : BucketOf[o] \in buckets
  /\ buckets \subseteq dirs
  /\ restarts = 0 => \A b \in dirs \ buckets : \E o \in disturbed : BucketOf[o] = b

(* A key without its file, or a file without its key, is the work of a     *)
(* call that is about to settle it.                                        *)
FileInOrder(o) ==
  /\ promised[o] # None =>
       o \in listed /\ Exists(o) /\ content[inode[o]] = Whole(promised[o])
  /\ restarts = 0 =>
       /\ o \in listed /\ ~Exists(o) =>
            \E q \in Requests : (target[q] = o /\ at[q] = "create") \/ Clearing(q, o)
       /\ Exists(o) /\ o \notin listed => \E d \in Requests : Removing(d, o)

(* An upload is alone with its object, and writes into the file that has   *)
(* its name.                                                               *)
WriterInOrder(q, o) ==
  Writing(q, o) =>
    /\ o \in listed /\ promised[o] = None
    /\ \A p \in Requests : Writing(p, o) => p = q
    /\ at[q] # "create" => fd[q] = inode[o]
    /\ at[q] = "write 2" => content[fd[q]][1] = q

(* A removal is the only call still on its way to the file. *)
RemoverInOrder(d, o) ==
  Removing(d, o) =>
    /\ o \notin listed /\ promised[o] = None
    /\ \A q \in Requests : target[q] = o /\ Unsettled(q) => q = d
    /\ expects[d] # None => Exists(o)

ClearerInOrder(r, o) ==
  Clearing(r, o) =>
    /\ promised[o] = None /\ ~Exists(o)
    /\ \A q \in Requests : ~(target[q] = o /\ Unsettled(q))

(* A download of a promised body has the file open, whose name is gone or  *)
(* about to go if the promise has been withdrawn.                          *)
ReaderInOrder(r, o) ==
  (op[r] = "Read" /\ target[r] = o /\ expects[r] # None) =>
    /\ at[r] = "open" => promised[o] = expects[r]
    /\ at[r] \in {"read 1", "read 2"} =>
         /\ content[fd[r]] = Whole(expects[r]) /\ status[r] = Ok
         /\ fd[r] = inode[o] =>
              promised[o] = expects[r] \/ \E d \in Requests : Removing(d, o)
    /\ at[r] = "read 2" => got[r][1] = expects[r]

Served(r) ==
  (op[r] \in {"Read", "Delete"} /\ at[r] = "done" /\ expects[r] # None) =>
    \/ status[r] = Ok /\ (op[r] = "Read" => got[r] = Whole(expects[r]))
    \/ /\ status[r] = ReplyError /\ op[r] = "Read"
       /\ \A i \in Chunks : got[r][i] \in {None, expects[r]}

CallInOrder(r, o) ==
  /\ WriterInOrder(r, o) /\ RemoverInOrder(r, o)
  /\ ClearerInOrder(r, o) /\ ReaderInOrder(r, o)
  /\ target[r] = o => Served(r)

InOrder(o) == FileInOrder(o) /\ \A r \in Requests : CallInOrder(r, o)

FilesInv ==
  /\ WellFormed
  /\ KeysInBuckets
  /\ \A o \in Objects \ disturbed : InOrder(o)

-----------------------------------------------------------------------------
(* Where calls are and whose files are whose.                              *)

MemoryTypes ==
  /\ buckets \subseteq Buckets /\ listed \subseteq Objects /\ holder \in Entry
  /\ restarts \in 0..MaxRestarts

DiskTypes ==
  /\ dirs \subseteq Buckets /\ inode \in [Objects -> Entry]
  /\ content \in [Requests -> [Chunks -> Entry]]

PlaceTypes ==
  /\ op \in [Requests -> Methods \cup {None}]
  /\ target \in [Requests -> Objects \cup Buckets \cup {None}]
  /\ at \in [Requests -> Places]
  /\ status \in [Requests -> Outcomes \cup {PathError, ReplyError, None}]

ResultTypes ==
  /\ fd \in [Requests -> Entry] /\ got \in [Requests -> [Chunks -> Entry]]

HistoryTypes ==
  /\ promised \in [Objects -> Entry] /\ expects \in [Requests -> Entry]
  /\ disturbed \subseteq Objects

LEMMA TypeParts ==
  /\ TypeOK <=>
       MemoryTypes /\ DiskTypes /\ PlaceTypes /\ ResultTypes /\ HistoryTypes
  /\ TypeOK' <=>
       MemoryTypes' /\ DiskTypes' /\ PlaceTypes' /\ ResultTypes' /\ HistoryTypes'
BY Zenon DEF TypeOK, MemoryTypes, DiskTypes, PlaceTypes, ResultTypes, HistoryTypes

LEMMA WellFormedInit ==
  ASSUME Init
  PROVE  WellFormed
<1> USE NoneAssumption DEF Init
<1>1. MemoryTypes
  BY MaxRestartsAssumption DEF MemoryTypes, Entry
<1>2. DiskTypes /\ ResultTypes
  BY DEF DiskTypes, ResultTypes, Entry, Blank
<1>3. PlaceTypes /\ HistoryTypes
  BY DEF PlaceTypes, Places, HistoryTypes, Entry
<1>4. CallsWellFormed /\ FilesWellFormed
  BY NoneIsNoName DEF Methods, CallsWellFormed, CallWellFormed, FilesWellFormed
<1> QED
  BY <1>1, <1>2, <1>3, <1>4, TypeParts DEF WellFormed

(* A step of request r. *)
StepOf(r) ==
  \/ \E b \in Buckets : NewBucket(r, b) \/ DeleteBucket(r, b)
  \/ \E o \in Objects : Write(r, o) \/ Read(r, o) \/ Delete(r, o)
  \/ RemoveDirectory(r) \/ Create(r) \/ WriteBody(r) \/ Open(r) \/ ReadBody(r)
  \/ Remove(r)

LEMMA NextIsAStep == Next => Restart \/ \E r \in Requests : StepOf(r)
BY DEF Next, StepOf

(* A call begins, or goes on with its method and target. *)
Begins(r) ==
  /\ at[r] = "idle" /\ holder = None
  /\ \E m \in Methods : op' = [op EXCEPT ![r] = m]
  /\ \E x \in Objects \cup Buckets : target' = [target EXCEPT ![r] = x]

GoesOn(r) == at[r] \notin {"idle", "done"} /\ UNCHANGED <<op, target>>

LEMMA StepGoes ==
  ASSUME NEW r \in Requests, StepOf(r)
  PROVE  /\ \E p \in Places \ {"idle"}, e \in Outcomes \cup {PathError, ReplyError, None} : Goes(r, p, e)
         /\ Begins(r) \/ GoesOn(r)
<1> USE DEF Begins, GoesOn, Methods
<1> DEFINE Moves == \E p \in Places \ {"idle"}, e \in Outcomes \cup {PathError, ReplyError, None} :
                       Goes(r, p, e)
<1>1. ASSUME NEW b \in Buckets, NewBucket(r, b) \/ DeleteBucket(r, b)
      PROVE  Moves /\ Begins(r)
  BY <1>1 DEF NewBucket, DeleteBucket, BucketCall, Places, Outcomes
<1>2. ASSUME NEW o \in Objects, Write(r, o) \/ Read(r, o) \/ Delete(r, o)
      PROVE  Moves /\ Begins(r)
  <2>1. Begins(r)
    BY <1>2 DEF Write, Read, Delete, ObjectCall
  <2>2. Refusal(o) \in Outcomes \cup {None} /\ Missing(o) \in Outcomes \cup {None}
    BY DEF Refusal, Missing, Outcomes
  <2>3. Moves
    BY <1>2, <2>2 DEF Write, Read, Delete, Places
  <2> QED
    BY <2>1, <2>3
<1>3. CASE RemoveDirectory(r) \/ Create(r) \/ Open(r) \/ Remove(r)
  BY <1>3 DEF RemoveDirectory, Create, Open, Remove, Places, Outcomes
<1>4. CASE WriteBody(r) \/ ReadBody(r)
  BY <1>4 DEF WriteBody, WriteChunk, ReadBody, ReadChunk, Places, Outcomes
<1> QED
  BY <1>1, <1>2, <1>3, <1>4 DEF StepOf

(* What a call keeps for itself: the file it has open, what it has read,   *)
(* what it was promised.                                                   *)
LEMMA StepResults ==
  ASSUME WellFormed, NEW r \in Requests, StepOf(r)
  PROVE  /\ \E f \in Entry : fd' = [fd EXCEPT ![r] = f]
         /\ \E g \in [Chunks -> Entry] : got' = [got EXCEPT ![r] = g]
         /\ \E x \in Entry : expects' = [expects EXCEPT ![r] = x]
<1> DiskTypes /\ ResultTypes /\ HistoryTypes /\ FilesWellFormed /\ CallsWellFormed
  BY TypeParts DEF WellFormed
<1> USE DEF DiskTypes, ResultTypes, HistoryTypes
<1>1. UNCHANGED fd => \E f \in Entry : fd' = [fd EXCEPT ![r] = f]
  <2>1. fd = [fd EXCEPT ![r] = fd[r]] /\ fd[r] \in Entry
    OBVIOUS
  <2> QED
    BY <2>1
<1>2. UNCHANGED got => \E g \in [Chunks -> Entry] : got' = [got EXCEPT ![r] = g]
  <2>1. got = [got EXCEPT ![r] = got[r]] /\ got[r] \in [Chunks -> Entry]
    OBVIOUS
  <2> QED
    BY <2>1
<1>3. UNCHANGED expects => \E x \in Entry : expects' = [expects EXCEPT ![r] = x]
  <2>1. expects = [expects EXCEPT ![r] = expects[r]] /\ expects[r] \in Entry
    OBVIOUS
  <2> QED
    BY <2>1
<1>4. CASE \E b \in Buckets : NewBucket(r, b) \/ DeleteBucket(r, b)
  BY <1>1, <1>2, <1>3, <1>4 DEF NewBucket, DeleteBucket, BucketCall
<1>5. CASE \E o \in Objects : Write(r, o) \/ Read(r, o) \/ Delete(r, o)
  BY <1>1, <1>2, <1>5 DEF Write, Read, Delete, ObjectCall
<1>6. CASE RemoveDirectory(r) \/ Remove(r) \/ WriteBody(r)
  BY <1>1, <1>2, <1>3, <1>6
  DEF RemoveDirectory, Remove, WriteBody, WriteChunk, history
<1>7. CASE Create(r) \/ Open(r)
  <2>1. target[r] \in Objects
    BY <1>7 DEF CallsWellFormed, CallWellFormed, Create, Open
  <2> QED
    BY <1>1, <1>2, <1>3, <1>7, <2>1, NoneAssumption
    DEF Create, Open, Exists, disk, history, Entry, Goes
<1>8. CASE ReadBody(r)
  <2>1. fd[r] \in Requests
    BY <1>8 DEF ReadBody, ReadChunk, FilesWellFormed, Entry
  <2>2. UNCHANGED got \/ \E i \in Chunks : got' = [got EXCEPT ![r][i] = content[fd[r]][i]]
    <3>1. ReadChunk(r, "read 1", 1, "read 2") \/ ReadChunk(r, "read 2", 2, "done")
      BY <1>8 DEF ReadBody
    <3>2. 1 \in Chunks /\ 2 \in Chunks
      BY DEF Chunks
    <3> QED
      BY <3>1, <3>2 DEF ReadChunk
  <2>3. ASSUME NEW i \in Chunks, got' = [got EXCEPT ![r][i] = content[fd[r]][i]]
        PROVE  \E g \in [Chunks -> Entry] : got' = [got EXCEPT ![r] = g]
    <3>1. [got[r] EXCEPT ![i] = content[fd[r]][i]] \in [Chunks -> Entry]
      BY <2>1
    <3>2. got' = [got EXCEPT ![r] = [got[r] EXCEPT ![i] = content[fd[r]][i]]]
      BY <2>3
    <3> QED
      BY <3>1, <3>2
  <2>4. UNCHANGED <<fd, expects>>
    BY <1>8 DEF ReadBody, ReadChunk, history
  <2> QED
    BY <1>1, <1>2, <1>3, <2>2, <2>3, <2>4
<1> QED
  BY <1>4, <1>5, <1>6, <1>7, <1>8 DEF StepOf

(* A request touches nobody else's call. *)
LEMMA OtherCalls ==
  ASSUME WellFormed, NEW r \in Requests, StepOf(r), NEW q \in Requests, q # r
  PROVE  /\ op'[q] = op[q] /\ target'[q] = target[q] /\ at'[q] = at[q]
         /\ status'[q] = status[q] /\ fd'[q] = fd[q] /\ got'[q] = got[q]
         /\ expects'[q] = expects[q]
<1> PlaceTypes /\ ResultTypes /\ HistoryTypes
  BY TypeParts DEF WellFormed
<1>0. PICK p \in Places, e \in Outcomes \cup {PathError, ReplyError, None} : Goes(r, p, e)
  BY StepGoes
<1>1. op'[q] = op[q] /\ target'[q] = target[q]
  <2>1. Begins(r) \/ GoesOn(r)
    BY StepGoes
  <2> QED
    BY <2>1 DEF Begins, GoesOn, PlaceTypes
<1>2. at'[q] = at[q] /\ status'[q] = status[q]
  BY <1>0 DEF Goes, PlaceTypes
<1>3. fd'[q] = fd[q] /\ got'[q] = got[q] /\ expects'[q] = expects[q]
  BY StepResults DEF ResultTypes, HistoryTypes
<1> QED
  BY <1>1, <1>2, <1>3

LEMMA StepTypes ==
  ASSUME WellFormed, NEW r \in Requests, StepOf(r)
  PROVE  TypeOK'
<1> /\ MemoryTypes /\ DiskTypes /\ PlaceTypes /\ ResultTypes /\ HistoryTypes
    /\ CallsWellFormed /\ FilesWellFormed
  BY TypeParts DEF WellFormed
<1>1. PlaceTypes'
  <2>1. Begins(r) \/ GoesOn(r)
    BY StepGoes
  <2>2. PICK p \in Places, e \in Outcomes \cup {PathError, ReplyError, None} : Goes(r, p, e)
    BY StepGoes
  <2>3. /\ op' \in [Requests -> Methods \cup {None}]
        /\ target' \in [Requests -> Objects \cup Buckets \cup {None}]
    BY <2>1 DEF PlaceTypes, Begins, GoesOn
  <2>4. /\ at' \in [Requests -> Places]
        /\ status' \in [Requests -> Outcomes \cup {PathError, ReplyError, None}]
    BY <2>2 DEF PlaceTypes, Goes
  <2> QED
    BY <2>3, <2>4 DEF PlaceTypes
<1>2. ResultTypes'
  BY StepResults DEF ResultTypes
<1>3. at[r] \in {"create", "remove"} => target[r] \in Objects
  BY DEF CallsWellFormed, CallWellFormed
<1>4. at[r] \in {"write 1", "write 2"} => fd[r] \in Requests
  BY DEF FilesWellFormed, ResultTypes, Entry
<1>8. content' \in [Requests -> [Chunks -> Entry]]
  <2>1. Blank \in [Chunks -> Entry] /\ 1 \in Chunks /\ 2 \in Chunks
    BY DEF Blank, Entry, Chunks
  <2>2. CASE Create(r)
    <3>1. PICK f \in Requests : content' \in {content, [content EXCEPT ![f] = Blank]}
      BY <1>3, <2>2 DEF Create, Exists, DiskTypes, Entry
    <3> QED
      BY <2>1, <3>1 DEF DiskTypes
  <2>3. ASSUME NEW p, NEW n, NEW e, NEW i \in Chunks, WriteChunk(r, p, i, n, e),
               fd[r] \in Requests
        PROVE  content' \in [Requests -> [Chunks -> Entry]]
    <3>1. [content[fd[r]] EXCEPT ![i] = r] \in [Chunks -> Entry]
      BY <2>3 DEF DiskTypes, Entry
    <3>2. \/ content' = content
          \/ content' = [content EXCEPT ![fd[r]] = [content[fd[r]] EXCEPT ![i] = r]]
      BY <2>3 DEF WriteChunk
    <3> QED
      BY <2>3, <3>1, <3>2 DEF DiskTypes
  <2>4. CASE WriteBody(r)
    <3>1. \/ WriteChunk(r, "write 1", 1, "write 2", None)
          \/ WriteChunk(r, "write 2", 2, "done", Ok)
      BY <2>4 DEF WriteBody
    <3>2. fd[r] \in Requests
      BY <1>4, <3>1 DEF WriteChunk
    <3> QED
      BY <2>1, <2>3, <3>1, <3>2
  <2>5. CASE ~Create(r) /\ ~WriteBody(r)
    BY <2>5
    DEF StepOf, NewBucket, DeleteBucket, BucketCall, Write, Read, Delete, ObjectCall,
        RemoveDirectory, Open, ReadBody, ReadChunk, Remove, disk, DiskTypes
  <2> QED
    BY <2>2, <2>4, <2>5
<1> USE BucketOfAssumption
    DEF StepOf, NewBucket, DeleteBucket, BucketCall, RemoveDirectory, Write, Read,
        Delete, ObjectCall, Create, WriteBody, WriteChunk, Open, ReadBody, ReadChunk,
        Remove, memRep, disk, history
<1>5. MemoryTypes'
  BY DEF MemoryTypes, Entry
<1>6. dirs' \subseteq Buckets
  BY DEF DiskTypes
<1>7. inode' \in [Objects -> Entry]
  BY <1>3 DEF DiskTypes, Entry, WithoutBucket
<1>9. promised' \in [Objects -> Entry] /\ disturbed' \subseteq Objects
  BY DEF HistoryTypes, Entry, WithoutBucket
<1>10. expects' \in [Requests -> Entry]
  BY StepResults DEF HistoryTypes
<1> QED
  BY <1>1, <1>2, <1>5, <1>6, <1>7, <1>8, <1>9, <1>10, TypeParts
  DEF DiskTypes, HistoryTypes

(* Only the removal of a bucket keeps the mutex from a step to the next. *)
LEMMA HolderMoves ==
  ASSUME WellFormed, NEW r \in Requests, StepOf(r)
  PROVE  \/ /\ holder' = holder
            /\ at[r] # "remove directory" /\ at'[r] # "remove directory"
         \/ holder = None /\ holder' = r /\ at'[r] = "remove directory"
         \/ holder = r /\ holder' = None /\ at'[r] = "done"
<1> PlaceTypes /\ CallWellFormed(r)
  BY TypeParts DEF WellFormed, CallsWellFormed
<1> USE DEF PlaceTypes, CallWellFormed, Goes, memRep
<1>1. CASE \E b \in Buckets : NewBucket(r, b) \/ DeleteBucket(r, b)
  BY <1>1 DEF NewBucket, DeleteBucket, BucketCall
<1>2. CASE \E o \in Objects : Write(r, o) \/ Read(r, o) \/ Delete(r, o)
  BY <1>2 DEF Write, Read, Delete, ObjectCall
<1>3. CASE RemoveDirectory(r)
  BY <1>3 DEF RemoveDirectory
<1>4. CASE Create(r) \/ Open(r) \/ Remove(r)
  BY <1>4 DEF Create, Open, Remove
<1>5. CASE WriteBody(r) \/ ReadBody(r)
  BY <1>5 DEF WriteBody, WriteChunk, ReadBody, ReadChunk
<1> QED
  BY <1>1, <1>2, <1>3, <1>4, <1>5 DEF StepOf

LEMMA CallsStep ==
  ASSUME WellFormed, NEW r \in Requests, StepOf(r)
  PROVE  CallsWellFormed'
<1> PlaceTypes /\ ResultTypes /\ CallsWellFormed
  BY TypeParts DEF WellFormed
<1>1. ASSUME NEW q \in Requests, q # r
      PROVE  CallWellFormed(q)'
  <2>1. CallWellFormed(q)
    BY DEF CallsWellFormed
  <2> QED
    BY <1>1, <2>1, OtherCalls, HolderMoves, NoneAssumption DEF CallWellFormed
<1>2. CallWellFormed(r)'
  <2> CallWellFormed(r)
    BY DEF CallsWellFormed
  <2>1. at'[r] = "remove directory" <=> holder' = r
    BY HolderMoves, NoneAssumption DEF CallWellFormed
  <2>2. CASE \E b \in Buckets : NewBucket(r, b) \/ DeleteBucket(r, b)
    BY <2>1, <2>2
    DEF NewBucket, DeleteBucket, BucketCall, Goes, PlaceTypes, CallWellFormed
  <2>3. CASE \E o \in Objects : Write(r, o) \/ Read(r, o) \/ Delete(r, o)
    BY <2>1, <2>3
    DEF Write, Read, Delete, ObjectCall, Goes, PlaceTypes, CallWellFormed
  <2>4. CASE RemoveDirectory(r) \/ Create(r) \/ Open(r) \/ Remove(r)
    BY <2>1, <2>4
    DEF RemoveDirectory, Create, Open, Remove, Goes, PlaceTypes, CallWellFormed
  <2>5. CASE WriteBody(r)
    BY <2>1, <2>5 DEF WriteBody, WriteChunk, Goes, PlaceTypes, CallWellFormed
  <2>6. CASE ReadBody(r)
    <3>1. /\ at[r] \in {"read 1", "read 2"} /\ at'[r] \in {"read 2", "done"}
          /\ at'[r] = "read 2" =>
               at[r] = "read 1" /\ got'[r] = [got[r] EXCEPT ![1] = content[fd[r]][1]]
      BY <2>6 DEF ReadBody, ReadChunk, Goes, PlaceTypes, ResultTypes
    <3>2. ASSUME at'[r] = "read 2"
          PROVE  got'[r][2] = None
      <4>1. got[r] = Blank /\ got'[r] = [got[r] EXCEPT ![1] = content[fd[r]][1]]
        BY <3>1, <3>2 DEF CallWellFormed
      <4> QED
        BY <4>1 DEF Blank, Chunks
    <3>3. UNCHANGED <<op, target, holder>>
      BY <2>6 DEF ReadBody, ReadChunk, memRep
    <3> QED
      BY <2>1, <3>1, <3>2, <3>3 DEF CallWellFormed
  <2> QED
    BY <2>2, <2>3, <2>4, <2>5, <2>6 DEF StepOf
<1> QED
  BY <1>1, <1>2 DEF CallsWellFormed

(* FileOf in the next state, for a file that is found there. *)
FileOfNext(f, o) ==
  f \in Requests /\ target'[f] = o /\ op'[f] = "Write" /\ at'[f] \notin {"idle", "create"}

(* A file stays with its object. *)
LEMMA FilesStay ==
  ASSUME WellFormed, NEW r \in Requests, StepOf(r),
         NEW o \in Objects \cup Buckets \cup {None}
  PROVE  \A f \in Requests : FileOf(f, o) => FileOfNext(f, o)
<1> SUFFICES ASSUME NEW f \in Requests, FileOf(f, o)
             PROVE  FileOfNext(f, o)
  OBVIOUS
<1>1. CASE f # r
  BY <1>1, OtherCalls DEF FileOf, FileOfNext
<1>2. CASE f = r
  <2> PlaceTypes
    BY TypeParts DEF WellFormed
  <2>1. at[r] # "idle" /\ op'[r] = op[r] /\ target'[r] = target[r]
    BY <1>2, StepGoes DEF Begins, GoesOn, FileOf
  <2>2. at'[r] # "idle"
    BY StepGoes DEF Goes, PlaceTypes
  <2>3. at'[r] # "create"
    BY <1>2, <2>1
    DEF FileOf, StepOf, NewBucket, DeleteBucket, BucketCall, Write, Read, Delete,
        ObjectCall, RemoveDirectory, Create, WriteBody, WriteChunk, Open, ReadBody,
        ReadChunk, Remove, Goes, PlaceTypes
  <2> QED
    BY <1>2, <2>1, <2>2, <2>3 DEF FileOf, FileOfNext
<1> QED
  BY <1>1, <1>2

(* The name of an object is given to a file by the upload that creates it. *)
LEMMA NamesMove ==
  ASSUME WellFormed, NEW r \in Requests, StepOf(r), NEW o \in Objects
  PROVE  \/ inode'[o] \in {None, inode[o]}
         \/ /\ inode'[o] = r /\ target[r] = o
            /\ at[r] = "create" /\ at'[r] = "write 1"
<1> DiskTypes /\ PlaceTypes /\ CallWellFormed(r)
  BY TypeParts DEF WellFormed, CallsWellFormed
<1>1. CASE Create(r)
  BY <1>1 DEF Create, Exists, Goes, DiskTypes, PlaceTypes, CallWellFormed
<1>2. CASE ~Create(r)
  BY <1>2
  DEF StepOf, NewBucket, DeleteBucket, BucketCall, Write, Read, Delete, ObjectCall,
      RemoveDirectory, WriteBody, WriteChunk, Open, ReadBody, ReadChunk, Remove,
      WithoutBucket, disk, DiskTypes, CallWellFormed
<1> QED
  BY <1>1, <1>2

LEMMA FilesStep ==
  ASSUME WellFormed, NEW r \in Requests, StepOf(r)
  PROVE  FilesWellFormed'
<1> PlaceTypes /\ DiskTypes /\ ResultTypes /\ CallWellFormed(r) /\ FilesWellFormed
  BY TypeParts DEF WellFormed, CallsWellFormed
<1>1. ASSUME NEW o \in Objects, inode'[o] # None
      PROVE  FileOfNext(inode'[o], o)
  <2>1. CASE inode'[o] = inode[o]
    <3>1. inode[o] \in Requests /\ FileOf(inode[o], o)
      BY <1>1, <2>1 DEF FilesWellFormed, FileOf
    <3> QED
      BY <2>1, <3>1, FilesStay
  <2>2. CASE inode'[o] = r /\ at[r] = "create" /\ at'[r] = "write 1" /\ target[r] = o
    <3>1. op'[r] = op[r] /\ target'[r] = target[r] /\ op[r] = "Write"
      BY <2>2, StepGoes DEF Begins, GoesOn, CallWellFormed
    <3> QED
      BY <2>2, <3>1 DEF FileOfNext
  <2> QED
    BY <1>1, <2>1, <2>2, NamesMove
<1>2. ASSUME NEW q \in Requests, q # r
      PROVE  /\ fd'[q] # None => FileOfNext(fd'[q], target'[q])
             /\ at'[q] \in {"write 1", "write 2", "read 1", "read 2"} => fd'[q] # None
  <2>1. target[q] \in Objects \cup Buckets \cup {None}
    BY DEF PlaceTypes
  <2>2. fd'[q] = fd[q] /\ target'[q] = target[q] /\ at'[q] = at[q]
    BY <1>2, OtherCalls
  <2>3. fd[q] # None => fd[q] \in Requests /\ FileOf(fd[q], target[q])
    BY DEF FilesWellFormed, FileOf
  <2> QED
    BY <2>1, <2>2, <2>3, FilesStay DEF FilesWellFormed
<1>3. fd'[r] # None => FileOfNext(fd'[r], target'[r])
  <2>1. target[r] \in Objects \cup Buckets \cup {None}
    BY DEF PlaceTypes
  <2>2. \A f \in Requests : FileOf(f, target[r]) => FileOfNext(f, target[r])
    BY <2>1, FilesStay
  <2>3. CASE Create(r)
    <3>1. /\ target[r] \in Objects /\ target'[r] = target[r]
          /\ fd' = fd \/ fd'[r] = inode'[target[r]]
      BY <2>3 DEF Create, Goes, CallWellFormed, DiskTypes, ResultTypes
    <3>2. CASE fd' = fd
      BY <2>2, <3>1, <3>2 DEF FilesWellFormed, FileOf
    <3> QED
      BY <1>1, <3>1, <3>2
  <2>4. CASE Open(r)
    <3>1. target[r] \in Objects /\ target'[r] = target[r] /\ fd'[r] = inode[target[r]]
      BY <2>4 DEF Open, CallWellFormed, ResultTypes
    <3> QED
      BY <2>2, <3>1 DEF FilesWellFormed, FileOf
  <2>5. CASE ~Create(r) /\ ~Open(r)
    <3>1. fd' = fd
      BY <2>5
      DEF StepOf, NewBucket, DeleteBucket, BucketCall, Write, Read, Delete, ObjectCall,
          RemoveDirectory, WriteBody, WriteChunk, ReadBody, ReadChunk, Remove
    <3>2. fd[r] # None => target'[r] = target[r]
      BY StepGoes DEF Begins, GoesOn, CallWellFormed
    <3> QED
      BY <2>2, <3>1, <3>2 DEF FilesWellFormed, FileOf
  <2> QED
    BY <2>3, <2>4, <2>5
<1>4. at'[r] \in {"write 1", "write 2", "read 1", "read 2"} => fd'[r] # None
  <2>1. CASE \E b \in Buckets : NewBucket(r, b) \/ DeleteBucket(r, b)
    BY <2>1 DEF NewBucket, DeleteBucket, BucketCall, Goes, PlaceTypes
  <2>2. CASE \E o \in Objects : Write(r, o) \/ Read(r, o) \/ Delete(r, o)
    BY <2>2 DEF Write, Read, Delete, ObjectCall, Goes, PlaceTypes
  <2>3. CASE RemoveDirectory(r) \/ Remove(r)
    BY <2>3 DEF RemoveDirectory, Remove, Goes, PlaceTypes
  <2>4. CASE Create(r) \/ Open(r)
    BY <2>4, NoneAssumption
    DEF Create, Open, Exists, Goes, PlaceTypes, ResultTypes, CallWellFormed
  <2>5. CASE WriteBody(r) \/ ReadBody(r)
    BY <2>5
    DEF WriteBody, WriteChunk, ReadBody, ReadChunk, Goes, PlaceTypes, FilesWellFormed
  <2> QED
    BY <2>1, <2>2, <2>3, <2>4, <2>5 DEF StepOf
<1> QED
  BY <1>1, <1>2, <1>3, <1>4 DEF FilesWellFormed, FileOf, FileOfNext

LEMMA RestartKeeps ==
  ASSUME WellFormed, Restart
  PROVE  WellFormed'
<1> /\ MemoryTypes /\ DiskTypes /\ PlaceTypes /\ ResultTypes /\ HistoryTypes
    /\ CallsWellFormed /\ FilesWellFormed
  BY TypeParts DEF WellFormed
<1> USE NoneAssumption DEF Restart, disk
<1>1. MemoryTypes' /\ DiskTypes'
  BY MaxRestartsAssumption DEF MemoryTypes, DiskTypes, Entry
<1>2. PlaceTypes' /\ ResultTypes'
  BY DEF PlaceTypes, Places, ResultTypes
<1>3. HistoryTypes'
  BY DEF HistoryTypes, Entry
<1>4. CallsWellFormed'
  BY DEF CallsWellFormed, CallWellFormed, PlaceTypes
<1>5. FilesWellFormed'
  BY DEF FilesWellFormed, FileOf
<1> QED
  BY <1>1, <1>2, <1>3, <1>4, <1>5, TypeParts DEF WellFormed

LEMMA WellFormedStep ==
  ASSUME WellFormed, [Next]_vars
  PROVE  WellFormed'
<1>1. CASE UNCHANGED vars
  BY <1>1
  DEF vars, memRep, disk, calls, history, WellFormed, TypeOK, CallsWellFormed,
      CallWellFormed, FilesWellFormed, FileOf
<1>2. ASSUME NEW r \in Requests, StepOf(r)
      PROVE  WellFormed'
  BY <1>2, StepTypes, CallsStep, FilesStep DEF WellFormed
<1> QED
  BY <1>1, <1>2, RestartKeeps, NextIsAStep

(* The state of the file storage has its types. *)
THEOREM TypeCorrect == Spec => []TypeOK
<1>1. WellFormed => TypeOK
  BY DEF WellFormed
<1>2. Init => WellFormed
  BY WellFormedInit
<1>3. WellFormed /\ [Next]_vars => WellFormed'
  BY WellFormedStep
<1> QED
  BY <1>1, <1>2, <1>3, PTL DEF Spec
-----------------------------------------------------------------------------
(* Keys, buckets and directories.                                          *)

LEMMA KeysInit ==
  ASSUME Init
  PROVE  KeysInBuckets
BY DEF Init, KeysInBuckets

LEMMA KeysStep ==
  ASSUME FilesInv, NEW r \in Requests, StepOf(r)
  PROVE  KeysInBuckets'
<1> KeysInBuckets /\ PlaceTypes /\ CallWellFormed(r)
  BY TypeParts DEF FilesInv, WellFormed, CallsWellFormed
<1> USE DEF KeysInBuckets, memRep, disk, history
<1>1. CASE \E b \in Buckets : NewBucket(r, b)
  BY <1>1 DEF NewBucket, BucketCall
<1>2. CASE \E b \in Buckets : DeleteBucket(r, b)
  BY <1>2 DEF DeleteBucket, BucketCall
<1>3. CASE RemoveDirectory(r)
  <2>1. PICK b \in Buckets : b = target[r]
    BY <1>3 DEF RemoveDirectory, CallWellFormed
  <2>2. /\ buckets' = buckets \ {b} /\ dirs' \in {dirs, dirs \ {b}}
        /\ listed' = {o \in listed : BucketOf[o] # b}
        /\ UNCHANGED <<restarts, disturbed>>
    BY <1>3, <2>1 DEF RemoveDirectory
  <2>3. ASSUME b \in dirs'
        PROVE  \E o \in disturbed : BucketOf[o] = b
    <3>1. PICK o \in Objects : BucketOf[o] = b /\ Exists(o)
      BY <1>3, <2>1, <2>3 DEF RemoveDirectory
    <3>2. Clearing(r, o)
      BY <1>3, <2>1, <3>1 DEF RemoveDirectory, Clearing
    <3> QED
      BY <3>1, <3>2 DEF FilesInv, InOrder, CallInOrder, ClearerInOrder
  <2> QED
    BY <2>2, <2>3
<1>4. CASE \E o \in Objects : Write(r, o)
  BY <1>4, NoneIsNoName DEF Write, ObjectCall, Refusal, Outcomes
<1>5. CASE \E o \in Objects : Read(r, o) \/ Delete(r, o)
  BY <1>5 DEF Read, Delete, ObjectCall
<1>6. CASE Create(r) \/ WriteBody(r) \/ Open(r) \/ ReadBody(r) \/ Remove(r)
  BY <1>6 DEF Create, WriteBody, WriteChunk, Open, ReadBody, ReadChunk, Remove
<1> QED
  BY <1>1, <1>2, <1>3, <1>4, <1>5, <1>6 DEF StepOf

LEMMA DisturbedStays ==
  ASSUME NEW r \in Requests, StepOf(r)
  PROVE  disturbed \subseteq disturbed'
BY DEF StepOf, NewBucket, DeleteBucket, BucketCall, Write, Read, Delete, ObjectCall,
       RemoveDirectory, Create, WriteBody, WriteChunk, Open, ReadBody, ReadChunk, Remove,
       history

-----------------------------------------------------------------------------
(* A step that has nothing to do with an object leaves it in order.        *)

Concerns(r, o) ==
  at[r] # "idle" /\ op[r] \in {"Write", "Read", "Delete"} /\ target[r] = o

LEMMA Elsewhere ==
  ASSUME WellFormed, WellFormed', NEW r \in Requests, StepOf(r),
         NEW o \in Objects, InOrder(o),
         ~Concerns(r, o), ~Concerns(r, o)', ~Clearing(r, o), ~Clearing(r, o)',
         restarts' = restarts,
         promised'[o] = promised[o], inode'[o] = inode[o],
         o \in listed' <=> o \in listed,
         \A f \in Requests : FileOf(f, o) => content'[f] = content[f]
  PROVE  InOrder(o)'
<1>1. \A q \in Requests \ {r} :
        /\ op'[q] = op[q] /\ target'[q] = target[q] /\ at'[q] = at[q]
        /\ status'[q] = status[q] /\ fd'[q] = fd[q] /\ got'[q] = got[q]
        /\ expects'[q] = expects[q]
  BY OtherCalls
<1>2. /\ ~(target[r] = o /\ Unsettled(r)) /\ ~(target[r] = o /\ Unsettled(r))'
      /\ ~Writing(r, o) /\ ~Writing(r, o)' /\ ~Removing(r, o) /\ ~Removing(r, o)'
      /\ ~(target'[r] = o /\ at'[r] = "create") /\ ~(target[r] = o /\ at[r] = "create")
  <2>1. CallWellFormed(r) /\ CallWellFormed(r)'
    BY DEF WellFormed, CallsWellFormed
  <2> QED
    BY <2>1 DEF CallWellFormed, Concerns, Unsettled, Writing, Removing
<1>3. \A q \in Requests :
        /\ Writing(q, o)' <=> Writing(q, o)
        /\ Removing(q, o)' <=> Removing(q, o)
        /\ Clearing(q, o)' <=> Clearing(q, o)
        /\ (target[q] = o /\ Unsettled(q))' <=> (target[q] = o /\ Unsettled(q))
        /\ (target[q] = o /\ at[q] = "create")' <=> (target[q] = o /\ at[q] = "create")
  BY <1>1, <1>2 DEF Writing, Removing, Clearing, Unsettled
<1>4. Exists(o) => inode[o] \in Requests /\ content'[inode[o]] = content[inode[o]]
  BY DEF WellFormed, FilesWellFormed, FileOf, Exists
<1>5. FileInOrder(o)'
  BY <1>3, <1>4 DEF InOrder, FileInOrder, Exists
<1>6. ASSUME NEW q \in Requests, q # r
      PROVE  CallInOrder(q, o)'
  <2>1. target[q] = o /\ fd[q] # None => content'[fd[q]] = content[fd[q]]
    BY DEF WellFormed, FilesWellFormed, FileOf
  <2>2. at[q] \in {"write 1", "write 2", "read 1", "read 2"} => fd[q] # None
    BY DEF WellFormed, FilesWellFormed
  <2>3. CallInOrder(q, o)
    BY DEF InOrder
  <2>4. /\ op'[q] = op[q] /\ target'[q] = target[q] /\ at'[q] = at[q]
        /\ status'[q] = status[q] /\ fd'[q] = fd[q] /\ got'[q] = got[q]
        /\ expects'[q] = expects[q]
    BY <1>1, <1>6
  <2>5. WriterInOrder(q, o)'
    BY <1>3, <2>1, <2>2, <2>3, <2>4 DEF CallInOrder, WriterInOrder, Writing
  <2>6. RemoverInOrder(q, o)' /\ ClearerInOrder(q, o)'
    BY <1>3, <2>3, <2>4 DEF CallInOrder, RemoverInOrder, ClearerInOrder, Exists
  <2>7. ReaderInOrder(q, o)'
    BY <1>3, <2>1, <2>2, <2>3, <2>4 DEF CallInOrder, ReaderInOrder
  <2>8. (target[q] = o => Served(q))'
    BY <2>3, <2>4 DEF CallInOrder, Served
  <2> QED
    BY <2>5, <2>6, <2>7, <2>8 DEF CallInOrder
<1>7. CallInOrder(r, o)'
  <2>1. at'[r] # "idle"
    BY StepGoes, TypeParts DEF Goes, WellFormed, PlaceTypes
  <2> QED
    BY <1>2, <2>1
    DEF CallInOrder, WriterInOrder, RemoverInOrder, ClearerInOrder, ReaderInOrder,
        Served, Concerns
<1> QED
  BY <1>5, <1>6, <1>7 DEF InOrder

LEMMA StepElsewhere ==
  ASSUME FilesInv, WellFormed', NEW r \in Requests, StepOf(r),
         NEW o \in Objects \ disturbed',
         ~Concerns(r, o), ~Concerns(r, o)', ~Clearing(r, o), ~Clearing(r, o)'
  PROVE  InOrder(o)'
<1> DEFINE Kept == /\ restarts' = restarts
                   /\ promised'[o] = promised[o] /\ inode'[o] = inode[o]
                   /\ o \in listed' <=> o \in listed
                   /\ \A f \in Requests : FileOf(f, o) => content'[f] = content[f]
<1> /\ WellFormed /\ DiskTypes /\ PlaceTypes /\ HistoryTypes
    /\ CallWellFormed(r) /\ FilesWellFormed
  BY TypeParts DEF FilesInv, WellFormed, CallsWellFormed
<1> SUFFICES Kept
  <2>1. InOrder(o)
    BY DisturbedStays DEF FilesInv
  <2> QED
    BY <2>1, Elsewhere
<1>1. CASE \E b \in Buckets : NewBucket(r, b)
  BY <1>1 DEF NewBucket, BucketCall
<1>2. ASSUME NEW b \in Buckets, DeleteBucket(r, b)
      PROVE  Kept
  <2>1. target'[r] = b /\ UNCHANGED <<restarts, listed, content>>
    BY <1>2 DEF DeleteBucket, BucketCall, PlaceTypes
  <2>2. CASE b \notin buckets
    BY <1>2, <2>1, <2>2 DEF DeleteBucket
  <2>3. CASE b \in buckets
    <3>1. BucketOf[o] # b
      BY <1>2, <2>1, <2>3 DEF DeleteBucket, Goes, PlaceTypes, Clearing
    <3> QED
      BY <1>2, <2>1, <2>3, <3>1 DEF DeleteBucket, WithoutBucket
  <2> QED
    BY <2>2, <2>3
<1>3. CASE RemoveDirectory(r)
  BY <1>3 DEF RemoveDirectory, Clearing, history
<1>4. ASSUME NEW x \in Objects, Write(r, x) \/ Read(r, x) \/ Delete(r, x)
      PROVE  Kept
  <2>1. x # o
    <3>1. /\ target'[r] = x /\ op'[r] \in {"Write", "Read", "Delete"}
          /\ at'[r] # "idle"
      BY <1>4 DEF Write, Read, Delete, ObjectCall, Goes, PlaceTypes
    <3> QED
      BY <3>1 DEF Concerns
  <2> QED
    BY <1>4, <2>1 DEF Write, Read, Delete, ObjectCall, disk, HistoryTypes
<1>5. CASE Create(r)
  <2>1. /\ target[r] \in Objects /\ target[r] # o /\ op[r] = "Write"
    BY <1>5 DEF Create, CallWellFormed, Concerns
  <2>2. PICK f : /\ f = IF Exists(target[r]) THEN inode[target[r]] ELSE r
                 /\ content' \in {content, [content EXCEPT ![f] = Blank]}
                 /\ inode' \in {inode, [inode EXCEPT ![target[r]] = f]}
                 /\ UNCHANGED <<restarts, promised, listed>>
    BY <1>5 DEF Create, memRep, history
  <2>3. ~FileOf(f, o)
    BY <2>1, <2>2, <1>5 DEF Create, FilesWellFormed, FileOf, Exists
  <2> QED
    BY <2>1, <2>2, <2>3 DEF DiskTypes
<1>6. CASE WriteBody(r)
  <2>1. target[r] # o /\ FileOf(fd[r], target[r])
    BY <1>6 DEF WriteBody, WriteChunk, CallWellFormed, Concerns, FilesWellFormed
  <2>2. ~FileOf(fd[r], o)
    BY <2>1 DEF FileOf
  <2>3. UNCHANGED <<restarts, inode, listed>> /\ promised'[o] = promised[o]
    BY <1>6, <2>1 DEF WriteBody, WriteChunk, memRep, HistoryTypes
  <2>4. \A f \in Requests : f # fd[r] => content'[f] = content[f]
    BY <1>6, <2>1 DEF WriteBody, WriteChunk, DiskTypes
  <2> QED
    BY <2>2, <2>3, <2>4
<1>7. CASE Open(r) \/ ReadBody(r)
  BY <1>7 DEF Open, ReadBody, ReadChunk, memRep, disk, history
<1>8. CASE Remove(r)
  <2>1. target[r] # o
    BY <1>8 DEF Remove, CallWellFormed, Concerns
  <2> QED
    BY <1>8, <2>1 DEF Remove, memRep, history, DiskTypes
<1> QED
  BY <1>1, <1>2, <1>3, <1>4, <1>5, <1>6, <1>7, <1>8 DEF StepOf

-----------------------------------------------------------------------------
(* A step about an object leaves it in order.                              *)

(* The calls of others, and which of them are on their way to the file. *)
LEMMA OthersInOrder ==
  ASSUME FilesInv, NEW r \in Requests, StepOf(r), NEW o \in Objects \ disturbed',
         NEW q \in Requests, q # r
  PROVE  /\ op'[q] = op[q] /\ target'[q] = target[q] /\ at'[q] = at[q]
         /\ status'[q] = status[q] /\ fd'[q] = fd[q] /\ got'[q] = got[q]
         /\ expects'[q] = expects[q]
         /\ CallInOrder(q, o)
         /\ Served(q) /\ target[q] = o => Served(q)'
BY OtherCalls, DisturbedStays DEF FilesInv, InOrder, Served

LEMMA WriteInOrder ==
  ASSUME FilesInv, NEW r \in Requests, NEW o \in Objects \ disturbed', Write(r, o)
  PROVE  InOrder(o)'
<1> StepOf(r)
  BY DEF StepOf
<1> /\ WellFormed /\ CallsWellFormed /\ PlaceTypes /\ HistoryTypes /\ KeysInBuckets
    /\ FileInOrder(o) /\ CallInOrder(r, o)
  BY TypeParts, DisturbedStays DEF FilesInv, WellFormed, InOrder
<1>1. /\ at[r] = "idle" /\ holder = None /\ op'[r] = "Write" /\ target'[r] = o
      /\ UNCHANGED <<inode, content, promised, restarts>>
  BY DEF Write, ObjectCall, PlaceTypes, disk
<1>2. \/ at'[r] = "create" /\ o \notin listed /\ o \in listed'
      \/ at'[r] = "done" /\ listed' = listed
  BY NoneIsNoName DEF Write, ObjectCall, Goes, Refusal, PlaceTypes, Outcomes
<1>3. \A q \in Requests : ~Removing(q, o) /\ ~Clearing(q, o)
  BY <1>1, NoneAssumption
  DEF Write, ObjectCall, Unsettled, Removing, Clearing, CallsWellFormed, CallWellFormed
<1>4. o \notin listed => promised[o] = None /\ \A q \in Requests : ~Writing(q, o)
  BY DisturbedStays DEF FilesInv, InOrder, CallInOrder, FileInOrder, WriterInOrder
<1>5. FileInOrder(o)'
  BY <1>1, <1>2, <1>3, OtherCalls DEF FileInOrder, Exists, Clearing
<1>6. CallInOrder(r, o)'
  BY <1>1, <1>2, <1>4, OtherCalls
  DEF CallInOrder, WriterInOrder, RemoverInOrder, ClearerInOrder, ReaderInOrder, Served,
      Writing, Removing, Clearing
<1>7. ASSUME NEW q \in Requests, q # r
      PROVE  CallInOrder(q, o)'
  <2>1. /\ op'[q] = op[q] /\ target'[q] = target[q] /\ at'[q] = at[q]
        /\ status'[q] = status[q] /\ fd'[q] = fd[q] /\ got'[q] = got[q]
        /\ expects'[q] = expects[q] /\ CallInOrder(q, o)
    BY <1>7, OthersInOrder
  <2>2. WriterInOrder(q, o)'
    BY <1>1, <1>2, <1>4, <2>1, OtherCalls DEF CallInOrder, WriterInOrder, Writing
  <2>3. RemoverInOrder(q, o)' /\ ClearerInOrder(q, o)'
    BY <1>3, <2>1 DEF RemoverInOrder, ClearerInOrder, Removing, Clearing
  <2>4. ReaderInOrder(q, o)'
    BY <1>1, <1>3, <2>1 DEF CallInOrder, ReaderInOrder
  <2>5. (target[q] = o => Served(q))'
    BY <2>1 DEF CallInOrder, Served
  <2> QED
    BY <2>2, <2>3, <2>4, <2>5 DEF CallInOrder
<1> QED
  BY <1>5, <1>6, <1>7 DEF InOrder

LEMMA ReadInOrder ==
  ASSUME FilesInv, NEW r \in Requests, NEW o \in Objects \ disturbed', Read(r, o)
  PROVE  InOrder(o)'
<1> StepOf(r)
  BY DEF StepOf
<1> /\ WellFormed /\ CallsWellFormed /\ PlaceTypes /\ HistoryTypes /\ KeysInBuckets
    /\ FileInOrder(o) /\ CallInOrder(r, o)
  BY TypeParts, DisturbedStays DEF FilesInv, WellFormed, InOrder
<1>1. /\ at[r] = "idle" /\ holder = None /\ op'[r] = "Read" /\ target'[r] = o
      /\ expects'[r] = promised[o]
      /\ UNCHANGED <<inode, content, listed, promised, restarts>>
  BY DEF Read, ObjectCall, PlaceTypes, HistoryTypes, disk
<1>2. at'[r] = "open" \/ (at'[r] = "done" /\ promised[o] = None)
  BY NoneIsNoName
  DEF Read, ObjectCall, Goes, Missing, PlaceTypes, Outcomes, KeysInBuckets, FileInOrder
<1>3. \A q \in Requests : ~Removing(q, o) /\ ~Clearing(q, o)
  BY <1>1, NoneAssumption
  DEF Read, ObjectCall, Unsettled, Removing, Clearing, CallsWellFormed, CallWellFormed
<1>4. FileInOrder(o)'
  BY <1>1, <1>2, <1>3, OtherCalls DEF FileInOrder, Exists, Clearing
<1>5. CallInOrder(r, o)'
  BY <1>1, <1>2, NoneIsNoName
  DEF CallInOrder, WriterInOrder, RemoverInOrder, ClearerInOrder, ReaderInOrder, Served,
      Writing, Removing, Clearing
<1>6. ASSUME NEW q \in Requests, q # r
      PROVE  CallInOrder(q, o)'
  <2>1. /\ op'[q] = op[q] /\ target'[q] = target[q] /\ at'[q] = at[q]
        /\ status'[q] = status[q] /\ fd'[q] = fd[q] /\ got'[q] = got[q]
        /\ expects'[q] = expects[q] /\ CallInOrder(q, o)
    BY <1>6, OthersInOrder
  <2>2. WriterInOrder(q, o)'
    BY <1>1, <1>2, <2>1, OtherCalls DEF CallInOrder, WriterInOrder, Writing
  <2>3. RemoverInOrder(q, o)' /\ ClearerInOrder(q, o)'
    BY <1>3, <2>1 DEF RemoverInOrder, ClearerInOrder, Removing, Clearing
  <2>4. ReaderInOrder(q, o)'
    BY <1>1, <1>3, <2>1 DEF CallInOrder, ReaderInOrder
  <2>5. (target[q] = o => Served(q))'
    BY <2>1 DEF CallInOrder, Served
  <2> QED
    BY <2>2, <2>3, <2>4, <2>5 DEF CallInOrder
<1> QED
  BY <1>4, <1>5, <1>6 DEF InOrder

LEMMA DeleteInOrder ==
  ASSUME FilesInv, NEW r \in Requests, NEW o \in Objects \ disturbed', Delete(r, o)
  PROVE  InOrder(o)'
<1> StepOf(r)
  BY DEF StepOf
<1> /\ WellFormed /\ CallsWellFormed /\ PlaceTypes /\ HistoryTypes /\ KeysInBuckets
    /\ FileInOrder(o) /\ CallInOrder(r, o)
  BY TypeParts, DisturbedStays DEF FilesInv, WellFormed, InOrder
<1>1. /\ at[r] = "idle" /\ holder = None /\ op'[r] = "Delete" /\ target'[r] = o
      /\ expects'[r] = promised[o] /\ promised'[o] = None /\ o \notin listed'
      /\ UNCHANGED <<inode, content, restarts>>
  BY DEF Delete, ObjectCall, PlaceTypes, HistoryTypes, disk
<1>2. at'[r] = "remove" \/ (at'[r] = "done" /\ o \notin listed)
  BY NoneIsNoName
  DEF Delete, ObjectCall, Goes, Missing, PlaceTypes, Outcomes, KeysInBuckets
<1>3. \A q \in Requests :
        /\ ~(target[q] = o /\ Unsettled(q)) /\ ~Writing(q, o) /\ ~Removing(q, o)
        /\ ~Clearing(q, o)
  BY <1>1, NoneAssumption
  DEF Delete, ObjectCall, Unsettled, Writing, Removing, Clearing, CallsWellFormed,
      CallWellFormed
<1>4. promised[o] # None => o \in listed /\ Exists(o)
  BY DEF FileInOrder
<1>5. FileInOrder(o)'
  BY <1>1, <1>2, <1>3, OtherCalls DEF FileInOrder, Exists, Removing
<1>6. CallInOrder(r, o)'
  <2>1. ~Writing(r, o)' /\ ~Clearing(r, o)'
    BY <1>2 DEF Writing, Clearing
  <2>2. RemoverInOrder(r, o)'
    BY <1>1, <1>3, <1>4, OtherCalls DEF RemoverInOrder, Unsettled, Exists
  <2>3. ReaderInOrder(r, o)' /\ Served(r)'
    BY <1>1, <1>2, <1>4 DEF ReaderInOrder, Served
  <2> QED
    BY <2>1, <2>2, <2>3 DEF CallInOrder, WriterInOrder, ClearerInOrder
<1>7. ASSUME NEW q \in Requests, q # r
      PROVE  CallInOrder(q, o)'
  <2>1. /\ op'[q] = op[q] /\ target'[q] = target[q] /\ at'[q] = at[q]
        /\ status'[q] = status[q] /\ fd'[q] = fd[q] /\ got'[q] = got[q]
        /\ expects'[q] = expects[q] /\ CallInOrder(q, o)
    BY <1>7, OthersInOrder
  <2>2. WriterInOrder(q, o)' /\ RemoverInOrder(q, o)' /\ ClearerInOrder(q, o)'
    BY <1>3, <2>1
    DEF WriterInOrder, RemoverInOrder, ClearerInOrder, Writing, Removing, Clearing
  <2>3. ReaderInOrder(q, o)'
    <3>1. promised[o] # None => Removing(r, o)'
      BY <1>1, <1>2, <1>4 DEF Removing
    <3>2. at[q] = "open" => target[q] # o
      BY <1>3 DEF Unsettled
    <3> QED
      BY <1>1, <1>3, <2>1, <3>1, <3>2 DEF CallInOrder, ReaderInOrder
  <2>4. (target[q] = o => Served(q))'
    BY <2>1 DEF CallInOrder, Served
  <2> QED
    BY <2>2, <2>3, <2>4 DEF CallInOrder
<1> QED
  BY <1>5, <1>6, <1>7 DEF InOrder

(* While a call is on its way to the file, an upload is alone with its     *)
(* object and no download expects to find it.                              *)
LEMMA UploadAlone ==
  ASSUME FilesInv, NEW r \in Requests, NEW o \in Objects \ disturbed, Writing(r, o)
  PROVE  /\ o \in listed /\ promised[o] = None
         /\ \A q \in Requests :
              /\ Writing(q, o) => q = r
              /\ ~Removing(q, o) /\ ~Clearing(q, o)
              /\ (op[q] = "Read" /\ target[q] = o /\ expects[q] # None) =>
                   /\ at[q] # "open"
                   /\ at[q] \in {"read 1", "read 2"} => fd[q] # inode[o]
<1>1. \A q \in Requests : CallInOrder(q, o)
  BY DEF FilesInv, InOrder
<1>2. o \in listed /\ promised[o] = None /\ \A q \in Requests : Writing(q, o) => q = r
  BY <1>1 DEF CallInOrder, WriterInOrder
<1>3. \A q \in Requests : ~Removing(q, o)
  BY <1>1, <1>2 DEF CallInOrder, RemoverInOrder
<1>4. \A q \in Requests : ~Clearing(q, o)
  BY <1>1 DEF CallInOrder, ClearerInOrder, Writing, Unsettled
<1> QED
  BY <1>1, <1>2, <1>3, <1>4 DEF CallInOrder, ReaderInOrder

LEMMA CreateInOrder ==
  ASSUME FilesInv, NEW r \in Requests, NEW o \in Objects \ disturbed', Create(r),
         target[r] = o
  PROVE  InOrder(o)'
<1> StepOf(r)
  BY DEF StepOf
<1> /\ WellFormed /\ DiskTypes /\ PlaceTypes /\ ResultTypes /\ KeysInBuckets
    /\ FilesWellFormed /\ CallWellFormed(r) /\ o \in Objects \ disturbed
  BY TypeParts, DisturbedStays DEF FilesInv, WellFormed, CallsWellFormed
<1>1. /\ at[r] = "create" /\ Writing(r, o) /\ op[r] = "Write"
      /\ UNCHANGED <<restarts, promised, listed>>
      /\ op'[r] = "Write" /\ target'[r] = o
  BY DEF Create, Writing, CallWellFormed, memRep, history
<1>2. /\ o \in listed /\ promised[o] = None
      /\ \A q \in Requests :
           /\ Writing(q, o) => q = r
           /\ ~Removing(q, o) /\ ~Clearing(q, o)
           /\ (op[q] = "Read" /\ target[q] = o /\ expects[q] # None) =>
                /\ at[q] # "open"
                /\ at[q] \in {"read 1", "read 2"} => fd[q] # inode[o]
  BY <1>1, UploadAlone
<1>8. BucketOf[o] \in dirs
  BY <1>2 DEF KeysInBuckets
<1>3. PICK f \in Requests :
        /\ f = IF Exists(o) THEN inode[o] ELSE r
        /\ at'[r] = "write 1" /\ fd'[r] = f /\ inode'[o] = f
        /\ content' = [content EXCEPT ![f] = Blank]
  BY <1>8, NoneAssumption
  DEF Create, Goes, Exists, DiskTypes, PlaceTypes, ResultTypes, Entry
<1>4. f # None
  BY NoneAssumption
<1>5. FileInOrder(o)'
  BY <1>1, <1>2, <1>3, <1>4 DEF FileInOrder, Exists
<1>6. CallInOrder(r, o)'
  BY <1>1, <1>3, <1>2, OtherCalls
  DEF CallInOrder, WriterInOrder, RemoverInOrder, ClearerInOrder, ReaderInOrder, Served,
      Writing, Removing, Clearing
<1>7. ASSUME NEW q \in Requests, q # r
      PROVE  CallInOrder(q, o)'
  <2>1. /\ op'[q] = op[q] /\ target'[q] = target[q] /\ at'[q] = at[q]
        /\ status'[q] = status[q] /\ fd'[q] = fd[q] /\ got'[q] = got[q]
        /\ expects'[q] = expects[q] /\ CallInOrder(q, o)
    BY <1>7, OthersInOrder
  <2>2. WriterInOrder(q, o)' /\ RemoverInOrder(q, o)' /\ ClearerInOrder(q, o)'
    BY <1>1, <1>2, <1>7, <2>1
    DEF WriterInOrder, RemoverInOrder, ClearerInOrder, Writing, Removing, Clearing
  <2>3. ReaderInOrder(q, o)'
    <3>1. SUFFICES ASSUME op[q] = "Read", target[q] = o, expects[q] # None,
                          at[q] \in {"read 1", "read 2"}
                   PROVE  fd[q] # f /\ content'[fd[q]] = content[fd[q]]
      BY <1>1, <1>2, <1>3, <2>1 DEF CallInOrder, ReaderInOrder
    <3>2. fd[q] # inode[o]
      BY <1>2, <3>1
    <3>3. FileOf(fd[q], o)
      BY <3>1 DEF FilesWellFormed
    <3>4. fd[q] # r /\ fd[q] \in Requests
      BY <1>1, <3>3 DEF FileOf
    <3> QED
      BY <1>3, <3>2, <3>4 DEF DiskTypes
  <2>4. (target[q] = o => Served(q))'
    BY <2>1 DEF CallInOrder, Served
  <2> QED
    BY <2>2, <2>3, <2>4 DEF CallInOrder
<1> QED
  BY <1>5, <1>6, <1>7 DEF InOrder

LEMMA WriteBodyInOrder ==
  ASSUME FilesInv, NEW r \in Requests, NEW o \in Objects \ disturbed', WriteBody(r),
         target[r] = o
  PROVE  InOrder(o)'
<1> StepOf(r)
  BY DEF StepOf
<1> /\ WellFormed /\ DiskTypes /\ PlaceTypes /\ ResultTypes /\ HistoryTypes
    /\ FilesWellFormed /\ CallWellFormed(r) /\ o \in Objects \ disturbed
    /\ WriterInOrder(r, o)
  BY TypeParts, DisturbedStays
  DEF FilesInv, WellFormed, CallsWellFormed, InOrder, CallInOrder
<1>1. /\ at[r] \in {"write 1", "write 2"} /\ Writing(r, o)
      /\ op[r] = "Write" /\ op'[r] = "Write" /\ target'[r] = o
      /\ UNCHANGED <<restarts, inode, listed>> /\ fd'[r] = fd[r]
  BY DEF WriteBody, WriteChunk, Writing, CallWellFormed, memRep
<1>8. /\ o \in listed /\ promised[o] = None
      /\ \A q \in Requests :
           /\ Writing(q, o) => q = r
           /\ ~Removing(q, o) /\ ~Clearing(q, o)
           /\ (op[q] = "Read" /\ target[q] = o /\ expects[q] # None) =>
                /\ at[q] # "open"
                /\ at[q] \in {"read 1", "read 2"} => fd[q] # inode[o]
  BY <1>1, UploadAlone
<1>2. fd[r] = inode[o] /\ fd[r] \in Requests /\ Exists(o)
  BY <1>1 DEF WriterInOrder, FilesWellFormed, FileOf, Exists
<1>3. \/ /\ at[r] = "write 1" /\ at'[r] = "write 2" /\ promised'[o] = None
         /\ content'[fd[r]][1] = r
      \/ /\ at[r] = "write 2" /\ at'[r] = "done" /\ promised'[o] = r
         /\ content'[fd[r]] = Whole(r)
      \/ at'[r] = "done" /\ promised'[o] = None
  <2>1. 1 \in Chunks /\ 2 \in Chunks /\ \A i \in Chunks : i = 1 \/ i = 2
    BY DEF Chunks
  <2>2. promised[o] = None
    BY <1>8
  <2>3. CASE WriteChunk(r, "write 1", 1, "write 2", None)
    <3>1. at[r] = "write 1" /\ at'[r] \in {"write 2", "done"} /\ promised' = promised
      BY <2>3, NoneIsNoName DEF WriteChunk, Goes, PlaceTypes, Outcomes
    <3>2. at'[r] = "write 2" => content' = [content EXCEPT ![fd[r]][1] = r]
      BY <2>3 DEF WriteChunk, Goes, PlaceTypes
    <3>3. ASSUME at'[r] = "write 2"
          PROVE  content'[fd[r]][1] = r
      <4>1. content'[fd[r]] = [content[fd[r]] EXCEPT ![1] = r]
        BY <1>2, <3>2, <3>3 DEF DiskTypes
      <4> QED
        BY <1>2, <2>1, <4>1 DEF DiskTypes
    <3> QED
      BY <2>2, <3>1, <3>3
  <2>4. CASE WriteChunk(r, "write 2", 2, "done", Ok)
    <3>1. at[r] = "write 2" /\ at'[r] = "done"
      BY <2>4 DEF WriteChunk, Goes, PlaceTypes
    <3>2. content[fd[r]][1] = r
      BY <1>1, <3>1 DEF WriterInOrder
    <3>3. \/ promised'[o] = None
          \/ promised'[o] = r /\ content' = [content EXCEPT ![fd[r]][2] = r]
      BY <1>2, <2>2, <2>4 DEF WriteChunk, HistoryTypes
    <3>4. CASE content' = [content EXCEPT ![fd[r]][2] = r]
      <4>1. content'[fd[r]] = [content[fd[r]] EXCEPT ![2] = r]
        BY <1>2, <3>4 DEF DiskTypes
      <4>2. [content[fd[r]] EXCEPT ![2] = r] = Whole(r)
        BY <1>2, <2>1, <3>2 DEF DiskTypes, Whole
      <4> QED
        BY <3>1, <3>3, <4>1, <4>2
    <3> QED
      BY <3>1, <3>3, <3>4
  <2> QED
    BY <2>3, <2>4 DEF WriteBody
<1>4. \A f \in Requests : f # fd[r] => content'[f] = content[f]
  BY <1>2 DEF WriteBody, WriteChunk, DiskTypes
<1>5. FileInOrder(o)'
  BY <1>1, <1>2, <1>3, <1>8 DEF FileInOrder, Exists
<1>6. CallInOrder(r, o)'
  BY <1>1, <1>2, <1>3, <1>8, OtherCalls
  DEF CallInOrder, WriterInOrder, RemoverInOrder, ClearerInOrder, ReaderInOrder, Served,
      Writing, Removing, Clearing
<1>7. ASSUME NEW q \in Requests, q # r
      PROVE  CallInOrder(q, o)'
  <2>1. /\ op'[q] = op[q] /\ target'[q] = target[q] /\ at'[q] = at[q]
        /\ status'[q] = status[q] /\ fd'[q] = fd[q] /\ got'[q] = got[q]
        /\ expects'[q] = expects[q] /\ CallInOrder(q, o)
    BY <1>7, OthersInOrder
  <2>2. WriterInOrder(q, o)' /\ RemoverInOrder(q, o)' /\ ClearerInOrder(q, o)'
    BY <1>1, <1>7, <1>8, <2>1
    DEF WriterInOrder, RemoverInOrder, ClearerInOrder, Writing, Removing, Clearing
  <2>3. ReaderInOrder(q, o)'
    <3>1. SUFFICES ASSUME op[q] = "Read", target[q] = o, expects[q] # None,
                          at[q] \in {"read 1", "read 2"}
                   PROVE  fd[q] # inode[o] /\ content'[fd[q]] = content[fd[q]]
      BY <1>1, <1>8, <2>1 DEF CallInOrder, ReaderInOrder
    <3>2. fd[q] # inode[o]
      BY <1>8, <3>1
    <3>3. fd[q] \in Requests
      BY <3>1 DEF FilesWellFormed, FileOf
    <3> QED
      BY <1>2, <1>4, <3>2, <3>3
  <2>4. (target[q] = o => Served(q))'
    BY <2>1 DEF CallInOrder, Served
  <2> QED
    BY <2>2, <2>3, <2>4 DEF CallInOrder
<1> QED
  BY <1>5, <1>6, <1>7 DEF InOrder

LEMMA RemoveInOrder ==
  ASSUME FilesInv, NEW r \in Requests, NEW o \in Objects \ disturbed', Remove(r),
         target[r] = o
  PROVE  InOrder(o)'
<1> StepOf(r)
  BY DEF StepOf
<1> /\ WellFormed /\ DiskTypes /\ PlaceTypes /\ CallsWellFormed /\ FilesWellFormed
    /\ CallInOrder(r, o)
  BY TypeParts, DisturbedStays DEF FilesInv, WellFormed, InOrder
<1>1. /\ at[r] = "remove" /\ at'[r] = "done" /\ inode'[o] = None
      /\ op[r] = "Delete" /\ op'[r] = "Delete" /\ target'[r] = o /\ Removing(r, o)
      /\ expects[r] # None => status'[r] = Ok
      /\ UNCHANGED <<restarts, content, promised, listed, expects>>
  BY DEF Remove, Goes, DiskTypes, PlaceTypes, CallsWellFormed, CallWellFormed, Removing,
         CallInOrder, RemoverInOrder, memRep, history
<1>2. /\ o \notin listed /\ promised[o] = None
      /\ \A q \in Requests : q # r => ~(target[q] = o /\ Unsettled(q))
  BY <1>1 DEF CallInOrder, RemoverInOrder
<1>3. FileInOrder(o)'
  BY <1>1, <1>2 DEF FileInOrder, Exists
<1>4. CallInOrder(r, o)'
  BY <1>1
  DEF CallInOrder, WriterInOrder, RemoverInOrder, ClearerInOrder, ReaderInOrder, Served,
      Writing, Removing, Clearing
<1>5. ASSUME NEW q \in Requests, q # r
      PROVE  CallInOrder(q, o)'
  <2>1. /\ op'[q] = op[q] /\ target'[q] = target[q] /\ at'[q] = at[q]
        /\ status'[q] = status[q] /\ fd'[q] = fd[q] /\ got'[q] = got[q]
        /\ expects'[q] = expects[q] /\ CallInOrder(q, o)
    BY <1>5, OthersInOrder
  <2>2. ~(target[q] = o /\ Unsettled(q)) /\ ~Writing(q, o)' /\ ~Removing(q, o)'
    BY <1>2, <1>5, <2>1 DEF Unsettled, Writing, Removing
  <2>3. ~Clearing(q, o)'
    BY <1>1, <2>1 DEF CallInOrder, ClearerInOrder, Clearing, Unsettled
  <2>4. at[q] \in {"read 1", "read 2"} => fd[q] # None
    BY DEF FilesWellFormed
  <2>5. ReaderInOrder(q, o)'
    BY <1>1, <2>1, <2>2, <2>4 DEF CallInOrder, ReaderInOrder, Unsettled
  <2>6. (target[q] = o => Served(q))'
    BY <2>1 DEF CallInOrder, Served
  <2> QED
    BY <2>2, <2>3, <2>5, <2>6
    DEF CallInOrder, WriterInOrder, RemoverInOrder, ClearerInOrder
<1> QED
  BY <1>3, <1>4, <1>5 DEF InOrder

LEMMA OpenInOrder ==
  ASSUME FilesInv, NEW r \in Requests, NEW o \in Objects \ disturbed', Open(r),
         target[r] = o
  PROVE  InOrder(o)'
<1> StepOf(r)
  BY DEF StepOf
<1> /\ WellFormed /\ DiskTypes /\ PlaceTypes /\ ResultTypes /\ CallsWellFormed
    /\ FileInOrder(o) /\ CallInOrder(r, o)
  BY TypeParts, DisturbedStays DEF FilesInv, WellFormed, InOrder
<1>1. /\ at[r] = "open" /\ fd'[r] = inode[o] /\ op[r] = "Read" /\ op'[r] = "Read"
      /\ target'[r] = o
      /\ UNCHANGED <<restarts, inode, content, promised, listed, expects>>
  BY DEF Open, ResultTypes, CallsWellFormed, CallWellFormed, memRep, disk, history
<1>2. \/ at'[r] = "read 1" /\ status'[r] = Ok
      \/ at'[r] = "done" /\ ~Exists(o)
  BY DEF Open, Goes, PlaceTypes
<1>3. expects[r] # None =>
        Exists(o) /\ promised[o] = expects[r] /\ content[inode[o]] = Whole(expects[r])
  BY <1>1 DEF CallInOrder, ReaderInOrder, FileInOrder
<1>4. \A q \in Requests : ~Removing(q, o) /\ ~Clearing(q, o)
  <2>1. \A q \in Requests : CallInOrder(q, o)
    BY DisturbedStays DEF FilesInv, InOrder
  <2> QED
    BY <1>1, <2>1
    DEF CallInOrder, RemoverInOrder, ClearerInOrder, Removing, Unsettled
<1>5. FileInOrder(o)'
  BY <1>1, <1>2, <1>4, OtherCalls DEF FileInOrder, Exists, Clearing
<1>6. CallInOrder(r, o)'
  BY <1>1, <1>2, <1>3
  DEF CallInOrder, WriterInOrder, RemoverInOrder, ClearerInOrder, ReaderInOrder, Served,
      Writing, Removing, Clearing
<1>7. ASSUME NEW q \in Requests, q # r
      PROVE  CallInOrder(q, o)'
  <2>1. /\ op'[q] = op[q] /\ target'[q] = target[q] /\ at'[q] = at[q]
        /\ status'[q] = status[q] /\ fd'[q] = fd[q] /\ got'[q] = got[q]
        /\ expects'[q] = expects[q] /\ CallInOrder(q, o)
    BY <1>7, OthersInOrder
  <2>2. WriterInOrder(q, o)'
    BY <1>1, <1>2, <2>1, OtherCalls DEF CallInOrder, WriterInOrder, Writing
  <2>3. RemoverInOrder(q, o)' /\ ClearerInOrder(q, o)'
    BY <1>4, <2>1 DEF RemoverInOrder, ClearerInOrder, Removing, Clearing
  <2>4. ReaderInOrder(q, o)'
    BY <1>1, <1>4, <2>1 DEF CallInOrder, ReaderInOrder
  <2>5. (target[q] = o => Served(q))'
    BY <2>1 DEF CallInOrder, Served
  <2> QED
    BY <2>2, <2>3, <2>4, <2>5 DEF CallInOrder
<1> QED
  BY <1>5, <1>6, <1>7 DEF InOrder

LEMMA ReadBodyInOrder ==
  ASSUME FilesInv, NEW r \in Requests, NEW o \in Objects \ disturbed', ReadBody(r),
         target[r] = o
  PROVE  InOrder(o)'
<1> StepOf(r)
  BY DEF StepOf
<1> /\ WellFormed /\ PlaceTypes /\ ResultTypes /\ CallsWellFormed
    /\ FileInOrder(o) /\ CallInOrder(r, o)
  BY TypeParts, DisturbedStays DEF FilesInv, WellFormed, InOrder
<1>1. /\ op[r] = "Read" /\ op'[r] = "Read" /\ target'[r] = o
      /\ UNCHANGED <<restarts, inode, content, promised, listed, expects, fd>>
  BY DEF ReadBody, ReadChunk, Goes, PlaceTypes, CallsWellFormed, CallWellFormed, memRep,
         disk, history
<1>2. \/ /\ at[r] = "read 1" /\ at'[r] \in {"read 2", "done"}
         /\ got'[r] = [got[r] EXCEPT ![1] = content[fd[r]][1]] /\ status'[r] = Ok
         /\ at'[r] = "done" => content[fd[r]][1] = None
      \/ /\ at[r] = "read 2" /\ at'[r] = "done"
         /\ got'[r] = [got[r] EXCEPT ![2] = content[fd[r]][2]] /\ status'[r] = Ok
      \/ /\ at[r] \in {"read 1", "read 2"} /\ at'[r] = "done"
         /\ got'[r] = got[r] /\ status'[r] = ReplyError
  BY DEF ReadBody, ReadChunk, Goes, PlaceTypes, ResultTypes
<1>3. 1 \in Chunks /\ 2 \in Chunks /\ \A i \in Chunks : i = 1 \/ i = 2
  BY DEF Chunks
<1>4. ASSUME expects[r] # None
      PROVE  /\ at'[r] = "read 2" => got'[r][1] = expects[r] /\ status'[r] = Ok
             /\ at'[r] = "done" =>
                  \/ status'[r] = Ok /\ got'[r] = Whole(expects[r])
                  \/ /\ status'[r] = ReplyError
                     /\ \A i \in Chunks : got'[r][i] \in {None, expects[r]}
  <2>1. content[fd[r]] = Whole(expects[r]) /\ (at[r] = "read 2" => got[r][1] = expects[r])
    BY <1>1, <1>2, <1>4 DEF CallInOrder, ReaderInOrder
  <2>2. content[fd[r]][1] = expects[r] /\ content[fd[r]][2] = expects[r]
    BY <1>3, <2>1 DEF Whole
  <2>3. got[r] \in [Chunks -> Entry]
    BY DEF ResultTypes
  <2>4. CASE status'[r] = ReplyError /\ got'[r] = got[r] /\ at'[r] = "done"
             /\ at[r] \in {"read 1", "read 2"}
    <3>1. /\ at[r] = "read 1" => got[r] = Blank
          /\ at[r] = "read 2" => got[r][2] = None
      BY DEF CallsWellFormed, CallWellFormed
    <3>2. \A i \in Chunks : got[r][i] \in {None, expects[r]}
      BY <1>3, <2>1, <2>4, <3>1 DEF Blank
    <3> QED
      BY <2>4, <3>2, NoneIsNoName DEF Outcomes
  <2> QED
    BY <1>2, <1>3, <1>4, <2>1, <2>2, <2>3, <2>4 DEF Whole
<1>5. FileInOrder(o)'
  BY <1>1, <1>2, OtherCalls DEF FileInOrder, Exists, Removing, Clearing
<1>6. CallInOrder(r, o)'
  <2>1. ReaderInOrder(r, o)'
    <3>1. SUFFICES ASSUME expects[r] # None, at'[r] = "read 2"
                   PROVE  /\ content[fd[r]] = Whole(expects[r])
                          /\ fd[r] = inode[o] => \/ promised[o] = expects[r]
                                                \/ \E d \in Requests : Removing(d, o)'
      BY <1>1, <1>2, <1>4 DEF ReaderInOrder
    <3>2. /\ content[fd[r]] = Whole(expects[r])
          /\ fd[r] = inode[o] => \/ promised[o] = expects[r]
                                \/ \E d \in Requests : Removing(d, o)
      BY <1>1, <1>2, <3>1 DEF CallInOrder, ReaderInOrder
    <3> QED
      BY <1>2, <3>2, OtherCalls DEF Removing
  <2>2. Served(r)'
    BY <1>1, <1>4 DEF Served
  <2> QED
    BY <1>1, <1>2, <2>1, <2>2
    DEF CallInOrder, WriterInOrder, RemoverInOrder, ClearerInOrder, Writing, Removing,
        Clearing
<1>7. ASSUME NEW q \in Requests, q # r
      PROVE  CallInOrder(q, o)'
  <2>1. /\ op'[q] = op[q] /\ target'[q] = target[q] /\ at'[q] = at[q]
        /\ status'[q] = status[q] /\ fd'[q] = fd[q] /\ got'[q] = got[q]
        /\ expects'[q] = expects[q] /\ CallInOrder(q, o)
    BY <1>7, OthersInOrder
  <2>2. WriterInOrder(q, o)'
    BY <1>1, <1>2, <2>1, OtherCalls DEF CallInOrder, WriterInOrder, Writing
  <2>3. RemoverInOrder(q, o)' /\ ClearerInOrder(q, o)'
    BY <1>1, <1>2, <2>1, OtherCalls
    DEF CallInOrder, RemoverInOrder, ClearerInOrder, Removing, Clearing, Unsettled, Exists
  <2>4. ReaderInOrder(q, o)'
    <3>1. \A d \in Requests : Removing(d, o) => Removing(d, o)'
      BY <1>2, OtherCalls DEF Removing
    <3> QED
      BY <1>1, <2>1, <3>1 DEF CallInOrder, ReaderInOrder
  <2>5. (target[q] = o => Served(q))'
    BY <2>1 DEF CallInOrder, Served
  <2> QED
    BY <2>2, <2>3, <2>4, <2>5 DEF CallInOrder
<1> QED
  BY <1>5, <1>6, <1>7 DEF InOrder

LEMMA DeleteBucketInOrder ==
  ASSUME FilesInv, NEW r \in Requests, NEW o \in Objects \ disturbed',
         DeleteBucket(r, BucketOf[o]), BucketOf[o] \in buckets
  PROVE  InOrder(o)'
<1> StepOf(r)
  BY BucketOfAssumption DEF StepOf
<1> /\ WellFormed /\ PlaceTypes /\ HistoryTypes /\ DiskTypes /\ CallsWellFormed
    /\ FilesWellFormed
  BY TypeParts DEF FilesInv, WellFormed
<1>1. /\ at[r] = "idle" /\ holder = None /\ at'[r] = "remove directory"
      /\ op'[r] = "DeleteBucket" /\ target'[r] = BucketOf[o]
      /\ promised'[o] = None /\ inode'[o] = None
      /\ UNCHANGED <<restarts, content, listed, expects>>
  BY DEF DeleteBucket, BucketCall, Goes, PlaceTypes, WithoutBucket
<1>2. \A q \in Requests :
        /\ ~(target[q] = o /\ Unsettled(q)) /\ ~Writing(q, o) /\ ~Removing(q, o)
        /\ ~Clearing(q, o)
  <2> SUFFICES ASSUME NEW q \in Requests
               PROVE  /\ ~(target[q] = o /\ Unsettled(q)) /\ ~Writing(q, o)
                      /\ ~Removing(q, o) /\ ~Clearing(q, o)
    OBVIOUS
  <2>1. at[q] # "remove directory"
    <3>1. at[q] = "remove directory" <=> holder = q
      BY DEF CallsWellFormed, CallWellFormed
    <3> QED
      BY <1>1, <3>1, NoneAssumption
  <2>2. ~(target[q] = o /\ Unsettled(q))
    BY DEF DeleteBucket, Unsettled
  <2> QED
    BY <2>1, <2>2 DEF Unsettled, Writing, Removing, Clearing
<1>3. Clearing(r, o)'
  BY <1>1 DEF Clearing
<1>4. FileInOrder(o)'
  BY <1>1, <1>3 DEF FileInOrder, Exists
<1>5. CallInOrder(r, o)'
  <2>1. \A q \in Requests : ~(target[q] = o /\ Unsettled(q))'
    BY <1>1, <1>2, OtherCalls DEF Unsettled
  <2> QED
    BY <1>1, <2>1
    DEF CallInOrder, WriterInOrder, RemoverInOrder, ClearerInOrder, ReaderInOrder, Served,
        Writing, Removing, Exists
<1>6. ASSUME NEW q \in Requests, q # r
      PROVE  CallInOrder(q, o)'
  <2>1. /\ op'[q] = op[q] /\ target'[q] = target[q] /\ at'[q] = at[q]
        /\ status'[q] = status[q] /\ fd'[q] = fd[q] /\ got'[q] = got[q]
        /\ expects'[q] = expects[q] /\ CallInOrder(q, o)
    BY <1>6, OthersInOrder
  <2>2. WriterInOrder(q, o)' /\ RemoverInOrder(q, o)' /\ ClearerInOrder(q, o)'
    BY <1>2, <2>1
    DEF WriterInOrder, RemoverInOrder, ClearerInOrder, Writing, Removing, Clearing
  <2>3. ReaderInOrder(q, o)'
    <3>1. target[q] = o => at[q] # "open"
      BY <1>2 DEF Unsettled
    <3>2. at[q] \in {"read 1", "read 2"} => fd[q] # None
      BY DEF FilesWellFormed
    <3> QED
      BY <1>1, <2>1, <3>1, <3>2 DEF CallInOrder, ReaderInOrder
  <2>4. (target[q] = o => Served(q))'
    BY <2>1 DEF CallInOrder, Served
  <2> QED
    BY <2>2, <2>3, <2>4 DEF CallInOrder
<1> QED
  BY <1>4, <1>5, <1>6 DEF InOrder

LEMMA RemoveDirectoryInOrder ==
  ASSUME FilesInv, NEW r \in Requests, NEW o \in Objects \ disturbed',
         RemoveDirectory(r), target[r] = BucketOf[o]
  PROVE  InOrder(o)'
<1> StepOf(r)
  BY DEF StepOf
<1> /\ WellFormed /\ PlaceTypes /\ CallsWellFormed /\ FilesWellFormed
    /\ CallInOrder(r, o)
  BY TypeParts, DisturbedStays DEF FilesInv, WellFormed, InOrder
<1>1. /\ at[r] = "remove directory" /\ holder = r /\ Clearing(r, o) /\ at'[r] = "done"
      /\ op[r] = "DeleteBucket" /\ o \notin listed' /\ op' = op /\ target' = target
      /\ UNCHANGED <<restarts, inode, content, promised, expects>>
  BY DEF RemoveDirectory, Goes, PlaceTypes, CallsWellFormed, CallWellFormed, Clearing,
         history
<1>2. /\ promised[o] = None /\ ~Exists(o)
      /\ \A q \in Requests : ~(target[q] = o /\ Unsettled(q)) /\ ~Writing(q, o)
                            /\ ~Removing(q, o)
      /\ \A q \in Requests : q # r => ~Clearing(q, o)
  BY <1>1
  DEF CallInOrder, ClearerInOrder, Clearing, Writing, Removing, Unsettled,
      CallsWellFormed, CallWellFormed
<1>3. FileInOrder(o)'
  BY <1>1, <1>2 DEF FileInOrder, Exists
<1>4. CallInOrder(r, o)'
  BY <1>1
  DEF CallInOrder, WriterInOrder, RemoverInOrder, ClearerInOrder, ReaderInOrder, Served,
      Writing, Removing, Clearing
<1>5. ASSUME NEW q \in Requests, q # r
      PROVE  CallInOrder(q, o)'
  <2>1. /\ op'[q] = op[q] /\ target'[q] = target[q] /\ at'[q] = at[q]
        /\ status'[q] = status[q] /\ fd'[q] = fd[q] /\ got'[q] = got[q]
        /\ expects'[q] = expects[q] /\ CallInOrder(q, o)
    BY <1>5, OthersInOrder
  <2>2. WriterInOrder(q, o)' /\ RemoverInOrder(q, o)' /\ ClearerInOrder(q, o)'
    BY <1>2, <1>5, <2>1
    DEF WriterInOrder, RemoverInOrder, ClearerInOrder, Writing, Removing, Clearing
  <2>3. ReaderInOrder(q, o)'
    BY <1>1, <1>2, <2>1 DEF CallInOrder, ReaderInOrder
  <2>4. (target[q] = o => Served(q))'
    BY <2>1 DEF CallInOrder, Served
  <2> QED
    BY <2>2, <2>3, <2>4 DEF CallInOrder
<1> QED
  BY <1>3, <1>4, <1>5 DEF InOrder

(* Nothing is on its way any more, and what was promised is forgotten. *)
LEMMA RestartInOrder ==
  ASSUME FilesInv, Restart, NEW o \in Objects \ disturbed'
  PROVE  InOrder(o)'
<1> /\ WellFormed /\ MemoryTypes /\ PlaceTypes /\ CallsWellFormed /\ InOrder(o)
  BY TypeParts DEF FilesInv, WellFormed, Restart
<1>1. /\ restarts' # 0 /\ promised'[o] = None
      /\ UNCHANGED <<op, target, status, got>>
  BY MaxRestartsAssumption DEF Restart, MemoryTypes
<1>2. \A q \in Requests :
        /\ at'[q] \in {"idle", "done"}
        /\ expects'[q] # None => at[q] = "done" /\ expects'[q] = expects[q]
  BY DEF Restart
<1>3. FileInOrder(o)'
  BY <1>1 DEF FileInOrder
<1>4. ASSUME NEW q \in Requests
      PROVE  CallInOrder(q, o)'
  <2>1. (target[q] = o => Served(q))'
    BY <1>1, <1>2 DEF InOrder, CallInOrder, Served
  <2> QED
    BY <1>2, <2>1
    DEF CallInOrder, WriterInOrder, RemoverInOrder, ClearerInOrder, ReaderInOrder,
        Writing, Removing, Clearing
<1> QED
  BY <1>3, <1>4 DEF InOrder

-----------------------------------------------------------------------------
(* The invariant.                                                          *)

LEMMA FilesInit ==
  ASSUME Init
  PROVE  FilesInv
<1>1. ASSUME NEW o \in Objects
      PROVE  InOrder(o)
  <2>1. FileInOrder(o)
    BY DEF Init, FileInOrder, Exists
  <2>2. ASSUME NEW r \in Requests
        PROVE  CallInOrder(r, o)
    BY DEF Init, CallInOrder, WriterInOrder, RemoverInOrder, ClearerInOrder,
           ReaderInOrder, Served, Writing, Removing, Clearing
  <2> QED
    BY <2>1, <2>2 DEF InOrder
<1> QED
  BY <1>1, WellFormedInit, KeysInit DEF FilesInv

LEMMA ObjectsInOrder ==
  ASSUME FilesInv, NEW r \in Requests, StepOf(r), NEW o \in Objects \ disturbed'
  PROVE  InOrder(o)'
<1> /\ WellFormed /\ PlaceTypes /\ CallWellFormed(r)
  BY TypeParts DEF FilesInv, WellFormed, CallsWellFormed
<1>1. WellFormed'
  BY StepTypes, CallsStep, FilesStep DEF WellFormed
<1>2. CASE ~Concerns(r, o) /\ ~Concerns(r, o)' /\ ~Clearing(r, o) /\ ~Clearing(r, o)'
  BY <1>1, <1>2, StepElsewhere
<1>3. ASSUME NEW b \in Buckets, NewBucket(r, b) \/ DeleteBucket(r, b)
      PROVE  InOrder(o)'
  <2>1. /\ at[r] = "idle" /\ op'[r] \in {"NewBucket", "DeleteBucket"} /\ target'[r] = b
        /\ at'[r] = "remove directory" => DeleteBucket(r, b) /\ b \in buckets
    BY <1>3 DEF NewBucket, DeleteBucket, BucketCall, Goes, PlaceTypes
  <2>2. ~Concerns(r, o) /\ ~Concerns(r, o)' /\ ~Clearing(r, o)
    BY <2>1 DEF Concerns, Clearing
  <2>3. CASE Clearing(r, o)'
    BY <2>1, <2>3, DeleteBucketInOrder DEF Clearing
  <2> QED
    BY <1>2, <2>2, <2>3
<1>4. ASSUME NEW x \in Objects, Write(r, x) \/ Read(r, x) \/ Delete(r, x)
      PROVE  InOrder(o)'
  <2>1. /\ at[r] = "idle" /\ target'[r] = x
        /\ at'[r] \in {"create", "open", "remove", "done"}
    BY <1>4 DEF Write, Read, Delete, ObjectCall, Goes, PlaceTypes
  <2>2. ~Concerns(r, o) /\ ~Clearing(r, o) /\ ~Clearing(r, o)'
    BY <2>1 DEF Concerns, Clearing
  <2>3. CASE x = o
    BY <1>4, <2>3, WriteInOrder, ReadInOrder, DeleteInOrder
  <2>4. CASE x # o
    BY <1>2, <2>1, <2>2, <2>4 DEF Concerns
  <2> QED
    BY <2>3, <2>4
<1>5. CASE RemoveDirectory(r)
  <2>1. /\ op[r] = "DeleteBucket" /\ op'[r] = "DeleteBucket" /\ target'[r] = target[r]
        /\ at[r] = "remove directory" /\ at'[r] = "done"
    BY <1>5 DEF RemoveDirectory, Goes, PlaceTypes, CallWellFormed
  <2>2. CASE target[r] = BucketOf[o]
    BY <1>5, <2>2, RemoveDirectoryInOrder
  <2>3. CASE target[r] # BucketOf[o]
    BY <1>2, <2>1, <2>3 DEF Concerns, Clearing
  <2> QED
    BY <2>2, <2>3
<1>6. CASE Create(r) \/ WriteBody(r) \/ Open(r) \/ ReadBody(r) \/ Remove(r)
  <2>1. CASE target[r] = o
    BY <1>6, <2>1, CreateInOrder, WriteBodyInOrder, OpenInOrder, ReadBodyInOrder,
       RemoveInOrder
  <2>2. CASE target[r] # o
    <3>1. /\ target'[r] = target[r] /\ at[r] # "remove directory"
          /\ at'[r] # "remove directory"
      BY <1>6
      DEF Create, WriteBody, WriteChunk, Open, ReadBody, ReadChunk, Remove, Goes,
          PlaceTypes
    <3> QED
      BY <1>2, <2>2, <3>1 DEF Concerns, Clearing
  <2> QED
    BY <2>1, <2>2
<1> QED
  BY <1>3, <1>4, <1>5, <1>6 DEF StepOf

LEMMA FilesInvStep ==
  ASSUME FilesInv, [Next]_vars
  PROVE  FilesInv'
<1>1. WellFormed'
  BY WellFormedStep DEF FilesInv
<1>2. CASE UNCHANGED vars
  <2>1. KeysInBuckets'
    BY <1>2 DEF vars, memRep, disk, calls, history, FilesInv, KeysInBuckets
  <2>2. ASSUME NEW o \in Objects \ disturbed
        PROVE  InOrder(o)'
    <3>1. InOrder(o)
      BY DEF FilesInv
    <3> USE DEF vars, memRep, disk, calls, history
    <3>2. FileInOrder(o)'
      BY <1>2, <3>1 DEF InOrder, FileInOrder, Exists, Removing, Clearing
    <3>3. ASSUME NEW r \in Requests
          PROVE  CallInOrder(r, o)'
      <4>1. WriterInOrder(r, o)' /\ RemoverInOrder(r, o)' /\ ClearerInOrder(r, o)'
        BY <1>2, <3>1
        DEF InOrder, CallInOrder, WriterInOrder, RemoverInOrder, ClearerInOrder, Writing,
            Removing, Clearing, Exists, Unsettled
      <4>2. ReaderInOrder(r, o)' /\ (target[r] = o => Served(r))'
        BY <1>2, <3>1 DEF InOrder, CallInOrder, ReaderInOrder, Served, Removing
      <4> QED
        BY <4>1, <4>2 DEF CallInOrder
    <3> QED
      BY <3>2, <3>3 DEF InOrder
  <2> QED
    BY <1>1, <1>2, <2>1, <2>2 DEF FilesInv, vars, history
<1>3. ASSUME NEW r \in Requests, StepOf(r)
      PROVE  FilesInv'
  BY <1>1, <1>3, KeysStep, ObjectsInOrder DEF FilesInv
<1>4. CASE Restart
  <2>1. KeysInBuckets'
    BY <1>4, TypeParts, MaxRestartsAssumption
    DEF Restart, KeysInBuckets, FilesInv, WellFormed, MemoryTypes
  <2> QED
    BY <1>1, <1>4, <2>1, RestartInOrder DEF FilesInv
<1> QED
  BY <1>2, <1>3, <1>4, NextIsAStep

LEMMA AlwaysInOrder == Spec => []FilesInv
<1>1. Init => FilesInv
  BY FilesInit
<1>2. FilesInv /\ [Next]_vars => FilesInv'
  BY FilesInvStep
<1> QED
  BY <1>1, <1>2, PTL DEF Spec

LEMMA PromisesKept ==
  ASSUME FilesInv
  PROVE  AckedFileKept /\ PromisedIsServed
<1>1. AckedFileKept
  BY DEF FilesInv, InOrder, FileInOrder, KeysInBuckets, AckedFileKept
<1>2. PromisedIsServed
  <2> SUFFICES ASSUME NEW r \in Requests, op[r] \in {"Read", "Delete"}, at[r] = "done",
                      expects[r] # None, target[r] \notin disturbed
               PROVE  Served(r)
    BY DEF PromisedIsServed, Served
  <2>1. target[r] \in Objects
    BY DEF FilesInv, WellFormed, CallsWellFormed, CallWellFormed
  <2> QED
    BY <2>1 DEF FilesInv, InOrder, CallInOrder
<1> QED
  BY <1>1, <1>2

(* A body whose upload was acknowledged is in its file, whole, and can be  *)
(* found, until its removal is asked for.                                  *)
THEOREM AckedKept == Spec => []AckedFileKept
<1>1. FilesInv => AckedFileKept
  BY PromisesKept
<1> QED
  BY <1>1, AlwaysInOrder, PTL

(* A Read or Delete of what was promised succeeds, and the download sends  *)
(* the whole body, even if it is removed while it is being sent, or as     *)
(* much of it as the reply takes.                                          *)
THEOREM PromisesServed == Spec => []PromisedIsServed
<1>1. FilesInv => PromisedIsServed
  BY PromisesKept
<1> QED
  BY <1>1, AlwaysInOrder, PTL

(* Until the first restart, whenever nothing is under way, keys and files, *)
(* buckets and directories are the same but for disturbed removals.        *)
THEOREM KeysMatchFiles == Spec => []SetMatchesFiles
<1>1. FilesInv => SetMatchesFiles
  <2> SUFFICES ASSUME FilesInv, restarts = 0, \A r \in Requests : ~InFlight(r),
                      NEW o \in Objects \ disturbed
               PROVE  o \in listed <=> Exists(o)
    BY DEF SetMatchesFiles, FilesInv, KeysInBuckets
  <2>1. \A r \in Requests : at[r] \in {"idle", "done"}
    BY DEF InFlight
  <2> QED
    BY <2>1 DEF FilesInv, InOrder, FileInOrder, Removing, Clearing
<1> QED
  BY <1>1, AlwaysInOrder, PTL

-----------------------------------------------------------------------------
(* What a file holds, and what a download has got, whatever was removed or *)
(* restarted meanwhile.                                                    *)

BodiesKnown ==
  \A r \in Requests : \A i \in Chunks :
    /\ content[r][i] # None =>
         FileOf(r, target[r]) /\ FileOf(content[r][i], target[r])
    /\ got[r][i] # None => at[r] # "idle" /\ FileOf(got[r][i], target[r])

LEMMA BodiesStep ==
  ASSUME WellFormed, BodiesKnown, NEW r \in Requests, StepOf(r)
  PROVE  BodiesKnown'
<1> /\ DiskTypes /\ PlaceTypes /\ ResultTypes /\ FilesWellFormed /\ CallWellFormed(r)
  BY TypeParts DEF WellFormed, CallsWellFormed
<1> SUFFICES ASSUME NEW q \in Requests, NEW i \in Chunks
             PROVE  /\ content'[q][i] # None =>
                         /\ FileOfNext(q, target'[q])
                         /\ FileOfNext(content'[q][i], target'[q])
                    /\ got'[q][i] # None =>
                         at'[q] # "idle" /\ FileOfNext(got'[q][i], target'[q])
  BY DEF BodiesKnown, FileOf, FileOfNext
<1>1. \A f \in Requests : FileOf(f, target[q]) => FileOfNext(f, target[q])
  BY FilesStay DEF PlaceTypes
<1>2. at[q] # "idle" => target'[q] = target[q] /\ at'[q] # "idle"
  BY OtherCalls, StepGoes DEF Begins, GoesOn, Goes, PlaceTypes
<1>3. CASE content'[q][i] \in {None, content[q][i]} /\ got'[q][i] \in {None, got[q][i]}
  BY <1>1, <1>2, <1>3 DEF BodiesKnown, FileOf
<1>4. CASE WriteBody(r)
  <2>1. /\ target'[r] = target[r] /\ at[r] \in {"write 1", "write 2"}
        /\ op[r] = "Write" /\ got' = got
    BY <1>4 DEF WriteBody, WriteChunk, CallWellFormed
  <2>2. FileOf(fd[r], target[r]) /\ FileOf(r, target[r])
    BY <2>1 DEF FilesWellFormed, FileOf
  <2>3. content'[q][i] = content[q][i] \/ (q = fd[r] /\ content'[q][i] = r)
    <3>1. PICK j \in Chunks : content' \in {content, [content EXCEPT ![fd[r]][j] = r]}
      <4>1. 1 \in Chunks /\ 2 \in Chunks
        BY DEF Chunks
      <4> QED
        BY <1>4, <4>1 DEF WriteBody, WriteChunk
    <3>2. fd[r] \in Requests
      BY <2>2 DEF FileOf
    <3>3. CASE content' = [content EXCEPT ![fd[r]][j] = r]
      <4>1. content' = [content EXCEPT ![fd[r]] = [content[fd[r]] EXCEPT ![j] = r]]
        BY <3>3
      <4> QED
        BY <3>2, <4>1 DEF DiskTypes
    <3> QED
      BY <3>1, <3>3
  <2>4. CASE q = fd[r] /\ content'[q][i] = r
    BY <1>1, <1>2, <1>3, <2>1, <2>2, <2>4 DEF FileOf, BodiesKnown
  <2> QED
    BY <1>3, <2>1, <2>3, <2>4
<1>5. CASE ReadBody(r)
  <2>1. /\ target'[r] = target[r] /\ at[r] \in {"read 1", "read 2"} /\ content' = content
    BY <1>5 DEF ReadBody, ReadChunk, disk
  <2>2. FileOf(fd[r], target[r])
    BY <2>1 DEF FilesWellFormed
  <2>3. got'[q][i] = got[q][i] \/ (q = r /\ got'[q][i] = content[fd[r]][i])
    <3>1. UNCHANGED got \/ \E j \in Chunks : got' = [got EXCEPT ![r][j] = content[fd[r]][j]]
      <4>1. 1 \in Chunks /\ 2 \in Chunks
        BY DEF Chunks
      <4> QED
        BY <1>5, <4>1 DEF ReadBody, ReadChunk
    <3>2. ASSUME NEW j \in Chunks, got' = [got EXCEPT ![r][j] = content[fd[r]][j]]
          PROVE  got'[q][i] = got[q][i] \/ (q = r /\ got'[q][i] = content[fd[r]][i])
      <4>1. got' = [got EXCEPT ![r] = [got[r] EXCEPT ![j] = content[fd[r]][j]]]
        BY <3>2
      <4> QED
        BY <4>1 DEF ResultTypes
    <3> QED
      BY <3>1, <3>2
  <2>4. content[fd[r]][i] # None => FileOf(content[fd[r]][i], target[r])
    BY <2>2 DEF BodiesKnown, FileOf
  <2>5. CASE q = r /\ got'[q][i] = content[fd[r]][i]
    BY <1>1, <1>2, <2>1, <2>4, <2>5 DEF FileOf, BodiesKnown
  <2> QED
    BY <1>3, <2>1, <2>3, <2>5
<1>6. CASE Create(r)
  <2>1. PICK f \in Requests : content' \in {content, [content EXCEPT ![f] = Blank]}
    BY <1>6, NoneAssumption DEF Create, Exists, DiskTypes, Entry, CallWellFormed
  <2>2. content'[q][i] \in {None, content[q][i]}
    BY <2>1 DEF DiskTypes, Blank
  <2>3. got' = got
    BY <1>6 DEF Create
  <2> QED
    BY <1>3, <2>2, <2>3
<1>7. CASE ~WriteBody(r) /\ ~ReadBody(r) /\ ~Create(r)
  <2>1. UNCHANGED <<content, got>>
    BY <1>7
    DEF StepOf, NewBucket, DeleteBucket, BucketCall, RemoveDirectory, Write, Read, Delete,
        ObjectCall, Open, Remove, disk
  <2> QED
    BY <1>3, <2>1
<1> QED
  BY <1>4, <1>5, <1>6, <1>7

LEMMA BodiesInv ==
  /\ Init => BodiesKnown
  /\ WellFormed /\ BodiesKnown /\ [Next]_vars => BodiesKnown'
<1>1. Init => BodiesKnown
  BY DEF Init, BodiesKnown, Blank
<1>2. ASSUME WellFormed, BodiesKnown, [Next]_vars
      PROVE  BodiesKnown'
  <2>1. CASE UNCHANGED <<content, got, target, op>> /\ (UNCHANGED at \/ Restart)
    <3>1. \A q \in Requests : (at'[q] = "idle" <=> at[q] = "idle") /\
                              (at'[q] = "create" => at[q] = "create")
      BY <2>1 DEF Restart
    <3> QED
      BY <1>2, <2>1, <3>1 DEF BodiesKnown, FileOf
  <2> QED
    BY <1>2, <2>1, BodiesStep, NextIsAStep
    DEF vars, memRep, disk, calls, history, Restart
<1> QED
  BY <1>1, <1>2

-----------------------------------------------------------------------------
(* What a step does to the rest, for whoever calls the storage.            *)

LEMMA CallsGoOn ==
  ASSUME WellFormed, NEW r \in Requests, StepOf(r)
  PROVE  /\ at[r] # "done" /\ at'[r] # "idle"
         /\ at[r] # "idle" => op'[r] = op[r] /\ target'[r] = target[r]
<1> PlaceTypes
  BY TypeParts DEF WellFormed
<1> QED
  BY StepGoes DEF Begins, GoesOn, Goes, PlaceTypes

(* Nothing but a reply that takes no more ends a call with ReplyError. *)
LEMMA RefusedWhileRead ==
  ASSUME WellFormed, NEW r \in Requests, StepOf(r), status'[r] = ReplyError
  PROVE  /\ at[r] \in {"read 1", "read 2"} /\ at'[r] = "done"
         /\ UNCHANGED <<op, target, expects, content>>
<1> PlaceTypes
  BY TypeParts DEF WellFormed
<1> USE NoneIsNoName DEF Goes, PlaceTypes, Outcomes, PathError, ReplyError
<1>1. CASE \E b \in Buckets : NewBucket(r, b) \/ DeleteBucket(r, b)
  BY <1>1 DEF NewBucket, DeleteBucket
<1>2. CASE \E o \in Objects : Write(r, o) \/ Read(r, o) \/ Delete(r, o)
  BY <1>2 DEF Write, Read, Delete, Refusal, Missing
<1>3. CASE RemoveDirectory(r) \/ Create(r) \/ WriteBody(r) \/ Open(r) \/ Remove(r)
  BY <1>3 DEF RemoveDirectory, Create, WriteBody, WriteChunk, Open, Remove
<1>4. CASE ReadBody(r)
  BY <1>4 DEF ReadBody, ReadChunk, disk, history
<1> QED
  BY <1>1, <1>2, <1>3, <1>4 DEF StepOf

(* Only the upload whose body has been written is acknowledged. *)
LEMMA PromisesMove ==
  ASSUME WellFormed, NEW r \in Requests, StepOf(r), NEW o \in Objects
  PROVE  \/ promised'[o] \in {promised[o], None}
         \/ promised'[o] = r /\ op[r] = "Write" /\ target[r] = o /\ at[r] = "write 2"
<1> HistoryTypes /\ CallWellFormed(r)
  BY TypeParts DEF WellFormed, CallsWellFormed
<1>1. CASE WriteBody(r)
  BY <1>1, NoneIsNoName
  DEF WriteBody, WriteChunk, HistoryTypes, CallWellFormed, Outcomes
<1>2. CASE ~WriteBody(r)
  BY <1>2
  DEF StepOf, NewBucket, DeleteBucket, BucketCall, Write, Read, Delete, ObjectCall,
      RemoveDirectory, Create, Open, ReadBody, ReadChunk, Remove, WithoutBucket, history,
      HistoryTypes
<1> QED
  BY <1>1, <1>2

(* What a call was promised is looked up when it begins. *)
LEMMA ExpectationsMove ==
  ASSUME WellFormed, NEW r \in Requests, StepOf(r)
  PROVE  \/ expects' = expects
         \/ /\ at[r] = "idle" /\ target'[r] \in Objects
            /\ expects'[r] = promised[target'[r]]
<1> PlaceTypes /\ HistoryTypes
  BY TypeParts DEF WellFormed
<1>1. CASE \E o \in Objects : Write(r, o) \/ Read(r, o) \/ Delete(r, o)
  BY <1>1 DEF Write, Read, Delete, ObjectCall, PlaceTypes, HistoryTypes
<1> QED
  BY <1>1
  DEF StepOf, NewBucket, DeleteBucket, BucketCall, RemoveDirectory, Create, WriteBody,
      WriteChunk, Open, ReadBody, ReadChunk, Remove, history

(* Only removals disturb. *)
LEMMA DisturbedByRemoval ==
  ASSUME WellFormed, NEW r \in Requests, StepOf(r), NEW o \in disturbed'
  PROVE  \/ o \in disturbed
         \/ \E d \in Requests :
              /\ at'[d] # "idle"
              /\ \/ op'[d] = "Delete" /\ target'[d] = o
                 \/ op'[d] = "DeleteBucket" /\ target'[d] = BucketOf[o]
<1> PlaceTypes
  BY TypeParts DEF WellFormed
<1>1. \A q \in Requests : Unsettled(q) => /\ op'[q] = op[q] /\ target'[q] = target[q]
                                          /\ at'[q] # "idle"
  BY CallsGoOn, OtherCalls DEF Unsettled
<1>2. ASSUME NEW x \in Objects, Write(r, x) \/ Read(r, x) \/ Delete(r, x)
      PROVE  \/ o \in disturbed
             \/ \E d \in Requests : at'[d] # "idle" /\ op'[d] = "Delete" /\ target'[d] = o
  <2>1. at'[r] # "idle" /\ target'[r] = x /\ (Delete(r, x) => op'[r] = "Delete")
    BY <1>2, CallsGoOn DEF Write, Read, Delete, ObjectCall, PlaceTypes
  <2>2. CASE o \notin disturbed
    <3>1. PICK q \in Requests : /\ Unsettled(q) /\ target[q] = o /\ o = x
                                /\ op[q] = "Delete" \/ Delete(r, x)
      BY <1>2, <2>2 DEF Write, Read, Delete, ObjectCall
    <3> QED
      BY <1>1, <2>1, <3>1
  <2> QED
    BY <2>2
<1>3. ASSUME NEW b \in Buckets, DeleteBucket(r, b), o \notin disturbed
      PROVE  at'[r] # "idle" /\ op'[r] = "DeleteBucket" /\ target'[r] = BucketOf[o]
  BY <1>3, CallsGoOn DEF DeleteBucket, BucketCall, PlaceTypes
<1> QED
  BY <1>2, <1>3
  DEF StepOf, NewBucket, RemoveDirectory, Create, WriteBody, WriteChunk, Open, ReadBody,
      ReadChunk, Remove, history

LEMMA BucketsMove ==
  ASSUME WellFormed, NEW r \in Requests, StepOf(r), op'[r] # "DeleteBucket"
  PROVE  /\ buckets \subseteq buckets'
         /\ \A b \in buckets' \ buckets : op'[r] = "NewBucket" /\ target'[r] = b
<1> PlaceTypes /\ CallWellFormed(r)
  BY TypeParts DEF WellFormed, CallsWellFormed
<1>1. ASSUME NEW b \in Buckets, NewBucket(r, b)
      PROVE  op'[r] = "NewBucket" /\ target'[r] = b /\ buckets' \in {buckets, buckets \cup {b}}
  BY <1>1 DEF NewBucket, BucketCall, PlaceTypes
<1>2. CASE RemoveDirectory(r) \/ \E b \in Buckets : DeleteBucket(r, b)
  BY <1>2
  DEF RemoveDirectory, DeleteBucket, BucketCall, PlaceTypes, CallWellFormed
<1> QED
  BY <1>1, <1>2
  DEF StepOf, Write, Read, Delete, ObjectCall, Create, WriteBody, WriteChunk, Open,
      ReadBody, ReadChunk, Remove, memRep

=============================================================================
