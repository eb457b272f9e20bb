------------------------------ MODULE StorageFs ------------------------------
(***************************************************************************)
(* storage.FsStorage: bodies in files, one directory per bucket, and in    *)
(* memory (memRep) the set of the keys each bucket has.  The mutex guards  *)
(* memRep and the directories: files are created, written, opened and      *)
(* removed after it has been released.  The handler of a download reads    *)
(* the file after Read has returned, while it sends the reply.             *)
(*                                                                         *)
(* A file is an inode with a name: who has it open keeps it, whatever      *)
(* happens to the name.  It is named by the upload that created it.  A     *)
(* body has two chunks, so that it can be written and read in part.        *)
(***************************************************************************)
EXTENDS StoreBase, Naturals

CONSTANT MaxRestarts   \* how often the process is started again

ASSUME MaxRestartsAssumption == MaxRestarts \in Nat

VARIABLES
  buckets,    \* the keys of memRep
  listed,     \* the objects in the sets of memRep
  holder,     \* the request that holds the mutex from one step to another
  dirs,       \* the directories of buckets on disk
  inode,      \* inode[o]: the file that has the name of o
  content,    \* content[f]: the chunks of file f, as written by which upload
  op,         \* op[r]: the method request r calls
  target,     \* target[r]: the object or bucket it addresses
  at,         \* at[r]: what it does next
  status,     \* status[r]: what the method returned, None before
  fd,         \* fd[r]: the file it has open
  got,        \* got[r]: the chunks a download has sent
  restarts    \* how often the process was started again

(* What the properties speak of, and the code does not keep. *)
VARIABLES
  promised,   \* promised[o]: the upload acknowledged and not removed since
  expects,    \* expects[r]: what was promised when r was called
  disturbed   \* the objects whose removal met a call that had yet to get at
              \* their file

memRep == <<buckets, listed, holder>>
disk == <<dirs, inode, content>>
calls == <<op, target, at, status, fd, got>>
history == <<promised, expects, disturbed>>
vars == <<memRep, disk, calls, restarts, history>>

Chunks == 1..2
Blank == [i \in Chunks |-> None]
Whole(u) == [i \in Chunks |-> u]

(* The error of a system call: there is no such file, or there is one. *)
PathError == "path error"

(* What ends a download before the file does: its reply has been announced *)
(* shorter than the file, and takes no more.                               *)
ReplyError == "reply error"

Places == {"idle", "create", "write 1", "write 2", "open", "read 1", "read 2",
           "remove", "remove directory", "done"}

Methods == {"NewBucket", "Write", "Read", "Delete", "DeleteBucket"}

ASSUME NoneIsNoName == None \notin Methods \cup Outcomes \cup {PathError, ReplyError}

TypeOK ==
  /\ buckets \subseteq Buckets /\ dirs \subseteq Buckets
  /\ listed \subseteq Objects /\ disturbed \subseteq Objects
  /\ inode \in [Objects -> Entry] /\ promised \in [Objects -> Entry]
  /\ content \in [Requests -> [Chunks -> Entry]]
  /\ op \in [Requests -> Methods \cup {None}]
  /\ holder \in Entry
  /\ target \in [Requests -> Objects \cup Buckets \cup {None}]
  /\ at \in [Requests -> Places]
  /\ status \in [Requests -> Outcomes \cup {PathError, ReplyError, None}]
  /\ fd \in [Requests -> Entry] /\ expects \in [Requests -> Entry]
  /\ got \in [Requests -> [Chunks -> Entry]]
  /\ restarts \in 0..MaxRestarts

Init ==
  /\ buckets = {} /\ listed = {} /\ dirs = {} /\ disturbed = {}
  /\ holder = None
  /\ inode = [o \in Objects |-> None]
  /\ promised = [o \in Objects |-> None]
  /\ content = [r \in Requests |-> Blank]
  /\ op = [r \in Requests |-> None]
  /\ target = [r \in Requests |-> None]
  /\ at = [r \in Requests |-> "idle"]
  /\ status = [r \in Requests |-> None]
  /\ fd = [r \in Requests |-> None]
  /\ expects = [r \in Requests |-> None]
  /\ got = [r \in Requests |-> Blank]
  /\ restarts = 0

InFlight(r) == at[r] \notin {"idle", "done"}

Exists(o) == inode[o] # None

(* r goes on to place p; if that ends the method, it has returned e. *)
Goes(r, p, e) ==
  /\ at' = [at EXCEPT ![r] = p]
  /\ status' = [status EXCEPT ![r] = e]

(* r has looked into memRep, and has yet to get at the file. *)
Unsettled(r) == at[r] \in {"create", "write 1", "write 2", "open", "remove"}

-----------------------------------------------------------------------------
(* The methods of buckets, with the mutex from the first line to the last. *)

BucketCall(r, p, b) ==
  /\ at[r] = "idle"
  /\ holder = None
  /\ op' = [op EXCEPT ![r] = p]
  /\ target' = [target EXCEPT ![r] = b]
  /\ UNCHANGED <<content, fd, got, restarts, expects>>

(* Mutant: enters the bucket once it has its directory. *)
NewBucket_EntersLast(r, b) ==
  /\ BucketCall(r, "NewBucket", b)
  /\ LET made == b \notin buckets \cup dirs
     IN /\ Goes(r, "done", IF b \in buckets THEN BucketAlreadyExists
                           ELSE IF made THEN Ok ELSE PathError)
        /\ buckets' = IF made THEN buckets \cup {b} ELSE buckets
        /\ dirs' = dirs \cup {b}
  /\ UNCHANGED <<listed, holder, inode, promised, disturbed>>

(* Mkdir fails when a former process has left the directory.  The bucket   *)
(* has been entered by then, empty, whatever there is in the directory.    *)
NewBucket(r, b) ==
  /\ BucketCall(r, "NewBucket", b)
  /\ \/ /\ b \in buckets
        /\ Goes(r, "done", BucketAlreadyExists)
        /\ UNCHANGED <<buckets, dirs>>
     \/ /\ b \notin buckets
        /\ Goes(r, "done", IF b \in dirs THEN PathError ELSE Ok)
        /\ buckets' = buckets \cup {b}
        /\ dirs' = dirs \cup {b}
  /\ UNCHANGED <<listed, holder, inode, promised, disturbed>>

(* RemoveAll removes the files first, and then the directory. *)
DeleteBucket(r, b) ==
  /\ BucketCall(r, "DeleteBucket", b)
  /\ \/ /\ b \notin buckets
        /\ Goes(r, "done", BucketDoesNotExist)
        /\ UNCHANGED <<holder, inode, promised, disturbed>>
     \/ /\ b \in buckets
        /\ Goes(r, "remove directory", None)
        /\ holder' = r
        /\ inode' = WithoutBucket(inode, b)
        /\ promised' = WithoutBucket(promised, b)
        /\ disturbed' = disturbed \cup
             {o \in Objects : /\ BucketOf[o] = b
                             /\ \E q \in Requests : Unsettled(q) /\ target[q] = o}
  /\ UNCHANGED <<buckets, listed, dirs>>

(* It fails if a file has been created in the directory meanwhile, and the *)
(* bucket goes from memRep all the same.                                   *)
RemoveDirectory(r) ==
  LET b == target[r]
      left == {o \in Objects : BucketOf[o] = b /\ Exists(o)}
  IN
  /\ at[r] = "remove directory"
  /\ Goes(r, "done", IF left = {} THEN Ok ELSE PathError)
  /\ dirs' = IF left = {} THEN dirs \ {b} ELSE dirs
  /\ buckets' = buckets \ {b}
  /\ listed' = {o \in listed : BucketOf[o] # b}
  /\ holder' = None
  /\ UNCHANGED <<inode, content, op, target, fd, got, restarts, history>>

-----------------------------------------------------------------------------
(* The methods of objects: the look into memRep, with the mutex. *)

ObjectCall(r, p, o) ==
  /\ at[r] = "idle"
  /\ holder = None
  /\ op' = [op EXCEPT ![r] = p]
  /\ target' = [target EXCEPT ![r] = o]
  /\ expects' = [expects EXCEPT ![r] = promised[o]]
  /\ disturbed' = IF \E q \in Requests : /\ Unsettled(q) /\ target[q] = o
                                         /\ "Delete" \in {op[q], p}
                  THEN disturbed \cup {o} ELSE disturbed
  /\ UNCHANGED <<buckets, holder, disk, fd, got, restarts>>

(* What Write returns before it creates the file, nil standing for None. *)
Refusal(o) ==
  IF BucketOf[o] \notin buckets THEN BucketDoesNotExist
  ELSE IF o \in listed THEN ObjectAlreadyExists ELSE None

(* Mutant: does not look whether the object is there. *)
Write_Unchecked(r, o) ==
  /\ ObjectCall(r, "Write", o)
  /\ BucketOf[o] \in buckets
  /\ Goes(r, "create", None)
  /\ listed' = listed \cup {o}
  /\ UNCHANGED promised

Write(r, o) ==
  /\ ObjectCall(r, "Write", o)
  /\ Goes(r, IF Refusal(o) = None THEN "create" ELSE "done", Refusal(o))
  /\ listed' = IF Refusal(o) = None THEN listed \cup {o} ELSE listed
  /\ UNCHANGED promised

(* What Read and Delete return when the object is not in memRep. *)
Missing(o) ==
  IF BucketOf[o] \notin buckets THEN BucketDoesNotExist
  ELSE IF o \notin listed THEN ObjectDoesNotExists ELSE None

Read(r, o) ==
  /\ ObjectCall(r, "Read", o)
  /\ Goes(r, IF Missing(o) = None THEN "open" ELSE "done", Missing(o))
  /\ UNCHANGED <<listed, promised>>

(* Mutant: never gets to the file. *)
Delete_KeepsFile(r, o) ==
  /\ ObjectCall(r, "Delete", o)
  /\ Goes(r, "done", IF Missing(o) = None THEN Ok ELSE Missing(o))
  /\ listed' = listed \ {o}
  /\ promised' = [promised EXCEPT ![o] = None]

Delete(r, o) ==
  /\ ObjectCall(r, "Delete", o)
  /\ Goes(r, IF Missing(o) = None THEN "remove" ELSE "done", Missing(o))
  /\ listed' = listed \ {o}
  /\ promised' = [promised EXCEPT ![o] = None]

-----------------------------------------------------------------------------
(* The rest of them, without the mutex. *)

(* os.Create empties the file of that name, if there is one. *)
Create(r) ==
  LET o == target[r]
      f == IF Exists(o) THEN inode[o] ELSE r
  IN
  /\ at[r] = "create"
  /\ \/ /\ BucketOf[o] \notin dirs
        /\ Goes(r, "done", PathError)
        /\ UNCHANGED <<inode, content, fd>>
     \/ /\ BucketOf[o] \in dirs
        /\ Goes(r, "write 1", None)
        /\ inode' = [inode EXCEPT ![o] = f]
        /\ content' = [content EXCEPT ![f] = Blank]
        /\ fd' = [fd EXCEPT ![r] = f]
  /\ UNCHANGED <<memRep, dirs, op, target, got, restarts, history>>

(* A chunk of the body comes in and is written, or the body breaks off.    *)
(* Neither the key nor the file is taken back then.                        *)
WriteChunk(r, place, i, next, e) ==
  /\ at[r] = place
  /\ \/ /\ content' = [content EXCEPT ![fd[r]][i] = r]
        /\ Goes(r, next, e)
        /\ promised' = IF e = Ok THEN [promised EXCEPT ![target[r]] = r]
                       ELSE promised
     \/ /\ Goes(r, "done", BodyError)
        /\ UNCHANGED <<content, promised>>
  /\ UNCHANGED <<memRep, dirs, inode, op, target, fd, got, restarts>>
  /\ UNCHANGED <<expects, disturbed>>

(* Mutant: returns while the end of the body is still to be written. *)
WriteBody_AnswersEarly(r) ==
  \/ WriteChunk(r, "write 1", 1, "write 2", Ok)
  \/ WriteChunk(r, "write 2", 2, "done", Ok)

WriteBody(r) ==
  \/ WriteChunk(r, "write 1", 1, "write 2", None)
  \/ WriteChunk(r, "write 2", 2, "done", Ok)

(* Mutant: opens the name in place of the file. *)
Open_ByName(r) ==
  /\ at[r] = "open"
  /\ Goes(r, "read 1", Ok)
  /\ fd' = [fd EXCEPT ![r] = target[r]]
  /\ UNCHANGED <<memRep, disk, op, target, got, restarts, history>>

Open(r) ==
  /\ at[r] = "open"
  /\ IF Exists(target[r]) THEN Goes(r, "read 1", Ok) ELSE Goes(r, "done", PathError)
  /\ fd' = [fd EXCEPT ![r] = inode[target[r]]]
  /\ UNCHANGED <<memRep, disk, op, target, got, restarts, history>>

(* The handler reads the next chunk of the file, or has come to its end,   *)
(* and sends it if the reply has room for it.  The storage knows nothing   *)
(* of the length the reply was announced with, so either may be.  (A reply *)
(* that was announced longer than the file takes all of it and is cut off  *)
(* behind it, which is not seen here.)                                     *)
ReadChunk(r, place, i, next) ==
  LET chunk == content[fd[r]][i] IN
  /\ at[r] = place
  /\ \/ /\ got' = [got EXCEPT ![r][i] = chunk]
        /\ Goes(r, IF chunk = None THEN "done" ELSE next, Ok)
     \/ /\ chunk # None
        /\ Goes(r, "done", ReplyError)
        /\ UNCHANGED got
  /\ UNCHANGED <<memRep, disk, op, target, fd, restarts, history>>

ReadBody(r) ==
  \/ ReadChunk(r, "read 1", 1, "read 2")
  \/ ReadChunk(r, "read 2", 2, "done")

Remove(r) ==
  /\ at[r] = "remove"
  /\ Goes(r, "done", IF Exists(target[r]) THEN Ok ELSE PathError)
  /\ inode' = [inode EXCEPT ![target[r]] = None]
  /\ UNCHANGED <<memRep, dirs, content, op, target, fd, got, restarts, history>>

-----------------------------------------------------------------------------
(* The process ends, whatever it is doing, and is started again on the     *)
(* same directory.  NewFsStorage does not read the buckets back, so what   *)
(* was promised before is not found any more.                              *)
Restart ==
  /\ restarts < MaxRestarts
  /\ restarts' = restarts + 1
  /\ buckets' = {} /\ listed' = {} /\ holder' = None
  /\ at' = [r \in Requests |-> IF at[r] = "idle" THEN "idle" ELSE "done"]
  /\ promised' = [o \in Objects |-> None]
  /\ expects' = [r \in Requests |-> IF at[r] = "done" THEN expects[r] ELSE None]
  /\ UNCHANGED <<disk, op, target, status, fd, got, disturbed>>

Next ==
  \/ \E r \in Requests :
       \/ \E b \in Buckets : NewBucket(r, b) \/ DeleteBucket(r, b)
       \/ \E o \in Objects : Write(r, o) \/ Read(r, o) \/ Delete(r, o)
       \/ RemoveDirectory(r) \/ Create(r) \/ WriteBody(r) \/ Open(r) \/ ReadBody(r)
       \/ Remove(r)
  \/ Restart

Spec == Init /\ [][Next]_vars

-----------------------------------------------------------------------------
(* Properties.  A removal that meets another call of its object on its way *)
(* to the file may leave a file without a key, a key without a file, or a  *)
(* file that two uploads write into; what is said here is of the others.   *)

(* A body whose upload was acknowledged is in its file, whole, and can be  *)
(* found: no later upload, new bucket or file left by a former process     *)
(* gets at it until its removal is asked for.                              *)
AckedFileKept ==
  \A o \in Objects \ disturbed :
    promised[o] # None => /\ o \in listed /\ BucketOf[o] \in buckets
                          /\ Exists(o)
                          /\ content[inode[o]] = Whole(promised[o])

(* A Read or Delete that is called after an upload was acknowledged, and   *)
(* before its removal, succeeds, and the download reads the whole body,    *)
(* even if it is removed while it is being sent.  It sends all of it,      *)
(* unless its reply takes no more, and nothing else.                       *)
PromisedIsServed ==
  \A r \in Requests :
    (/\ op[r] \in {"Read", "Delete"} /\ at[r] = "done"
     /\ expects[r] # None /\ target[r] \notin disturbed)
      => \/ status[r] = Ok /\ (op[r] = "Read" => got[r] = Whole(expects[r]))
         \/ /\ status[r] = ReplyError /\ op[r] = "Read"
            /\ \A i \in Chunks : got[r][i] \in {None, expects[r]}

(* Whenever nothing is under way, the keys in memory are those of the      *)
(* files on disk, and the buckets those of the directories: until the      *)
(* process is restarted nothing is left on disk that can not be removed.   *)
SetMatchesFiles ==
  (restarts = 0 /\ \A r \in Requests : ~InFlight(r)) =>
    /\ buckets \subseteq dirs
    /\ \A b \in dirs \ buckets : \E o \in disturbed : BucketOf[o] = b
    /\ \A o \in Objects \ disturbed : o \in listed <=> Exists(o)
=============================================================================
