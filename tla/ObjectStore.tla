---------------------------- MODULE ObjectStore ----------------------------
(***************************************************************************)
(* What the object handlers of router.go promise their clients: buckets    *)
(* and files that change in one step per request.  A request is called,    *)
(* takes effect at one moment, and its answer tells what that moment did.  *)
(* A file is the upload it came from, whole and under one key.  What it is *)
(* not promised is its length: that is the one any upload of the object    *)
(* has announced, and with a wrong one the file can not be downloaded.     *)
(***************************************************************************)
EXTENDS StoreBase

VARIABLES
  op,        \* op[r]: the method request r calls
  bucket,    \* bucket[r]: the bucket it addresses, or that of its object
  object,    \* object[r]: the object it addresses
  buckets,   \* the buckets there are
  files,     \* files[o]: the upload whose body o has, None without one
  answer     \* answer[r]: None until r took effect; Refused, Ok, a file or
             \* Broken

calls == <<op, bucket, object>>
objectStoreVars == <<calls, buckets, files, answer>>

Refused == "refused"
Broken == "broken"

Init ==
  /\ op = [r \in Requests |-> None]
  /\ bucket = [r \in Requests |-> None]
  /\ object = [r \in Requests |-> None]
  /\ buckets = {}
  /\ files = [o \in Objects |-> None]
  /\ answer = [r \in Requests |-> None]

Call(r) ==
  /\ op[r] = None
  /\ \/ \E p \in {"NewBucket", "DeleteBucket"}, b \in Buckets :
          /\ op' = [op EXCEPT ![r] = p]
          /\ bucket' = [bucket EXCEPT ![r] = b]
          /\ UNCHANGED object
     \/ \E p \in {"Write", "Read", "Delete"}, o \in Objects :
          /\ op' = [op EXCEPT ![r] = p]
          /\ bucket' = [bucket EXCEPT ![r] = BucketOf[o]]
          /\ object' = [object EXCEPT ![r] = o]
  /\ UNCHANGED <<buckets, files, answer>>

(* r is under way and has not taken effect; its answer becomes a. *)
TakesEffect(r, p, a) ==
  /\ op[r] = p
  /\ answer[r] = None
  /\ answer' = [answer EXCEPT ![r] = a]
  /\ UNCHANGED calls

Create(r) ==
  LET b == bucket[r] IN
  /\ TakesEffect(r, "NewBucket", IF b \in buckets THEN Refused ELSE Ok)
  /\ buckets' = buckets \cup {b}
  /\ UNCHANGED files

(* Never replaces a file.  An upload may also be refused because another   *)
(* one of the same object is under way, broke off, or its own body did.    *)
Put(r) ==
  \/ /\ TakesEffect(r, "Write", Ok)
     /\ bucket[r] \in buckets
     /\ files[object[r]] = None
     /\ files' = [files EXCEPT ![object[r]] = r]
     /\ UNCHANGED buckets
  \/ /\ TakesEffect(r, "Write", Refused)
     /\ UNCHANGED <<buckets, files>>

(* Refused exactly when there is no file.  The reply carries the file, but *)
(* an upload of the object that announced another length can break it: one *)
(* that is under way, or was refused and has changed nothing else.         *)
Get(r) ==
  LET file == files[object[r]] IN
  /\ \/ TakesEffect(r, "Read", Refused) /\ file = None
     \/ TakesEffect(r, "Read", file) /\ file # None
     \/ /\ TakesEffect(r, "Read", Broken)
        /\ file # None
        /\ \E u \in Requests :
             op[u] = "Write" /\ object[u] = object[r] /\ ~Fits(u, file)
  /\ UNCHANGED <<buckets, files>>

Remove(r) ==
  LET o == object[r] IN
  /\ TakesEffect(r, "Delete", IF files[o] = None THEN Refused ELSE Ok)
  /\ files' = [files EXCEPT ![o] = None]
  /\ UNCHANGED buckets

RemoveBucket(r) ==
  LET b == bucket[r] IN
  /\ TakesEffect(r, "DeleteBucket", IF b \in buckets THEN Ok ELSE Refused)
  /\ buckets' = buckets \ {b}
  /\ files' = WithoutBucket(files, b)

Next ==
  \E r \in Requests :
    Call(r) \/ Create(r) \/ Put(r) \/ Get(r) \/ Remove(r) \/ RemoveBucket(r)

Spec == Init /\ [][Next]_objectStoreVars
=============================================================================
