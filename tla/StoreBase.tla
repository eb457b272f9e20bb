----------------------------- MODULE StoreBase -----------------------------
(***************************************************************************)
(* What the stores of secure-store have in common: the identifiers they    *)
(* are indexed by and the outcomes their methods return.                   *)
(*                                                                         *)
(* An object is a (bucketId, keyId) pair that passed the matcher of        *)
(* sanitizer.go; the stores only ever ask which bucket it lies in, so an   *)
(* object is a member of an abstract set and BucketOf names its bucket.    *)
(*                                                                         *)
(* An upload is identified by the request that carries it.  The metadata   *)
(* (length and file name), the random encryption key and the body of one   *)
(* upload are all written as that request: two stores hold parts of the    *)
(* same upload exactly when they hold the same request.                    *)
(***************************************************************************)
CONSTANTS
  Buckets,    \* bucket ids
  Objects,    \* (bucketId, keyId) pairs
  BucketOf,   \* the bucket of an object
  Requests,   \* HTTP requests; a request is served once
  LengthOf,   \* the length of the body an upload carries
  Chunked,    \* the uploads whose request does not announce that length
  None        \* nothing: an absent map entry, a free mutex, no reply yet

ASSUME BucketOfAssumption == BucketOf \in [Objects -> Buckets]
ASSUME LengthAssumption == DOMAIN LengthOf = Requests /\ Chunked \subseteq Requests
ASSUME NoneAssumption == None \notin Requests \cup Buckets \cup Objects

(* A map entry: the upload it came from, or nothing. *)
Entry == Requests \cup {None}

(***************************************************************************)
(* A download is announced with the length in the metadata it has read,    *)
(* that of upload m, and sends the body of upload w.  The client gets the  *)
(* whole body if m announced no length (Content-Length -1) or the right    *)
(* one.  If it was longer the reply ends short of it, if it was shorter    *)
(* net/http refuses to write the rest (ErrContentLength).                  *)
(***************************************************************************)
Fits(m, w) == m \in Chunked \/ LengthOf[m] = LengthOf[w]

(***************************************************************************)
(* Outcomes of a store method: nil, or the error it returns.  "panic" is   *)
(* the assignment to an entry of a nil map, which gin.Recovery turns into  *)
(* the same reply as an error.                                             *)
(***************************************************************************)
Ok == "ok"
BucketDoesNotExist == "bucket does not exist"
BucketAlreadyExists == "bucket already exists"
ObjectDoesNotExists == "object does not exist"
ObjectAlreadyExists == "object already exists"
NilMapPanic == "panic"
BodyError == "body error"

Outcomes == {Ok, BucketDoesNotExist, BucketAlreadyExists, ObjectDoesNotExists,
             ObjectAlreadyExists, NilMapPanic, BodyError}

(* A map of objects after the map of its bucket b has been dropped. *)
WithoutBucket(m, b) == [o \in Objects |-> IF BucketOf[o] = b THEN None ELSE m[o]]
=============================================================================
