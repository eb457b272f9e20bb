# A verification of secure-store

secure-store is an HTTP server that stores files encrypted. A file is split over
three stores: its metadata, its encryption key and its encrypted bytes. Files can
also be handed out by *access keys*, which are found under a url key, may have a
limit on how often they are used and a time to live, and remove themselves when
either is over. This directory holds TLA+ modules translated from the Go code, TLC
configurations that check them, and TLAPS proofs.

1. [The system](#1-the-system)
2. [Modules](#2-modules)
3. [Runs, bounds and what they show](#3-runs-bounds-and-what-they-show)
4. [Fairness](#4-fairness)
5. [Proofs](#5-proofs)
6. [Where the code and its words part](#6-where-the-code-and-its-words-part)
7. [Not modelled](#7-not-modelled)
8. [What could follow](#8-what-could-follow)

To check a run: `tlc -config compound_serial.cfg MCCompoundStore.tla`; to check the
proofs: `tlapm CompoundStoreProofs.tla`.

## 1. The system

### Components

| component | source | state | operations | correct when |
|---|---|---|---|---|
| object store | `storeend.go` | none of its own | `NewBucket`, `Write`, `Read`, `Delete`, `DeleteBucket`; each calls metadata, security, storage in this order and gives up at the first error | a file that was acknowledged stays, with the key it was encrypted with, until it is removed; together the three stores look like one |
| metadata store | `metadata/memory.go` | bucket -> key -> metadata, one mutex | `NewBucket`, `Write` (replaces), `Read`, `Delete`, `DeleteBucket` | entries lie in buckets |
| encryption keys | `security/memory.go` | bucket -> key -> 32 bytes, one mutex | `NewBucket`, `WriteKey` (never replaces), `ReadKey`, `DeleteKey`, `DeleteBucket` | a key stays as long as its body |
| storage | `storage/memory.go` | bucket -> key -> bytes, one mutex | `NewBucket`, `Write` (reads the request body under the mutex), `Read`, `Delete`, `DeleteBucket` | whole bodies only |
| storage on files | `storage/fs.go` | a set of keys per bucket in memory, the files on disk | the same | the set and the files agree |
| metadata in SQL | `metadata/sql.go` | a table, and the list of buckets in memory | the same | as in memory |
| object handlers | `router.go` | a goroutine per request | `/new-bucket`, `/upload`, `/download`, `/delete`, `/delete-bucket` | every request is answered |
| access key handlers | `router.go`, `access/access.go` | a goroutine per request, a context with a deadline, the goroutine that sends the report | `/api/add`, `/api/download` | a served download is reported |
| access store in memory | `access/memory.go` | url key -> key with its count (`sync.Map`), a reporter per download, a timer per expiring key, the killer | `AddKey`, `Access`, `DeleteKey` | used up and expired keys go, others stay, counts are exact |
| access store in SQL (`main.go` never makes it) | `access/sql.go` | a table of keys with their counts, one mutex, the same goroutines | the same | the same, over restarts too |
| access store in Redis | `access/redis.go`, `access.pb.go` | a value per url key, with an expiry, on the server; the same goroutines but the timers | the same | the same, as far as Redis is asked in time |
| users | `users/memory.go`, `users/users.go` | three maps: id, api key, user name | `Create`, `ResolveByUuid`, `ResolveByApiKey`, `ResolveByUsername`, `Delete` | the maps agree |
| user handler, api key checks | `router.go` | none | `/api/user/create`, checks in `/upload` and `/api/add` | a request acts for the user its api key belongs to |
| cancellable reader | `ireader.go` | a goroutine and two channels | `Read`, `Cancel` | `Read` returns |
| sanitizer | `sanitizer.go` | none | one regular expression over ids | |
| start-up | `main.go` | none | reads the environment, makes stores, runs the server | |
| client, command line | `client/`, `cli/` | none | HTTP requests | |
| start page, teapot, ping | `router.go`, `templates/` | none | static answers | |

### How they interact

gin serves every request on a goroutine of its own. An object handler calls a method
of `CompoundStore`, which calls the three stores one after the other. Each store has
a mutex that it holds during one call; **nothing is held between the calls**.
`main.go` wires the in-memory stores, or, with `FS_STORAGE`, the storage on files
under metadata and encryption keys in memory.

`/api/download` asks the access store for a key (`Access`). With the key it gets an
unbuffered channel, and the store has started a *reporter*, which waits for a
message on the channel or for the end of the request's context. When the handler
returns, its deferred calls start a goroutine that sends whether the download was
served, and cancel the context. The reporter counts the use and, at the limit, sends
the key to the *killer*, a goroutine that receives keys and removes them one by one.
A key with a ttl is also sent there by its *timer*; Redis gets an expiry with the
value instead.

`/upload` and `/api/add` resolve the api key in their header to a user, verify it
against that user and ask for the role; `/api/user/create` resolves it, asks for the
role and calls `Create`, which looks into three `sync.Map`s and then stores into
them. `main.go` creates the root user before the server runs.

### What is hard about it

* Requests interleave between the calls of the three stores: an upload and a removal
  walk through the stores in the same order and can overtake each other.
* A request that fails half way takes nothing back. An upload that is refused has
  replaced the metadata by then, whose length downloads are announced with.
* `storage.Write` reads the network under the mutex of the whole storage.
* A key in flight to the killer may not be the key that is stored any more.
* The report and the end of the context are ready at the same moment.
* In the SQL store, a goroutine sends on a channel with a mutex held.
* A restart forgets all goroutines and keeps the database, the values on the Redis
  server, or the files, and forgets the encryption keys to those.
* The Redis reporter reads a value and writes it back in two commands, either of
  which may fail before or after the server has executed it.
* Creating a user takes six operations on three maps, deleting one takes one.

`PROJECT.json` lists each of these at its line, with the properties that would catch
it going wrong.

## 2. Modules

```
            StoreBase ----------------------- StorageFs -- MCStorageFs
           /    |     \                           :
MetadataMemory  |  StorageMemory                  : INSTANCE
           \ SecurityMemory /                     :
            \   |   /      MetadataMemory, SecurityMemory -- CompoundFs
          CompoundStore ....> ObjectStore                        |
           /         \       (refinement)                   MCCompoundFs
MCCompoundStore   CompoundStoreProofs -- CompoundSerialProofs

                         ApiAccess                             Users
            /                |               \                 /    \
     AccessMemory        AccessSQL        AccessRedis      MCUsers  UsersProofs
```

`AccessMemory`, `AccessSQL` and `AccessRedis` each have their `MC` and their
`Proofs` module as well.

**StoreBase** holds what the stores share: buckets, objects, requests and the
outcomes of store methods. An object is a pair of ids of which the code only asks
the bucket, so it is an element of a set with a function `BucketOf`. An upload is
named by its request, and so are its metadata, its (fresh, random) encryption key
and its encrypted body: two stores hold parts of the same upload exactly when they
hold the same request. `LengthOf` says how long the body of an upload is, and
`Chunked` which uploads did not announce that. `Fits(m, w)` is what becomes of a
download that has got the metadata of `m` and the body of `w`: `Download` passes
`meta.Length` to `DataFromReader` as the Content-Length, and only with the right
length, or none, does the reply reach the client whole. This is all the data there
is, and it is enough to say that a body is read with a wrong key, announced with the
length of another upload, or broke off.

**MetadataMemory, SecurityMemory, StorageMemory** have one operator per method with
the error `e` the method returns as its last parameter. A method is a critical
section and hence one step, except `storage.Write`, which is two, the mutex being
held (`holder`) while the body is read. The other methods of the storage wait for
`holder = None`. `metadata.Write` to a missing bucket assigns to a nil map: the
outcome is `NilMapPanic`, which gin.Recovery answers like an error, and the deferred
unlock releases the mutex.

**CompoundStore** composes the three: a request is started with any method and any
bucket or object, and takes one step per call. `at[r]` is the store it calls next,
`status[r]` the answer, `gotMeta`, `gotKey`, `gotData` what a Read has got so far, and `Reply` what its
client gets of that: the file, bytes decrypted with a wrong key, or a reply that
breaks.
`Spec` allows every interleaving. `SerialSpec` restricts the clients, not the code:
while something is being deleted in a bucket, no other request is under way there
(`DeletesAlone`).

**StorageFs** models the other storage, on its own: `memRep` (`buckets`, `listed`)
is read and changed under the mutex, in `Write`, `Read` and `Delete`; then `Create`,
`WriteBody`, `Open`, `ReadBody` and `Remove` use the disk (`dirs`, `inode`,
`content`) with no mutex, one step per system call or chunk of the body.
`DeleteBucket` keeps the mutex (`holder`) from the removal of the files to
`RemoveDirectory`. A file is an inode that has a name or has lost it, so a download
goes on reading a file that was removed. `Restart` ends all requests and forgets
`memRep`, and the disk stays. A reply that has no room for the next chunk is
`ReplyError`, and may come at any chunk, since the storage knows nothing of the
length it was announced with. The variables `promised`, `expects` and `disturbed`
record what the properties speak of and restrict nothing.

**CompoundFs** is what `main.go` wires for `FS_STORAGE`: the metadata and the
security store of `CompoundStore`, one step per call, and then the request's part in
an `INSTANCE` of `StorageFs`, all its steps. `stage[r]` is the store a request calls
next, `gotMeta` and `gotKey` the metadata and the encryption key a Read has got;
`SendBody` lets a reply fail only if `gotMeta` is of the wrong length for the file.
Which of two lengths is the longer one is left open, so that such a reply may also
take the whole file, and is cut off behind it. `Restart` is the one of
`StorageFs` and forgets metadata, keys and buckets: the files stay, with nobody who
knows their keys, and a bucket whose directory is there cannot be answered "created"
again, though it then exists.

**ObjectStore** is the abstract specification: one set of buckets, one map of files,
requests that take effect at one moment. `CompoundStore` implements it under
`SerialSpec` (`KeepsPromise`) with a mapping in which a file exists while both its
metadata and its body do. The linearisation points differ by method: removals and
bucket creations take effect with the metadata, uploads with the body, reads with
their last call. What the abstract store does not promise is a file's length: while
another upload of the object has announced another one, a download may be `Broken`.

**ApiAccess** models the handlers of `/api/add` and `/api/download`: the submission
of a key, which refuses an expired ttl, the request's context and deadline, the
download, and the two deferred calls in their order. Whether a download is served,
refused for its unlock key or broken off is a nondeterministic choice: the code
sends `true` exactly after `Download` returned.

**AccessMemory** adds the store: `AddKey` as three steps (load, store, hand over to
the timer), `Access`, the reporter (`ReporterLeaves` / `ReporterReceives`, `Count`,
`Check`, `KillFromReporter`), the timers and the killer. Sends on unbuffered
channels happen together with their receipt.

**AccessSQL** adds the other store to the same handlers. `main.go` never makes a
`SQLStore`: this module is about what the package offers, and its tests use. `AddKey`, `Access`,
`DeleteKey` and the reporter's counting are critical sections of one mutex, which a
reporter keeps while it waits for the killer (`holder`). A query may fail if
`DbFails`, which is noted in `failed`; one that changes rows may have been executed
all the same (`WriteEnds`), so that a key may be refused and have a row; the process may be restarted `MaxRestarts`
times, which loses every goroutine and keeps the rows. `db.First` of a deleted row
returns the zero value, and the reporter goes on with it: `CountsWith` says what
that does.

**AccessRedis** adds the third. `value[u]` is what the server has under a url key
and `px` the url keys it will drop a value of. Every command is one step, and
nothing holds between two of them. A reporter goes from `"waiting"` over `"get"`
(`ReporterGets`) and `"set"` (`ReporterSets`) to `"sending"` or `"gone"`; `fetched`
is the record it holds on to. A command fails if `NetFails`, or if it uses the
context of a request that is done, and then it may have been executed, not have
been, or be executed later (`late`, `LateSet`). The reporter does not look at the
error of its Set and the killer not at that of its Del. Two conversions are modelled
by what they do: the expiry is now minus ttl (`Expiry`), negative and hence none for
every key that is not expired (a key without a ttl has one of some 56 years, now
minus the epoch, at which `Expiry` takes it for none too); and the list of valid keys becomes one of them
(`Opening`), because the loop takes a slice of its one loop variable. `Unlock` is
the handler's `ValidKey` with an unlock key the client sends, noted in `unlock`.
`failed` and `met` record for the properties what failed and where a reporter met
another command.

**Users** models `users/memory.go` with the three handlers that use it. Users are
elements of a set with functions `IdOf`, `ApiKeyOf` and `NameOf`, which may clash.
Each Load, Store or Delete of a `sync.Map` is a step. A creation is named by the
user it creates: `ResolveApiKey`, `Authorize`, then `CheckId`, `CheckApiKey`,
`CheckName`, `StoreUser`, `StoreApiKey`, `StoreName`; `Checks` are requests to
`/upload` or `/api/add`; `Deletes` are calls of `Delete`, a load and a removal.
`Goes` writes an answer once, since gin sends the status that was set first: a
creation that was answered 403 goes on. `raced` collects the creations that shared
something with another one past its first look.

The **MC** modules give the constants their values for TLC and define the symmetry.
The **Proofs** modules hold the theorems. `StorageFsProofs` extends `StorageFs`,
`CompoundFsProofs` extends `CompoundFs` and takes what is proved of the storage as
an instance of `StorageFsProofs`. `CompoundSerialProofs` extends
`CompoundStoreProofs`: it holds what is proved under `SerialSpec`.

Operators whose names contain an underscore (`StorageWrite_Overwrites`,
`Check_Exceeds`, ...) are mutants: plausible mistakes in the code, one for every
property, which that property catches when it replaces the real operator.

## 3. Runs, bounds and what they show

| run | size | properties | result |
|---|---|---|---|
| compound_concurrent | 1 bucket, 2 objects, 5 requests | `AckedFileLives`, `GarbledOnlyByRemoval`, `AckedOnce`, `BrokenOnlyByUpload` | hold |
| compound_serial | the same, coordinated deletes | `ReadsDecrypt`, `QuietStoresAgree`, `KeepsPromise` | hold |
| compound_live | 1 object, 3 requests, fair | `AnsweredIfBodiesEnd` | holds |
| files | 1 bucket, 2 objects, 5 requests, bodies of 2 chunks, 1 restart | `AckedFileKept`, `PromisedIsServed`, `SetMatchesFiles` | hold |
| compound_files | 1 bucket, 1 object, 5 requests, bodies of 2 chunks, 1 restart | `TypeOK`, `AckedFileLives`, `AckedIsServed`, `GarbledOnlyByRemoval`, `BucketsAgree` | hold |
| access_memory | 2 keys of one url key, one of them limited to 1 and expiring, 2 downloads, fair | `UsedUpIsLeaving`, `KilledForCause`, `CountsAreExact`, `GoneForCause`, `SenderHasReceiver`, `UsedUpGoes`, `ExpiredGoes`, `ReporterEnds` | hold |
| sql_restarts | the same keys, 2 downloads, 1 restart, failing queries | `OneRowPerUrlKey`, `CountsAreExact`, `OvercountedByOne`, `OverusedIsLeaving`, `GoneForCause` | hold |
| redis | the same keys, one of them with 2 of 3 unlock keys, 2 downloads, 1 restart, failing commands | `CountedAtMostOnce`, `CountsAreExact`, `UsedUpIsLeaving`, `GoneForCause` | hold |
| users | root and 3 creations of which each two share an id, an api key or a name, 1 check, 2 deletions | `CreatedIsFound`, `LeadsToSomebody`, `CreatedApart`, `ActsForItself`, `FailedIsNotCreated` | hold |
| lost_use | the keys of access_memory, 2 downloads | `UsesCounted` | violated |
| sql_stuck | the keys of access_memory, 2 downloads, no restart, no failing query | `AccessReturns` | violated |
| redis_unlock | the keys of redis, 2 downloads, no restart, no failing network | `ValidKeyUnlocks` | violated |

The `TypeOK` of compound_files contains that of `StorageFs`. The type invariants of
the other modules are proved (section 5) and not run. So are some invariants that
only serve proofs: `Undisturbed` of `CompoundStore`, `KeysHandedOut`,
`ExpiringIsTimed` and `OverdrawnWhileLeaving` of `AccessMemory`.

**Why the bounds are enough.** A request is served once, so five requests are five
calls: a bucket creation, an upload and three more that race with each other or
follow each other. The interesting cases need at most four: a creation, an upload, a
removal, and an upload or a read between them. Two objects of one bucket are what a
mistake needs that touches another object or the whole bucket; buckets share nothing
but the storage mutex, which two objects of one bucket contend for as well. For the
files, five requests are a creation, an upload and three that meet it, or the same
again after the restart with a read; two chunks are the least that a body can be
half written or half read. In compound_files one object is enough: that objects do
not touch each other is what files and compound_concurrent show of the parts.

In all these runs no two uploads announce the same length and none announces no
length, so that whatever metadata a download may get of another upload breaks its
reply. The proofs are for any lengths.

For the access stores, two keys of one url key are one key and the key that takes
its place; the one that is both limited and expiring can be sent to the killer
twice, by reporter and timer, and the one that is neither must never be sent there.
With a limit of 1, two reporters race past the limit together, and a reporter that
has got the value of one key can write it over the other's. One restart is one loss
of all goroutines, and it can come anywhere. With two valid keys of three unlock
keys there is the one the conversion keeps, the one it loses and one that was never
valid; the other key needs none.

For the users, three creations share an id, an api key and a name pairwise, so that
every two of them clash in exactly one map; two deletions free an id twice.

What TLC shows for these sizes is proved for all of them, liveness excepted
(section 5).

The safety runs use the symmetry of requests, downloads, unlock keys that play the
same part and deletions, which are only compared for equality. Runs with liveness
properties use none.

Deadlock is not checked: every run ends when all requests are answered.
`AccessReturns` and the liveness properties say what must not stop early.

### What the properties say

*Compound store, every interleaving.* The body of an upload answered 200 stays in
the stores with its own key until somebody asks for its removal, whatever else is
refused, fails or is under way (`AckedFileLives`). It does *not* stay readable: an
upload of another length that is refused because the object exists has replaced the
metadata by then, and from then on every download is announced with its length, and
is cut off or fails. This takes no interleaving and no removal. The property says
that nothing else does it, and that the upload in the metadata is one that was not
acknowledged. A read of an object that nobody removes decrypts with
the right key (`GarbledOnlyByRemoval`). Of racing uploads one is told that it won,
unless a removal came between (`AckedOnce`). A read answered 200 has got a whole
body that was uploaded to that object and acknowledged, and if its reply breaks
another upload of the object announced another length: an unacknowledged one, as
long as nobody asks for a removal (`BrokenOnlyByUpload`).

*Compound store, coordinated deletes.* Reads decrypt (`ReadsDecrypt`), the stores
agree whenever nothing is in flight (`QuietStoresAgree`), and together they are one
store of files, though not of their lengths (`KeepsPromise`): the removals,
creations, uploads and reads of a client take effect one at a time, but a download
may break by the length another upload has announced. What deletes do that are not
coordinated, to a Read, to an upload or to the creation of a bucket, is not in these
properties.

*Storage on the file system.* A body whose upload was acknowledged stays in its
file, whole and listed, until its removal is asked for, over a restart before the
upload too (`AckedFileKept`). Who asks for it then finds it, and the download
reads it whole, even if it is removed while it is being sent, unless the reply
refuses to take it (`PromisedIsServed`). When nothing is under way, keys
and files, buckets and directories agree (`SetMatchesFiles`). All this leaves out
the objects in `disturbed`: a removal that met another upload or removal of its
object between `memRep` and the file. There it is false, as TLC finds when the
exception is taken out: `DeleteBucket` removes a file whose upload is acknowledged
afterwards; or `Delete` forgets the key, a new upload writes the file and is
acknowledged, and `Delete` then removes that file. A Read before the upload has
ended may also answer 200 with part of the body, which `StorageMemory` never does.

*Compound store over files.* An acknowledged upload stays in its file with its own
key until its removal is asked for (`AckedFileLives`), although the file may hold
what a former process has left of it. A download that comes after it has its key and
reads its body and nothing else; it sends all of it, and is announced with the right
length, unless the metadata it got is that of an upload of another length that was
refused at the key, or has not got there (`AckedIsServed`). Before the first restart nobody
gets a body with the key of another (`GarbledOnlyByRemoval`); after one, a download
that comes between the security store and the file of a new upload may get the old
body and the new key. Until a bucket is deleted the stores have the same buckets
whenever nothing is under way (`BucketsAgree`), also after a restart, when the
creation of a bucket whose directory is there is answered with an error and makes it
all the same.

*Access store in memory.* A key used up is on its way out (`UsedUpIsLeaving`): of
several reporters that count at once at least one sees the last count. The killer
only hears of keys that are used up or expired (`KilledForCause`). Counts are exact
(`CountsAreExact`), a key that never shared its url key with another one does not go
without cause (`GoneForCause`). The goroutine that sends a report has its receiver
until the context of the request is over (`SenderHasReceiver`): the sends that wait
forever are those of a request without a key or past its context. Under fair
scheduling used up and expired keys go (`UsedUpGoes`, `ExpiredGoes`) and reporters
end (`ReporterEnds`).

*Access store in SQL.* Until a query fails (`failed`): one row per url key
(`OneRowPerUrlKey`), exact counts over restarts as long as a url key is not reused
(`CountsAreExact`) and one too many at most when it is (`OvercountedByOne`), and,
until a restart, rows past their limit on their way out (`OverusedIsLeaving`). No
row goes without cause, whatever fails, executed or not (`GoneForCause`), which
leaves out a url key at which another key may have been given a row: one that was
added, or one that was refused when a query had failed.

*Access store in Redis.* Reporters write each other's counts over and uses are lost;
but whatever fails, arrives late or is restarted, no use is counted twice
(`CountedAtMostOnce`), and nothing is removed without cause (`GoneForCause`), nor
dropped by the server before its ttl is over. A used up value is on its way out until a Set arrives late, a Del fails or the
process ends (`UsedUpIsLeaving`): whoever writes it tells the killer, also when a
deleted key comes back by it. Counts are exact where no command came between the Get
and the Set of a reporter and none of its commands failed (`CountsAreExact`).

*Users.* Whose creation was answered 200 is found by id, api key and name
(`CreatedIsFound`), and shares none of them with another (`CreatedApart`), deletions
and refused creations notwithstanding, unless the creation raced with one it shares
something with. Races included, an api key or a name never leads to an id nobody
has, unless it was deleted (`LeadsToSomebody`), and a creation answered 500 or 400
has stored nobody (`FailedIsNotCreated`); one answered 403 may have, since the
handler goes on. Who is let through by `/upload` and
`/api/add` holds the api key it came with, whatever raced or was deleted;
`/api/user/create` does not verify it and needs the maps to agree (`ActsForItself`).

## 4. Fairness

Safety runs assume none. `CompoundStore!FairSpec` has strong fairness of `Serve(r)`:
Go runs every goroutine that can run, and `sync.Mutex` hands itself to a waiter that
has waited for more than a millisecond, so a handler that finds the mutex free again
and again gets it. The step that ends a request body has no fairness: the server has
no read timeouts, and a client may keep its body open. That is why the property is
`BodiesEnd => EveryRequestAnswered`; one body that never ends makes every other
request wait for the storage.

`AccessMemory!Fairness` has weak fairness of each goroutine's own steps: the rest of
a submission (`AddStep`), of a handler whose download has ended (`ReturnStep`), of a
reporter (`ReporterStep`), and of the killer (`DeleteKey`). It has strong fairness
of being received by the killer (`KillFromTimer`, `KillFromReporter`): senders
blocked on a channel are received in the order they came. Nothing is assumed about
requests coming, time passing or downloads ending.

## 5. Proofs

All proofs are for arbitrary constants under the assumptions the modules name:

* objects lie in buckets and `None` is none of them, nor a method or an outcome
  (`BucketOfAssumption`, `NoneAssumption`, `NoneIsNoName`), and every upload has a
length, whatever that is (`LengthAssumption`); how many requests there
  are is not said, and they may be infinitely many;
* keys have a url key, the limited ones a limit, and `None` is no key
  (`UrlOfAssumption`, `LimitAssumption`, `ExpiringAssumption`, `NoKeyAssumption`);
  downloads are finitely many (`DownloadsAssumption`), since counts are compared
  with cardinalities, and their number may be anything;
* queries or commands fail or do not, and the process is restarted any number of
  times (`DbFailsAssumption`, `NetFailsAssumption`, `MaxRestartsAssumption`); keys
  are made with sets of unlock keys (`ValidKeysAssumption`), and `None` is neither
  an unlock key nor a record (`NoUnlockKeyAssumption`, `NoRecordAssumption`);
* the root user is no new one, every user has an id, an api key and a name, roles
  are sets of users, and the kinds of requests and `None` are apart
  (`RootAssumption`, `FoundByAssumption`, `RolesAssumption`, `ApartAssumption`,
  `NobodyAssumption`).

| module | theorem | states |
|---|---|---|
| CompoundStoreProofs | `TypeCorrect` | `Spec => []TypeOK` |
|  | `AckedFilesLive` | `Spec => []AckedFileLives` |
|  | `GarbledByRemovalOnly` | `Spec => []GarbledOnlyByRemoval` |
|  | `RepliesBrokenByUploads` | `Spec => []BrokenOnlyByUpload` |
|  | `AckedInTurns` | `Spec => []AckedOnce` |
| CompoundSerialProofs | `SerialReadsDecrypt` | `SerialSpec => []ReadsDecrypt` |
|  | `SerialStoresAgree` | `SerialSpec => []QuietStoresAgree` |
|  | `SerialKeepsPromise` | `SerialSpec => KeepsPromise` |
| StorageFsProofs | `TypeCorrect` | `Spec => []TypeOK` |
|  | `AckedKept` | `Spec => []AckedFileKept` |
|  | `PromisesServed` | `Spec => []PromisedIsServed` |
|  | `KeysMatchFiles` | `Spec => []SetMatchesFiles` |
| CompoundFsProofs | `TypeCorrect` | `Spec => []TypeOK` |
|  | `AckedLives` | `Spec => []AckedFileLives` |
|  | `AckedServed` | `Spec => []AckedIsServed` |
|  | `GarbledByRemoval` | `Spec => []GarbledOnlyByRemoval` |
|  | `BucketsAgreed` | `Spec => []BucketsAgree` |
|  | `StorageImplemented` | `Spec => Files!Spec` |
| AccessMemoryProofs | `TypeCorrect` | `Spec => []TypeOK` |
|  | `HandedOut` | `Spec => []KeysHandedOut` |
|  | `UsedUpKeysLeave` | `Spec => []UsedUpIsLeaving` |
|  | `ExpiringKeysAreTimed` | `Spec => []ExpiringIsTimed` |
|  | `KillsForCause` | `Spec => []KilledForCause` |
|  | `OwnUrlKeysAreKept` | `Spec => []GoneForCause` |
|  | `SendersHaveReceivers` | `Spec => []SenderHasReceiver` |
|  | `OverdrawnKeysLeave` | `Spec => OverdrawnWhileLeaving` |
|  | `ExactCounts` | `Spec => []CountsAreExact` |
| AccessSQLProofs | `TypeCorrect` | `Spec => []TypeOK` |
|  | `OneRow` | `Spec => []OneRowPerUrlKey` |
|  | `OneTooManyAtMost` | `Spec => []OvercountedByOne` |
|  | `ExactCounts` | `Spec => []CountsAreExact` |
|  | `OverusedRowsLeave` | `Spec => []OverusedIsLeaving` |
|  | `OwnUrlKeysAreKept` | `Spec => []GoneForCause` |
| AccessRedisProofs | `TypeCorrect` | `Spec => []TypeOK` |
|  | `NeverCountedTwice` | `Spec => []CountedAtMostOnce` |
|  | `ExactCounts` | `Spec => []CountsAreExact` |
|  | `UsedUpValuesLeave` | `Spec => []UsedUpIsLeaving` |
|  | `OwnUrlKeysAreKept` | `Spec => []GoneForCause` |
| UsersProofs | `TypeCorrect` | `Spec => []TypeOK` |
|  | `PathsLeadToSomebody` | `Spec => []LeadsToSomebody` |
|  | `FailedLeaveNobody` | `Spec => []FailedIsNotCreated` |
|  | `CreatedAreFound` | `Spec => []CreatedIsFound` |
|  | `CreatedAreApart` | `Spec => []CreatedApart` |
|  | `RequestsActForThemselves` | `Spec => []ActsForItself` |

**CompoundStore.** `TypeOK` needs `CallsWellFormed` to know that the object of an
object method is an object. `AckedFileLives` and `GarbledOnlyByRemoval` need
`Undisturbed`: neither says why a refused upload cannot take the key of another. The
argument is that for an object nobody removes the stores only go forward
(`StoresUndisturbed`), and each request half way knows what it has left behind
(`CallUndisturbed`): an upload past the security store holds the key, so no other
gets past it. The lemmas are per store first (what its methods do to types and
buckets), then per request (`StepKeeps`: a step that is not a removal of the object
leaves what is there; `OthersUndisturbed`, `StepUndisturbed`). `BrokenOnlyByUpload` needs
`StoredIsAcked` on top of it (`Whole`), a body being stored in the step that
acknowledges it, and `LabelsOfUploads`, metadata being that of an upload of its
object, which `AckedFileLives` needs as well: while nobody removes the object no
other upload of it has been acknowledged. `AckedOnce` compares two cardinalities, and its argument is about turns
(`TurnsTaken`): an upload is acknowledged when the object has no body and leaves
one, and a body only goes with a removal that is answered 200 by the same call. Only
finitely many requests have been answered at any moment, so nothing need be assumed
of `Requests`.

**CompoundStore, coordinated deletes.** `SerialInv` says of every disagreement
between the stores which request caused it and is about to end it: a bucket that not
all stores have is being created or deleted by one request, which finds the stores
it has yet to call as it expects them (`BucketsInOrder`); a body without its key or
a key without metadata is being removed (`ObjectInOrder`); and an upload past the
security store owns the key, a Read past it has the key of the object
(`CallInOrder`). With `DeletesAlone`, a request meets no removal in its bucket but
its own (`RemovalAlone`), so it finds its object settled. `ReadsDecrypt` and
`QuietStoresAgree` follow. For the refinement there is one lemma per method that
turns each of its calls into the abstract action or a stutter (`NewBucketPromised`,
..., `DeletePromised`), and `OtherAnswers`: a step settles nothing for another
request.

**StorageFs.** `WellFormed` is `TypeOK` with where each call is and whose files are
whose: a file keeps to the object its creator uploaded. `FilesInv` adds, for every
object that is not in `disturbed`, `InOrder`: a promised body is listed and whole in
its file; an upload is alone with its object and writes into the file that has its
name (`WriterInOrder`); a removal is the only call still on its way to the file
(`RemoverInOrder`), and so is the removal of the bucket (`ClearerInOrder`); a
download that was promised something has a file open that holds it, and whose name
is gone if the promise has been withdrawn (`ReaderInOrder`), so that nobody empties
that file under it. Each is needed for the others: that no upload empties a promised
file rests on the key being in `listed`, which rests on removals being alone. The
proof has one lemma per action that keeps `InOrder` of the object it is called for,
and one (`Elsewhere`) for all other objects.

**CompoundFs.** Every step is a step of the storage or leaves it alone
(`StepsOfStorage`), which gives the refinement `StorageImplemented` and all of
`FilesInv` without proving any of it again. `CallInOrder` ties a request's part in
the storage to the method and argument it came with, so that who disturbed an object
in the storage is a removal here (`DisturbedRemoved`). `ObjectInOrder` says of an
object nobody removes that its key is that of the upload that was promised, that
uploads in the storage own the key, and that downloads there have the key of what
they were promised; after a restart only of requests that have not been cut off.
`GarbledOnlyByRemoval` needs `BodiesKnown` as well, whose chunks are in a file or
have been read. `LabelsInOrder` ties metadata to uploads, of an object, of a
download under way and of one that got there in time (`EntryLabelled`,
`DownloadLabelled`, `ReplyInOrder`): it is that of the promised upload or of one that
has not got past the key. `BucketInOrder` is the same for buckets: one that is not in all
stores is carried on by the request that creates it (`Creating`).

**AccessMemory.** `Handed` is `TypeOK` with `KeysHandedOut`: a key lies under its
own url key, and a download, a reporter, a timer or the killer only has a key that
was stored. Each safety property is inductive relative to it. `CountsAreExact` needs
`ReportsInOrder` (a reporter that has counted has received, and a handler that
reports has ended) and the cardinality of a set with one element added.
`SenderHasReceiver` needs `Awaited`, which says where the reporter of a download is
for each state of its handler. `OverdrawnKeysLeave` is about the downloads `Access`
grants a key that is used up, which it does not look at: somebody is about to tell
the killer, or the killer is about to delete.

**AccessSQL.** `Handed` is `TypeOK` with `OnlyAdded` (nobody has a key, and no count
is written for it, before it may have a row) and `ReportsInOrder`. On it rest `RowsApart`
(while no query has failed, one row per url key), which gives `OneRowPerUrlKey`;
`Bounded` (until then a count is one above the counted uses at most: the reporter of
a key that has gone counts 1 for the next one), which gives `OvercountedByOne`; and
for `OverusedIsLeaving` what keeps a row leaving from one step to the next
(`GoesOnLeaving`). `GoneForCause` needs three facts about a key that has its url key
to itself, whatever fails: its count is never too high (`NeverTooHigh`), who sends
it to the killer, and the killer, have cause (`KilledForCause`), and so has what
removed its row (`OwnKept`).

**AccessRedis.** `Handed` is `TypeOK` with `RecordsInPlace` (every record is that of
a key of the url key it is, or was, found under) and `ReportsInOrder`. Records are
copied between the server, the reporters and the late Sets, so an invariant about
records is one about all the places they may be in. The lemma `Origins` says once,
for every step, where a record of the new state comes from: it was in that place, or
in the place it is copied from, it is new with the key being added, or it is the
fetched one counted once. From it follow `NeverTooMany` (no count, stored, got or on
its way, is above the uses that are done), which gives `CountedAtMostOnce`;
and the argument for `UsedUpIsLeaving`. `InTime` says that no Set, late or not, asks
the server to drop a value whose ttl is not over, `GoesForCause` extends `GoneForCause` to what is on its way to the killer. For `CountsAreExact`,
`SteadyCounts` says that at a url key where no command came between a Get and its
Set there is one reporter at most that is about to set, and that it holds the value
the server has.

**Users.** `Typed` is `TypeOK` with `InPlace` (where a request is says what it has
got and been answered). `AllTaken`: what a creation has stored something under stays
taken, by whomever, unless deleted; with that `LeadsToSomebody` is inductive.
`StoredByCreation`: a user that is there was stored by a creation that was not
refused. `Met`: creations that share something and are both past their first look
are in `raced`. `Apart`: who has met nobody is not past the look at anything it
shares with another that is. `AllOwn`: who has met nobody finds nobody in its way,
and afterwards itself. `PointsRight`: an id that nobody deletes, and no creations
raced for, stays whose it was for every api key that leads to it. The six theorems
follow from these.

**Only model-checked:** liveness under fairness, which is out of the prover's reach:
`AnsweredIfBodiesEnd` of `CompoundStore`, `UsedUpGoes`, `ExpiredGoes` and
`ReporterEnds` of `AccessMemory`. Every safety property that a run finds to hold is
proved.

## 6. Where the code and its words part

Each is a run that TLC finds violated; `PROJECT.json` quotes the lines.

1. *lost_use*: the context is cancelled right after the report was sent off, and the
   reporter may see the end of the context first: the use is not counted.
2. *sql_stuck*: a reporter with the mutex waits for the killer, which waits for the
   mutex; from then on no `AddKey` or `Access` returns.
3. *redis_unlock*: of several valid keys of a key the conversion for Redis keeps
   one; a download that sends another is told that its key is invalid.

Other behaviour of the code that a reader should know of, and that no run is spent
on (the properties above are stated around it):

* An upload that is refused because the object exists, and is not as long as what is
  stored, breaks every later download of it: `metadata.Write` (storeend.go:50) has
  replaced the length, which `Download` (router.go:35-40) announces. Longer, replies
  are cut off; shorter, writing them fails with `http.ErrContentLength`.
* A removal that overtakes an upload between the stores is refused and takes
  metadata and key of a file that is then acknowledged. An upload whose body broke
  off leaves metadata and key, and later uploads are refused with "already exists"
  although nothing is stored.
* A key that is on its way to the killer twice takes the key that was added in its
  place with it the second time. `AddKey` of the memory store loads and then stores,
  so two requests at once for one url key are both told that their key was set; that
  of Redis never says that a url key is taken.
* Redis is asked to drop a value only when an expired key is written again: the ttl
  of a key nobody uses is not enforced.
* The goroutine that sends a report waits forever when `Access` failed, or when the
  reporter took the end of the context.
* `/api/user/create` goes on after its 403 and creates the user. Two creations at
  once that share an id, an api key or a name may both be answered 200. A deleted
  user's api key and name stay taken.

## 7. Not modelled

* `metadata/sql.go`: `main.go` never makes this store, nor does anything else in the
  program. `ireader.go`: nothing makes a reader.
* System calls of `storage/fs.go` that fail for any other reason than that a file or
  directory is or is not there, and descriptors, which it never closes.
* `ListBuckets` of all stores and `ResolveByUsername`: they change nothing and no
  handler calls them. Passwords: they are hashed and stored, and never verified.
* The OFB stream cipher beyond which key it is run with. Lengths beyond whether two
  of them are equal; a client that announces a length its body does not have, which
  net/http makes an error of that body; and a client that hangs up on a download.
* What gorm stores of the valid keys of a row (nothing, the field is unexported).
* In Redis, `proto.Marshal` failing, commands the client library sends again by
  itself, and an AddKey or Del that arrives after it was given up (a Set of a
  reporter does).
* The sanitizer: a model of it would restate its regular expression.
* `main.go` beyond which stores it wires and the root user it creates, `client/`,
  `cli/`, the templates: no state of their own.

## 8. What could follow

Every component that takes part in a behaviour of the server is modelled, and every
safety property of the runs is proved. What is left to prove are results that no run
asks for: that the three access stores implement one abstract store of access keys,
as far as they do (uses may be lost, and Redis never says that a url key is taken);
and that `CompoundFs` implements `ObjectStore` under coordinated deletes until the
first restart.
