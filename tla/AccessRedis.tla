---------------------------- MODULE AccessRedis ----------------------------
(***************************************************************************)
(* access.RedisStore under the handlers of ApiAccess: a key is the value   *)
(* of its url key on a Redis server.  Every command is atomic there and    *)
(* nothing holds between two of them.  The reporter of a download reads    *)
(* the value and writes it back, counted, with the context of the request, *)
(* which the handler cancels right after it has sent the report off.       *)
(* Values outlive the process, goroutines do not.                          *)
(***************************************************************************)
EXTENDS ApiAccess

CONSTANTS
  UnlockKeys,    \* what clients send to unlock a key
  ValidKeys,     \* the unlock keys a key was made with, none if it needs none
  NetFails,      \* whether commands fail for other reasons than the context
  MaxRestarts    \* how often the process is started again

ASSUME ValidKeysAssumption == ValidKeys \in [Keys -> SUBSET UnlockKeys]
ASSUME NoUnlockKeyAssumption == None \notin UnlockKeys
ASSUME NetFailsAssumption == NetFails \in BOOLEAN
ASSUME MaxRestartsAssumption == MaxRestarts \in Nat

VARIABLES
  value,     \* value[u]: what the server has under u
  px,        \* the url keys whose value the server will drop
  killing,   \* the key the killer has received and not yet deleted
  reporter,  \* reporter[d]: the goroutine Access started for d
  fetched,   \* fetched[d]: what d, or its reporter, has got last
  late,      \* late[d]: a Set that was given up and may still arrive
  unlock,    \* unlock[d]: the unlock key d has sent and what was said of it
  restarts   \* how often the process was started again

(* What the properties speak of, and the code does not keep. *)
VARIABLES
  failed,    \* what failed so far: the counting of a use, a removal
  met        \* the url keys at which a reporter met another command

serverVars == <<value, px, late>>
storeVars == <<serverVars, killing, reporter, fetched, unlock, restarts, failed, met>>
vars == <<apiVars, storeVars>>

(* A ProtoAKey, as far as it changes or is looked at. *)
Record == [key : Keys, used : Nat, opens : SUBSET UnlockKeys]
Command == [record : Record, px : BOOLEAN]

ASSUME NoRecordAssumption == None \notin Record

TypeOK ==
  /\ ApiTypeOK
  /\ value \in [UrlKeys -> Record \cup {None}]
  /\ px \subseteq UrlKeys
  /\ killing \in Keys \cup {None}
  /\ reporter \in [Downloads -> {"none", "waiting", "get", "set", "sending", "gone"}]
  /\ fetched \in [Downloads -> Record \cup {None}]
  /\ late \in [Downloads -> Command \cup {None}]
  /\ unlock \in [Downloads -> [sent : UnlockKeys, valid : BOOLEAN] \cup {None}]
  /\ restarts \in 0..MaxRestarts
  /\ failed \subseteq {"count", "removal"}
  /\ met \subseteq UrlKeys

Init ==
  /\ ApiInit
  /\ value = [u \in UrlKeys |-> None]
  /\ px = {}
  /\ killing = None
  /\ reporter = [d \in Downloads |-> "none"]
  /\ fetched = [d \in Downloads |-> None]
  /\ late = [d \in Downloads |-> None]
  /\ unlock = [d \in Downloads |-> None]
  /\ restarts = 0
  /\ failed = {}
  /\ met = {}

Url(d) == UrlOf[key[d]]

-----------------------------------------------------------------------------
(* Commands *)

(* Whether a command fails: the network may, and a done context ends what  *)
(* is under way.                                                           *)
Fails == IF NetFails THEN BOOLEAN ELSE {FALSE}
FailsFor(d) == IF d \in ctxDone THEN BOOLEAN ELSE Fails

Noted(what, fails) == failed' = IF fails THEN failed \cup {what} ELSE failed

(* A command on u comes between the Get and the Set of a reporter. *)
Meets(u) ==
  met' = IF \E d \in Downloads : reporter[d] = "set" /\ Url(d) = u
         THEN met \cup {u} ELSE met

(* Set replaces the value and its expiry. *)
Put(u, c) ==
  /\ value' = [value EXCEPT ![u] = c.record]
  /\ px' = IF c.px THEN px \cup {u} ELSE px \ {u}

(* The expiry given to Set is now minus ttl, computed before the command   *)
(* is sent.  Before the ttl is over that is negative and the client sends  *)
(* none; afterwards the server drops the value after as much time as has   *)
(* passed since.  For a key without a ttl AddKey sends none, either, but   *)
(* the reporter the age of the epoch (AsTime of a nil ttl): its value is   *)
(* dropped some 56 years after its last use, for which there is no time    *)
(* here.                                                                   *)
Expiry(k) == IF k \in expired THEN BOOLEAN ELSE {FALSE}

(* ProtoKeyFromAKey appends slices of the one loop variable, which after   *)
(* the loop are all the valid key that came last, in no particular order.  *)
Opening(k) == IF ValidKeys[k] = {} THEN {{}} ELSE {{e} : e \in ValidKeys[k]}

NewRecords(k) == {[key |-> k, used |-> 0, opens |-> es] : es \in Opening(k)}

ServerExpires(u) ==
  /\ u \in px
  /\ value' = [value EXCEPT ![u] = None]
  /\ px' = px \ {u}
  /\ Meets(u)
  /\ UNCHANGED <<apiVars, late, killing, reporter, fetched, unlock, restarts, failed>>

-----------------------------------------------------------------------------
(* AddKey: one Set, whatever the url key has by now *)

AddKey(k) ==
  \E record \in NewRecords(k), over \in Expiry(k), fails \in Fails, arrives \in BOOLEAN :
    /\ fails \/ arrives
    /\ Adds(k, "submitted", IF fails THEN "refused" ELSE "added")
    /\ \/ arrives /\ Put(UrlOf[k], [record |-> record, px |-> over]) /\ Meets(UrlOf[k])
       \/ ~arrives /\ UNCHANGED <<value, px, met>>
    /\ UNCHANGED <<late, killing, reporter, fetched, unlock, restarts, failed>>

-----------------------------------------------------------------------------
(* Access, the unlocking of the key, and the reporter *)

(* A Get that fails, and one that finds nothing, are errors alike. *)
Access(d, u) ==
  /\ \E fails \in Fails :
       LET found == IF fails THEN None ELSE value[u]
       IN /\ Accessed(d, IF found = None THEN None ELSE found.key)
          /\ fetched' = [fetched EXCEPT ![d] = found]
          /\ reporter' = [reporter EXCEPT ![d] = IF found = None THEN "none" ELSE "waiting"]
  /\ UNCHANGED <<serverVars, killing, unlock, restarts, failed, met>>

(* ValidKey, and Download if it says yes. *)
Unlock(d) ==
  /\ Handle(d)
  /\ \/ ValidKeys[key[d]] = {} /\ UNCHANGED unlock
     \/ /\ ValidKeys[key[d]] # {}
        /\ \E e \in UnlockKeys :
             LET valid == e \in fetched[d].opens
             IN /\ unlock' = [unlock EXCEPT ![d] = [sent |-> e, valid |-> valid]]
                /\ served'[d] => valid
  /\ UNCHANGED <<serverVars, killing, reporter, fetched, restarts, failed, met>>

ReporterLeaves(d) ==
  /\ reporter[d] = "waiting"
  /\ d \in ctxDone
  /\ reporter' = [reporter EXCEPT ![d] = "gone"]
  /\ UNCHANGED <<apiVars, serverVars, killing, fetched, unlock, restarts, failed, met>>

ReporterReceives(d) ==
  /\ reporter[d] = "waiting"
  /\ Reported(d)
  /\ reporter' = [reporter EXCEPT ![d] = "get"]
  /\ UNCHANGED <<serverVars, killing, fetched, unlock, restarts, failed, met>>

UsedUp(record) == Reaches(record.key, record.used)

(* Mutant: = for +=. *)
Counting_Sets(record) == [record EXCEPT !.used = 1]

Counting(record) == [record EXCEPT !.used = @ + 1]

(* What the reporter does with a value it has got: it goes on to count it, *)
(* or, if the download was not served, to remove it if it is used up.      *)
GetWith(d, counts) ==
  /\ reporter[d] = "get"
  /\ \E fails \in FailsFor(d) :
       LET found == IF fails THEN None ELSE value[Url(d)]
       IN /\ fetched' = [fetched EXCEPT ![d] = found]
          /\ reporter' = [reporter EXCEPT ![d] =
               IF found = None THEN "gone"
               ELSE IF counts THEN "set"
               ELSE IF UsedUp(found) THEN "sending" ELSE "gone"]
          /\ Noted("count", fails /\ served[d])
  /\ Meets(Url(d))
  /\ UNCHANGED <<apiVars, serverVars, killing, unlock, restarts>>

(* Mutant: counts whatever the message says. *)
ReporterGets_Unread(d) == GetWith(d, TRUE)

(* The value may be another key's by now. *)
ReporterGets(d) == GetWith(d, served[d])

(* The reporter ends, and lets go of what it has got. *)
Leaves(d) ==
  /\ reporter' = [reporter EXCEPT ![d] = "gone"]
  /\ fetched' = [fetched EXCEPT ![d] = None]

(* The Set of d, and then what its reporter does, which does not look at   *)
(* the error of the Set.                                                   *)
SetWith(d, record, next) ==
  /\ reporter[d] = "set"
  /\ \E over \in Expiry(record.key), fails \in FailsFor(d),
        arrives \in {"now", "late", "never"} :
       LET c == [record |-> record, px |-> over]
       IN /\ ~fails => arrives = "now"
          /\ \/ arrives = "now" /\ Put(Url(d), c) /\ UNCHANGED late
             \/ /\ arrives = "late"
                /\ late' = [late EXCEPT ![d] = c]
                /\ UNCHANGED <<value, px>>
             \/ arrives = "never" /\ UNCHANGED serverVars
          /\ Noted("count", fails)
  /\ \/ next = "gone" /\ Leaves(d)
     \/ /\ next # "gone"
        /\ reporter' = [reporter EXCEPT ![d] = next]
        /\ fetched' = [fetched EXCEPT ![d] = record]
  /\ UNCHANGED <<apiVars, killing, unlock, restarts, met>>

(* Mutants: holds the limit against the count it has got, and does not     *)
(* look at Limited.                                                        *)
ReporterSets_Stale(d) ==
  SetWith(d, Counting(fetched[d]), IF UsedUp(fetched[d]) THEN "sending" ELSE "gone")
ReporterSets_Unlimited(d) ==
  LET record == Counting(fetched[d])
  IN SetWith(d, record, IF record.used >= Limit[record.key] THEN "sending" ELSE "gone")

ReporterSets(d) ==
  LET record == Counting(fetched[d])
  IN SetWith(d, record, IF UsedUp(record) THEN "sending" ELSE "gone")

(* A Set that was given up reaches the server after all. *)
LateSet(d) ==
  /\ late[d] # None
  /\ Put(Url(d), late[d])
  /\ late' = [late EXCEPT ![d] = None]
  /\ Meets(Url(d))
  /\ Noted("removal", TRUE)
  /\ UNCHANGED <<apiVars, killing, reporter, fetched, unlock, restarts>>

-----------------------------------------------------------------------------
(* The killer *)

KillFromReporter(d) ==
  /\ killing = None
  /\ reporter[d] = "sending"
  /\ killing' = fetched[d].key
  /\ Leaves(d)
  /\ UNCHANGED <<apiVars, serverVars, unlock, restarts, failed, met>>

(* Del, by the url key.  The killer drops its error. *)
DeleteKey ==
  /\ killing # None
  /\ \E fails \in Fails, arrives \in BOOLEAN :
       LET u == UrlOf[killing]
       IN /\ fails \/ arrives
          /\ \/ /\ arrives
                /\ value' = [value EXCEPT ![u] = None]
                /\ px' = px \ {u}
                /\ Meets(u)
             \/ ~arrives /\ UNCHANGED <<value, px, met>>
          /\ Noted("removal", fails)
  /\ killing' = None
  /\ UNCHANGED <<apiVars, late, reporter, fetched, unlock, restarts>>

-----------------------------------------------------------------------------
(* What is lost when the process ends now. *)
LostByRestart ==
  {w \in {"count", "removal"} :
     \/ w = "count" /\ \E d \in Downloads : reporter[d] \in {"get", "set"}
     \/ w = "removal" /\ (killing # None \/ \E d \in Downloads : reporter[d] = "sending")}

(* The process ends, whatever it is doing, and is started again on the     *)
(* same server.                                                            *)
Restart ==
  /\ restarts < MaxRestarts
  /\ restarts' = restarts + 1
  /\ killing' = None
  /\ reporter' = [d \in Downloads |-> IF reporter[d] = "none" THEN "none" ELSE "gone"]
  /\ fetched' = [d \in Downloads |-> None]
  /\ handler' = [d \in Downloads |-> IF handler[d] = "idle" THEN "idle" ELSE "done"]
  /\ adding' = [k \in Keys |-> IF adding[k] = "submitted" THEN "refused" ELSE adding[k]]
  /\ failed' = failed \cup LostByRestart
  /\ UNCHANGED <<serverVars, unlock, met>>
  /\ UNCHANGED <<expired, key, served, report, ctxDone>>

(* The steps of the handlers that leave the store alone. *)
HandlerStep ==
  \/ \E k \in Keys : Expire(k) \/ Submit(k)
  \/ \E d \in Downloads : ReturnStep(d) \/ Deadline(d)

Next ==
  \/ HandlerStep /\ UNCHANGED storeVars
  \/ \E k \in Keys : AddKey(k)
  \/ \E u \in UrlKeys : ServerExpires(u)
  \/ \E d \in Downloads :
       \/ \E u \in UrlKeys : Access(d, u)
       \/ Unlock(d) \/ ReporterLeaves(d) \/ ReporterReceives(d)
       \/ ReporterGets(d) \/ ReporterSets(d) \/ LateSet(d) \/ KillFromReporter(d)
  \/ DeleteKey
  \/ Restart

Spec == Init /\ [][Next]_vars

-----------------------------------------------------------------------------
(* Properties *)

(* The downloads served at u whose report was received. *)
UsesAt(u) ==
  {d \in Downloads :
     key[d] # None /\ Url(d) = u /\ served[d] /\ report[d] = "sent"}

(* No use is counted twice, nor one that was not served, whatever becomes  *)
(* of the commands, whichever key's value the reporter finds and whatever  *)
(* an old value overwrites.                                                *)
CountedAtMostOnce ==
  \A u \in UrlKeys :
    value[u] # None => value[u].used <= Cardinality(UsesAt(u))

(* No other key is, or was, on its way to the url key of k. *)
HasOwnUrl(k) ==
  \A l \in Keys \ {k} : UrlOf[l] = UrlOf[k] => adding[l] \in {"idle", "submitted"}

(* The downloads with k whose reporter has done its count. *)
Counted(k) ==
  {d \in ServedWith(k) : report[d] = "sent" /\ reporter[d] \in {"sending", "gone"}}

(* What makes a count inexact is a reporter that meets another command     *)
(* between its Get and its Set, a command that fails, or a restart that    *)
(* comes before the Set: without them no use that was reported is lost.    *)
CountsAreExact ==
  "count" \notin failed =>
    \A k \in Keys :
      LET u == UrlOf[k]
      IN (HasOwnUrl(k) /\ u \notin met /\ value[u] # None) =>
           value[u].used = Cardinality(Counted(k))

(* A value that is used up is on its way out, also when reporters write    *)
(* each other's counts over and bring a deleted key back: whoever writes a *)
(* used up value tells the killer.  Only a Set that the server gets late,  *)
(* a Del that fails and a restart forget about it.                         *)
UsedUpIsLeaving ==
  "removal" \notin failed =>
    \A u \in UrlKeys :
      (value[u] # None /\ UsedUp(value[u]) /\ value[u].used > 0) =>
        \/ killing # None /\ UrlOf[killing] = u
        \/ \E d \in Downloads : reporter[d] = "sending" /\ UrlOf[fetched[d].key] = u

(* The value of a url key that no other key was added to is only gone if   *)
(* its ttl is over or it was served as often as its limit says.            *)
GoneForCause ==
  \A k \in Keys :
    (HasOwnUrl(k) /\ adding[k] = "added" /\ value[UrlOf[k]] = None) =>
      k \in expired \/ Reaches(k, Cardinality(ServedWith(k)))

-----------------------------------------------------------------------------
(* "key is invalid" (router.go) is what a download is told whose unlock    *)
(* key the key was not made with.  Of the valid keys of a key all but one  *)
(* are told so, too.                                                       *)
ValidKeyUnlocks ==
  \A d \in Downloads :
    (unlock[d] # None /\ ~unlock[d].valid) => unlock[d].sent \notin ValidKeys[key[d]]

=============================================================================
