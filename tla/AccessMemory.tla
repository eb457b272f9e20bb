---------------------------- MODULE AccessMemory ----------------------------
(***************************************************************************)
(* access.MemoryStore under the handlers of ApiAccess.  Behind them run a  *)
(* goroutine per download that counts the use (the reporter), one per      *)
(* expiring key that waits for its end (the timer), and the killer, which  *)
(* removes keys from the map.                                              *)
(*                                                                         *)
(* The map is a sync.Map: a Load, Store or Delete is atomic and nothing    *)
(* holds between them.  The channels are unbuffered: a send blocks until   *)
(* it is received.                                                         *)
(***************************************************************************)
EXTENDS ApiAccess

VARIABLES
  stored,    \* stored[u]: the key the map has under u
  used,      \* used[k]: k.usedTimes
  timer,     \* timer[k]: the goroutine that waits for the ttl of k
  killing,   \* the key the killer has received and not yet deleted
  reporter   \* reporter[d]: the goroutine Access started for d

storeVars == <<stored, used, timer, killing, reporter>>
vars == <<apiVars, storeVars>>

TypeOK ==
  /\ ApiTypeOK
  /\ stored \in [UrlKeys -> Keys \cup {None}]
  /\ used \in [Keys -> Nat]
  /\ timer \in [Keys -> {"none", "waiting", "sending", "gone"}]
  /\ killing \in Keys \cup {None}
  /\ reporter \in [Downloads -> {"none", "waiting", "count", "check", "sending", "gone"}]

Init ==
  /\ ApiInit
  /\ stored = [u \in UrlKeys |-> None]
  /\ used = [k \in Keys |-> 0]
  /\ timer = [k \in Keys |-> "none"]
  /\ killing = None
  /\ reporter = [d \in Downloads |-> "none"]

-----------------------------------------------------------------------------
(* AddKey, and the goroutines that wait for the ttl *)

AddLoad(k) ==
  /\ Adds(k, "submitted", IF stored[UrlOf[k]] = None THEN "store" ELSE "refused")
  /\ UNCHANGED storeVars

AddStore(k) ==
  /\ Adds(k, "store", IF k \in Expiring THEN "send" ELSE "added")
  /\ stored' = [stored EXCEPT ![UrlOf[k]] = k]
  /\ UNCHANGED <<used, timer, killing, reporter>>

(* Mutant: the goroutine takes the key and starts no timer. *)
AddSend_NoTimer(k) ==
  /\ Adds(k, "send", "added")
  /\ UNCHANGED storeVars

(* The goroutine behind timeKiller takes the key and starts its timer. *)
AddSend(k) ==
  /\ Adds(k, "send", "added")
  /\ timer' = [timer EXCEPT ![k] = "waiting"]
  /\ UNCHANGED <<stored, used, killing, reporter>>

(* Mutant: does not wait. *)
TimerFires_AtOnce(k) ==
  /\ timer[k] = "waiting"
  /\ timer' = [timer EXCEPT ![k] = "sending"]
  /\ UNCHANGED <<apiVars, stored, used, killing, reporter>>

TimerFires(k) ==
  /\ timer[k] = "waiting"
  /\ k \in expired
  /\ timer' = [timer EXCEPT ![k] = "sending"]
  /\ UNCHANGED <<apiVars, stored, used, killing, reporter>>

-----------------------------------------------------------------------------
(* Access and its reporter *)

(* Neither here nor later is the ttl or the count looked at.  On an error  *)
(* the channel Access returns is nil and no reporter is started.           *)
Access(d, u) ==
  /\ Accessed(d, stored[u])
  /\ reporter' = [reporter EXCEPT ![d] = IF stored[u] = None THEN "none" ELSE "waiting"]
  /\ UNCHANGED <<stored, used, timer, killing>>

(* Mutant: does not wait for a sender that is not there yet. *)
ReporterLeaves_AtOnce(d) ==
  /\ reporter[d] = "waiting"
  /\ report[d] = "none"
  /\ reporter' = [reporter EXCEPT ![d] = "gone"]
  /\ UNCHANGED <<apiVars, stored, used, timer, killing>>

(* The reporter's select: whichever is ready, and either if both are. *)
ReporterLeaves(d) ==
  /\ reporter[d] = "waiting"
  /\ d \in ctxDone
  /\ reporter' = [reporter EXCEPT ![d] = "gone"]
  /\ UNCHANGED <<apiVars, stored, used, timer, killing>>

(* Mutant: counts whatever the message says. *)
ReporterReceives_Unread(d) ==
  /\ reporter[d] = "waiting"
  /\ Reported(d)
  /\ reporter' = [reporter EXCEPT ![d] = "count"]
  /\ UNCHANGED <<stored, used, timer, killing>>

ReporterReceives(d) ==
  /\ reporter[d] = "waiting"
  /\ Reported(d)
  /\ reporter' = [reporter EXCEPT ![d] = IF served[d] THEN "count" ELSE "check"]
  /\ UNCHANGED <<stored, used, timer, killing>>

Count(d) ==
  /\ reporter[d] = "count"
  /\ used' = [used EXCEPT ![key[d]] = @ + 1]
  /\ reporter' = [reporter EXCEPT ![d] = "check"]
  /\ UNCHANGED <<apiVars, stored, timer, killing>>

CheckWith(d, kill) ==
  /\ reporter[d] = "check"
  /\ reporter' = [reporter EXCEPT ![d] = IF kill THEN "sending" ELSE "gone"]
  /\ UNCHANGED <<apiVars, stored, used, timer, killing>>

(* Mutants: > for >=, = for >=, and no look at k.limited. *)
Check_Exceeds(d) == CheckWith(d, key[d] \in Limited /\ used[key[d]] > Limit[key[d]])
Check_Equals(d) == CheckWith(d, key[d] \in Limited /\ used[key[d]] = Limit[key[d]])
Check_Unlimited(d) == CheckWith(d, used[key[d]] >= Limit[key[d]])

Exhausted(k) == Reaches(k, used[k])

Check(d) == CheckWith(d, Exhausted(key[d]))

-----------------------------------------------------------------------------
(* The killer *)

KillFromReporter(d) ==
  /\ killing = None
  /\ reporter[d] = "sending"
  /\ reporter' = [reporter EXCEPT ![d] = "gone"]
  /\ killing' = key[d]
  /\ UNCHANGED <<apiVars, stored, used, timer>>

KillFromTimer(k) ==
  /\ killing = None
  /\ timer[k] = "sending"
  /\ timer' = [timer EXCEPT ![k] = "gone"]
  /\ killing' = k
  /\ UNCHANGED <<apiVars, stored, used, reporter>>

(* Mutant: the killer stops after its first key. *)
DeleteKey_Once ==
  /\ killing # None
  /\ stored' = [stored EXCEPT ![UrlOf[killing]] = None]
  /\ UNCHANGED <<apiVars, used, timer, killing, reporter>>

(* By its url key, whichever key is stored there by now.  Only the killer  *)
(* deletes, so DeleteKey's Load and Delete are one step.                   *)
DeleteKey ==
  /\ killing # None
  /\ stored' = [stored EXCEPT ![UrlOf[killing]] = None]
  /\ killing' = None
  /\ UNCHANGED <<apiVars, used, timer, reporter>>

-----------------------------------------------------------------------------
AddStep(k) == AddLoad(k) \/ AddStore(k) \/ AddSend(k) \/ TimerFires(k)
ReporterStep(d) == ReporterLeaves(d) \/ ReporterReceives(d) \/ Count(d) \/ Check(d)

Next ==
  \/ ApiStep /\ UNCHANGED storeVars
  \/ \E k \in Keys : AddStep(k) \/ KillFromTimer(k)
  \/ \E d \in Downloads :
       (\E u \in UrlKeys : Access(d, u)) \/ ReporterStep(d) \/ KillFromReporter(d)
  \/ DeleteKey

Spec == Init /\ [][Next]_vars

(***************************************************************************)
(* Every goroutine that can run is scheduled, and the senders blocked on a *)
(* channel are received in the order they came, so none is passed over     *)
(* forever.  Nothing makes requests come, time pass, or a Download end.    *)
(***************************************************************************)
Fairness ==
  /\ \A k \in Keys : WF_vars(AddStep(k))
  /\ \A k \in Expiring : SF_vars(KillFromTimer(k))
  /\ \A d \in Downloads : /\ WF_vars(ReturnStep(d) /\ UNCHANGED storeVars)
                          /\ WF_vars(ReporterStep(d))
                          /\ SF_vars(KillFromReporter(d))
  /\ WF_vars(DeleteKey)

FairSpec == Spec /\ Fairness

-----------------------------------------------------------------------------
(* Properties *)

Stored(k) == stored[UrlOf[k]] = k

(* A key that has been used up and is still in the map is on its way out:  *)
(* some reporter is about to find that out or to tell the killer, or the   *)
(* killer has been told.  No interleaving of the counting loses the kill.  *)
Leaving(k) ==
  \/ killing = k
  \/ \E d \in Downloads : key[d] = k /\ reporter[d] \in {"check", "sending"}

UsedUpIsLeaving ==
  \A k \in Keys : (Stored(k) /\ Exhausted(k) /\ used[k] > 0) => Leaving(k)

(* Access does not look at the count, so a download may be granted a key   *)
(* beyond its limit, but only while the killer is still to be told of the  *)
(* key or is deleting it: never once everything before has come to rest.   *)
Overdraws(k) == Exhausted(k) /\ used[k] > 0
GrantsInTime ==
  \A d \in Downloads :
    (handler[d] = "idle" /\ handler'[d] = "granted" /\ Overdraws(key'[d]))
      => Leaving(key'[d])
OverdrawnWhileLeaving == [][GrantsInTime]_vars

(* Who sends a backMessage for a key finds its reporter there to take it,  *)
(* until the context is over: only then can the sender wait forever.       *)
SenderHasReceiver ==
  \A d \in Downloads :
    (key[d] # None /\ report[d] = "sending" /\ d \notin ctxDone)
      => reporter[d] = "waiting"

(* A key with a ttl that is in the map has a timer, or is about to get it, *)
(* or its removal has begun.                                               *)
ExpiringIsTimed ==
  \A k \in Expiring :
    Stored(k) =>
      adding[k] = "send" \/ timer[k] \in {"waiting", "sending"} \/ killing = k

(* The killer is only ever sent keys that are used up or expired. *)
KilledForCause ==
  \A k \in Keys :
    (\/ killing = k
     \/ timer[k] = "sending"
     \/ \E d \in Downloads : key[d] = k /\ reporter[d] = "sending")
      => Exhausted(k) \/ k \in expired

(* The downloads with k whose reporter has done its count. *)
Counted(k) ==
  {d \in ServedWith(k) :
     report[d] = "sent" /\ reporter[d] \in {"check", "sending", "gone"}}

(* No use that was reported is lost or counted twice, by any interleaving  *)
(* of the reporters and whatever happens to the key meanwhile.             *)
CountsAreExact == \A k \in Keys : used[k] = Cardinality(Counted(k))

(* What the properties before rest on: a key lies under its own url key,   *)
(* nobody has a key before it is stored, and a reporter has one.           *)
KeysHandedOut ==
  /\ \A u \in UrlKeys : stored[u] # None => UrlOf[stored[u]] = u
  /\ \A k \in Keys :
       adding[k] \notin {"send", "added"} =>
         /\ ~Stored(k)
         /\ used[k] = 0
         /\ killing # k /\ timer[k] = "none"
         /\ \A d \in Downloads : key[d] # k
  /\ \A d \in Downloads :
       /\ handler[d] = "idle" => reporter[d] = "none"
       /\ reporter[d] \notin {"none", "gone"} => key[d] \in Keys

(* A used up key is removed, and so is an expired one. *)
UsedUpGoes ==
  \A k \in Limited : (Stored(k) /\ Exhausted(k) /\ used[k] > 0) ~> ~Stored(k)
ExpiredGoes == \A k \in Expiring : (Stored(k) /\ k \in expired) ~> ~Stored(k)

(* No reporter outlives its download: once the handler returns, it has its *)
(* message or the end of the context, and the killer takes what it sends.  *)
ReporterEnds ==
  \A d \in Downloads : handler[d] = "returning" ~> reporter[d] \in {"none", "gone"}

(* A key that was added is found until it is used up or expired, as long   *)
(* as no other key was added to its url key, before it or at once with it. *)
Set(k) == adding[k] \in {"send", "added"}
Kept(k) == Set(k) => Stored(k) \/ Exhausted(k) \/ k \in expired
HasOwnUrl(k) == \A l \in Keys \ {k} : UrlOf[l] = UrlOf[k] => ~Set(l)
GoneForCause == \A k \in Keys : HasOwnUrl(k) => Kept(k)

-----------------------------------------------------------------------------
(* What the program says of itself and the code does not keep.             *)

(* A download that was served is counted against the limit of its key,     *)
(* once everything the download started has ended.  The handler cancels    *)
(* the context right after it starts the goroutine that sends the report,  *)
(* and the reporter may take the one for the other.                        *)
UsesCounted ==
  \A k \in Keys :
    (\A d \in Downloads : key[d] = k => handler[d] = "done" /\ reporter[d] = "gone")
      => used[k] = Cardinality(ServedWith(k))
=============================================================================
