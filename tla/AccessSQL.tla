----------------------------- MODULE AccessSQL -----------------------------
(***************************************************************************)
(* access.SQLStore under the handlers of ApiAccess: the keys are rows of a *)
(* database, and every method runs under one mutex from its first query to *)
(* its return.  The reporter of a download takes the mutex too, and holds  *)
(* it while it sends a used up key to the killer; the killer takes it to   *)
(* delete the row.  Rows outlive the process, goroutines do not.           *)
(*                                                                         *)
(* A row is named by the key it was made from: its ID is given once, and   *)
(* a deleted row stays in the table with its ID, unseen by the queries.    *)
(***************************************************************************)
EXTENDS ApiAccess

CONSTANTS
  DbFails,       \* whether a query may fail
  MaxRestarts    \* how often the process is started again

ASSUME DbFailsAssumption == DbFails \in BOOLEAN
ASSUME MaxRestartsAssumption == MaxRestarts \in Nat

VARIABLES
  rows,      \* the keys with a row that is not deleted
  used,      \* used[k]: used_times of the row of k
  timer,     \* timer[k]: the goroutine that waits for the ttl of k
  killing,   \* the key the killer has received and not yet deleted
  reporter,  \* reporter[d]: the goroutine Access started for d
  holder,    \* the download whose reporter holds the mutex and sends
  failed,    \* whether a query has failed so far
  restarts   \* how often the process was started again

storeVars == <<rows, used, timer, killing, reporter, holder, failed, restarts>>
vars == <<apiVars, storeVars>>

TypeOK ==
  /\ ApiTypeOK
  /\ rows \subseteq Keys
  /\ used \in [Keys -> Nat]
  /\ timer \in [Keys -> {"none", "waiting", "sending", "gone"}]
  /\ killing \in Keys \cup {None}
  /\ reporter \in [Downloads -> {"none", "waiting", "received", "sending", "gone"}]
  /\ holder \in Downloads \cup {None}
  /\ failed \in BOOLEAN
  /\ restarts \in 0..MaxRestarts

Init ==
  /\ ApiInit
  /\ rows = {}
  /\ used = [k \in Keys |-> 0]
  /\ timer = [k \in Keys |-> "none"]
  /\ killing = None
  /\ reporter = [d \in Downloads |-> "none"]
  /\ holder = None
  /\ failed = FALSE
  /\ restarts = 0

(* The rows WHERE url_key = u finds. *)
RowsAt(u) == {k \in rows : UrlOf[k] = u}

(* Whether a query finds what there is; how one that changes rows ends,    *)
(* which may return an error although it was executed ("lost"); and what   *)
(* is noted when all queries of a method went well or not.                 *)
ReadEnds == IF DbFails THEN BOOLEAN ELSE {TRUE}
WriteEnds == IF DbFails THEN {"done", "failed", "lost"} ELSE {"done"}
Queried(well) == failed' = (failed \/ ~well)

(* Every method but the sending reporter gets the mutex and gives it back  *)
(* in one step.                                                            *)
Locked == holder = None

-----------------------------------------------------------------------------
(* AddKey, and the goroutines that wait for the ttl *)

(* A key is added to a url key that may be taken.  When the Create returns *)
(* an error the key is refused and gets no timer, with a row or without.   *)
AddsUnless(k, taken, create) ==
  LET adds == create = "done" /\ ~taken
  IN /\ Locked
     /\ Adds(k, "submitted", IF adds THEN "added" ELSE "refused")
     /\ rows' = IF taken \/ create = "failed" THEN rows ELSE rows \cup {k}
     /\ timer' = IF adds /\ k \in Expiring THEN [timer EXCEPT ![k] = "waiting"] ELSE timer
     /\ UNCHANGED <<used, killing, reporter, holder, restarts>>

(* Mutant: does not look whether the url key is taken. *)
AddKey_Unseen(k) ==
  \E create \in WriteEnds :
    AddsUnless(k, FALSE, create) /\ Queried(create = "done")

(* A First that fails otherwise than with ErrRecordNotFound counts as no   *)
(* row found.  The goroutine behind timeKiller never waits for the mutex,  *)
(* so it takes the key at once.                                            *)
AddKey(k) ==
  \E looked \in ReadEnds, create \in WriteEnds :
    LET taken == looked /\ RowsAt(UrlOf[k]) # {}
    IN /\ AddsUnless(k, taken, create)
       /\ Queried(looked /\ (taken \/ create = "done"))

TimerFires(k) ==
  /\ timer[k] = "waiting"
  /\ k \in expired
  /\ timer' = [timer EXCEPT ![k] = "sending"]
  /\ UNCHANGED <<apiVars, rows, used, killing, reporter, holder, failed, restarts>>

-----------------------------------------------------------------------------
(* Access and its reporter *)

(* A First that fails counts as no row found, too.  Of several rows it has *)
(* the one with the lowest ID, here any of them.                           *)
Access(d, u) ==
  /\ Locked
  /\ \E looked \in ReadEnds :
       /\ Queried(looked)
       /\ \/ \E k \in RowsAt(u) :
               /\ looked
               /\ Accessed(d, k)
               /\ reporter' = [reporter EXCEPT ![d] = "waiting"]
          \/ /\ RowsAt(u) = {} \/ ~looked
             /\ Accessed(d, None)
             /\ UNCHANGED reporter
  /\ UNCHANGED <<rows, used, timer, killing, holder, restarts>>

ReporterLeaves(d) ==
  /\ reporter[d] = "waiting"
  /\ d \in ctxDone
  /\ reporter' = [reporter EXCEPT ![d] = "gone"]
  /\ UNCHANGED <<apiVars, rows, used, timer, killing, holder, failed, restarts>>

ReporterReceives(d) ==
  /\ reporter[d] = "waiting"
  /\ Reported(d)
  /\ reporter' = [reporter EXCEPT ![d] = "received"]
  /\ UNCHANGED <<rows, used, timer, killing, holder, failed, restarts>>

(* What the reporter's critical section does: it counts the use or not,    *)
(* and kills if the count it has found is a limited key's, and reaches the *)
(* limit by the margin.                                                    *)
CountsWith(d, counts, limited, margin) ==
  /\ Locked
  /\ reporter[d] = "received"
  /\ \E read \in ReadEnds, update \in WriteEnds :
       LET k == key[d]
           seen == read /\ k \in rows
           found == IF seen THEN used[k] ELSE 0
           kills == seen /\ k \in limited /\ found >= Limit[k] + margin
       IN /\ used' = [l \in Keys |->
                         IF counts /\ update # "failed" /\ l \in RowsAt(UrlOf[k])
                         THEN found + 1 ELSE used[l]]
          /\ reporter' = [reporter EXCEPT ![d] = IF kills THEN "sending" ELSE "gone"]
          /\ holder' = IF kills THEN d ELSE None
          /\ Queried(read /\ (counts => update = "done"))
  /\ UNCHANGED <<apiVars, rows, timer, killing, restarts>>

(* Mutants: counts whatever the message says, > for >=, and no look at     *)
(* dbKey.Limited.                                                          *)
ReporterCounts_Unread(d) == CountsWith(d, TRUE, Limited, 0)
ReporterCounts_Exceeds(d) == CountsWith(d, served[d], Limited, 1)
ReporterCounts_Unlimited(d) == CountsWith(d, served[d], Keys, 0)

(* Finds its row by ID and writes the count to the row that has the url    *)
(* key by now.  Its own row being deleted, or First failing, it has found  *)
(* the zero value: nothing used, no limit.  The limit is held against the  *)
(* count it found, not against the one it has written.                     *)
ReporterCounts(d) == CountsWith(d, served[d], Limited, 0)

-----------------------------------------------------------------------------
(* The killer *)

(* The deferred unlock follows the send. *)
KillFromReporter(d) ==
  /\ killing = None
  /\ reporter[d] = "sending"
  /\ reporter' = [reporter EXCEPT ![d] = "gone"]
  /\ holder' = None
  /\ killing' = key[d]
  /\ UNCHANGED <<apiVars, rows, used, timer, failed, restarts>>

KillFromTimer(k) ==
  /\ killing = None
  /\ timer[k] = "sending"
  /\ timer' = [timer EXCEPT ![k] = "gone"]
  /\ killing' = k
  /\ UNCHANGED <<apiVars, rows, used, reporter, holder, failed, restarts>>

(* By its url key.  The killer drops the error of the Delete. *)
DeleteKey ==
  /\ Locked
  /\ killing # None
  /\ \E delete \in WriteEnds :
       /\ rows' = IF delete = "failed" THEN rows ELSE rows \ RowsAt(UrlOf[killing])
       /\ Queried(delete = "done")
  /\ killing' = None
  /\ UNCHANGED <<apiVars, used, timer, reporter, holder, restarts>>

-----------------------------------------------------------------------------
(* The process ends, whatever it is doing, and is started again on the     *)
(* same database.  NewSQLStore starts the killer and no timer.  A reporter *)
(* that had not got to its critical section never will ("none").           *)
Restart ==
  /\ restarts < MaxRestarts
  /\ restarts' = restarts + 1
  /\ timer' = [k \in Keys |-> "none"]
  /\ killing' = None
  /\ holder' = None
  /\ reporter' = [d \in Downloads |->
                    IF reporter[d] \in {"sending", "gone"} THEN "gone" ELSE "none"]
  /\ handler' = [d \in Downloads |-> IF handler[d] = "idle" THEN "idle" ELSE "done"]
  /\ adding' = [k \in Keys |-> IF adding[k] = "submitted" THEN "refused" ELSE adding[k]]
  /\ UNCHANGED <<rows, used, failed, expired, key, served, report, ctxDone>>

Next ==
  \/ ApiStep /\ UNCHANGED storeVars
  \/ \E k \in Keys : AddKey(k) \/ TimerFires(k) \/ KillFromTimer(k)
  \/ \E d \in Downloads :
       \/ \E u \in UrlKeys : Access(d, u)
       \/ ReporterLeaves(d) \/ ReporterReceives(d) \/ ReporterCounts(d)
       \/ KillFromReporter(d)
  \/ DeleteKey
  \/ Restart

Spec == Init /\ [][Next]_vars

-----------------------------------------------------------------------------
(* Properties *)

(* "key assigned to url key %v already exists" (access/access.go): AddKey  *)
(* looks and creates under the mutex, so no url key ever has two rows, as  *)
(* long as no query fails.                                                 *)
OneRowPerUrlKey ==
  ~failed => \A u \in UrlKeys : Cardinality(RowsAt(u)) <= 1

(* The downloads with k whose reporter has done its count. *)
Counted(k) ==
  {d \in ServedWith(k) : report[d] = "sent" /\ reporter[d] \in {"sending", "gone"}}

(* No use that was reported is lost or counted twice, by any interleaving  *)
(* of the reporters or by a restart, as long as no download was granted    *)
(* with another key of the same url key.                                   *)
CountsAreExact ==
  ~failed =>
    \A k \in rows :
      (\A d \in Downloads : key[d] \notin {None, k} => UrlOf[key[d]] # UrlOf[k])
        => used[k] = Cardinality(Counted(k))

(* And if one was, a late report of it writes into the row of k, but never *)
(* adds more than one use.                                                 *)
OvercountedByOne ==
  ~failed => \A k \in Keys : used[k] <= 1 + Cardinality(ServedWith(k))

(* A row counted beyond its limit is on its way out.  (One that has just   *)
(* reached its limit is not: the download after the last is the one that   *)
(* finds it used up.)  A restart forgets about it, and so may a query.     *)
OverusedIsLeaving ==
  (~failed /\ restarts = 0) =>
    \A k \in rows \cap Limited :
      (Limit[k] > 0 /\ used[k] > Limit[k]) =>
        \E l \in Keys : /\ UrlOf[l] = UrlOf[k]
                       /\ \/ killing = l
                          \/ \E d \in Downloads : key[d] = l /\ reporter[d] = "sending"

(* Whether k may have been given a row: it was added, or refused when a    *)
(* query had failed, since the Create may have been executed all the same. *)
MayHaveRow(k) == adding[k] = "added" \/ (failed /\ adding[k] = "refused")

(* The row of a key that was added is only deleted when the key expired or *)
(* was served as often as its limit says, if no other key may ever have    *)
(* had a row for the same url key; whatever queries failed, executed or    *)
(* not, and whatever the restarts cut short.                               *)
GoneForCause ==
  \A k \in Keys :
    (adding[k] = "added" /\ k \notin rows) =>
      \/ k \in expired
      \/ \E l \in Keys \ {k} : UrlOf[l] = UrlOf[k] /\ MayHaveRow(l)
      \/ Reaches(k, Cardinality(ServedWith(k)))

(* "channel, bKey, errGo := db.Access(context.TODO(), aKey.UrlKey)"        *)
(* (access/access_test.go): Access returns.  It does not once the killer,  *)
(* which has received one key, waits for the mutex, and a reporter, which  *)
(* has the mutex, waits for the killer to receive another.                 *)
AccessReturns == ~(holder # None /\ killing # None)
=============================================================================
