--------------------------- MODULE AccessSQLProofs ---------------------------
(***************************************************************************)
(* What is proved of AccessSQL for every set of keys and url keys, any     *)
(* finite number of downloads, any limits and ttls, any number of restarts *)
(* and queries that fail or not.                                           *)
(***************************************************************************)
EXTENDS AccessSQL, FiniteSetTheorems, TLAPS

USE DEF apiVars, addVars, downloadVars, storeVars, vars

-----------------------------------------------------------------------------
(* Types, and the order in which keys and reports come.                    *)

(* Nobody has a key, and no count is written for it, before it may have    *)
(* been given a row.                                                       *)
OnlyAdded ==
  /\ \A k \in rows : MayHaveRow(k)
  /\ \A k \in Keys : timer[k] # "none" => MayHaveRow(k)
  /\ \A k \in Keys : ~MayHaveRow(k) => used[k] = 0
  /\ \A d \in Downloads : key[d] # None => MayHaveRow(key[d])
  /\ killing # None => MayHaveRow(killing)

ReportInOrder(d) ==
  /\ handler[d] = "idle" => key[d] = None
  /\ handler[d] \in {"idle", "granted"} => ~served[d]
  /\ handler[d] \in {"idle", "granted", "returning"} => report[d] = "none"
  /\ reporter[d] \in {"waiting", "received", "sending"} => key[d] # None
  /\ reporter[d] = "waiting" => report[d] # "sent"
  /\ reporter[d] = "received" => report[d] = "sent"

ReportsInOrder == \A d \in Downloads : ReportInOrder(d)

Handed == TypeOK /\ OnlyAdded /\ ReportsInOrder

LEMMA InitHanded == Init => Handed
<1> SUFFICES ASSUME Init PROVE Handed
  OBVIOUS
<1> USE NoKeyAssumption DEF Init, ApiInit
<1>1. TypeOK
  <2>1. ApiTypeOK
    BY DEF ApiTypeOK
  <2>2. failed \in BOOLEAN
    OBVIOUS
  <2>3. restarts \in 0..MaxRestarts
    BY MaxRestartsAssumption
  <2> QED
    BY <2>1, <2>2, <2>3 DEF TypeOK
<1>2. OnlyAdded
  BY DEF OnlyAdded
<1>3. ReportsInOrder
  BY DEF ReportsInOrder, ReportInOrder
<1> QED
  BY <1>1, <1>2, <1>3 DEF Handed

(* The critical section of a reporter: what it finds, whether it writes,   *)
(* and whether it is told that it did.                                     *)
Counting(d, found, seen, written, told) ==
  /\ seen => key[d] \in rows /\ found = used[key[d]]
  /\ ~seen => found = 0
  /\ \A l \in Keys :
       used'[l] = IF served[d] /\ written /\ l \in RowsAt(UrlOf[key[d]])
                  THEN found + 1 ELSE used[l]
  /\ ~failed' => ~failed /\ (key[d] \in rows => seen) /\ (served[d] => told)
  /\ told => written
  /\ reporter'[d] = IF seen /\ key[d] \in Limited /\ found >= Limit[key[d]]
                    THEN "sending" ELSE "gone"

LEMMA ReporterCountsIs ==
  ASSUME TypeOK, NEW d \in Downloads, ReporterCounts(d)
  PROVE  /\ reporter[d] = "received" /\ holder = None
         /\ UNCHANGED <<apiVars, rows, timer, killing, restarts>>
         /\ used' \in [Keys -> Nat]
         /\ reporter' \in [Downloads -> {"none", "waiting", "received", "sending", "gone"}]
         /\ holder' \in {d, None} /\ failed' \in BOOLEAN
         /\ \A c \in Downloads \ {d} : reporter'[c] = reporter[c]
         /\ \E found \in Nat, seen, written, told \in BOOLEAN :
              Counting(d, found, seen, written, told)
<1>1. PICK read \in ReadEnds, update \in WriteEnds :
        LET k == key[d]
            seen == read /\ k \in rows
            found == IF seen THEN used[k] ELSE 0
            kills == seen /\ k \in Limited /\ found >= Limit[k] + 0
        IN /\ used' = [l \in Keys |->
                         IF served[d] /\ update # "failed" /\ l \in RowsAt(UrlOf[k])
                         THEN found + 1 ELSE used[l]]
           /\ reporter' = [reporter EXCEPT ![d] = IF kills THEN "sending" ELSE "gone"]
           /\ holder' = IF kills THEN d ELSE None
           /\ Queried(read /\ (served[d] => update = "done"))
  BY DEF ReporterCounts, CountsWith
<1> DEFINE seen == read /\ key[d] \in rows
           found == IF seen THEN used[key[d]] ELSE 0
           written == update # "failed"
           told == update = "done"
<1>2. read \in BOOLEAN /\ served[d] \in BOOLEAN /\ failed \in BOOLEAN
  BY DEF ReadEnds, TypeOK, ApiTypeOK
<1>3. found \in Nat /\ seen \in BOOLEAN /\ \A k \in Keys : Limit[k] + 0 = Limit[k]
  BY <1>2, LimitAssumption DEF TypeOK
<1>4. /\ failed' \in BOOLEAN
      /\ ~failed' => ~failed /\ (key[d] \in rows => seen) /\ (served[d] => told)
      /\ told => written
  BY <1>1, <1>2 DEF Queried
<1>5. /\ reporter[d] = "received" /\ holder = None
      /\ UNCHANGED <<apiVars, rows, timer, killing, restarts>>
  BY DEF ReporterCounts, CountsWith, Locked
<1>6. /\ used' \in [Keys -> Nat] /\ holder' \in {d, None}
      /\ reporter' \in [Downloads -> {"none", "waiting", "received", "sending", "gone"}]
      /\ \A c \in Downloads \ {d} : reporter'[c] = reporter[c]
  BY <1>1, <1>3 DEF TypeOK
<1>7. Counting(d, found, seen, written, told)
  <2>1. \A l \in Keys :
          used'[l] = IF served[d] /\ written /\ l \in RowsAt(UrlOf[key[d]])
                     THEN found + 1 ELSE used[l]
    BY <1>1
  <2>2. reporter'[d] = IF seen /\ key[d] \in Limited /\ found >= Limit[key[d]]
                       THEN "sending" ELSE "gone"
    BY <1>1, <1>3, LimitAssumption DEF TypeOK
  <2> QED
    BY <1>4, <2>1, <2>2 DEF Counting
<1> QED
  BY <1>2, <1>3, <1>4, <1>5, <1>6, <1>7

LEMMA StepTyped ==
  ASSUME TypeOK, OnlyAdded, ReportsInOrder, [Next]_vars
  PROVE  TypeOK'
<1> USE UrlOfAssumption DEF TypeOK, ApiTypeOK
<1>1. CASE ApiStep /\ UNCHANGED storeVars
  BY <1>1
  DEF ApiStep, Expire, Submit, Adds, Handle, ReturnStep, Return, Cancel, Deadline
<1>2. ASSUME NEW k \in Keys, AddKey(k) PROVE TypeOK'
  BY <1>2 DEF AddKey, AddsUnless, Adds, Queried, RowsAt
<1>3. ASSUME NEW k \in Keys, TimerFires(k) \/ KillFromTimer(k) PROVE TypeOK'
  BY <1>3 DEF TimerFires, KillFromTimer
<1>4. ASSUME NEW d \in Downloads, NEW u \in UrlKeys, Access(d, u) PROVE TypeOK'
  BY <1>4 DEF Access, Accessed, Queried, RowsAt
<1>5. ASSUME NEW d \in Downloads, ReporterLeaves(d) \/ ReporterReceives(d) PROVE TypeOK'
  BY <1>5 DEF ReporterLeaves, ReporterReceives, Reported
<1>6. ASSUME NEW d \in Downloads, ReporterCounts(d) PROVE TypeOK'
  BY <1>6, ReporterCountsIs
<1>7. ASSUME NEW d \in Downloads, KillFromReporter(d) PROVE TypeOK'
  BY <1>7 DEF KillFromReporter, ReportsInOrder, ReportInOrder
<1>8. CASE DeleteKey
  BY <1>8 DEF DeleteKey, Queried
<1>9. CASE Restart
  BY <1>9, MaxRestartsAssumption DEF Restart
<1>10. CASE UNCHANGED vars
  BY <1>10
<1> QED
  BY <1>1, <1>2, <1>3, <1>4, <1>5, <1>6, <1>7, <1>8, <1>9, <1>10 DEF Next

LEMMA StepAdded ==
  ASSUME TypeOK, OnlyAdded, ReportsInOrder, [Next]_vars
  PROVE  OnlyAdded'
<1> USE UrlOfAssumption, NoKeyAssumption DEF TypeOK, ApiTypeOK, OnlyAdded, MayHaveRow
<1>1. CASE ApiStep /\ UNCHANGED storeVars
  BY <1>1
  DEF ApiStep, Expire, Submit, Adds, Handle, ReturnStep, Return, Cancel, Deadline
<1>2. ASSUME NEW k \in Keys, AddKey(k) PROVE OnlyAdded'
  <2>1. PICK looked \in ReadEnds, create \in WriteEnds :
          LET taken == looked /\ RowsAt(UrlOf[k]) # {}
          IN /\ AddsUnless(k, taken, create)
             /\ Queried(looked /\ (taken \/ create = "done"))
    BY <1>2 DEF AddKey
  <2> DEFINE taken == looked /\ RowsAt(UrlOf[k]) # {}
             added == create = "done" /\ ~taken
  <2>2. /\ AddsUnless(k, taken, create)
        /\ failed' = (failed \/ ~(looked /\ (taken \/ create = "done")))
    BY <2>1 DEF Queried
  <2>3. /\ adding[k] = "submitted"
        /\ adding' = [adding EXCEPT ![k] = IF added THEN "added" ELSE "refused"]
        /\ rows' = IF taken \/ create = "failed" THEN rows ELSE rows \cup {k}
        /\ timer' = IF added /\ k \in Expiring THEN [timer EXCEPT ![k] = "waiting"] ELSE timer
        /\ UNCHANGED <<used, killing, key>>
    BY <2>2 DEF AddsUnless, Adds
  <2> HIDE DEF taken, added
  <2>4. /\ added => adding'[k] = "added"
        /\ ~added => adding'[k] = "refused"
        /\ added \/ taken \/ create = "failed" \/ failed'
    BY <2>2, <2>3 DEF taken, added, WriteEnds
  <2>5. \A l \in Keys : MayHaveRow(l) => MayHaveRow(l)'
    BY <2>2, <2>3
  <2>6. \A l \in rows' : MayHaveRow(l)'
    BY <2>3, <2>4, <2>5
  <2>7. \A l \in Keys : timer'[l] # "none" => MayHaveRow(l)'
    BY <2>3, <2>4, <2>5
  <2> QED
    BY <2>3, <2>5, <2>6, <2>7
<1>3. ASSUME NEW k \in Keys, TimerFires(k) \/ KillFromTimer(k) PROVE OnlyAdded'
  BY <1>3 DEF TimerFires, KillFromTimer
<1>4. ASSUME NEW d \in Downloads, NEW u \in UrlKeys, Access(d, u) PROVE OnlyAdded'
  BY <1>4 DEF Access, Accessed, Queried, RowsAt
<1>5. ASSUME NEW d \in Downloads, ReporterLeaves(d) \/ ReporterReceives(d) PROVE OnlyAdded'
  BY <1>5 DEF ReporterLeaves, ReporterReceives, Reported
<1>6. ASSUME NEW d \in Downloads, ReporterCounts(d) PROVE OnlyAdded'
  <2>1. UNCHANGED <<apiVars, rows, timer, killing>> /\ (~failed' => ~failed)
    BY <1>6, ReporterCountsIs DEF Counting
  <2>2. \A k \in Keys : k \notin rows => used'[k] = used[k]
    BY <1>6, ReporterCountsIs DEF Counting, RowsAt
  <2> QED
    BY <2>1, <2>2
<1>7. ASSUME NEW d \in Downloads, KillFromReporter(d) PROVE OnlyAdded'
  BY <1>7 DEF KillFromReporter, ReportsInOrder, ReportInOrder
<1>8. CASE DeleteKey
  BY <1>8 DEF DeleteKey, Queried
<1>9. CASE Restart
  BY <1>9 DEF Restart
<1>10. CASE UNCHANGED vars
  BY <1>10
<1> QED
  BY <1>1, <1>2, <1>3, <1>4, <1>5, <1>6, <1>7, <1>8, <1>9, <1>10 DEF Next

LEMMA StepInOrder ==
  ASSUME TypeOK, OnlyAdded, ReportsInOrder, [Next]_vars
  PROVE  ReportsInOrder'
<1> USE NoKeyAssumption DEF TypeOK, ApiTypeOK, ReportsInOrder, ReportInOrder
<1>1. CASE ApiStep /\ UNCHANGED storeVars
  BY <1>1
  DEF ApiStep, Expire, Submit, Adds, Handle, ReturnStep, Return, Cancel, Deadline
<1>2. ASSUME NEW k \in Keys, AddKey(k) PROVE ReportsInOrder'
  BY <1>2 DEF AddKey, AddsUnless, Adds
<1>3. ASSUME NEW k \in Keys, TimerFires(k) \/ KillFromTimer(k) PROVE ReportsInOrder'
  BY <1>3 DEF TimerFires, KillFromTimer
<1>4. ASSUME NEW d \in Downloads, NEW u \in UrlKeys, Access(d, u) PROVE ReportsInOrder'
  BY <1>4 DEF Access, Accessed, RowsAt
<1>5. ASSUME NEW d \in Downloads, ReporterLeaves(d) \/ ReporterReceives(d)
      PROVE  ReportsInOrder'
  BY <1>5 DEF ReporterLeaves, ReporterReceives, Reported
<1>6. ASSUME NEW d \in Downloads, ReporterCounts(d) PROVE ReportsInOrder'
  <2>1. /\ reporter[d] = "received" /\ UNCHANGED apiVars
        /\ reporter'[d] \in {"sending", "gone"}
        /\ \A c \in Downloads \ {d} : reporter'[c] = reporter[c]
    BY <1>6, ReporterCountsIs DEF Counting
  <2> QED
    BY <2>1
<1>7. ASSUME NEW d \in Downloads, KillFromReporter(d) PROVE ReportsInOrder'
  BY <1>7 DEF KillFromReporter
<1>8. CASE DeleteKey
  BY <1>8 DEF DeleteKey
<1>9. CASE Restart
  BY <1>9 DEF Restart
<1>10. CASE UNCHANGED vars
  BY <1>10
<1> QED
  BY <1>1, <1>2, <1>3, <1>4, <1>5, <1>6, <1>7, <1>8, <1>9, <1>10 DEF Next

LEMMA AlwaysHanded == Spec => []Handed
<1>1. Handed /\ [Next]_vars => Handed'
  BY StepTyped, StepAdded, StepInOrder DEF Handed
<1> QED
  BY InitHanded, <1>1, PTL DEF Spec

(* Every variable keeps its type, whatever queries fail and however often  *)
(* the process is started again.                                           *)
THEOREM TypeCorrect == Spec => []TypeOK
BY AlwaysHanded, PTL DEF Handed

-----------------------------------------------------------------------------
(* One row per url key, as long as no query fails. *)

RowsApart == ~failed => \A k, l \in rows : UrlOf[k] = UrlOf[l] => k = l

LEMMA StepRowsApart ==
  ASSUME TypeOK, RowsApart, [Next]_vars
  PROVE  RowsApart'
<1> USE DEF RowsApart, TypeOK
<1>1. CASE ApiStep /\ UNCHANGED storeVars
  BY <1>1
<1>2. ASSUME NEW k \in Keys, AddKey(k) PROVE RowsApart'
  BY <1>2 DEF AddKey, AddsUnless, Queried, ReadEnds, WriteEnds, RowsAt
<1>3. ASSUME NEW k \in Keys, TimerFires(k) \/ KillFromTimer(k) PROVE RowsApart'
  BY <1>3 DEF TimerFires, KillFromTimer
<1>4. ASSUME NEW d \in Downloads, NEW u \in UrlKeys, Access(d, u) PROVE RowsApart'
  BY <1>4 DEF Access, Queried
<1>5. ASSUME NEW d \in Downloads,
             ReporterLeaves(d) \/ ReporterReceives(d) \/ KillFromReporter(d)
      PROVE  RowsApart'
  BY <1>5 DEF ReporterLeaves, ReporterReceives, KillFromReporter
<1>6. ASSUME NEW d \in Downloads, ReporterCounts(d) PROVE RowsApart'
  BY <1>6, ReporterCountsIs DEF Counting
<1>7. CASE DeleteKey
  BY <1>7 DEF DeleteKey, Queried
<1>8. CASE Restart
  BY <1>8 DEF Restart
<1>9. CASE UNCHANGED vars
  BY <1>9
<1> QED
  BY <1>1, <1>2, <1>3, <1>4, <1>5, <1>6, <1>7, <1>8, <1>9 DEF Next

LEMMA AlwaysRowsApart == Spec => []RowsApart
<1>1. Init => RowsApart
  BY DEF Init, RowsApart
<1>2. Handed /\ RowsApart /\ [Next]_vars => RowsApart'
  BY StepRowsApart DEF Handed
<1> QED
  BY <1>1, <1>2, AlwaysHanded, PTL DEF Spec

(* Until a query fails no url key has two rows: AddKey's look and its      *)
(* insert are one critical section.                                        *)
THEOREM OneRow == Spec => []OneRowPerUrlKey
<1>1. RowsApart => OneRowPerUrlKey
  <2> SUFFICES ASSUME RowsApart, ~failed, NEW u \in UrlKeys
               PROVE  Cardinality(RowsAt(u)) <= 1
    BY DEF OneRowPerUrlKey
  <2>1. CASE RowsAt(u) = {}
    BY <2>1, FS_EmptySet
  <2>2. CASE RowsAt(u) # {}
    <3>1. PICK k \in RowsAt(u) : TRUE
      BY <2>2
    <3>2. RowsAt(u) = {k}
      BY <3>1 DEF RowsApart, RowsAt
    <3> QED
      BY <3>2, FS_Singleton
  <2> QED
    BY <2>1, <2>2
<1> QED
  BY <1>1, AlwaysRowsApart, PTL

-----------------------------------------------------------------------------
(* Counts *)

(* Nothing but a reporter's critical section writes a count, or adds to    *)
(* the downloads that are counted.                                         *)
SameCounts == used' = used /\ \A k \in Keys : Counted(k)' = Counted(k)

LEMMA OnlyReportersCount ==
  ASSUME Handed, [Next]_vars, ~\E d \in Downloads : ReporterCounts(d)
  PROVE  SameCounts
<1> USE DEF Handed, TypeOK, ApiTypeOK, ReportsInOrder, ReportInOrder, SameCounts,
            Counted, ServedWith
<1>1. CASE ApiStep /\ UNCHANGED storeVars
  BY <1>1
  DEF ApiStep, Expire, Submit, Adds, Handle, ReturnStep, Return, Cancel, Deadline
<1>2. ASSUME NEW k \in Keys, AddKey(k) PROVE SameCounts
  BY <1>2 DEF AddKey, AddsUnless, Adds
<1>3. ASSUME NEW k \in Keys, TimerFires(k) \/ KillFromTimer(k) PROVE SameCounts
  BY <1>3 DEF TimerFires, KillFromTimer
<1>4. ASSUME NEW d \in Downloads, NEW u \in UrlKeys, Access(d, u) PROVE SameCounts
  BY <1>4 DEF Access, Accessed
<1>5. ASSUME NEW d \in Downloads, ReporterLeaves(d) PROVE SameCounts
  BY <1>5 DEF ReporterLeaves
<1>6. ASSUME NEW d \in Downloads, ReporterReceives(d) PROVE SameCounts
  BY <1>6 DEF ReporterReceives, Reported
<1>7. ASSUME NEW d \in Downloads, KillFromReporter(d) PROVE SameCounts
  BY <1>7 DEF KillFromReporter
<1>8. CASE DeleteKey
  BY <1>8 DEF DeleteKey
<1>9. CASE Restart
  BY <1>9 DEF Restart
<1>10. CASE UNCHANGED vars
  BY <1>10
<1> QED
  BY <1>1, <1>2, <1>3, <1>4, <1>5, <1>6, <1>7, <1>8, <1>9, <1>10 DEF Next

LEMMA CountedIsFinite ==
  ASSUME NEW k
  PROVE  /\ IsFiniteSet(Counted(k)) /\ IsFiniteSet(ServedWith(k))
         /\ Cardinality(Counted(k)) \in Nat /\ Cardinality(ServedWith(k)) \in Nat
         /\ Cardinality(Counted(k)) <= Cardinality(ServedWith(k))
<1>1. ServedWith(k) \subseteq Downloads /\ Counted(k) \subseteq ServedWith(k)
  BY DEF Counted, ServedWith
<1> QED
  BY <1>1, DownloadsAssumption, FS_Subset, FS_CardinalityType

(* A reporter that counts adds its download, if it was served, to those    *)
(* counted with its key.                                                   *)
LEMMA CountAdds ==
  ASSUME Handed, NEW d \in Downloads, ReporterCounts(d), NEW k \in Keys
  PROVE  /\ key[d] \in Keys
         /\ k # key[d] \/ ~served[d] => Counted(k)' = Counted(k)
         /\ k = key[d] /\ served[d] =>
              Cardinality(Counted(k)') = Cardinality(Counted(k)) + 1
<1>1. /\ key[d] \in Keys /\ report[d] = "sent" /\ reporter[d] = "received"
      /\ UNCHANGED apiVars /\ reporter'[d] \in {"sending", "gone"}
      /\ \A c \in Downloads \ {d} : reporter'[c] = reporter[c]
  BY ReporterCountsIs
  DEF Handed, TypeOK, ApiTypeOK, ReportsInOrder, ReportInOrder, Counting
<1>2. k # key[d] \/ ~served[d] => Counted(k)' = Counted(k)
  BY <1>1 DEF Counted, ServedWith
<1>3. k = key[d] /\ served[d] => d \notin Counted(k) /\ Counted(k)' = Counted(k) \cup {d}
  BY <1>1 DEF Counted, ServedWith
<1>4. k = key[d] /\ served[d] => Cardinality(Counted(k)') = Cardinality(Counted(k)) + 1
  BY <1>3, CountedIsFinite, FS_AddElement
<1> QED
  BY <1>1, <1>2, <1>4

(* What has been said stays said. *)
LEMMA NothingIsTakenBack ==
  ASSUME Handed, [Next]_vars
  PROVE  /\ ~failed' => ~failed
         /\ restarts' = 0 => restarts = 0
         /\ expired \subseteq expired'
         /\ \A k \in Keys : MayHaveRow(k) => MayHaveRow(k)'
         /\ \A d \in Downloads : key[d] # None => key'[d] = key[d]
         /\ \A d \in Downloads : served[d] => key'[d] = key[d] /\ served'[d]
<1> USE DEF Handed, TypeOK, ApiTypeOK, ReportsInOrder, ReportInOrder, MayHaveRow
<1>1. CASE ApiStep /\ UNCHANGED storeVars
  BY <1>1
  DEF ApiStep, Expire, Submit, Adds, Handle, ReturnStep, Return, Cancel, Deadline
<1>2. ASSUME NEW k \in Keys, AddKey(k)
      PROVE  /\ ~failed' => ~failed
             /\ UNCHANGED <<restarts, expired, key, served>>
             /\ \A l \in Keys : MayHaveRow(l) => MayHaveRow(l)'
  BY <1>2 DEF AddKey, AddsUnless, Adds, Queried
<1>3. ASSUME NEW k \in Keys, TimerFires(k) \/ KillFromTimer(k)
      PROVE  UNCHANGED <<failed, restarts, expired, adding, key, served>>
  BY <1>3 DEF TimerFires, KillFromTimer
<1>4. ASSUME NEW d \in Downloads, NEW u \in UrlKeys, Access(d, u)
      PROVE  /\ ~failed' => ~failed
             /\ UNCHANGED <<restarts, expired, adding, served>>
             /\ \A c \in Downloads : key[c] # None => key'[c] = key[c]
             /\ \A c \in Downloads : served[c] => key'[c] = key[c]
  BY <1>4 DEF Access, Accessed, Queried
<1>5. ASSUME NEW d \in Downloads,
             ReporterLeaves(d) \/ ReporterReceives(d) \/ KillFromReporter(d)
      PROVE  UNCHANGED <<failed, restarts, expired, adding, key, served>>
  BY <1>5 DEF ReporterLeaves, ReporterReceives, Reported, KillFromReporter
<1>6. ASSUME NEW d \in Downloads, ReporterCounts(d)
      PROVE  /\ ~failed' => ~failed
             /\ UNCHANGED <<restarts, expired, adding, key, served>>
  BY <1>6, ReporterCountsIs DEF Counting
<1>7. CASE DeleteKey
  BY <1>7 DEF DeleteKey, Queried
<1>8. CASE Restart
  BY <1>8, MaxRestartsAssumption DEF Restart
<1>9. CASE UNCHANGED vars
  BY <1>9
<1> QED
  BY <1>1, <1>2, <1>3, <1>4, <1>5, <1>6, <1>7, <1>8, <1>9 DEF Next

(* A row that comes is that of a key nobody has used. *)
LEMMA RowsComeUnused ==
  ASSUME Handed, [Next]_vars, NEW k \in Keys, k \in rows', k \notin rows
  PROVE  used[k] = 0 /\ Counted(k) = {}
<1>1. \A d \in Downloads : ReporterCounts(d) => rows' = rows
  BY ReporterCountsIs DEF Handed
<1>2. PICK l \in Keys : AddKey(l)
  BY <1>1
  DEF Next, TimerFires, KillFromTimer, Access, ReporterLeaves, ReporterReceives,
      KillFromReporter, DeleteKey, Restart
<1>3. k = l /\ ~MayHaveRow(l)
  BY <1>2 DEF AddKey, AddsUnless, Adds, MayHaveRow
<1> QED
  BY <1>3, NoKeyAssumption DEF Handed, OnlyAdded, Counted, ServedWith

(* A reporter writes its count to a row of its own url key. *)
LEMMA WhatIsWritten ==
  ASSUME Handed, RowsApart, NEW d \in Downloads, ReporterCounts(d), NEW k \in Keys, ~failed'
  PROVE  \/ used'[k] = used[k] /\ (k = key[d] /\ k \in rows => ~served[d])
         \/ k = key[d] /\ served[d] /\ k \in rows /\ used'[k] = used[k] + 1
         \/ /\ UrlOf[k] = UrlOf[key[d]] /\ k # key[d] /\ key[d] \notin rows
            /\ used'[k] = 1
<1>1. PICK found \in Nat, seen, written, told \in BOOLEAN :
        Counting(d, found, seen, written, told)
  BY ReporterCountsIs DEF Handed
<1>2. key[d] \in Keys
  BY CountAdds
<1> QED
  BY <1>1, <1>2 DEF Counting, RowsApart, RowsAt

(* Until a query fails, no count is more than one use too high: a late     *)
(* report of a key that has gone counts as the first use of the next one.  *)
Bounded == ~failed => \A k \in Keys : used[k] <= 1 + Cardinality(Counted(k))

LEMMA StepBounded ==
  ASSUME Handed, RowsApart, Bounded, [Next]_vars
  PROVE  Bounded'
<1> SUFFICES ASSUME ~failed', NEW k \in Keys
             PROVE  used'[k] <= 1 + Cardinality(Counted(k)')
  BY DEF Bounded
<1>1. used[k] <= 1 + Cardinality(Counted(k))
  BY NothingIsTakenBack DEF Bounded
<1>2. CASE SameCounts
  BY <1>1, <1>2 DEF SameCounts
<1>3. ASSUME NEW d \in Downloads, ReporterCounts(d)
      PROVE  used'[k] <= 1 + Cardinality(Counted(k)')
  <2>1. \/ Counted(k)' = Counted(k) /\ (k = key[d] => ~served[d])
        \/ k = key[d] /\ Cardinality(Counted(k)') = Cardinality(Counted(k)) + 1
    BY <1>3, CountAdds
  <2>2. Cardinality(Counted(k)) \in Nat /\ used[k] \in Nat
    BY CountedIsFinite DEF Handed, TypeOK
  <2> QED
    BY <1>1, <1>3, <2>1, <2>2, WhatIsWritten
<1> QED
  BY <1>2, <1>3, OnlyReportersCount

LEMMA InitCounts == Init => \A k \in Keys : used[k] = 0 /\ Counted(k) = {}
BY DEF Init, ApiInit, Counted, ServedWith

LEMMA AlwaysBounded == Spec => []Bounded
<1>1. Init => Bounded
  BY InitCounts, FS_EmptySet DEF Bounded
<1>2. Handed /\ RowsApart /\ Bounded /\ [Next]_vars => Bounded'
  BY StepBounded
<1> QED
  BY <1>1, <1>2, AlwaysHanded, AlwaysRowsApart, PTL DEF Spec

(* No count ever exceeds the uses by more than one, until a query fails.   *)
THEOREM OneTooManyAtMost == Spec => []OvercountedByOne
<1>1. Handed /\ Bounded => OvercountedByOne
  <2> SUFFICES ASSUME Handed, Bounded, ~failed, NEW k \in Keys
               PROVE  used[k] <= 1 + Cardinality(ServedWith(k))
    BY DEF OvercountedByOne
  <2> QED
    BY CountedIsFinite DEF Bounded, Handed, TypeOK
<1> QED
  BY <1>1, AlwaysHanded, AlwaysBounded, PTL

LEMMA StepExact ==
  ASSUME Handed, RowsApart, CountsAreExact, [Next]_vars
  PROVE  CountsAreExact'
<1> SUFFICES ASSUME ~failed', NEW k \in rows', 
                    \A d \in Downloads : key'[d] \notin {None, k} => UrlOf[key'[d]] # UrlOf[k]
             PROVE  used'[k] = Cardinality(Counted(k)')
  BY DEF CountsAreExact
<1>0. k \in Keys
  BY StepTyped DEF Handed, TypeOK
<1>1. \A d \in Downloads : key[d] \notin {None, k} => UrlOf[key[d]] # UrlOf[k]
  BY NothingIsTakenBack
<1>2. used[k] = Cardinality(Counted(k))
  <2>1. CASE k \in rows
    BY <1>1, <2>1, NothingIsTakenBack DEF CountsAreExact
  <2>2. CASE k \notin rows
    BY <1>0, <2>2, RowsComeUnused, FS_EmptySet
  <2> QED
    BY <2>1, <2>2
<1>3. CASE SameCounts
  BY <1>0, <1>2, <1>3 DEF SameCounts
<1>4. ASSUME NEW d \in Downloads, ReporterCounts(d)
      PROVE  used'[k] = Cardinality(Counted(k)')
  <2>1. key[d] \in Keys /\ key[d] # None /\ k \in rows
    BY <1>0, <1>4, CountAdds, ReporterCountsIs, NoKeyAssumption DEF Handed
  <2>2. \/ used'[k] = used[k] /\ (k = key[d] => ~served[d])
        \/ k = key[d] /\ served[d] /\ used'[k] = used[k] + 1
    BY <1>0, <1>1, <1>4, <2>1, WhatIsWritten
  <2> QED
    BY <1>0, <1>2, <1>4, <2>2, CountAdds
<1> QED
  BY <1>3, <1>4, OnlyReportersCount

(* Until a query fails no reported use is lost or counted twice, over any  *)
(* number of restarts, in a row whose url key no download met before it.   *)
THEOREM ExactCounts == Spec => []CountsAreExact
<1>1. Init => CountsAreExact
  BY DEF Init, CountsAreExact
<1>2. Handed /\ RowsApart /\ CountsAreExact /\ [Next]_vars => CountsAreExact'
  BY StepExact
<1> QED
  BY <1>1, <1>2, AlwaysHanded, AlwaysRowsApart, PTL DEF Spec

-----------------------------------------------------------------------------
(* Rows that are to go are on their way, and others stay. *)

(* Somebody is about to delete the rows of k's url key. *)
Leaving(k) ==
  \E l \in Keys : /\ UrlOf[l] = UrlOf[k]
                 /\ \/ killing = l
                    \/ \E d \in Downloads : key[d] = l /\ reporter[d] = "sending"

LEMMA GoesOnLeaving ==
  ASSUME Handed, [Next]_vars, NEW k \in Keys, k \in rows', Leaving(k), ~failed', restarts' = 0
  PROVE  Leaving(k)'
<1> USE UrlOfAssumption, NoKeyAssumption DEF Handed, TypeOK, ApiTypeOK, Leaving
<1>1. CASE ApiStep /\ UNCHANGED storeVars
  BY <1>1, NothingIsTakenBack
<1>2. ASSUME NEW l \in Keys, AddKey(l) \/ TimerFires(l) \/ KillFromTimer(l)
      PROVE  Leaving(k)'
  <2>1. UNCHANGED <<key, reporter>> /\ (killing' = killing \/ killing = None)
    BY <1>2 DEF AddKey, AddsUnless, Adds, TimerFires, KillFromTimer, apiVars
  <2> QED
    BY <2>1
<1>3. ASSUME NEW d \in Downloads, NEW u \in UrlKeys, Access(d, u) PROVE Leaving(k)'
  BY <1>3 DEF Access, Accessed, ReportsInOrder, ReportInOrder
<1>4. ASSUME NEW d \in Downloads, ReporterLeaves(d) \/ ReporterReceives(d) PROVE Leaving(k)'
  BY <1>4 DEF ReporterLeaves, ReporterReceives, Reported
<1>5. ASSUME NEW d \in Downloads, ReporterCounts(d) PROVE Leaving(k)'
  BY <1>5, ReporterCountsIs
<1>6. ASSUME NEW d \in Downloads, KillFromReporter(d) PROVE Leaving(k)'
  BY <1>6 DEF KillFromReporter
<1>7. CASE DeleteKey
  <2>1. PICK delete \in WriteEnds :
          /\ rows' = IF delete = "failed" THEN rows ELSE rows \ RowsAt(UrlOf[killing])
          /\ Queried(delete = "done")
    BY <1>7 DEF DeleteKey
  <2>2. delete = "done"
    BY <2>1 DEF Queried
  <2>3. killing # None /\ UNCHANGED <<key, reporter>>
    BY <1>7 DEF DeleteKey, apiVars
  <2>4. UrlOf[killing] # UrlOf[k]
    BY <2>1, <2>2 DEF RowsAt
  <2> QED
    BY <2>3, <2>4
<1>8. CASE Restart
  BY <1>8 DEF Restart
<1>9. CASE UNCHANGED vars
  BY <1>9
<1> QED
  BY <1>1, <1>2, <1>3, <1>4, <1>5, <1>6, <1>7, <1>8, <1>9 DEF Next

LEMMA StepOverused ==
  ASSUME Handed, RowsApart, OverusedIsLeaving, [Next]_vars
  PROVE  OverusedIsLeaving'
<1> SUFFICES ASSUME ~failed', restarts' = 0, NEW k \in Keys, k \in rows', k \in Limited,
                    Limit[k] > 0, used'[k] > Limit[k]
             PROVE  Leaving(k)'
  BY LimitAssumption DEF OverusedIsLeaving, Leaving
<1>1. ~failed /\ restarts = 0 /\ Limit[k] \in Nat /\ used[k] \in Nat
  BY NothingIsTakenBack, LimitAssumption DEF Handed, TypeOK
<1>2. k \in rows /\ used[k] > Limit[k] => Leaving(k)'
  BY <1>1, GoesOnLeaving DEF OverusedIsLeaving, Leaving
<1>3. CASE used' = used
  BY <1>1, <1>2, <1>3, RowsComeUnused
<1>4. ASSUME NEW d \in Downloads, ReporterCounts(d) PROVE Leaving(k)'
  <2>1. PICK found \in Nat, seen, written, told \in BOOLEAN :
          Counting(d, found, seen, written, told)
    BY <1>4, ReporterCountsIs DEF Handed
  <2>2. k \in rows /\ key'[d] = key[d]
    BY <1>4, ReporterCountsIs DEF Handed
  <2>3. CASE used'[k] = used[k]
    BY <1>2, <2>2, <2>3
  <2>4. CASE k = key[d] /\ served[d] /\ used'[k] = used[k] + 1
    <3>1. found = used[k] /\ seen
      BY <2>1, <2>2, <2>4 DEF Counting
    <3>2. found >= Limit[k]
      BY <1>1, <2>4, <3>1
    <3>3. reporter'[d] = "sending"
      BY <2>1, <2>4, <3>1, <3>2 DEF Counting
    <3> QED
      BY <2>2, <2>4, <3>3 DEF Leaving
  <2>5. CASE used'[k] = 1
    BY <1>1, <2>5
  <2> QED
    BY <1>4, <2>3, <2>4, <2>5, WhatIsWritten
<1> QED
  BY <1>3, <1>4, OnlyReportersCount DEF SameCounts

(* A row counted beyond its limit is on its way out until the process ends *)
(* or a query fails.                                                       *)
THEOREM OverusedRowsLeave == Spec => []OverusedIsLeaving
<1>1. Init => OverusedIsLeaving
  BY DEF Init, OverusedIsLeaving
<1>2. Handed /\ RowsApart /\ OverusedIsLeaving /\ [Next]_vars => OverusedIsLeaving'
  BY StepOverused
<1> QED
  BY <1>1, <1>2, AlwaysHanded, AlwaysRowsApart, PTL DEF Spec

(* No other key may have been given a row for the url key of k. *)
HasOwnUrl(k) == \A l \in Keys \ {k} : UrlOf[l] = UrlOf[k] => ~MayHaveRow(l)

Cause(k) == k \in expired \/ Reaches(k, Cardinality(ServedWith(k)))

Killed(k) ==
  \/ timer[k] = "sending"
  \/ killing = k
  \/ \E d \in Downloads : key[d] = k /\ reporter[d] = "sending"

(* The count of a key that has its url key to itself is never too high,    *)
(* whatever fails, and the killer is only sent such a key for cause.       *)
NeverTooHigh ==
  \A k \in Keys : HasOwnUrl(k) => used[k] <= Cardinality(Counted(k))
KilledForCause == \A k \in Keys : (HasOwnUrl(k) /\ Killed(k)) => Cause(k)
Added(k) == adding[k] = "added"
OwnKept == \A k \in Keys : (HasOwnUrl(k) /\ Added(k) /\ k \notin rows) => Cause(k)

LEMMA CauseStays ==
  ASSUME Handed, [Next]_vars, NEW k \in Keys
  PROVE  /\ HasOwnUrl(k)' => HasOwnUrl(k)
         /\ Cause(k) => Cause(k)'
<1>1. HasOwnUrl(k)' => HasOwnUrl(k)
  BY NothingIsTakenBack DEF HasOwnUrl
<1>2. ServedWith(k) \subseteq ServedWith(k)'
  BY NothingIsTakenBack DEF ServedWith
<1>3. IsFiniteSet(ServedWith(k)')
  <2>1. ServedWith(k)' \subseteq Downloads
    BY DEF ServedWith
  <2> QED
    BY <2>1, DownloadsAssumption, FS_Subset
<1>4. /\ Cardinality(ServedWith(k)) <= Cardinality(ServedWith(k)')
      /\ Cardinality(ServedWith(k)) \in Nat /\ Cardinality(ServedWith(k)') \in Nat
  BY <1>2, <1>3, CountedIsFinite, FS_Subset, FS_CardinalityType
<1>5. Limit[k] \in Nat
  BY LimitAssumption
<1>6. Reaches(k, Cardinality(ServedWith(k))) => Reaches(k, Cardinality(ServedWith(k)'))
  BY <1>4, <1>5 DEF Reaches
<1> QED
  BY <1>1, <1>6, NothingIsTakenBack DEF Cause, Reaches

(* What a reporter finds and writes for a key that has its url key alone. *)
LEMMA StepNeverTooHigh ==
  ASSUME Handed, NeverTooHigh, [Next]_vars
  PROVE  NeverTooHigh'
<1> SUFFICES ASSUME NEW k \in Keys, HasOwnUrl(k)'
             PROVE  used'[k] <= Cardinality(Counted(k)')
  BY DEF NeverTooHigh
<1>1. HasOwnUrl(k) /\ used[k] <= Cardinality(Counted(k))
  BY CauseStays DEF NeverTooHigh
<1>2. CASE SameCounts
  BY <1>1, <1>2 DEF SameCounts
<1>3. ASSUME NEW d \in Downloads, ReporterCounts(d)
      PROVE  used'[k] <= Cardinality(Counted(k)')
  <2>1. PICK found \in Nat, seen, written, told \in BOOLEAN :
          Counting(d, found, seen, written, told)
    BY <1>3, ReporterCountsIs DEF Handed
  <2>2. key[d] \in Keys /\ MayHaveRow(key[d]) /\ used[k] \in Nat
        /\ Cardinality(Counted(k)) \in Nat
    BY <1>3, CountAdds, CountedIsFinite, NoKeyAssumption DEF Handed, OnlyAdded, TypeOK
  <2>3. CASE used'[k] = used[k]
    BY <1>1, <1>3, <2>2, <2>3, CountAdds
  <2>4. CASE used'[k] # used[k]
    <3>1. served[d] /\ UrlOf[k] = UrlOf[key[d]] /\ used'[k] = found + 1
      BY <2>1, <2>4 DEF Counting, RowsAt
    <3>2. k = key[d]
      BY <1>1, <2>2, <3>1 DEF HasOwnUrl
    <3>3. found <= used[k]
      BY <2>1, <2>2, <3>2 DEF Counting
    <3> QED
      BY <1>1, <1>3, <2>2, <3>1, <3>2, <3>3, CountAdds
  <2> QED
    BY <2>3, <2>4
<1> QED
  BY <1>2, <1>3, OnlyReportersCount

LEMMA StepKilledForCause ==
  ASSUME Handed, NeverTooHigh, KilledForCause, [Next]_vars
  PROVE  KilledForCause'
<1> SUFFICES ASSUME NEW k \in Keys, HasOwnUrl(k)', Killed(k)'
             PROVE  Cause(k)'
  BY DEF KilledForCause
<1>1. HasOwnUrl(k) /\ (Cause(k) => Cause(k)') /\ (Killed(k) => Cause(k))
  BY CauseStays DEF KilledForCause
<1> USE UrlOfAssumption, NoKeyAssumption
       DEF Handed, TypeOK, ApiTypeOK, ReportsInOrder, ReportInOrder, Killed
<1>2. CASE ApiStep /\ UNCHANGED storeVars
  BY <1>1, <1>2
  DEF ApiStep, Expire, Submit, Adds, Handle, ReturnStep, Return, Cancel, Deadline
<1>3. ASSUME NEW l \in Keys, AddKey(l) \/ KillFromTimer(l) PROVE Cause(k)'
  <2>1. UNCHANGED key /\ (AddKey(l) => UNCHANGED <<reporter, killing>>)
    BY <1>3 DEF AddKey, AddsUnless, Adds, KillFromTimer, apiVars
  <2>2. timer'[k] = "sending" => timer[k] = "sending"
    BY <1>3 DEF AddKey, AddsUnless, KillFromTimer
  <2>3. KillFromTimer(l) => /\ UNCHANGED reporter
                            /\ killing' = l /\ timer[l] = "sending"
    BY DEF KillFromTimer
  <2>4. Killed(k)
    BY <1>3, <2>1, <2>2, <2>3
  <2> QED
    BY <1>1, <2>4
<1>4. ASSUME NEW l \in Keys, TimerFires(l) PROVE Cause(k)'
  BY <1>1, <1>4 DEF TimerFires, Cause
<1>5. ASSUME NEW d \in Downloads, NEW u \in UrlKeys, Access(d, u) PROVE Cause(k)'
  BY <1>1, <1>5 DEF Access, Accessed
<1>6. ASSUME NEW d \in Downloads,
             ReporterLeaves(d) \/ ReporterReceives(d) \/ KillFromReporter(d)
      PROVE  Cause(k)'
  BY <1>1, <1>6 DEF ReporterLeaves, ReporterReceives, Reported, KillFromReporter
<1>7. ASSUME NEW d \in Downloads, ReporterCounts(d) PROVE Cause(k)'
  <2>1. CASE Killed(k)
    BY <1>1, <2>1
  <2>2. CASE ~Killed(k)
    <3>1. key[d] = k /\ reporter'[d] = "sending"
      BY <1>7, <2>2, ReporterCountsIs
    <3>2. PICK found \in Nat, seen, written, told \in BOOLEAN :
            Counting(d, found, seen, written, told)
      BY <1>7, ReporterCountsIs
    <3>3. seen /\ k \in Limited /\ found >= Limit[k] /\ found = used[k]
      BY <3>1, <3>2 DEF Counting
    <3>4. used[k] <= Cardinality(ServedWith(k)) /\ Limit[k] \in Nat /\ used[k] \in Nat
          /\ Cardinality(ServedWith(k)) \in Nat
      BY <1>1, CountedIsFinite, LimitAssumption DEF NeverTooHigh
    <3>5. Reaches(k, Cardinality(ServedWith(k)))
      BY <3>3, <3>4 DEF Reaches
    <3> QED
      BY <1>1, <3>5 DEF Cause
  <2> QED
    BY <2>1, <2>2
<1>8. CASE DeleteKey
  BY <1>1, <1>8 DEF DeleteKey
<1>9. CASE Restart
  BY <1>1, <1>9 DEF Restart
<1>10. CASE UNCHANGED vars
  BY <1>1, <1>10
<1> QED
  BY <1>2, <1>3, <1>4, <1>5, <1>6, <1>7, <1>8, <1>9, <1>10 DEF Next

LEMMA StepOwnKept ==
  ASSUME Handed, KilledForCause, OwnKept, [Next]_vars
  PROVE  OwnKept'
<1> SUFFICES ASSUME NEW k \in Keys, HasOwnUrl(k)', Added(k)', k \notin rows'
             PROVE  Cause(k)'
  BY DEF OwnKept
<1>1. HasOwnUrl(k) /\ (Cause(k) => Cause(k)')
  BY CauseStays
<1>2. CASE k \in rows
  <2>1. \A d \in Downloads : ReporterCounts(d) => rows' = rows
    BY ReporterCountsIs DEF Handed
  <2>2. DeleteKey /\ killing \in Keys /\ UrlOf[k] = UrlOf[killing]
    BY <1>2, <2>1, NoKeyAssumption
    DEF Handed, TypeOK, Next, AddKey, AddsUnless, TimerFires, KillFromTimer, Access,
        ReporterLeaves, ReporterReceives, KillFromReporter, DeleteKey, Restart, RowsAt
  <2>3. MayHaveRow(killing)
    BY <2>2, NoKeyAssumption DEF Handed, OnlyAdded
  <2>4. killing = k
    BY <1>1, <2>2, <2>3 DEF HasOwnUrl
  <2> QED
    BY <1>1, <2>4 DEF KilledForCause, Killed
<1>3. CASE k \notin rows
  <2>1. Added(k)
    <3> USE DEF Handed, TypeOK, ApiTypeOK, Added
    <3>1. CASE ApiStep
      BY <3>1 DEF ApiStep, Expire, Submit, Adds, Handle, ReturnStep, Return, Cancel, Deadline
    <3>2. ASSUME NEW l \in Keys, AddKey(l) PROVE Added(k)
      <4>1. PICK taken \in BOOLEAN, create \in WriteEnds : AddsUnless(l, taken, create)
        BY <3>2 DEF AddKey, ReadEnds
      <4>2. /\ adding' = [adding EXCEPT ![l] =
                            IF create = "done" /\ ~taken THEN "added" ELSE "refused"]
            /\ rows' = IF taken \/ create = "failed" THEN rows ELSE rows \cup {l}
        BY <4>1 DEF AddsUnless, Adds
      <4> QED
        BY <4>2
    <3>3. ASSUME NEW d \in Downloads, ReporterCounts(d) PROVE Added(k)
      BY <3>3, ReporterCountsIs
    <3>4. ASSUME NEW l \in Keys, TimerFires(l) \/ KillFromTimer(l) PROVE Added(k)
      BY <3>4 DEF TimerFires, KillFromTimer, apiVars
    <3>5. ASSUME NEW d \in Downloads, NEW u \in UrlKeys, Access(d, u) PROVE Added(k)
      BY <3>5 DEF Access, Accessed
    <3>6. ASSUME NEW d \in Downloads,
                 ReporterLeaves(d) \/ ReporterReceives(d) \/ KillFromReporter(d)
          PROVE  Added(k)
      BY <3>6 DEF ReporterLeaves, ReporterReceives, Reported, KillFromReporter, apiVars
    <3>7. CASE DeleteKey \/ UNCHANGED vars
      BY <3>7 DEF DeleteKey, vars, apiVars
    <3>8. CASE Restart
      BY <3>8 DEF Restart
    <3> QED
      BY <3>1, <3>2, <3>3, <3>4, <3>5, <3>6, <3>7, <3>8 DEF Next
  <2> QED
    BY <1>1, <1>3, <2>1 DEF OwnKept
<1> QED
  BY <1>2, <1>3

LEMMA AlwaysOwnKept == Spec => []OwnKept
<1>1. Init => NeverTooHigh /\ KilledForCause /\ OwnKept
  <2> SUFFICES ASSUME Init, NEW k \in Keys
               PROVE  used[k] <= Cardinality(Counted(k)) /\ ~Killed(k) /\ ~Added(k)
    BY DEF NeverTooHigh, KilledForCause, OwnKept
  <2>1. used[k] <= Cardinality(Counted(k))
    BY InitCounts, FS_EmptySet
  <2> QED
    BY <2>1, NoKeyAssumption DEF Init, ApiInit, Killed, Added
<1>2. Handed /\ NeverTooHigh /\ KilledForCause /\ OwnKept /\ [Next]_vars
        => NeverTooHigh' /\ KilledForCause' /\ OwnKept'
  BY StepNeverTooHigh, StepKilledForCause, StepOwnKept
<1> QED
  BY <1>1, <1>2, AlwaysHanded, PTL DEF Spec

(* The row of a key that has its url key to itself only goes when the key  *)
(* is expired or used up, whatever queries fail and restarts cut short.    *)
THEOREM OwnUrlKeysAreKept == Spec => []GoneForCause
<1>1. OwnKept => GoneForCause
  BY DEF OwnKept, GoneForCause, HasOwnUrl, Added, Cause
<1> QED
  BY <1>1, AlwaysOwnKept, PTL
=============================================================================
