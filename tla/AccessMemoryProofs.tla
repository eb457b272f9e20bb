------------------------- MODULE AccessMemoryProofs -------------------------
(***************************************************************************)
(* What is proved of AccessMemory for every set of keys and url keys, any  *)
(* finite number of downloads, any limits and ttls, and every interleaving *)
(* of the handlers, reporters, timers and the killer.                      *)
(***************************************************************************)
EXTENDS AccessMemory, FiniteSetTheorems, TLAPS

USE DEF apiVars, addVars, downloadVars, storeVars, vars

-----------------------------------------------------------------------------
(* Type correctness, and who has which key.  Whether a download has a key  *)
(* to count or to kill rests on how Access hands the keys out.             *)

Handed == TypeOK /\ KeysHandedOut

LEMMA InitHanded == Init => Handed
BY UrlOfAssumption, NoKeyAssumption
DEF Init, ApiInit, Handed, TypeOK, ApiTypeOK, KeysHandedOut, Stored

LEMMA StepTyped ==
  ASSUME TypeOK, KeysHandedOut, [Next]_vars
  PROVE  TypeOK'
<1> USE UrlOfAssumption DEF TypeOK, ApiTypeOK, KeysHandedOut
<1>1. CASE ApiStep /\ UNCHANGED storeVars
  BY <1>1
  DEF ApiStep, Expire, Submit, Adds, Handle, ReturnStep, Return, Cancel, Deadline
<1>2. ASSUME NEW k \in Keys, AddLoad(k) PROVE TypeOK'
  BY <1>2 DEF AddLoad, Adds
<1>3. ASSUME NEW k \in Keys, AddStore(k) PROVE TypeOK'
  BY <1>3 DEF AddStore, Adds
<1>4. ASSUME NEW k \in Keys, AddSend(k) PROVE TypeOK'
  BY <1>4 DEF AddSend, Adds
<1>5. ASSUME NEW k \in Keys, TimerFires(k) PROVE TypeOK'
  BY <1>5 DEF TimerFires
<1>6. ASSUME NEW k \in Keys, KillFromTimer(k) PROVE TypeOK'
  BY <1>6 DEF KillFromTimer
<1>7. ASSUME NEW d \in Downloads, NEW u \in UrlKeys, Access(d, u) PROVE TypeOK'
  BY <1>7 DEF Access, Accessed
<1>8. ASSUME NEW d \in Downloads, ReporterLeaves(d) PROVE TypeOK'
  BY <1>8 DEF ReporterLeaves
<1>9. ASSUME NEW d \in Downloads, ReporterReceives(d) PROVE TypeOK'
  BY <1>9 DEF ReporterReceives, Reported
<1>10. ASSUME NEW d \in Downloads, Count(d) PROVE TypeOK'
  BY <1>10 DEF Count
<1>11. ASSUME NEW d \in Downloads, Check(d) PROVE TypeOK'
  BY <1>11 DEF Check, CheckWith
<1>12. ASSUME NEW d \in Downloads, KillFromReporter(d) PROVE TypeOK'
  BY <1>12 DEF KillFromReporter
<1>13. CASE DeleteKey
  BY <1>13 DEF DeleteKey
<1>14. CASE UNCHANGED vars
  BY <1>14
<1> QED
  BY <1>1, <1>2, <1>3, <1>4, <1>5, <1>6, <1>7, <1>8,
     <1>9, <1>10, <1>11, <1>12, <1>13, <1>14
  DEF Next, AddStep, ReporterStep

LEMMA StepHandsOut ==
  ASSUME TypeOK, KeysHandedOut, [Next]_vars
  PROVE  KeysHandedOut'
<1> USE UrlOfAssumption, NoKeyAssumption
       DEF TypeOK, ApiTypeOK, KeysHandedOut, Stored
<1>1. CASE ApiStep /\ UNCHANGED storeVars
  BY <1>1
  DEF ApiStep, Expire, Submit, Adds, Handle, ReturnStep, Return, Cancel, Deadline
<1>2. ASSUME NEW k \in Keys, AddLoad(k) PROVE KeysHandedOut'
  BY <1>2 DEF AddLoad, Adds
<1>3. ASSUME NEW k \in Keys, AddStore(k) PROVE KeysHandedOut'
  BY <1>3 DEF AddStore, Adds
<1>4. ASSUME NEW k \in Keys, AddSend(k) PROVE KeysHandedOut'
  BY <1>4 DEF AddSend, Adds
<1>5. ASSUME NEW k \in Keys, TimerFires(k) PROVE KeysHandedOut'
  BY <1>5 DEF TimerFires
<1>6. ASSUME NEW k \in Keys, KillFromTimer(k) PROVE KeysHandedOut'
  BY <1>6 DEF KillFromTimer
<1>7. ASSUME NEW d \in Downloads, NEW u \in UrlKeys, Access(d, u)
      PROVE  KeysHandedOut'
  BY <1>7 DEF Access, Accessed
<1>8. ASSUME NEW d \in Downloads, ReporterLeaves(d) PROVE KeysHandedOut'
  BY <1>8 DEF ReporterLeaves
<1>9. ASSUME NEW d \in Downloads, ReporterReceives(d) PROVE KeysHandedOut'
  BY <1>9 DEF ReporterReceives, Reported
<1>10. ASSUME NEW d \in Downloads, Count(d) PROVE KeysHandedOut'
  BY <1>10 DEF Count
<1>11. ASSUME NEW d \in Downloads, Check(d) PROVE KeysHandedOut'
  BY <1>11 DEF Check, CheckWith
<1>12. ASSUME NEW d \in Downloads, KillFromReporter(d) PROVE KeysHandedOut'
  BY <1>12 DEF KillFromReporter
<1>13. CASE DeleteKey
  BY <1>13 DEF DeleteKey
<1>14. CASE UNCHANGED vars
  BY <1>14
<1> QED
  BY <1>1, <1>2, <1>3, <1>4, <1>5, <1>6, <1>7, <1>8,
     <1>9, <1>10, <1>11, <1>12, <1>13, <1>14
  DEF Next, AddStep, ReporterStep

LEMMA AlwaysHanded == Spec => []Handed
<1>1. Handed /\ [Next]_vars => Handed'
  BY StepTyped, StepHandsOut DEF Handed
<1> QED
  BY <1>1, InitHanded, PTL DEF Spec

(* Every variable keeps its type, for any number of keys and downloads.    *)
THEOREM TypeCorrect == Spec => []TypeOK
<1>1. Handed => TypeOK
  BY DEF Handed
<1> QED
  BY <1>1, AlwaysHanded, PTL

(* Nobody has a key before it is stored, and keys lie under their own url  *)
(* key, whatever else AddKey, Access and the killer are doing.             *)
THEOREM HandedOut == Spec => []KeysHandedOut
<1>1. Handed => KeysHandedOut
  BY DEF Handed
<1> QED
  BY <1>1, AlwaysHanded, PTL

-----------------------------------------------------------------------------
(* Keys that are to go are on their way. *)

LEMMA StepLeaving ==
  ASSUME TypeOK, KeysHandedOut, UsedUpIsLeaving, [Next]_vars
  PROVE  UsedUpIsLeaving'
<1> USE UrlOfAssumption, NoKeyAssumption, LimitAssumption
       DEF TypeOK, ApiTypeOK, KeysHandedOut, UsedUpIsLeaving, Leaving,
           Stored, Exhausted, Reaches
<1>1. CASE ApiStep /\ UNCHANGED storeVars
  BY <1>1
  DEF ApiStep, Expire, Submit, Adds, Handle, ReturnStep, Return, Cancel, Deadline
<1>2. ASSUME NEW k \in Keys, AddLoad(k) PROVE UsedUpIsLeaving'
  BY <1>2 DEF AddLoad, Adds
<1>3. ASSUME NEW k \in Keys, AddStore(k) PROVE UsedUpIsLeaving'
  BY <1>3 DEF AddStore, Adds
<1>4. ASSUME NEW k \in Keys, AddSend(k) PROVE UsedUpIsLeaving'
  BY <1>4 DEF AddSend, Adds
<1>5. ASSUME NEW k \in Keys, TimerFires(k) PROVE UsedUpIsLeaving'
  BY <1>5 DEF TimerFires
<1>6. ASSUME NEW k \in Keys, KillFromTimer(k) PROVE UsedUpIsLeaving'
  BY <1>6 DEF KillFromTimer
<1>7. ASSUME NEW d \in Downloads, NEW u \in UrlKeys, Access(d, u)
      PROVE  UsedUpIsLeaving'
  BY <1>7 DEF Access, Accessed
<1>8. ASSUME NEW d \in Downloads, ReporterLeaves(d) PROVE UsedUpIsLeaving'
  BY <1>8 DEF ReporterLeaves
<1>9. ASSUME NEW d \in Downloads, ReporterReceives(d) PROVE UsedUpIsLeaving'
  BY <1>9 DEF ReporterReceives, Reported
<1>10. ASSUME NEW d \in Downloads, Count(d) PROVE UsedUpIsLeaving'
  BY <1>10 DEF Count
<1>11. ASSUME NEW d \in Downloads, Check(d) PROVE UsedUpIsLeaving'
  BY <1>11 DEF Check, CheckWith
<1>12. ASSUME NEW d \in Downloads, KillFromReporter(d) PROVE UsedUpIsLeaving'
  BY <1>12 DEF KillFromReporter
<1>13. CASE DeleteKey
  BY <1>13 DEF DeleteKey
<1>14. CASE UNCHANGED vars
  BY <1>14
<1> QED
  BY <1>1, <1>2, <1>3, <1>4, <1>5, <1>6, <1>7, <1>8,
     <1>9, <1>10, <1>11, <1>12, <1>13, <1>14
  DEF Next, AddStep, ReporterStep

(* No interleaving of counting reporters, timers and the killer leaves a   *)
(* used up key in the map with nobody about to remove it.                  *)
THEOREM UsedUpKeysLeave == Spec => []UsedUpIsLeaving
<1>1. Init => UsedUpIsLeaving
  BY UrlOfAssumption, NoKeyAssumption DEF Init, ApiInit, UsedUpIsLeaving, Stored
<1>2. Handed /\ UsedUpIsLeaving /\ [Next]_vars => UsedUpIsLeaving'
  BY StepLeaving DEF Handed
<1> QED
  BY <1>1, <1>2, AlwaysHanded, PTL DEF Spec

LEMMA StepGrantsInTime ==
  ASSUME TypeOK, KeysHandedOut, UsedUpIsLeaving, Next
  PROVE  GrantsInTime
<1> SUFFICES ASSUME NEW d \in Downloads, handler[d] = "idle", handler'[d] = "granted"
             PROVE  Overdraws(key'[d]) => Leaving(key'[d])
  BY DEF GrantsInTime
<1>1. PICK u \in UrlKeys : Access(d, u)
  BY DEF TypeOK, ApiTypeOK, Next, ApiStep, Expire, Submit, Adds, Handle, ReturnStep,
     Return, Cancel, Deadline, AddStep, AddLoad, AddStore, AddSend, TimerFires,
     KillFromTimer, ReporterStep, ReporterLeaves, ReporterReceives, Reported, Count,
     Check, CheckWith, KillFromReporter, DeleteKey, Access, Accessed
<1>2. key'[d] = stored[u] /\ stored[u] # None
  BY <1>1 DEF Access, Accessed, TypeOK, ApiTypeOK
<1>3. key'[d] \in Keys /\ Stored(key'[d])
  BY <1>2 DEF TypeOK, KeysHandedOut, Stored
<1> QED
  BY <1>3 DEF Overdraws, UsedUpIsLeaving

(* A download is only ever granted a used up key while somebody is still   *)
(* about to tell the killer, or the killer is about to delete the key.     *)
THEOREM OverdrawnKeysLeave == Spec => OverdrawnWhileLeaving
<1>1. Handed /\ UsedUpIsLeaving /\ [Next]_vars => [GrantsInTime]_vars
  BY StepGrantsInTime DEF Handed
<1> QED
  BY <1>1, AlwaysHanded, UsedUpKeysLeave, PTL DEF Spec, OverdrawnWhileLeaving

LEMMA StepTimed ==
  ASSUME TypeOK, KeysHandedOut, ExpiringIsTimed, [Next]_vars
  PROVE  ExpiringIsTimed'
<1> USE UrlOfAssumption, ExpiringAssumption, NoKeyAssumption
       DEF TypeOK, ApiTypeOK, KeysHandedOut, ExpiringIsTimed, Stored
<1>1. CASE ApiStep /\ UNCHANGED storeVars
  BY <1>1
  DEF ApiStep, Expire, Submit, Adds, Handle, ReturnStep, Return, Cancel, Deadline
<1>2. ASSUME NEW k \in Keys, AddLoad(k) PROVE ExpiringIsTimed'
  BY <1>2 DEF AddLoad, Adds
<1>3. ASSUME NEW k \in Keys, AddStore(k) PROVE ExpiringIsTimed'
  BY <1>3 DEF AddStore, Adds
<1>4. ASSUME NEW k \in Keys, AddSend(k) PROVE ExpiringIsTimed'
  BY <1>4 DEF AddSend, Adds
<1>5. ASSUME NEW k \in Keys, TimerFires(k) PROVE ExpiringIsTimed'
  BY <1>5 DEF TimerFires
<1>6. ASSUME NEW k \in Keys, KillFromTimer(k) PROVE ExpiringIsTimed'
  BY <1>6 DEF KillFromTimer
<1>7. ASSUME NEW d \in Downloads, NEW u \in UrlKeys, Access(d, u)
      PROVE  ExpiringIsTimed'
  BY <1>7 DEF Access, Accessed
<1>8. ASSUME NEW d \in Downloads, ReporterLeaves(d) PROVE ExpiringIsTimed'
  BY <1>8 DEF ReporterLeaves
<1>9. ASSUME NEW d \in Downloads, ReporterReceives(d) PROVE ExpiringIsTimed'
  BY <1>9 DEF ReporterReceives, Reported
<1>10. ASSUME NEW d \in Downloads, Count(d) PROVE ExpiringIsTimed'
  BY <1>10 DEF Count
<1>11. ASSUME NEW d \in Downloads, Check(d) PROVE ExpiringIsTimed'
  BY <1>11 DEF Check, CheckWith
<1>12. ASSUME NEW d \in Downloads, KillFromReporter(d) PROVE ExpiringIsTimed'
  BY <1>12 DEF KillFromReporter
<1>13. CASE DeleteKey
  BY <1>13 DEF DeleteKey
<1>14. CASE UNCHANGED vars
  BY <1>14
<1> QED
  BY <1>1, <1>2, <1>3, <1>4, <1>5, <1>6, <1>7, <1>8,
     <1>9, <1>10, <1>11, <1>12, <1>13, <1>14
  DEF Next, AddStep, ReporterStep

(* A key with a ttl is never in the map without a timer or a removal that  *)
(* has begun, except between the Store and the send of its own AddKey.     *)
THEOREM ExpiringKeysAreTimed == Spec => []ExpiringIsTimed
<1>1. Init => ExpiringIsTimed
  BY UrlOfAssumption, ExpiringAssumption, NoKeyAssumption
  DEF Init, ApiInit, ExpiringIsTimed, Stored
<1>2. Handed /\ ExpiringIsTimed /\ [Next]_vars => ExpiringIsTimed'
  BY StepTimed DEF Handed
<1> QED
  BY <1>1, <1>2, AlwaysHanded, PTL DEF Spec

-----------------------------------------------------------------------------
(* Keys that are not to go stay. *)

LEMMA StepForCause ==
  ASSUME TypeOK, KeysHandedOut, KilledForCause, [Next]_vars
  PROVE  KilledForCause'
<1> USE LimitAssumption, NoKeyAssumption
       DEF TypeOK, ApiTypeOK, KeysHandedOut, KilledForCause, Exhausted, Reaches
<1>1. CASE ApiStep /\ UNCHANGED storeVars
  BY <1>1
  DEF ApiStep, Expire, Submit, Adds, Handle, ReturnStep, Return, Cancel, Deadline
<1>2. ASSUME NEW k \in Keys, AddLoad(k) PROVE KilledForCause'
  BY <1>2 DEF AddLoad, Adds
<1>3. ASSUME NEW k \in Keys, AddStore(k) PROVE KilledForCause'
  BY <1>3 DEF AddStore, Adds
<1>4. ASSUME NEW k \in Keys, AddSend(k) PROVE KilledForCause'
  BY <1>4 DEF AddSend, Adds
<1>5. ASSUME NEW k \in Keys, TimerFires(k) PROVE KilledForCause'
  BY <1>5 DEF TimerFires
<1>6. ASSUME NEW k \in Keys, KillFromTimer(k) PROVE KilledForCause'
  BY <1>6 DEF KillFromTimer
<1>7. ASSUME NEW d \in Downloads, NEW u \in UrlKeys, Access(d, u)
      PROVE  KilledForCause'
  BY <1>7 DEF Access, Accessed
<1>8. ASSUME NEW d \in Downloads, ReporterLeaves(d) PROVE KilledForCause'
  BY <1>8 DEF ReporterLeaves
<1>9. ASSUME NEW d \in Downloads, ReporterReceives(d) PROVE KilledForCause'
  BY <1>9 DEF ReporterReceives, Reported
<1>10. ASSUME NEW d \in Downloads, Count(d) PROVE KilledForCause'
  BY <1>10 DEF Count
<1>11. ASSUME NEW d \in Downloads, Check(d) PROVE KilledForCause'
  BY <1>11 DEF Check, CheckWith
<1>12. ASSUME NEW d \in Downloads, KillFromReporter(d) PROVE KilledForCause'
  BY <1>12 DEF KillFromReporter
<1>13. CASE DeleteKey
  BY <1>13 DEF DeleteKey
<1>14. CASE UNCHANGED vars
  BY <1>14
<1> QED
  BY <1>1, <1>2, <1>3, <1>4, <1>5, <1>6, <1>7, <1>8,
     <1>9, <1>10, <1>11, <1>12, <1>13, <1>14
  DEF Next, AddStep, ReporterStep

(* Only used up and expired keys are ever sent to the killer.              *)
THEOREM KillsForCause == Spec => []KilledForCause
<1>1. Init => KilledForCause
  BY NoKeyAssumption DEF Init, ApiInit, KilledForCause
<1>2. Handed /\ KilledForCause /\ [Next]_vars => KilledForCause'
  BY StepForCause DEF Handed
<1> QED
  BY <1>1, <1>2, AlwaysHanded, PTL DEF Spec

LEMMA StepKeeps ==
  ASSUME TypeOK, KeysHandedOut, KilledForCause, GoneForCause, [Next]_vars
  PROVE  GoneForCause'
<1> USE UrlOfAssumption, LimitAssumption, NoKeyAssumption
       DEF TypeOK, ApiTypeOK, KeysHandedOut, GoneForCause, HasOwnUrl, Set, Kept,
           Stored, Exhausted, Reaches
<1>1. CASE ApiStep /\ UNCHANGED storeVars
  BY <1>1
  DEF ApiStep, Expire, Submit, Adds, Handle, ReturnStep, Return, Cancel, Deadline
<1>2. ASSUME NEW k \in Keys, AddLoad(k) PROVE GoneForCause'
  BY <1>2 DEF AddLoad, Adds
<1>3. ASSUME NEW k \in Keys, AddStore(k) PROVE GoneForCause'
  BY <1>3 DEF AddStore, Adds
<1>4. ASSUME NEW k \in Keys, AddSend(k) PROVE GoneForCause'
  BY <1>4 DEF AddSend, Adds
<1>5. ASSUME NEW k \in Keys, TimerFires(k) PROVE GoneForCause'
  BY <1>5 DEF TimerFires
<1>6. ASSUME NEW k \in Keys, KillFromTimer(k) PROVE GoneForCause'
  BY <1>6 DEF KillFromTimer
<1>7. ASSUME NEW d \in Downloads, NEW u \in UrlKeys, Access(d, u)
      PROVE  GoneForCause'
  BY <1>7 DEF Access, Accessed
<1>8. ASSUME NEW d \in Downloads, ReporterLeaves(d) PROVE GoneForCause'
  BY <1>8 DEF ReporterLeaves
<1>9. ASSUME NEW d \in Downloads, ReporterReceives(d) PROVE GoneForCause'
  BY <1>9 DEF ReporterReceives, Reported
<1>10. ASSUME NEW d \in Downloads, Count(d) PROVE GoneForCause'
  BY <1>10 DEF Count
<1>11. ASSUME NEW d \in Downloads, Check(d) PROVE GoneForCause'
  BY <1>11 DEF Check, CheckWith
<1>12. ASSUME NEW d \in Downloads, KillFromReporter(d) PROVE GoneForCause'
  BY <1>12 DEF KillFromReporter
<1>13. CASE DeleteKey
  BY <1>13 DEF DeleteKey, KilledForCause
<1>14. CASE UNCHANGED vars
  BY <1>14
<1> QED
  BY <1>1, <1>2, <1>3, <1>4, <1>5, <1>6, <1>7, <1>8,
     <1>9, <1>10, <1>11, <1>12, <1>13, <1>14
  DEF Next, AddStep, ReporterStep

(* A key that was added to a url key that no other key was added to is    *)
(* found until it is used up or expired.                                   *)
THEOREM OwnUrlKeysAreKept == Spec => []GoneForCause
<1>1. Init => GoneForCause
  BY DEF Init, ApiInit, GoneForCause, Set, Kept
<1>2. Handed /\ KilledForCause /\ GoneForCause /\ [Next]_vars => GoneForCause'
  BY StepKeeps DEF Handed
<1> QED
  BY <1>1, <1>2, AlwaysHanded, KillsForCause, PTL DEF Spec

-----------------------------------------------------------------------------
(* The count.  A report is received once, before the use is counted, and   *)
(* what it says does not change any more.                                  *)

ReportsInOrder ==
  \A d \in Downloads :
    /\ handler[d] \in {"idle", "granted", "returning"} => report[d] = "none"
    /\ reporter[d] \in {"none", "waiting"} => report[d] # "sent"
    /\ reporter[d] = "count" => served[d] /\ report[d] = "sent"

LEMMA StepInOrder ==
  ASSUME TypeOK, KeysHandedOut, ReportsInOrder, [Next]_vars
  PROVE  ReportsInOrder'
<1> USE DEF TypeOK, ApiTypeOK, KeysHandedOut, ReportsInOrder
<1>1. CASE ApiStep /\ UNCHANGED storeVars
  BY <1>1
  DEF ApiStep, Expire, Submit, Adds, Handle, ReturnStep, Return, Cancel, Deadline
<1>2. ASSUME NEW k \in Keys, AddLoad(k) PROVE ReportsInOrder'
  BY <1>2 DEF AddLoad, Adds
<1>3. ASSUME NEW k \in Keys, AddStore(k) PROVE ReportsInOrder'
  BY <1>3 DEF AddStore, Adds
<1>4. ASSUME NEW k \in Keys, AddSend(k) PROVE ReportsInOrder'
  BY <1>4 DEF AddSend, Adds
<1>5. ASSUME NEW k \in Keys, TimerFires(k) PROVE ReportsInOrder'
  BY <1>5 DEF TimerFires
<1>6. ASSUME NEW k \in Keys, KillFromTimer(k) PROVE ReportsInOrder'
  BY <1>6 DEF KillFromTimer
<1>7. ASSUME NEW d \in Downloads, NEW u \in UrlKeys, Access(d, u)
      PROVE  ReportsInOrder'
  BY <1>7 DEF Access, Accessed
<1>8. ASSUME NEW d \in Downloads, ReporterLeaves(d) PROVE ReportsInOrder'
  BY <1>8 DEF ReporterLeaves
<1>9. ASSUME NEW d \in Downloads, ReporterReceives(d) PROVE ReportsInOrder'
  BY <1>9 DEF ReporterReceives, Reported
<1>10. ASSUME NEW d \in Downloads, Count(d) PROVE ReportsInOrder'
  BY <1>10 DEF Count
<1>11. ASSUME NEW d \in Downloads, Check(d) PROVE ReportsInOrder'
  BY <1>11 DEF Check, CheckWith
<1>12. ASSUME NEW d \in Downloads, KillFromReporter(d) PROVE ReportsInOrder'
  BY <1>12 DEF KillFromReporter
<1>13. CASE DeleteKey
  BY <1>13 DEF DeleteKey
<1>14. CASE UNCHANGED vars
  BY <1>14
<1> QED
  BY <1>1, <1>2, <1>3, <1>4, <1>5, <1>6, <1>7, <1>8,
     <1>9, <1>10, <1>11, <1>12, <1>13, <1>14
  DEF Next, AddStep, ReporterStep

LEMMA AlwaysInOrder == Spec => []ReportsInOrder
<1>1. Init => ReportsInOrder
  BY DEF Init, ApiInit, ReportsInOrder
<1>2. Handed /\ ReportsInOrder /\ [Next]_vars => ReportsInOrder'
  BY StepInOrder DEF Handed
<1> QED
  BY <1>1, <1>2, AlwaysHanded, PTL DEF Spec

(* Nothing but a reporter's Count adds to the downloads that are counted,  *)
(* or takes one away.                                                      *)
SameCounts == \A k \in Keys : Counted(k)' = Counted(k) /\ used'[k] = used[k]

LEMMA OnlyCountCounts ==
  ASSUME TypeOK, KeysHandedOut, ReportsInOrder, [Next]_vars,
         ~\E d \in Downloads : Count(d)
  PROVE  SameCounts
<1> USE DEF TypeOK, ApiTypeOK, KeysHandedOut, ReportsInOrder, SameCounts, Counted,
            ServedWith
<1>1. CASE ApiStep /\ UNCHANGED storeVars
  BY <1>1
  DEF ApiStep, Expire, Submit, Adds, Handle, ReturnStep, Return, Cancel, Deadline
<1>2. ASSUME NEW k \in Keys, AddLoad(k) PROVE SameCounts
  BY <1>2 DEF AddLoad, Adds
<1>3. ASSUME NEW k \in Keys, AddStore(k) PROVE SameCounts
  BY <1>3 DEF AddStore, Adds
<1>4. ASSUME NEW k \in Keys, AddSend(k) PROVE SameCounts
  BY <1>4 DEF AddSend, Adds
<1>5. ASSUME NEW k \in Keys, TimerFires(k) PROVE SameCounts
  BY <1>5 DEF TimerFires
<1>6. ASSUME NEW k \in Keys, KillFromTimer(k) PROVE SameCounts
  BY <1>6 DEF KillFromTimer
<1>7. ASSUME NEW d \in Downloads, NEW u \in UrlKeys, Access(d, u)
      PROVE  SameCounts
  BY <1>7 DEF Access, Accessed
<1>8. ASSUME NEW d \in Downloads, ReporterLeaves(d) PROVE SameCounts
  BY <1>8 DEF ReporterLeaves
<1>9. ASSUME NEW d \in Downloads, ReporterReceives(d) PROVE SameCounts
  BY <1>9 DEF ReporterReceives, Reported
<1>10. ASSUME NEW d \in Downloads, Count(d) PROVE SameCounts
  BY <1>10
<1>11. ASSUME NEW d \in Downloads, Check(d) PROVE SameCounts
  BY <1>11 DEF Check, CheckWith
<1>12. ASSUME NEW d \in Downloads, KillFromReporter(d) PROVE SameCounts
  BY <1>12 DEF KillFromReporter
<1>13. CASE DeleteKey
  BY <1>13 DEF DeleteKey
<1>14. CASE UNCHANGED vars
  BY <1>14
<1> QED
  BY <1>1, <1>2, <1>3, <1>4, <1>5, <1>6, <1>7, <1>8,
     <1>9, <1>10, <1>11, <1>12, <1>13, <1>14
  DEF Next, AddStep, ReporterStep

LEMMA CountCounts ==
  ASSUME TypeOK, KeysHandedOut, ReportsInOrder, CountsAreExact,
         NEW d \in Downloads, Count(d)
  PROVE  CountsAreExact'
<1> USE DEF TypeOK, ApiTypeOK
<1>1. SUFFICES ASSUME NEW k \in Keys PROVE used'[k] = Cardinality(Counted(k)')
  BY DEF CountsAreExact
<1>2. key[d] \in Keys /\ served[d] /\ report[d] = "sent" /\ reporter[d] = "count"
  BY DEF KeysHandedOut, ReportsInOrder, Count
<1>3. CASE k = key[d]
  <2>1. Counted(k)' = Counted(k) \cup {d} /\ d \notin Counted(k)
    BY <1>2, <1>3 DEF Count, Counted, ServedWith
  <2>2. IsFiniteSet(Counted(k))
    BY DownloadsAssumption, FS_Subset DEF Counted, ServedWith
  <2>3. Cardinality(Counted(k)') = Cardinality(Counted(k)) + 1
    BY <2>1, <2>2, FS_AddElement
  <2> QED
    BY <1>3, <2>3 DEF Count, CountsAreExact
<1>4. CASE k # key[d]
  <2>1. Counted(k)' = Counted(k)
    BY <1>2, <1>4 DEF Count, Counted, ServedWith
  <2> QED
    BY <1>4, <2>1 DEF Count, CountsAreExact
<1> QED
  BY <1>3, <1>4

(* usedTimes is, at every moment, the number of served downloads whose     *)
(* report was received and counted: no use is lost once it is reported and *)
(* none counts twice.                                                      *)
THEOREM ExactCounts == Spec => []CountsAreExact
<1>1. Init => CountsAreExact
  <2> SUFFICES ASSUME Init, NEW k \in Keys PROVE used[k] = Cardinality(Counted(k))
    BY DEF CountsAreExact
  <2>1. Counted(k) = {}
    BY DEF Init, ApiInit, Counted, ServedWith
  <2> QED
    BY <2>1, FS_EmptySet DEF Init
<1>2. Handed /\ ReportsInOrder /\ CountsAreExact /\ [Next]_vars => CountsAreExact'
  <2> SUFFICES ASSUME Handed, ReportsInOrder, CountsAreExact, [Next]_vars
               PROVE  CountsAreExact'
    OBVIOUS
  <2>1. CASE \E d \in Downloads : Count(d)
    BY <2>1, CountCounts DEF Handed
  <2>2. CASE ~\E d \in Downloads : Count(d)
    <3>1. SameCounts
      BY <2>2, OnlyCountCounts DEF Handed
    <3> QED
      BY <3>1 DEF SameCounts, CountsAreExact
  <2> QED
    BY <2>1, <2>2
<1> QED
  BY <1>1, <1>2, AlwaysHanded, AlwaysInOrder, PTL DEF Spec

-----------------------------------------------------------------------------
(* Who sends a backMessage and who receives it.                            *)

(* A download with a key has a reporter that waits for it from the moment  *)
(* Access returns until the message is received or the context is over.    *)
Awaited ==
  \A d \in Downloads :
    (key[d] # None /\ report[d] # "sent" /\ d \notin ctxDone)
      => reporter[d] = "waiting"

LEMMA StepAwaits ==
  ASSUME TypeOK, KeysHandedOut, ReportsInOrder, Awaited, [Next]_vars
  PROVE  Awaited'
<1> USE NoKeyAssumption
       DEF TypeOK, ApiTypeOK, KeysHandedOut, ReportsInOrder, Awaited
<1>1. CASE ApiStep /\ UNCHANGED storeVars
  BY <1>1
  DEF ApiStep, Expire, Submit, Adds, Handle, ReturnStep, Return, Cancel, Deadline
<1>2. ASSUME NEW k \in Keys, AddLoad(k) PROVE Awaited'
  BY <1>2 DEF AddLoad, Adds
<1>3. ASSUME NEW k \in Keys, AddStore(k) PROVE Awaited'
  BY <1>3 DEF AddStore, Adds
<1>4. ASSUME NEW k \in Keys, AddSend(k) PROVE Awaited'
  BY <1>4 DEF AddSend, Adds
<1>5. ASSUME NEW k \in Keys, TimerFires(k) PROVE Awaited'
  BY <1>5 DEF TimerFires
<1>6. ASSUME NEW k \in Keys, KillFromTimer(k) PROVE Awaited'
  BY <1>6 DEF KillFromTimer
<1>7. ASSUME NEW d \in Downloads, NEW u \in UrlKeys, Access(d, u)
      PROVE  Awaited'
  BY <1>7 DEF Access, Accessed
<1>8. ASSUME NEW d \in Downloads, ReporterLeaves(d) PROVE Awaited'
  BY <1>8 DEF ReporterLeaves
<1>9. ASSUME NEW d \in Downloads, ReporterReceives(d) PROVE Awaited'
  BY <1>9 DEF ReporterReceives, Reported
<1>10. ASSUME NEW d \in Downloads, Count(d) PROVE Awaited'
  BY <1>10 DEF Count
<1>11. ASSUME NEW d \in Downloads, Check(d) PROVE Awaited'
  BY <1>11 DEF Check, CheckWith
<1>12. ASSUME NEW d \in Downloads, KillFromReporter(d) PROVE Awaited'
  BY <1>12 DEF KillFromReporter
<1>13. CASE DeleteKey
  BY <1>13 DEF DeleteKey
<1>14. CASE UNCHANGED vars
  BY <1>14
<1> QED
  BY <1>1, <1>2, <1>3, <1>4, <1>5, <1>6, <1>7, <1>8,
     <1>9, <1>10, <1>11, <1>12, <1>13, <1>14
  DEF Next, AddStep, ReporterStep

(* The goroutine that sends the backMessage for a key has a receiver until *)
(* the context is over: it is the cancel that may leave it waiting.        *)
THEOREM SendersHaveReceivers == Spec => []SenderHasReceiver
<1>1. Init => Awaited
  BY DEF Init, ApiInit, Awaited
<1>2. Handed /\ ReportsInOrder /\ Awaited /\ [Next]_vars => Awaited'
  BY StepAwaits DEF Handed
<1>3. Awaited => SenderHasReceiver
  BY DEF Awaited, SenderHasReceiver
<1> QED
  BY <1>1, <1>2, <1>3, AlwaysHanded, AlwaysInOrder, PTL DEF Spec
=============================================================================
