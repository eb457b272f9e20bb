-------------------------- MODULE AccessRedisProofs --------------------------
(***************************************************************************)
(* What is proved of AccessRedis for every set of keys, url keys and       *)
(* unlock keys, any finite number of downloads, any limits and ttls, any   *)
(* number of restarts, and commands that fail or not.                      *)
(***************************************************************************)
EXTENDS AccessRedis, FiniteSetTheorems, TLAPS

USE DEF apiVars, addVars, downloadVars, serverVars, storeVars, vars

-----------------------------------------------------------------------------
(* Types, and the order in which keys and reports come.                    *)

(* The Set of AddKey for k is over, and may have reached the server. *)
Sent(k) == adding[k] \notin {"idle", "submitted"}

(* r is a record of a key of u that was sent. *)
Under(u, r) == UrlOf[r.key] = u /\ Sent(r.key)

(* Every record is that of a key of the url key it is, or was, found under. *)
RecordsInPlace ==
  /\ \A u \in UrlKeys : value[u] # None => Under(u, value[u])
  /\ \A d \in Downloads :
       /\ key[d] # None => Sent(key[d])
       /\ fetched[d] # None => key[d] # None /\ Under(Url(d), fetched[d])
       /\ late[d] # None => key[d] # None /\ Under(Url(d), late[d].record)
  /\ killing # None => Sent(killing)

ReportInOrder(d) ==
  /\ handler[d] = "idle" =>
       /\ key[d] = None /\ reporter[d] = "none"
       /\ fetched[d] = None /\ late[d] = None /\ unlock[d] = None
  /\ handler[d] = "granted" =>
       /\ fetched[d] # None /\ fetched[d].key = key[d] /\ unlock[d] = None
       /\ reporter[d] \in {"waiting", "gone"}
  /\ handler[d] \in {"idle", "granted"} => ~served[d]
  /\ handler[d] \in {"idle", "granted", "returning"} => report[d] = "none"
  /\ reporter[d] # "none" => key[d] # None
  /\ reporter[d] = "waiting" => report[d] # "sent"
  /\ reporter[d] \in {"get", "set", "sending"} => report[d] = "sent"
  /\ reporter[d] \in {"set", "sending"} => fetched[d] # None
  /\ reporter[d] = "set" => served[d]
  /\ late[d] # None => reporter[d] \in {"sending", "gone"}
  /\ unlock[d] # None => key[d] # None

ReportsInOrder == \A d \in Downloads : ReportInOrder(d)

Handed == TypeOK /\ RecordsInPlace /\ ReportsInOrder

LEMMA InitHanded == Init => Handed
<1> SUFFICES ASSUME Init PROVE Handed
  OBVIOUS
<1> USE DEF Init, ApiInit
<1>1. TypeOK
  <2>1. ApiTypeOK
    BY DEF ApiTypeOK
  <2>2. restarts \in 0..MaxRestarts
    BY MaxRestartsAssumption
  <2> QED
    BY <2>1, <2>2 DEF TypeOK
<1>2. RecordsInPlace
  BY DEF RecordsInPlace
<1>3. ReportsInOrder
  BY DEF ReportsInOrder, ReportInOrder
<1> QED
  BY <1>1, <1>2, <1>3 DEF Handed

LEMMA NewRecordIs ==
  ASSUME NEW k \in Keys, NEW r \in NewRecords(k)
  PROVE  /\ r \in Record /\ r # None /\ r.key = k /\ r.used = 0
         /\ r.opens \subseteq ValidKeys[k] /\ (ValidKeys[k] = {} => r.opens = {})
<1>1. PICK es \in Opening(k) : r = [key |-> k, used |-> 0, opens |-> es]
  BY DEF NewRecords
<1>2. es \subseteq ValidKeys[k] /\ es \subseteq UnlockKeys
  BY ValidKeysAssumption DEF Opening
<1>3. r \in Record
  BY <1>1, <1>2 DEF Record
<1> QED
  BY <1>1, <1>2, <1>3, NoRecordAssumption

LEMMA CountingIs ==
  ASSUME NEW r \in Record
  PROVE  /\ Counting(r) \in Record /\ Counting(r) # None
         /\ Counting(r).key = r.key /\ Counting(r).opens = r.opens
         /\ Counting(r).used = r.used + 1
<1>1. Counting(r) \in Record
  BY DEF Counting, Record
<1> QED
  BY <1>1, NoRecordAssumption DEF Counting, Record

(* A reporter that gets a value. *)
Getting(d, fails) ==
  LET found == IF fails THEN None ELSE value[Url(d)]
  IN /\ fetched' = [fetched EXCEPT ![d] = found]
     /\ reporter'[d] = IF found = None THEN "gone"
                       ELSE IF served[d] THEN "set"
                       ELSE IF UsedUp(found) THEN "sending" ELSE "gone"
     /\ "count" \notin failed' => "count" \notin failed /\ ~(fails /\ served[d])
     /\ "removal" \notin failed' => "removal" \notin failed

LEMMA ReporterGetsIs ==
  ASSUME TypeOK, NEW d \in Downloads, ReporterGets(d)
  PROVE  /\ reporter[d] = "get" /\ Meets(Url(d))
         /\ UNCHANGED <<apiVars, serverVars, killing, unlock, restarts>>
         /\ reporter' \in [Downloads -> {"none", "waiting", "get", "set", "sending", "gone"}]
         /\ \A c \in Downloads \ {d} : reporter'[c] = reporter[c]
         /\ failed' \subseteq {"count", "removal"}
         /\ \E fails \in BOOLEAN : Getting(d, fails)
<1>1. PICK fails \in FailsFor(d) :
        LET found == IF fails THEN None ELSE value[Url(d)]
        IN /\ fetched' = [fetched EXCEPT ![d] = found]
           /\ reporter' = [reporter EXCEPT ![d] =
                IF found = None THEN "gone"
                ELSE IF served[d] THEN "set"
                ELSE IF UsedUp(found) THEN "sending" ELSE "gone"]
           /\ Noted("count", fails /\ served[d])
  BY DEF ReporterGets, GetWith
<1>2. /\ reporter[d] = "get" /\ Meets(Url(d))
      /\ UNCHANGED <<apiVars, serverVars, killing, unlock, restarts>>
  BY DEF ReporterGets, GetWith
<1>3. fails \in BOOLEAN /\ failed \subseteq {"count", "removal"}
  BY DEF FailsFor, Fails, TypeOK
<1>4. /\ reporter' \in [Downloads -> {"none", "waiting", "get", "set", "sending", "gone"}]
      /\ \A c \in Downloads \ {d} : reporter'[c] = reporter[c]
  BY <1>1 DEF TypeOK
<1>5. Getting(d, fails)
  BY <1>1, <1>3 DEF Getting, Noted, TypeOK
<1>6. failed' \subseteq {"count", "removal"}
  BY <1>1, <1>3 DEF Noted
<1> QED
  BY <1>2, <1>3, <1>4, <1>5, <1>6

(* A reporter that sets the value it has counted. *)
Setting(d, c, arrives) ==
  /\ c.record = Counting(fetched[d]) /\ (c.px => fetched[d].key \in expired)
  /\ \/ arrives = "now" /\ Put(Url(d), c) /\ UNCHANGED late
     \/ arrives = "late" /\ late' = [late EXCEPT ![d] = c] /\ UNCHANGED <<value, px>>
     \/ arrives = "never" /\ UNCHANGED serverVars
  /\ "count" \notin failed' => "count" \notin failed /\ arrives = "now"
  /\ "removal" \notin failed' => "removal" \notin failed

LEMMA ReporterSetsIs ==
  ASSUME TypeOK, NEW d \in Downloads, fetched[d] \in Record, ReporterSets(d)
  PROVE  /\ reporter[d] = "set"
         /\ UNCHANGED <<apiVars, killing, unlock, restarts, met>>
         /\ reporter' \in [Downloads -> {"none", "waiting", "get", "set", "sending", "gone"}]
         /\ fetched' \in [Downloads -> Record \cup {None}]
         /\ \A c \in Downloads \ {d} :
              reporter'[c] = reporter[c] /\ fetched'[c] = fetched[c]
         /\ \/ /\ UsedUp(Counting(fetched[d]))
               /\ reporter'[d] = "sending" /\ fetched'[d] = Counting(fetched[d])
            \/ /\ ~UsedUp(Counting(fetched[d]))
               /\ reporter'[d] = "gone" /\ fetched'[d] = None
         /\ failed' \subseteq {"count", "removal"}
         /\ \E c \in Command, arrives \in {"now", "late", "never"} : Setting(d, c, arrives)
<1> DEFINE record == Counting(fetched[d])
           next == IF UsedUp(record) THEN "sending" ELSE "gone"
<1>1. SetWith(d, record, next)
  BY DEF ReporterSets
<1> HIDE DEF record
<1>2. record \in Record /\ record # None /\ record.key = fetched[d].key
  BY CountingIs DEF record
<1>3. PICK over \in Expiry(record.key), fails \in FailsFor(d),
           arrives \in {"now", "late", "never"} :
        LET c == [record |-> record, px |-> over]
        IN /\ ~fails => arrives = "now"
           /\ \/ arrives = "now" /\ Put(Url(d), c) /\ UNCHANGED late
              \/ /\ arrives = "late"
                 /\ late' = [late EXCEPT ![d] = c]
                 /\ UNCHANGED <<value, px>>
              \/ arrives = "never" /\ UNCHANGED serverVars
           /\ Noted("count", fails)
  BY <1>1 DEF SetWith
<1> DEFINE c == [record |-> record, px |-> over]
<1>4. c \in Command /\ c.record = record /\ (c.px => record.key \in expired)
  BY <1>2 DEF Command, Expiry
<1>5. failed' \subseteq {"count", "removal"}
  BY <1>3 DEF Noted, TypeOK
<1>6. Setting(d, c, arrives)
  <2>1. /\ "count" \notin failed' => "count" \notin failed /\ arrives = "now"
        /\ "removal" \notin failed' => "removal" \notin failed
    BY <1>3 DEF Noted
  <2> QED
    BY <1>2, <1>3, <1>4, <2>1 DEF Setting, record
<1>7. /\ reporter[d] = "set"
      /\ UNCHANGED <<apiVars, killing, unlock, restarts, met>>
      /\ \/ next = "gone" /\ Leaves(d)
         \/ /\ next # "gone"
            /\ reporter' = [reporter EXCEPT ![d] = next]
            /\ fetched' = [fetched EXCEPT ![d] = record]
  BY <1>1 DEF SetWith
<1>8. /\ reporter' \in [Downloads -> {"none", "waiting", "get", "set", "sending", "gone"}]
      /\ fetched' \in [Downloads -> Record \cup {None}]
      /\ \A e \in Downloads \ {d} : reporter'[e] = reporter[e] /\ fetched'[e] = fetched[e]
      /\ \/ UsedUp(record) /\ reporter'[d] = "sending" /\ fetched'[d] = record
         \/ ~UsedUp(record) /\ reporter'[d] = "gone" /\ fetched'[d] = None
  BY <1>2, <1>7 DEF Leaves, TypeOK
<1> QED
  BY <1>4, <1>5, <1>6, <1>7, <1>8 DEF record

(* /api/download as far as the store takes part in it. *)
LEMMA AccessIs ==
  ASSUME TypeOK, NEW d \in Downloads, NEW u \in UrlKeys, Access(d, u)
  PROVE  /\ handler[d] = "idle"
         /\ UNCHANGED <<addVars, served, report, ctxDone, serverVars, killing, unlock,
                        restarts, failed, met>>
         /\ \E found \in {value[u], None} :
              /\ key' = [key EXCEPT ![d] = IF found = None THEN None ELSE found.key]
              /\ handler' = [handler EXCEPT ![d] =
                               IF found = None THEN "returning" ELSE "granted"]
              /\ fetched' = [fetched EXCEPT ![d] = found]
              /\ reporter' = [reporter EXCEPT ![d] =
                                IF found = None THEN "none" ELSE "waiting"]
<1>1. PICK fails \in Fails :
        LET found == IF fails THEN None ELSE value[u]
        IN /\ Accessed(d, IF found = None THEN None ELSE found.key)
           /\ fetched' = [fetched EXCEPT ![d] = found]
           /\ reporter' = [reporter EXCEPT ![d] = IF found = None THEN "none" ELSE "waiting"]
  BY DEF Access
<1> DEFINE found == IF fails THEN None ELSE value[u]
<1>2. found \in {value[u], None}
  OBVIOUS
<1>3. UNCHANGED <<serverVars, killing, unlock, restarts, failed, met>>
  BY DEF Access
<1>4. Accessed(d, IF found = None THEN None ELSE found.key)
  BY <1>1
<1>5. /\ handler[d] = "idle"
      /\ UNCHANGED <<addVars, served, report, ctxDone>>
      /\ key' = [key EXCEPT ![d] = IF found = None THEN None ELSE found.key]
  BY <1>4 DEF Accessed
<1>6. handler' = [handler EXCEPT ![d] = IF found = None THEN "returning" ELSE "granted"]
  <2>1. CASE found = None
    BY <1>4, <2>1 DEF Accessed
  <2>2. CASE found # None
    <3>1. found.key # None
      BY <1>2, <2>2, NoKeyAssumption DEF TypeOK, Record
    <3> QED
      BY <1>4, <2>2, <3>1 DEF Accessed
  <2> QED
    BY <2>1, <2>2
<1>7. /\ fetched' = [fetched EXCEPT ![d] = found]
      /\ reporter' = [reporter EXCEPT ![d] = IF found = None THEN "none" ELSE "waiting"]
  BY <1>1
<1> HIDE DEF found
<1> QED
  BY <1>2, <1>3, <1>5, <1>6, <1>7

LEMMA AddKeyIs ==
  ASSUME TypeOK, NEW k \in Keys, AddKey(k)
  PROVE  /\ adding[k] = "submitted"
         /\ adding' \in [Keys -> {"idle", "submitted", "store", "send", "added", "refused"}]
         /\ Sent(k)' /\ \A l \in Keys \ {k} : adding'[l] = adding[l]
         /\ UNCHANGED <<expired, downloadVars, late, killing, reporter, fetched, unlock,
                        restarts, failed>>
         /\ \/ \E c \in Command : /\ c.record \in NewRecords(k) /\ (c.px => k \in expired)
                                  /\ Put(UrlOf[k], c) /\ Meets(UrlOf[k])
            \/ adding'[k] = "refused" /\ UNCHANGED <<value, px, met>>
<1>1. PICK record \in NewRecords(k), over \in Expiry(k), fails \in Fails, arrives \in BOOLEAN :
        /\ fails \/ arrives
        /\ Adds(k, "submitted", IF fails THEN "refused" ELSE "added")
        /\ \/ arrives /\ Put(UrlOf[k], [record |-> record, px |-> over]) /\ Meets(UrlOf[k])
           \/ ~arrives /\ UNCHANGED <<value, px, met>>
        /\ UNCHANGED <<late, killing, reporter, fetched, unlock, restarts, failed>>
  BY DEF AddKey
<1> DEFINE c == [record |-> record, px |-> over]
<1>2. c \in Command /\ c.record = record /\ (c.px => k \in expired)
  BY NewRecordIs DEF Command, Expiry
<1>3. /\ adding[k] = "submitted"
      /\ adding' = [adding EXCEPT ![k] = IF fails THEN "refused" ELSE "added"]
      /\ UNCHANGED <<expired, downloadVars>>
  BY <1>1 DEF Adds
<1>4. /\ adding' \in [Keys -> {"idle", "submitted", "store", "send", "added", "refused"}]
      /\ Sent(k)' /\ \A l \in Keys \ {k} : adding'[l] = adding[l]
      /\ fails => adding'[k] = "refused"
  BY <1>3 DEF TypeOK, ApiTypeOK, Sent
<1> QED
  BY <1>1, <1>2, <1>3, <1>4

(* What a Set does to the values. *)
LEMMA PutIs ==
  ASSUME TypeOK, NEW u \in UrlKeys, NEW c \in Command, Put(u, c)
  PROVE  /\ value' \in [UrlKeys -> Record \cup {None}] /\ px' \subseteq UrlKeys
         /\ value'[u] = c.record /\ c.record \in Record /\ c.record # None
         /\ \A w \in UrlKeys \ {u} : value'[w] = value[w]
         /\ u \in px' => c.px
         /\ \A w \in px' \ {u} : w \in px
BY NoRecordAssumption DEF Put, Command, TypeOK

LEMMA UrlIs ==
  ASSUME TypeOK, NEW d \in Downloads, key[d] # None
  PROVE  key[d] \in Keys /\ Url(d) \in UrlKeys
BY UrlOfAssumption DEF TypeOK, ApiTypeOK, Url

LEMMA StepTyped ==
  ASSUME Handed, [Next]_vars
  PROVE  TypeOK'
<1> USE UrlOfAssumption DEF Handed, TypeOK, ApiTypeOK
<1>1. CASE HandlerStep /\ UNCHANGED storeVars
  BY <1>1 DEF HandlerStep, Expire, Submit, Adds, ReturnStep, Return, Cancel, Deadline
<1>2. ASSUME NEW k \in Keys, AddKey(k) PROVE TypeOK'
  <2>1. /\ adding' \in [Keys -> {"idle", "submitted", "store", "send", "added", "refused"}]
        /\ UNCHANGED <<expired, downloadVars, late, killing, reporter, fetched, unlock,
                       restarts, failed>>
    BY <1>2, AddKeyIs
  <2>2. met' \subseteq UrlKeys
    BY <1>2, AddKeyIs DEF Meets
  <2>3. value' \in [UrlKeys -> Record \cup {None}] /\ px' \subseteq UrlKeys
    BY <1>2, AddKeyIs, PutIs
  <2> QED
    BY <2>1, <2>2, <2>3
<1>3. ASSUME NEW u \in UrlKeys, ServerExpires(u) PROVE TypeOK'
  BY <1>3 DEF ServerExpires, Meets
<1>4. ASSUME NEW d \in Downloads, NEW u \in UrlKeys, Access(d, u) PROVE TypeOK'
  <2>1. PICK found \in {value[u], None} :
          /\ key' = [key EXCEPT ![d] = IF found = None THEN None ELSE found.key]
          /\ handler' = [handler EXCEPT ![d] =
                           IF found = None THEN "returning" ELSE "granted"]
          /\ fetched' = [fetched EXCEPT ![d] = found]
          /\ reporter' = [reporter EXCEPT ![d] =
                            IF found = None THEN "none" ELSE "waiting"]
    BY <1>4, AccessIs
  <2>2. found # None => found \in Record /\ found.key \in Keys
    BY <2>1 DEF Record
  <2>3. UNCHANGED <<addVars, served, report, ctxDone, serverVars, killing, unlock,
                    restarts, failed, met>>
    BY <1>4, AccessIs
  <2>4. /\ fetched' \in [Downloads -> Record \cup {None}]
        /\ key' \in [Downloads -> Keys \cup {None}]
        /\ handler' \in [Downloads -> {"idle", "granted", "returning", "cancelling", "done"}]
        /\ reporter' \in [Downloads -> {"none", "waiting", "get", "set", "sending", "gone"}]
    BY <2>1, <2>2
  <2> QED
    BY <2>3, <2>4
<1>5. ASSUME NEW d \in Downloads, Unlock(d) PROVE TypeOK'
  <2>1. /\ handler' \in [Downloads -> {"idle", "granted", "returning", "cancelling", "done"}]
        /\ served' \in [Downloads -> BOOLEAN]
        /\ UNCHANGED <<addVars, key, report, ctxDone>>
        /\ UNCHANGED <<serverVars, killing, reporter, fetched, restarts, failed, met>>
    BY <1>5 DEF Unlock, Handle
  <2>2. unlock' \in [Downloads -> [sent : UnlockKeys, valid : BOOLEAN] \cup {None}]
    <3>1. CASE UNCHANGED unlock
      BY <3>1
    <3>2. ASSUME NEW e \in UnlockKeys,
                 unlock' = [unlock EXCEPT ![d] = [sent |-> e, valid |-> e \in fetched[d].opens]]
          PROVE  unlock' \in [Downloads -> [sent : UnlockKeys, valid : BOOLEAN] \cup {None}]
      BY <3>2
    <3> QED
      BY <1>5, <3>1, <3>2 DEF Unlock
  <2> QED
    BY <2>1, <2>2
<1>6. ASSUME NEW d \in Downloads, ReporterLeaves(d) \/ ReporterReceives(d) PROVE TypeOK'
  <2>1. CASE ReporterLeaves(d)
    BY <2>1 DEF ReporterLeaves
  <2>2. CASE ReporterReceives(d)
    BY <2>2 DEF ReporterReceives, Reported
  <2> QED
    BY <1>6, <2>1, <2>2
<1>7. ASSUME NEW d \in Downloads, ReporterGets(d) PROVE TypeOK'
  <2>1. Url(d) \in UrlKeys
    BY <1>7, UrlIs DEF ReporterGets, GetWith, ReportsInOrder, ReportInOrder
  <2>2. /\ UNCHANGED <<apiVars, serverVars, killing, unlock, restarts>>
        /\ reporter' \in [Downloads -> {"none", "waiting", "get", "set", "sending", "gone"}]
        /\ failed' \subseteq {"count", "removal"} /\ met' \subseteq UrlKeys
    BY <1>7, <2>1, ReporterGetsIs DEF Meets
  <2>3. fetched' \in [Downloads -> Record \cup {None}]
    BY <1>7, <2>1, ReporterGetsIs DEF Getting
  <2> QED
    BY <2>2, <2>3
<1>8. ASSUME NEW d \in Downloads, ReporterSets(d) PROVE TypeOK'
  <2>1. fetched[d] \in Record /\ Url(d) \in UrlKeys
    BY <1>8, UrlIs DEF ReporterSets, SetWith, ReportsInOrder, ReportInOrder
  <2>2. /\ value' \in [UrlKeys -> Record \cup {None}] /\ px' \subseteq UrlKeys
        /\ late' \in [Downloads -> Command \cup {None}]
    BY <1>8, <2>1, ReporterSetsIs, PutIs DEF Setting
  <2> QED
    BY <1>8, <2>1, <2>2, ReporterSetsIs
<1>9. ASSUME NEW d \in Downloads, LateSet(d) PROVE TypeOK'
  <2>1. late[d] \in Command /\ Url(d) \in UrlKeys
    BY <1>9, UrlIs DEF LateSet, RecordsInPlace
  <2>2. value' \in [UrlKeys -> Record \cup {None}] /\ px' \subseteq UrlKeys
    BY <1>9, <2>1, PutIs DEF LateSet
  <2> QED
    BY <1>9, <2>1, <2>2 DEF LateSet, Meets, Noted
<1>10. ASSUME NEW d \in Downloads, KillFromReporter(d) PROVE TypeOK'
  BY <1>10 DEF KillFromReporter, Leaves, ReportsInOrder, ReportInOrder, Record
<1>11. CASE DeleteKey
  BY <1>11 DEF DeleteKey, Meets, Noted
<1>12. CASE Restart
  <2>1. /\ restarts' \in 0..MaxRestarts /\ killing' = None
        /\ fetched' = [d \in Downloads |-> None]
        /\ UNCHANGED <<serverVars, unlock, met>>
        /\ UNCHANGED <<expired, key, served, report, ctxDone>>
    BY <1>12, MaxRestartsAssumption DEF Restart
  <2>2. /\ reporter' \in [Downloads -> {"none", "waiting", "get", "set", "sending", "gone"}]
        /\ handler' \in [Downloads -> {"idle", "granted", "returning", "cancelling", "done"}]
        /\ adding' \in [Keys -> {"idle", "submitted", "store", "send", "added", "refused"}]
    BY <1>12 DEF Restart
  <2>3. failed' \subseteq {"count", "removal"}
    BY <1>12 DEF Restart, LostByRestart
  <2> QED
    BY <2>1, <2>2, <2>3
<1>13. CASE UNCHANGED vars
  BY <1>13
<1> QED
  BY <1>1, <1>2, <1>3, <1>4, <1>5, <1>6, <1>7, <1>8, <1>9, <1>10, <1>11, <1>12, <1>13 DEF Next

(* Keys that were sent stay sent. *)
LEMMA SentStays ==
  ASSUME Handed, [Next]_vars, NEW k \in Keys, Sent(k)
  PROVE  Sent(k)'
<1> USE DEF Handed, TypeOK, ApiTypeOK, Sent
<1>1. CASE HandlerStep /\ UNCHANGED storeVars
  BY <1>1 DEF HandlerStep, Expire, Submit, Adds, ReturnStep, Return, Cancel, Deadline
<1>2. ASSUME NEW l \in Keys, AddKey(l) PROVE Sent(k)'
  BY <1>2, AddKeyIs
<1>3. ASSUME NEW d \in Downloads, NEW u \in UrlKeys, Access(d, u) PROVE Sent(k)'
  BY <1>3, AccessIs
<1>4. ASSUME NEW d \in Downloads, ReporterSets(d) PROVE Sent(k)'
  BY <1>4 DEF ReporterSets, SetWith
<1>5. ASSUME NEW u \in UrlKeys, ServerExpires(u) PROVE Sent(k)'
  BY <1>5 DEF ServerExpires
<1>6. ASSUME NEW d \in Downloads,
             \/ Unlock(d) \/ ReporterLeaves(d) \/ ReporterReceives(d)
             \/ ReporterGets(d) \/ LateSet(d) \/ KillFromReporter(d)
      PROVE  Sent(k)'
  BY <1>6 DEF Unlock, Handle, ReporterLeaves, ReporterReceives, Reported, ReporterGets,
              GetWith, LateSet, KillFromReporter
<1>7. CASE DeleteKey
  BY <1>7 DEF DeleteKey
<1>8. CASE Restart
  BY <1>8 DEF Restart
<1>9. CASE UNCHANGED vars
  BY <1>9
<1> QED
  BY <1>1, <1>2, <1>3, <1>4, <1>5, <1>6, <1>7, <1>8, <1>9 DEF Next

LEMMA StepInPlace ==
  ASSUME Handed, [Next]_vars
  PROVE  RecordsInPlace'
<1> USE UrlOfAssumption, NoKeyAssumption DEF Handed, TypeOK, ApiTypeOK, RecordsInPlace, Under, Sent, Url
<1>0. \A k \in Keys : Sent(k) => Sent(k)'
  BY SentStays
<1>r. \A r \in Record : r.key \in Keys
  BY DEF Record
<1>u. \A u \in UrlKeys, r \in Record : Under(u, r) => Under(u, r)'
  BY <1>0, <1>r DEF Under
<1>l. \A c \in Command : c.record \in Record
  BY DEF Command
<1>1. CASE HandlerStep /\ UNCHANGED storeVars
  <2>1. UNCHANGED <<key, storeVars>>
    BY <1>1 DEF HandlerStep, Expire, Submit, Adds, ReturnStep, Return, Cancel, Deadline
  <2> QED
    BY <1>0, <1>u, <1>l, <2>1 DEF Url
<1>2. ASSUME NEW k \in Keys, AddKey(k) PROVE RecordsInPlace'
  <2>1. UNCHANGED <<key, fetched, late, killing>> /\ Sent(k)'
    BY <1>2, AddKeyIs
  <2>2. ASSUME NEW u \in UrlKeys, value'[u] # None PROVE Under(u, value[u])'
    <3>1. CASE UNCHANGED value
      BY <1>u, <2>2, <3>1
    <3>2. ASSUME NEW c \in Command, c.record \in NewRecords(k), Put(UrlOf[k], c)
          PROVE  Under(u, value[u])'
      <4>1. c.record.key = k
        BY <3>2, NewRecordIs
      <4>2. CASE u = UrlOf[k]
        BY <2>1, <3>2, <4>1, <4>2, PutIs DEF Under
      <4>3. CASE u # UrlOf[k]
        BY <1>u, <2>2, <3>2, <4>3, PutIs
      <4> QED
        BY <4>2, <4>3
    <3> QED
      BY <1>2, <3>1, <3>2, AddKeyIs
  <2> QED
    BY <1>0, <1>u, <1>l, <2>1, <2>2 DEF Url
<1>3. ASSUME NEW u \in UrlKeys, ServerExpires(u) PROVE RecordsInPlace'
  BY <1>0, <1>3, <1>u, <1>l DEF ServerExpires, Url
<1>4. ASSUME NEW d \in Downloads, NEW u \in UrlKeys, Access(d, u) PROVE RecordsInPlace'
  <2>1. PICK found \in {value[u], None} :
          /\ key' = [key EXCEPT ![d] = IF found = None THEN None ELSE found.key]
          /\ fetched' = [fetched EXCEPT ![d] = found]
    BY <1>4, AccessIs
  <2>2. UNCHANGED <<adding, value, late, killing>> /\ late[d] = None
    BY <1>4, AccessIs DEF ReportsInOrder, ReportInOrder
  <2>3. found # None => found \in Record /\ Under(u, found) /\ key'[d] = found.key
    BY <2>1
  <2>4. \A e \in Downloads \ {d} : key'[e] = key[e] /\ fetched'[e] = fetched[e]
    BY <2>1
  <2>5. fetched'[d] = found /\ (found = None => key'[d] = None)
    BY <2>1
  <2>6. found # None => found.key # None
    BY <2>3, <1>r
  <2> QED
    BY <1>0, <1>r, <1>u, <1>l, <2>2, <2>3, <2>4, <2>5, <2>6 DEF Url, Under
<1>5. ASSUME NEW d \in Downloads, Unlock(d) PROVE RecordsInPlace'
  BY <1>0, <1>5, <1>u, <1>l DEF Unlock, Handle, Url
<1>6. ASSUME NEW d \in Downloads, ReporterLeaves(d) \/ ReporterReceives(d)
      PROVE  RecordsInPlace'
  <2>1. UNCHANGED <<adding, key, value, fetched, late, killing>>
    BY <1>6 DEF ReporterLeaves, ReporterReceives, Reported
  <2> QED
    BY <1>0, <1>u, <1>l, <2>1 DEF Url
<1>7. ASSUME NEW d \in Downloads, ReporterGets(d) PROVE RecordsInPlace'
  <2>1. Url(d) \in UrlKeys /\ key[d] # None
    BY <1>7, UrlIs DEF ReporterGets, GetWith, ReportsInOrder, ReportInOrder
  <2>2. UNCHANGED <<adding, key, value, late, killing>>
    BY <1>7, ReporterGetsIs
  <2>3. /\ fetched'[d] \in {None, value[Url(d)]}
        /\ \A e \in Downloads \ {d} : fetched'[e] = fetched[e]
    BY <1>7, ReporterGetsIs DEF Getting
  <2> QED
    BY <1>0, <1>u, <1>l, <2>1, <2>2, <2>3 DEF Url
<1>8. ASSUME NEW d \in Downloads, ReporterSets(d) PROVE RecordsInPlace'
  <2>1. fetched[d] \in Record /\ fetched[d] # None /\ key[d] # None /\ Url(d) \in UrlKeys
    BY <1>8, UrlIs, NoRecordAssumption
    DEF ReporterSets, SetWith, ReportsInOrder, ReportInOrder
  <2>2. PICK record \in Record : record = Counting(fetched[d])
    BY <2>1, CountingIs
  <2>r. Under(Url(d), record)'
    <3>1. record.key = fetched[d].key
      BY <2>1, <2>2, CountingIs
    <3>2. UNCHANGED key
      BY <1>8, <2>1, ReporterSetsIs
    <3> QED
      BY <1>r, <1>0, <2>1, <3>1, <3>2
  <2>3. UNCHANGED <<adding, key, killing>>
    BY <1>8, <2>1, ReporterSetsIs
  <2>4. /\ fetched'[d] \in {None, record}
        /\ \A e \in Downloads \ {d} : fetched'[e] = fetched[e]
    BY <1>8, <2>1, <2>2, ReporterSetsIs
  <2>5. PICK c \in Command, arrives \in {"now", "late", "never"} : Setting(d, c, arrives)
    BY <1>8, <2>1, ReporterSetsIs
  <2>6. c.record = record
    BY <2>2, <2>5 DEF Setting
  <2>7. \A u \in UrlKeys : value'[u] = value[u] \/ (u = Url(d) /\ value'[u] = record)
    BY <2>1, <2>5, <2>6, PutIs DEF Setting
  <2>8. \A e \in Downloads : late'[e] = late[e] \/ (e = d /\ late'[e].record = record)
    BY <2>5, <2>6 DEF Setting
  <2>9. \A u \in UrlKeys : value'[u] # None => Under(u, value[u])'
    BY <1>u, <2>1, <2>3, <2>r, <2>7
  <2>10. \A e \in Downloads : late'[e] # None => key[e] # None /\ Under(Url(e), late[e].record)'
    BY <1>u, <1>l, <2>1, <2>3, <2>r, <2>8
  <2>11. \A e \in Downloads : fetched'[e] # None => key[e] # None /\ Under(Url(e), fetched[e])'
    BY <1>u, <2>1, <2>3, <2>r, <2>4
  <2> QED
    BY <1>0, <2>3, <2>9, <2>10, <2>11 DEF Url
<1>9. ASSUME NEW d \in Downloads, LateSet(d) PROVE RecordsInPlace'
  <2>1. late[d] \in Command /\ key[d] # None /\ Url(d) \in UrlKeys
    BY <1>9, UrlIs DEF LateSet
  <2>2. /\ UNCHANGED <<adding, key, fetched, killing>> /\ Put(Url(d), late[d])
        /\ late' = [late EXCEPT ![d] = None]
    BY <1>9 DEF LateSet
  <2>3. \A u \in UrlKeys : value'[u] = value[u] \/ (u = Url(d) /\ value'[u] = late[d].record)
    BY <2>1, <2>2, PutIs
  <2> QED
    BY <1>0, <1>u, <1>l, <1>9, <2>1, <2>2, <2>3 DEF Url, LateSet
<1>10. ASSUME NEW d \in Downloads, KillFromReporter(d) PROVE RecordsInPlace'
  <2>1. fetched[d] \in Record /\ fetched[d] # None /\ killing' = fetched[d].key
    BY <1>10, NoRecordAssumption DEF KillFromReporter, ReportsInOrder, ReportInOrder
  <2>2. UNCHANGED <<adding, key, value, late>> /\ fetched' = [fetched EXCEPT ![d] = None]
    BY <1>10 DEF KillFromReporter, Leaves
  <2> QED
    BY <1>0, <1>r, <1>u, <1>l, <2>1, <2>2 DEF Url, Under
<1>11. CASE DeleteKey
  BY <1>0, <1>11, <1>u, <1>l DEF DeleteKey, Url
<1>12. CASE Restart
  <2>1. UNCHANGED <<key, value, late>> /\ killing' = None
        /\ fetched' = [d \in Downloads |-> None]
    BY <1>12 DEF Restart
  <2> QED
    BY <1>0, <1>u, <1>l, <2>1 DEF Url
<1>13. CASE UNCHANGED vars
  BY <1>0, <1>13, <1>u, <1>l DEF Url
<1> QED
  BY <1>1, <1>2, <1>3, <1>4, <1>5, <1>6, <1>7, <1>8, <1>9, <1>10, <1>11, <1>12, <1>13 DEF Next

LEMMA StepInOrder ==
  ASSUME Handed, [Next]_vars
  PROVE  ReportsInOrder'
<1> USE NoKeyAssumption, NoRecordAssumption
    DEF Handed, TypeOK, ApiTypeOK, ReportsInOrder, ReportInOrder
<1>1. CASE HandlerStep /\ UNCHANGED storeVars
  BY <1>1 DEF HandlerStep, Expire, Submit, Adds, ReturnStep, Return, Cancel, Deadline
<1>2. ASSUME NEW k \in Keys, AddKey(k) PROVE ReportsInOrder'
  BY <1>2, AddKeyIs
<1>3. ASSUME NEW u \in UrlKeys, ServerExpires(u) PROVE ReportsInOrder'
  BY <1>3 DEF ServerExpires
<1>4. ASSUME NEW d \in Downloads, NEW u \in UrlKeys, Access(d, u) PROVE ReportsInOrder'
  <2>1. PICK found \in {value[u], None} :
          /\ key' = [key EXCEPT ![d] = IF found = None THEN None ELSE found.key]
          /\ handler' = [handler EXCEPT ![d] =
                           IF found = None THEN "returning" ELSE "granted"]
          /\ fetched' = [fetched EXCEPT ![d] = found]
          /\ reporter' = [reporter EXCEPT ![d] =
                            IF found = None THEN "none" ELSE "waiting"]
    BY <1>4, AccessIs
  <2>2. found # None => found.key # None
    BY <2>1 DEF Record
  <2>3. UNCHANGED <<served, report, late, unlock>> /\ handler[d] = "idle"
    BY <1>4, AccessIs
  <2> QED
    BY <2>1, <2>2, <2>3
<1>5. ASSUME NEW d \in Downloads, Unlock(d) PROVE ReportsInOrder'
  <2>1. handler[d] = "granted" /\ handler'[d] = "returning" /\ key[d] # None
        /\ \A c \in Downloads \ {d} : handler'[c] = handler[c] /\ served'[c] = served[c]
    BY <1>5 DEF Unlock, Handle
  <2>2. UNCHANGED <<key, report, reporter, fetched, late>>
    BY <1>5 DEF Unlock, Handle
  <2>3. \A c \in Downloads \ {d} : unlock'[c] = unlock[c]
    BY <1>5 DEF Unlock
  <2> QED
    BY <2>1, <2>2, <2>3
<1>6. ASSUME NEW d \in Downloads, ReporterLeaves(d) \/ ReporterReceives(d)
      PROVE  ReportsInOrder'
  BY <1>6 DEF ReporterLeaves, ReporterReceives, Reported
<1>7. ASSUME NEW d \in Downloads, ReporterGets(d) PROVE ReportsInOrder'
  <2>1. reporter[d] = "get" /\ UNCHANGED <<apiVars, late, unlock>>
        /\ \A c \in Downloads \ {d} : reporter'[c] = reporter[c]
    BY <1>7, ReporterGetsIs
  <2>2. PICK found \in {value[Url(d)], None} :
          /\ fetched' = [fetched EXCEPT ![d] = found]
          /\ reporter'[d] \in {"set", "sending", "gone"}
          /\ reporter'[d] = "set" => served[d]
          /\ reporter'[d] # "gone" => found # None
    BY <1>7, ReporterGetsIs DEF Getting
  <2> QED
    BY <2>1, <2>2
<1>8. ASSUME NEW d \in Downloads, ReporterSets(d) PROVE ReportsInOrder'
  <2>1. fetched[d] \in Record /\ reporter[d] = "set"
    BY <1>8 DEF ReporterSets, SetWith
  <2>2. /\ UNCHANGED <<apiVars, unlock>>
        /\ \A c \in Downloads \ {d} : reporter'[c] = reporter[c] /\ fetched'[c] = fetched[c]
    BY <1>8, <2>1, ReporterSetsIs
  <2>3. reporter'[d] \in {"sending", "gone"} /\ (reporter'[d] = "sending" => fetched'[d] # None)
    BY <1>8, <2>1, ReporterSetsIs, CountingIs
  <2>4. \A c \in Downloads \ {d} : late'[c] = late[c]
    BY <1>8, <2>1, ReporterSetsIs DEF Setting
  <2> QED
    BY <2>1, <2>2, <2>3, <2>4
<1>9. ASSUME NEW d \in Downloads, LateSet(d) PROVE ReportsInOrder'
  BY <1>9 DEF LateSet
<1>10. ASSUME NEW d \in Downloads, KillFromReporter(d) PROVE ReportsInOrder'
  BY <1>10 DEF KillFromReporter, Leaves
<1>11. CASE DeleteKey
  BY <1>11 DEF DeleteKey
<1>12. CASE Restart
  <2>1. UNCHANGED <<key, served, report, late, unlock>>
    BY <1>12 DEF Restart
  <2>2. \A d \in Downloads : /\ fetched'[d] = None
                             /\ handler'[d] = IF handler[d] = "idle" THEN "idle" ELSE "done"
                             /\ reporter'[d] = IF reporter[d] = "none" THEN "none" ELSE "gone"
    BY <1>12 DEF Restart
  <2> QED
    BY <2>1, <2>2
<1>13. CASE UNCHANGED vars
  BY <1>13
<1> QED
  BY <1>1, <1>2, <1>3, <1>4, <1>5, <1>6, <1>7, <1>8, <1>9, <1>10, <1>11, <1>12, <1>13 DEF Next

LEMMA AlwaysHanded == Spec => []Handed
<1>1. Handed /\ [Next]_vars => Handed'
  BY StepTyped, StepInPlace, StepInOrder DEF Handed
<1> QED
  BY InitHanded, <1>1, PTL DEF Spec

(* Every variable keeps its type, whatever commands fail and however often *)
(* the process is started again.                                           *)
THEOREM TypeCorrect == Spec => []TypeOK
BY AlwaysHanded, PTL DEF Handed

-----------------------------------------------------------------------------
(* What the server is told to drop.                                        *)

(* A Set has an expiry only if the ttl of its key is over, also a Set that *)
(* is yet to arrive.                                                       *)
InTime ==
  /\ \A u \in px : value[u] # None /\ value[u].key \in expired
  /\ \A d \in Downloads :
       (late[d] # None /\ late[d].px) => late[d].record.key \in expired

LEMMA StepInTime ==
  ASSUME Handed, InTime, [Next]_vars
  PROVE  InTime'
<1> USE DEF Handed, TypeOK, ApiTypeOK, InTime
<1>1. CASE HandlerStep /\ UNCHANGED storeVars
  <2>1. expired \subseteq expired'
    BY <1>1 DEF HandlerStep, Expire, Submit, Adds, ReturnStep, Return, Cancel, Deadline
  <2> QED
    BY <1>1, <2>1
<1>2. ASSUME NEW k \in Keys, AddKey(k) PROVE InTime'
  <2>1. UNCHANGED <<expired, late>>
    BY <1>2, AddKeyIs
  <2>2. ASSUME NEW c \in Command, c.record \in NewRecords(k), c.px => k \in expired,
               Put(UrlOf[k], c)
        PROVE  InTime'
    BY <2>1, <2>2, PutIs, NewRecordIs, UrlOfAssumption
  <2>3. CASE UNCHANGED <<value, px>>
    BY <2>1, <2>3
  <2> QED
    BY <1>2, <2>2, <2>3, AddKeyIs
<1>3. ASSUME NEW u \in UrlKeys, ServerExpires(u) PROVE InTime'
  BY <1>3 DEF ServerExpires
<1>4. ASSUME NEW d \in Downloads, NEW u \in UrlKeys, Access(d, u) PROVE InTime'
  BY <1>4, AccessIs
<1>5. ASSUME NEW d \in Downloads,
             Unlock(d) \/ ReporterLeaves(d) \/ ReporterReceives(d) \/ KillFromReporter(d)
      PROVE  InTime'
  BY <1>5 DEF Unlock, Handle, ReporterLeaves, ReporterReceives, Reported, KillFromReporter
<1>6. ASSUME NEW d \in Downloads, ReporterGets(d) PROVE InTime'
  BY <1>6, ReporterGetsIs
<1>7. ASSUME NEW d \in Downloads, ReporterSets(d) PROVE InTime'
  <2>1. fetched[d] \in Record /\ Url(d) \in UrlKeys
    BY <1>7, UrlIs DEF ReporterSets, SetWith, ReportsInOrder, ReportInOrder
  <2>2. PICK c \in Command, arrives \in {"now", "late", "never"} : Setting(d, c, arrives)
    BY <1>7, <2>1, ReporterSetsIs
  <2>3. (c.px => c.record.key \in expired) /\ UNCHANGED expired
    BY <1>7, <2>1, <2>2, ReporterSetsIs, CountingIs DEF Setting
  <2>4. CASE arrives = "now"
    BY <2>1, <2>2, <2>3, <2>4, PutIs DEF Setting
  <2>5. CASE arrives # "now"
    BY <2>2, <2>3, <2>5 DEF Setting
  <2> QED
    BY <2>4, <2>5
<1>8. ASSUME NEW d \in Downloads, LateSet(d) PROVE InTime'
  <2>1. late[d] \in Command /\ Url(d) \in UrlKeys
    BY <1>8, UrlIs DEF LateSet, RecordsInPlace
  <2> QED
    BY <1>8, <2>1, PutIs DEF LateSet
<1>9. CASE DeleteKey
  BY <1>9 DEF DeleteKey
<1>10. CASE Restart
  BY <1>10 DEF Restart
<1>11. CASE UNCHANGED vars
  BY <1>11
<1> QED
  BY <1>1, <1>2, <1>3, <1>4, <1>5, <1>6, <1>7, <1>8, <1>9, <1>10, <1>11 DEF Next

LEMMA AlwaysInTime == Spec => []InTime
<1>1. Init => InTime
  BY DEF Init, InTime
<1>2. Handed /\ InTime /\ [Next]_vars => InTime'
  BY StepInTime
<1> QED
  BY <1>1, <1>2, AlwaysHanded, PTL DEF Spec

-----------------------------------------------------------------------------
(* A use is counted at most once.                                          *)

(* What has been said stays said. *)
LEMMA NothingIsTakenBack ==
  ASSUME Handed, [Next]_vars
  PROVE  /\ expired \subseteq expired' /\ failed \subseteq failed' /\ met \subseteq met'
         /\ \A d \in Downloads :
              /\ key[d] # None => key'[d] = key[d]
              /\ served[d] => served'[d]
              /\ report[d] = "sent" => report'[d] = "sent"
              /\ reporter[d] \in {"sending", "gone"} => reporter'[d] \in {"sending", "gone"}
              /\ unlock[d] # None => unlock'[d] = unlock[d]
<1> USE DEF Handed, TypeOK, ApiTypeOK, ReportsInOrder, ReportInOrder
<1>1. CASE HandlerStep /\ UNCHANGED storeVars
  BY <1>1 DEF HandlerStep, Expire, Submit, Adds, ReturnStep, Return, Cancel, Deadline
<1>2. ASSUME NEW k \in Keys, AddKey(k)
      PROVE  UNCHANGED <<expired, downloadVars, failed, reporter, unlock>> /\ met \subseteq met'
  BY <1>2, AddKeyIs DEF Meets
<1>3. ASSUME NEW u \in UrlKeys, ServerExpires(u)
      PROVE  UNCHANGED <<apiVars, failed, reporter, unlock>> /\ met \subseteq met'
  BY <1>3 DEF ServerExpires, Meets
<1>4. ASSUME NEW d \in Downloads, NEW u \in UrlKeys, Access(d, u)
      PROVE  /\ UNCHANGED <<expired, served, report, failed, met, unlock>>
             /\ \A c \in Downloads : key[c] # None => key'[c] = key[c]
             /\ \A c \in Downloads : reporter[c] # "none" => reporter'[c] = reporter[c]
  BY <1>4, AccessIs
<1>5. ASSUME NEW d \in Downloads, Unlock(d)
      PROVE  /\ UNCHANGED <<expired, key, report, failed, met, reporter>>
             /\ \A c \in Downloads : served[c] => served'[c]
             /\ \A c \in Downloads : unlock[c] # None => unlock'[c] = unlock[c]
  BY <1>5 DEF Unlock, Handle
<1>6. ASSUME NEW d \in Downloads, ReporterLeaves(d) \/ ReporterReceives(d)
      PROVE  /\ UNCHANGED <<expired, key, served, failed, met, unlock>>
             /\ \A c \in Downloads : report[c] = "sent" => report'[c] = "sent"
             /\ \A c \in Downloads :
                  reporter[c] \in {"sending", "gone"} => reporter'[c] \in {"sending", "gone"}
  BY <1>6 DEF ReporterLeaves, ReporterReceives, Reported
<1>7. ASSUME NEW d \in Downloads, ReporterGets(d)
      PROVE  /\ UNCHANGED <<apiVars, unlock>> /\ failed \subseteq failed' /\ met \subseteq met'
             /\ \A c \in Downloads :
                  reporter[c] \in {"sending", "gone"} => reporter'[c] \in {"sending", "gone"}
  BY <1>7, ReporterGetsIs DEF Getting, Meets
<1>8. ASSUME NEW d \in Downloads, ReporterSets(d)
      PROVE  /\ UNCHANGED <<apiVars, unlock, met>> /\ failed \subseteq failed'
             /\ \A c \in Downloads :
                  reporter[c] \in {"sending", "gone"} => reporter'[c] \in {"sending", "gone"}
  <2>1. fetched[d] \in Record /\ reporter[d] = "set"
    BY <1>8 DEF ReporterSets, SetWith
  <2> QED
    BY <1>8, <2>1, ReporterSetsIs DEF Setting
<1>9. ASSUME NEW d \in Downloads, LateSet(d) \/ KillFromReporter(d)
      PROVE  /\ UNCHANGED <<apiVars, unlock>> /\ failed \subseteq failed' /\ met \subseteq met'
             /\ \A c \in Downloads :
                  reporter[c] \in {"sending", "gone"} => reporter'[c] \in {"sending", "gone"}
  BY <1>9 DEF LateSet, KillFromReporter, Leaves, Noted, Meets
<1>10. CASE DeleteKey
  BY <1>10 DEF DeleteKey, Noted, Meets
<1>11. CASE Restart
  BY <1>11 DEF Restart
<1>12. CASE UNCHANGED vars
  BY <1>12
<1> QED
  BY <1>1, <1>2, <1>3, <1>4, <1>5, <1>6, <1>7, <1>8, <1>9, <1>10, <1>11, <1>12 DEF Next

(* The uses at u whose reporter has done its count. *)
Done(u) == {d \in UsesAt(u) : reporter[d] \in {"sending", "gone"}}

LEMMA FiniteCounts ==
  /\ \A u : /\ IsFiniteSet(Done(u)) /\ Cardinality(Done(u)) \in Nat
            /\ IsFiniteSet(UsesAt(u)) /\ Cardinality(UsesAt(u)) \in Nat
            /\ Cardinality(Done(u)) <= Cardinality(UsesAt(u))
  /\ \A k : /\ IsFiniteSet(Counted(k)) /\ Cardinality(Counted(k)) \in Nat
            /\ IsFiniteSet(ServedWith(k)) /\ Cardinality(ServedWith(k)) \in Nat
<1>1. ASSUME NEW u
      PROVE  /\ IsFiniteSet(Done(u)) /\ Cardinality(Done(u)) \in Nat
             /\ IsFiniteSet(UsesAt(u)) /\ Cardinality(UsesAt(u)) \in Nat
             /\ Cardinality(Done(u)) <= Cardinality(UsesAt(u))
  <2>1. UsesAt(u) \subseteq Downloads /\ Done(u) \subseteq UsesAt(u)
    BY DEF Done, UsesAt
  <2> QED
    BY <2>1, DownloadsAssumption, FS_Subset, FS_CardinalityType
<1>2. ASSUME NEW k
      PROVE  /\ IsFiniteSet(Counted(k)) /\ Cardinality(Counted(k)) \in Nat
             /\ IsFiniteSet(ServedWith(k)) /\ Cardinality(ServedWith(k)) \in Nat
  <2>1. Counted(k) \subseteq Downloads /\ ServedWith(k) \subseteq Downloads
    BY DEF Counted, ServedWith
  <2> QED
    BY <2>1, DownloadsAssumption, FS_Subset, FS_CardinalityType
<1> QED
  BY <1>1, <1>2

LEMMA DoneGrows ==
  ASSUME Handed, [Next]_vars, NEW u \in UrlKeys
  PROVE  /\ Cardinality(Done(u)) \in Nat /\ Cardinality(Done(u)') \in Nat
         /\ Cardinality(Done(u)) <= Cardinality(Done(u)')
<1>1. Done(u) \subseteq Done(u)'
  BY NothingIsTakenBack DEF Done, UsesAt, Url
<1>2. Done(u)' \subseteq Downloads
  BY DEF Done, UsesAt
<1> QED
  BY <1>1, <1>2, DownloadsAssumption, FS_Subset, FS_CardinalityType

(* A reporter that sets a value has then done the count of its use. *)
LEMMA SetAdds ==
  ASSUME Handed, NEW d \in Downloads, ReporterSets(d), NEW u, u = Url(d)
  PROVE  /\ fetched[d] \in Record /\ key[d] # None /\ u \in UrlKeys
         /\ served[d] /\ report[d] = "sent" /\ reporter[d] = "set"
         /\ Cardinality(Done(u)') = Cardinality(Done(u)) + 1
<1>1. /\ fetched[d] \in Record /\ key[d] # None /\ reporter[d] = "set"
      /\ served[d] /\ report[d] = "sent"
  BY DEF ReporterSets, SetWith, Handed, TypeOK, ReportsInOrder, ReportInOrder
<1>2. /\ UNCHANGED apiVars /\ reporter'[d] \in {"sending", "gone"}
      /\ \A c \in Downloads \ {d} : reporter'[c] = reporter[c]
  BY <1>1, ReporterSetsIs DEF Handed
<1>3. Done(u)' = Done(u) \cup {d} /\ d \notin Done(u)
  BY <1>1, <1>2 DEF Done, UsesAt, Url
<1>4. u \in UrlKeys
  BY <1>1, UrlIs DEF Handed
<1> QED
  BY <1>1, <1>3, <1>4, FiniteCounts, FS_AddElement

(* Where the records of a new state come from. *)
ValueFrom(u) ==
  \/ value'[u] \in {value[u], None}
  \/ \E k \in Keys : UrlOf[k] = u /\ AddKey(k) /\ ~Sent(k) /\ value'[u] \in NewRecords(k)
  \/ \E d \in Downloads : /\ Url(d) = u /\ ReporterSets(d)
                          /\ value'[u] = Counting(fetched[d])
  \/ \E d \in Downloads : /\ Url(d) = u /\ late[d] # None
                          /\ value'[u] = late[d].record /\ "removal" \in failed'

LateFrom(d) ==
  \/ late'[d] \in {late[d], None}
  \/ /\ ReporterSets(d) /\ late'[d] \in Command
     /\ late'[d].record = Counting(fetched[d]) /\ "count" \in failed'

FetchedFrom(d) ==
  \/ fetched'[d] \in {fetched[d], None}
  \/ ReporterSets(d) /\ fetched'[d] = Counting(fetched[d])
  \/ \E u \in UrlKeys : fetched'[d] = value[u] /\ value[u] # None

ReporterFrom(d) ==
  \/ reporter'[d] = reporter[d] /\ fetched'[d] = fetched[d]
  \/ reporter'[d] \notin {"set", "sending"}
  \/ /\ ReporterSets(d) /\ fetched'[d] = Counting(fetched[d])
     /\ reporter'[d] = "sending" /\ UsedUp(Counting(fetched[d]))
  \/ /\ ReporterGets(d) /\ fetched'[d] = value[Url(d)] /\ value[Url(d)] # None
     /\ reporter'[d] = "sending" => UsedUp(value[Url(d)])

From ==
  /\ \A u \in UrlKeys : ValueFrom(u)
  /\ \A d \in Downloads : LateFrom(d) /\ FetchedFrom(d) /\ ReporterFrom(d)

LEMMA Origins ==
  ASSUME Handed, [Next]_vars
  PROVE  From
<1> USE DEF Handed, TypeOK, ApiTypeOK, From, ValueFrom, LateFrom, FetchedFrom, ReporterFrom
<1>1. CASE HandlerStep /\ UNCHANGED storeVars
  BY <1>1
<1>2. ASSUME NEW k \in Keys, AddKey(k) PROVE From
  <2>1. UNCHANGED <<late, reporter, fetched>> /\ ~Sent(k)
    BY <1>2, AddKeyIs DEF Sent
  <2>2. ASSUME NEW u \in UrlKeys PROVE ValueFrom(u)
    <3>1. CASE UNCHANGED value
      BY <3>1
    <3>2. ASSUME NEW c \in Command, c.record \in NewRecords(k), Put(UrlOf[k], c)
          PROVE  ValueFrom(u)
      BY <1>2, <2>1, <3>2, PutIs, UrlOfAssumption
    <3> QED
      BY <1>2, <3>1, <3>2, AddKeyIs
  <2> QED
    BY <2>1, <2>2
<1>3. ASSUME NEW u \in UrlKeys, ServerExpires(u) PROVE From
  BY <1>3 DEF ServerExpires
<1>4. ASSUME NEW d \in Downloads, NEW u \in UrlKeys, Access(d, u) PROVE From
  <2>1. PICK found \in {value[u], None} :
          /\ fetched' = [fetched EXCEPT ![d] = found]
          /\ reporter' = [reporter EXCEPT ![d] =
                            IF found = None THEN "none" ELSE "waiting"]
    BY <1>4, AccessIs
  <2>2. UNCHANGED <<value, late>>
    BY <1>4, AccessIs
  <2> QED
    BY <2>1, <2>2
<1>5. ASSUME NEW d \in Downloads, Unlock(d) PROVE From
  BY <1>5 DEF Unlock
<1>6. ASSUME NEW d \in Downloads, ReporterLeaves(d) \/ ReporterReceives(d) PROVE From
  BY <1>6 DEF ReporterLeaves, ReporterReceives
<1>7. ASSUME NEW d \in Downloads, ReporterGets(d) PROVE From
  <2>1. /\ UNCHANGED <<value, late>> /\ Url(d) \in UrlKeys
        /\ \A c \in Downloads \ {d} : reporter'[c] = reporter[c]
    BY <1>7, UrlIs, ReporterGetsIs DEF ReportsInOrder, ReportInOrder
  <2>2. PICK fails \in BOOLEAN : Getting(d, fails)
    BY <1>7, ReporterGetsIs
  <2>3. PICK found : found = IF fails THEN None ELSE value[Url(d)]
    OBVIOUS
  <2>4. /\ fetched' = [fetched EXCEPT ![d] = found]
        /\ reporter'[d] = IF found = None THEN "gone"
                          ELSE IF served[d] THEN "set"
                          ELSE IF UsedUp(found) THEN "sending" ELSE "gone"
    BY <2>2, <2>3 DEF Getting
  <2> QED
    BY <1>7, <2>1, <2>3, <2>4
<1>8. ASSUME NEW d \in Downloads, ReporterSets(d) PROVE From
  <2>1. fetched[d] \in Record /\ Url(d) \in UrlKeys
    BY <1>8, SetAdds
  <2>2. PICK c \in Command, arrives \in {"now", "late", "never"} : Setting(d, c, arrives)
    BY <1>8, <2>1, ReporterSetsIs
  <2>3. \A u \in UrlKeys : ValueFrom(u)
    BY <1>8, <2>1, <2>2, PutIs DEF Setting
  <2>4. failed' \subseteq {"count", "removal"} /\ (arrives # "now" => "count" \in failed')
    BY <1>8, <2>1, <2>2, ReporterSetsIs DEF Setting
  <2>5. \A e \in Downloads : LateFrom(e)
    BY <1>8, <2>2, <2>4 DEF Setting
  <2>6. \A e \in Downloads : FetchedFrom(e) /\ ReporterFrom(e)
    BY <1>8, <2>1, ReporterSetsIs
  <2> QED
    BY <2>3, <2>5, <2>6
<1>9. ASSUME NEW d \in Downloads, LateSet(d) PROVE From
  <2>1. late[d] \in Command /\ late[d] # None /\ Url(d) \in UrlKeys
    BY <1>9, UrlIs DEF LateSet, RecordsInPlace
  <2>2. /\ UNCHANGED <<reporter, fetched>> /\ Put(Url(d), late[d])
        /\ late' = [late EXCEPT ![d] = None] /\ "removal" \in failed'
    BY <1>9 DEF LateSet, Noted
  <2>3. \A u \in UrlKeys : ValueFrom(u)
    BY <2>1, <2>2, PutIs
  <2> QED
    BY <2>2, <2>3
<1>10. ASSUME NEW d \in Downloads, KillFromReporter(d) PROVE From
  BY <1>10 DEF KillFromReporter, Leaves
<1>11. CASE DeleteKey
  BY <1>11 DEF DeleteKey
<1>12. CASE Restart
  BY <1>12 DEF Restart
<1>13. CASE UNCHANGED vars
  BY <1>13
<1> QED
  BY <1>1, <1>2, <1>3, <1>4, <1>5, <1>6, <1>7, <1>8, <1>9, <1>10, <1>11, <1>12, <1>13 DEF Next

(* No count, stored, got or on its way, is above the uses that are done,   *)
(* and who sends a record to the killer has found it used up.              *)
NeverTooMany ==
  /\ \A u \in UrlKeys : value[u] # None => value[u].used <= Cardinality(Done(u))
  /\ \A d \in Downloads :
       /\ reporter[d] \in {"set", "sending"} =>
            fetched[d].used <= Cardinality(Done(Url(d)))
       /\ reporter[d] = "sending" => UsedUp(fetched[d])
       /\ late[d] # None => late[d].record.used <= Cardinality(Done(Url(d)))

LEMMA StepNeverTooMany ==
  ASSUME Handed, NeverTooMany, [Next]_vars
  PROVE  NeverTooMany'
<1>1. \A u \in UrlKeys : /\ Cardinality(Done(u)) \in Nat /\ Cardinality(Done(u)') \in Nat
                         /\ Cardinality(Done(u)) <= Cardinality(Done(u)')
  BY DoneGrows
<1>2. /\ \A r \in Record : r.used \in Nat
      /\ \A c \in Command : c.record \in Record
  BY DEF Record, Command
<1>3. \A d \in Downloads :
        /\ key[d] # None => key'[d] = key[d] /\ Url(d) \in UrlKeys
        /\ late[d] # None \/ reporter[d] # "none" => key[d] # None
        /\ reporter[d] \in {"set", "sending"} => fetched[d] \in Record
  BY NothingIsTakenBack, UrlIs
  DEF Handed, TypeOK, ReportsInOrder, ReportInOrder, RecordsInPlace
<1>4. ASSUME NEW d \in Downloads, ReporterSets(d), NEW u, u = Url(d)
      PROVE  Counting(fetched[d]).used <= Cardinality(Done(u)')
  <2>1. /\ fetched[d] \in Record /\ u \in UrlKeys /\ reporter[d] = "set"
        /\ Cardinality(Done(u)') = Cardinality(Done(u)) + 1
    BY <1>4, SetAdds
  <2>2. fetched[d].used <= Cardinality(Done(u)) /\ fetched[d].used \in Nat
    BY <1>2, <1>4, <2>1 DEF NeverTooMany
  <2> QED
    BY <1>1, <2>1, <2>2, CountingIs
<1>5. ASSUME NEW u \in UrlKeys, value'[u] # None
      PROVE  value'[u].used <= Cardinality(Done(u)')
  <2>1. ValueFrom(u)
    BY Origins DEF From
  <2>2. CASE value'[u] = value[u]
    BY <1>1, <1>2, <1>5, <2>2 DEF NeverTooMany, Handed, TypeOK
  <2>3. ASSUME NEW k \in Keys, value'[u] \in NewRecords(k)
        PROVE  value'[u].used <= Cardinality(Done(u)')
    BY <1>1, <2>3, NewRecordIs
  <2>4. ASSUME NEW d \in Downloads, Url(d) = u, ReporterSets(d),
               value'[u] = Counting(fetched[d])
        PROVE  value'[u].used <= Cardinality(Done(u)')
    BY <1>4, <2>4
  <2>5. ASSUME NEW d \in Downloads, Url(d) = u, late[d] # None, value'[u] = late[d].record
        PROVE  value'[u].used <= Cardinality(Done(u)')
    BY <1>1, <1>2, <2>5 DEF NeverTooMany, Handed, TypeOK
  <2> QED
    BY <1>5, <2>1, <2>2, <2>3, <2>4, <2>5 DEF ValueFrom
<1>6. ASSUME NEW d \in Downloads, late'[d] # None
      PROVE  late'[d].record.used <= Cardinality(Done(Url(d)))'
  <2>1. LateFrom(d)
    BY Origins DEF From
  <2>2. PICK u \in UrlKeys : u = Url(d) /\ Url(d)' = u
    BY <1>3, <1>6, <2>1, SetAdds DEF LateFrom, Url
  <2>3. CASE late'[d] = late[d]
    BY <1>1, <1>2, <1>6, <2>2, <2>3 DEF NeverTooMany, Handed, TypeOK
  <2>4. CASE ReporterSets(d) /\ late'[d].record = Counting(fetched[d])
    BY <1>4, <2>2, <2>4
  <2> QED
    BY <1>6, <2>1, <2>2, <2>3, <2>4 DEF LateFrom
<1>7. ASSUME NEW d \in Downloads, reporter'[d] \in {"set", "sending"}
      PROVE  /\ fetched'[d].used <= Cardinality(Done(Url(d)))'
             /\ reporter'[d] = "sending" => UsedUp(fetched'[d])
  <2>1. ReporterFrom(d)
    BY Origins DEF From
  <2>2. PICK u \in UrlKeys : u = Url(d) /\ Url(d)' = u
    <3>1. ReporterGets(d) => reporter[d] = "get"
      BY DEF ReporterGets, GetWith
    <3> QED
      BY <1>3, <1>7, <2>1, <3>1, SetAdds DEF ReporterFrom, Url
  <2>3. CASE reporter'[d] = reporter[d] /\ fetched'[d] = fetched[d]
    BY <1>1, <1>2, <1>3, <1>7, <2>2, <2>3 DEF NeverTooMany
  <2>4. CASE ReporterSets(d) /\ fetched'[d] = Counting(fetched[d])
             /\ UsedUp(Counting(fetched[d]))
    BY <1>4, <2>2, <2>4
  <2>5. CASE /\ fetched'[d] = value[Url(d)] /\ value[Url(d)] # None
             /\ reporter'[d] = "sending" => UsedUp(value[Url(d)])
    <3>1. fetched'[d].used <= Cardinality(Done(u)) /\ fetched'[d].used \in Nat
      BY <1>2, <2>2, <2>5 DEF NeverTooMany, Handed, TypeOK
    <3> QED
      BY <1>1, <2>2, <2>5, <3>1
  <2> QED
    BY <1>7, <2>1, <2>3, <2>4, <2>5 DEF ReporterFrom
<1> QED
  BY <1>5, <1>6, <1>7 DEF NeverTooMany, UsedUp

LEMMA AlwaysNeverTooMany == Spec => []NeverTooMany
<1>1. Init => NeverTooMany
  BY DEF Init, NeverTooMany
<1>2. Handed /\ NeverTooMany /\ [Next]_vars => NeverTooMany'
  BY StepNeverTooMany
<1> QED
  BY <1>1, <1>2, AlwaysHanded, PTL DEF Spec

(* No interleaving, failing command, late Set or restart makes a count     *)
(* exceed the uses at its url key.                                         *)
THEOREM NeverCountedTwice == Spec => []CountedAtMostOnce
<1>1. Handed /\ NeverTooMany => CountedAtMostOnce
  <2> SUFFICES ASSUME Handed, NeverTooMany, NEW u \in UrlKeys, value[u] # None
               PROVE  value[u].used <= Cardinality(UsesAt(u))
    BY DEF CountedAtMostOnce
  <2>1. value[u].used \in Nat /\ value[u].used <= Cardinality(Done(u))
    BY DEF NeverTooMany, Handed, TypeOK, Record
  <2> QED
    BY <2>1, FiniteCounts
<1> QED
  BY <1>1, AlwaysHanded, AlwaysNeverTooMany, PTL

-----------------------------------------------------------------------------
(* What is used up is on its way out.                                      *)

Leaving(u) ==
  \/ killing # None /\ UrlOf[killing] = u
  \/ \E d \in Downloads : reporter[d] = "sending" /\ UrlOf[fetched[d].key] = u

LEMMA GoesOnLeaving ==
  ASSUME Handed, [Next]_vars, NEW u \in UrlKeys, Leaving(u), value'[u] # None,
         "removal" \notin failed'
  PROVE  Leaving(u)'
<1> USE NoKeyAssumption
    DEF Handed, TypeOK, ApiTypeOK, ReportsInOrder, ReportInOrder, Leaving
<1>1. CASE HandlerStep /\ UNCHANGED storeVars
  BY <1>1
<1>2. ASSUME NEW k \in Keys, AddKey(k) PROVE Leaving(u)'
  BY <1>2, AddKeyIs
<1>3. ASSUME NEW w \in UrlKeys, ServerExpires(w) PROVE Leaving(u)'
  BY <1>3 DEF ServerExpires
<1>4. ASSUME NEW d \in Downloads, NEW w \in UrlKeys, Access(d, w) PROVE Leaving(u)'
  BY <1>4, AccessIs
<1>5. ASSUME NEW d \in Downloads,
             Unlock(d) \/ ReporterLeaves(d) \/ ReporterReceives(d) \/ LateSet(d)
      PROVE  Leaving(u)'
  BY <1>5 DEF Unlock, ReporterLeaves, ReporterReceives, LateSet
<1>6. ASSUME NEW d \in Downloads, ReporterGets(d) PROVE Leaving(u)'
  BY <1>6, ReporterGetsIs DEF Getting
<1>7. ASSUME NEW d \in Downloads, ReporterSets(d) PROVE Leaving(u)'
  BY <1>7, SetAdds, ReporterSetsIs
<1>8. ASSUME NEW d \in Downloads, KillFromReporter(d) PROVE Leaving(u)'
  <2>1. /\ killing = None /\ killing' = fetched[d].key /\ fetched[d] \in Record
        /\ \A c \in Downloads \ {d} : reporter'[c] = reporter[c] /\ fetched'[c] = fetched[c]
    BY <1>8 DEF KillFromReporter, Leaves
  <2> QED
    BY <2>1 DEF Record
<1>9. CASE DeleteKey
  <2>1. /\ UNCHANGED <<reporter, fetched>>
        /\ \/ value' = [value EXCEPT ![UrlOf[killing]] = None]
           \/ "removal" \in failed'
    BY <1>9 DEF DeleteKey, Noted
  <2> QED
    BY <2>1
<1>10. CASE Restart
  BY <1>10 DEF Restart, LostByRestart
<1>11. CASE UNCHANGED vars
  BY <1>11
<1> QED
  BY <1>1, <1>2, <1>3, <1>4, <1>5, <1>6, <1>7, <1>8, <1>9, <1>10, <1>11 DEF Next

LEMMA StepUsedUp ==
  ASSUME Handed, UsedUpIsLeaving, [Next]_vars
  PROVE  UsedUpIsLeaving'
<1> SUFFICES ASSUME "removal" \notin failed', NEW u \in UrlKeys, value'[u] # None,
                    UsedUp(value'[u]), value'[u].used > 0
             PROVE  Leaving(u)'
  BY DEF UsedUpIsLeaving, Leaving, UsedUp
<1>1. "removal" \notin failed
  BY NothingIsTakenBack
<1>2. ValueFrom(u)
  BY Origins DEF From
<1>3. CASE value'[u] = value[u]
  BY <1>1, <1>3, GoesOnLeaving DEF UsedUpIsLeaving, Leaving
<1>4. ASSUME NEW k \in Keys, value'[u] \in NewRecords(k) PROVE Leaving(u)'
  BY <1>4, NewRecordIs
<1>5. ASSUME NEW d \in Downloads, Url(d) = u, ReporterSets(d), value'[u] = Counting(fetched[d])
      PROVE  Leaving(u)'
  <2>1. fetched[d] \in Record /\ fetched[d] # None
    BY <1>5, SetAdds, NoRecordAssumption
  <2>2. reporter'[d] = "sending" /\ fetched'[d] = Counting(fetched[d])
    BY <1>5, <2>1, ReporterSetsIs DEF Handed
  <2>3. UrlOf[Counting(fetched[d]).key] = u
    BY <1>5, <2>1, CountingIs DEF Handed, RecordsInPlace, Under
  <2> QED
    BY <2>2, <2>3 DEF Leaving
<1> QED
  BY <1>2, <1>3, <1>4, <1>5 DEF ValueFrom

(* A used up value is being removed, however reporters write each other's  *)
(* counts over, until the server gets a Set late, a Del fails or the       *)
(* process ends.                                                           *)
THEOREM UsedUpValuesLeave == Spec => []UsedUpIsLeaving
<1>1. Init => UsedUpIsLeaving
  BY DEF Init, UsedUpIsLeaving
<1>2. Handed /\ UsedUpIsLeaving /\ [Next]_vars => UsedUpIsLeaving'
  BY StepUsedUp
<1> QED
  BY <1>1, <1>2, AlwaysHanded, PTL DEF Spec

-----------------------------------------------------------------------------
(* Nothing goes without cause. *)

Cause(k) == k \in expired \/ Reaches(k, Cardinality(ServedWith(k)))

(* The killer has not received k, and no value of k is gone, without cause. *)
GoesForCause ==
  /\ \A k \in Keys : (HasOwnUrl(k) /\ killing = k) => Cause(k)
  /\ GoneForCause

LEMMA CauseStays ==
  ASSUME Handed, [Next]_vars, NEW k \in Keys
  PROVE  /\ HasOwnUrl(k)' => HasOwnUrl(k)
         /\ Cause(k) => Cause(k)'
<1>1. HasOwnUrl(k)' => HasOwnUrl(k)
  BY SentStays DEF HasOwnUrl, Sent
<1>2. ServedWith(k) \subseteq ServedWith(k)'
  BY NothingIsTakenBack, NoKeyAssumption DEF ServedWith
<1>3. ServedWith(k)' \subseteq Downloads
  BY DEF ServedWith
<1>4. /\ Cardinality(ServedWith(k)) <= Cardinality(ServedWith(k)')
      /\ Cardinality(ServedWith(k)) \in Nat /\ Cardinality(ServedWith(k)') \in Nat
  BY <1>2, <1>3, DownloadsAssumption, FS_Subset, FS_CardinalityType
<1>5. Reaches(k, Cardinality(ServedWith(k))) => Reaches(k, Cardinality(ServedWith(k)'))
  BY <1>4, LimitAssumption DEF Reaches
<1> QED
  BY <1>1, <1>5, NothingIsTakenBack DEF Cause, Reaches

(* Whoever is found at the url key of a key that has it to itself is that  *)
(* key, and so are the keys of the downloads that found it.                *)
LEMMA OwnUrl ==
  ASSUME Handed, NEW k \in Keys, HasOwnUrl(k)
  PROVE  /\ value[UrlOf[k]] # None => value[UrlOf[k]].key = k /\ Sent(k)
         /\ \A d \in Downloads : (key[d] # None /\ Url(d) = UrlOf[k]) =>
              /\ key[d] = k /\ Sent(k)
              /\ fetched[d] # None => fetched[d].key = k
         /\ (killing # None /\ UrlOf[killing] = UrlOf[k]) => killing = k
         /\ UsesAt(UrlOf[k]) \subseteq ServedWith(k)
<1> USE UrlOfAssumption, NoKeyAssumption
    DEF Handed, TypeOK, ApiTypeOK, RecordsInPlace, Under, HasOwnUrl, Sent, Url
<1>1. \A r \in Record : r.key \in Keys
  BY DEF Record
<1>2. \A l \in Keys : (UrlOf[l] = UrlOf[k] /\ Sent(l)) => l = k
  OBVIOUS
<1>3. value[UrlOf[k]] # None => value[UrlOf[k]].key = k /\ Sent(k)
  BY <1>1, <1>2
<1>4. ASSUME NEW d \in Downloads, key[d] # None, Url(d) = UrlOf[k]
      PROVE  /\ key[d] = k /\ Sent(k)
             /\ fetched[d] # None => fetched[d].key = k
  BY <1>1, <1>2, <1>4
<1>5. UsesAt(UrlOf[k]) \subseteq ServedWith(k)
  BY <1>4 DEF UsesAt, ServedWith
<1> QED
  BY <1>2, <1>3, <1>4, <1>5

(* A reporter only sends a key that has its url key to itself for cause.   *)
LEMMA SentForCause ==
  ASSUME Handed, NeverTooMany, NEW k \in Keys, HasOwnUrl(k), NEW d \in Downloads,
         reporter[d] = "sending", fetched[d].key = k
  PROVE  Cause(k)
<1>1. fetched[d] \in Record /\ fetched[d] # None /\ key[d] # None
  BY NoRecordAssumption DEF Handed, TypeOK, ReportsInOrder, ReportInOrder
<1>2. Url(d) = UrlOf[k]
  BY <1>1 DEF Handed, RecordsInPlace, Under
<1>3. /\ k \in Limited /\ fetched[d].used >= Limit[k]
      /\ fetched[d].used <= Cardinality(Done(UrlOf[k]))
  BY <1>2 DEF NeverTooMany, UsedUp, Reaches
<1>4. Done(UrlOf[k]) \subseteq ServedWith(k)
  BY OwnUrl DEF Done
<1>5. Cardinality(Done(UrlOf[k])) <= Cardinality(ServedWith(k))
  BY <1>4, FiniteCounts, FS_Subset
<1>6. /\ Limit[k] \in Nat /\ fetched[d].used \in Nat
      /\ Cardinality(Done(UrlOf[k])) \in Nat /\ Cardinality(ServedWith(k)) \in Nat
  BY <1>1, LimitAssumption, FiniteCounts DEF Record
<1> QED
  BY <1>3, <1>5, <1>6 DEF Cause, Reaches

LEMMA StepGoesForCause ==
  ASSUME Handed, InTime, NeverTooMany, GoesForCause, [Next]_vars
  PROVE  GoesForCause'
<1>1. ASSUME NEW k \in Keys, HasOwnUrl(k)', killing' = k
      PROVE  Cause(k)'
  <2>1. HasOwnUrl(k) /\ (Cause(k) => Cause(k)')
    BY <1>1, CauseStays
  <2>2. CASE killing = k
    BY <2>1, <2>2 DEF GoesForCause
  <2>3. CASE killing # k
    <3>1. PICK d \in Downloads : KillFromReporter(d)
      BY <1>1, <2>3, NoKeyAssumption, AddKeyIs, AccessIs, ReporterGetsIs, SetAdds,
         ReporterSetsIs
      DEF Handed, Next, Unlock, ServerExpires, ReporterLeaves, ReporterReceives, LateSet,
          DeleteKey, Restart
    <3>2. reporter[d] = "sending" /\ fetched[d].key = k
      BY <1>1, <3>1 DEF KillFromReporter
    <3> QED
      BY <2>1, <3>2, SentForCause
  <2> QED
    BY <2>2, <2>3
<1>2. ASSUME NEW k \in Keys, HasOwnUrl(k)', adding'[k] = "added", value'[UrlOf[k]] = None
      PROVE  Cause(k)'
  <2>1. HasOwnUrl(k) /\ (Cause(k) => Cause(k)') /\ UrlOf[k] \in UrlKeys
    BY <1>2, CauseStays, UrlOfAssumption
  <2>2. CASE value[UrlOf[k]] = None
    <3>1. CASE adding[k] = "added"
      BY <2>1, <2>2, <3>1 DEF GoesForCause, GoneForCause, Cause
    <3>2. CASE adding[k] # "added"
      <4>1. AddKey(k)
        <5> USE DEF Handed, TypeOK, ApiTypeOK
        <5>1. CASE HandlerStep /\ UNCHANGED storeVars
          BY <1>2, <3>2, <5>1
          DEF HandlerStep, Expire, Submit, Adds, ReturnStep, Return, Cancel, Deadline
        <5>2. ASSUME NEW l \in Keys, AddKey(l) PROVE AddKey(k)
          BY <1>2, <3>2, <5>2, AddKeyIs
        <5>3. CASE Restart
          BY <1>2, <3>2, <5>3 DEF Restart
        <5> QED
          BY <1>2, <3>2, <5>1, <5>2, <5>3, AccessIs, ReporterGetsIs, SetAdds, ReporterSetsIs
          DEF Next, ServerExpires, Unlock, Handle, ReporterLeaves, ReporterReceives,
              Reported, LateSet, KillFromReporter, DeleteKey
      <4>2. adding'[k] # "refused"
        BY <1>2
      <4> QED
        BY <1>2, <2>1, <4>1, <4>2, AddKeyIs, PutIs DEF Handed
    <3> QED
      BY <3>1, <3>2
  <2>3. CASE value[UrlOf[k]] # None
    <3>1. \/ ServerExpires(UrlOf[k])
          \/ DeleteKey /\ UrlOf[killing] = UrlOf[k]
      <4> USE DEF Handed, TypeOK, ApiTypeOK
      <4>1. ASSUME NEW l \in Keys, AddKey(l) PROVE FALSE
        BY <1>2, <2>1, <2>3, <4>1, AddKeyIs, PutIs, UrlOfAssumption
      <4>2. ASSUME NEW d \in Downloads, ReporterSets(d) PROVE FALSE
        BY <1>2, <2>1, <2>3, <4>2, SetAdds, ReporterSetsIs, PutIs DEF Setting
      <4>3. ASSUME NEW d \in Downloads, LateSet(d) PROVE FALSE
        BY <1>2, <2>1, <2>3, <4>3, PutIs, UrlIs DEF LateSet, RecordsInPlace
      <4>4. ASSUME NEW u \in UrlKeys, ServerExpires(u) PROVE ServerExpires(UrlOf[k])
        BY <1>2, <2>1, <2>3, <4>4 DEF ServerExpires
      <4>5. CASE DeleteKey
        BY <1>2, <2>1, <2>3, <4>5 DEF DeleteKey
      <4> QED
        BY <1>2, <2>3, <4>1, <4>2, <4>3, <4>4, <4>5, AccessIs, ReporterGetsIs
        DEF Next, Unlock, ReporterLeaves, ReporterReceives, KillFromReporter, Restart
    <3>2. CASE ServerExpires(UrlOf[k])
      BY <2>1, <2>3, <3>2, OwnUrl DEF ServerExpires, InTime, Cause
    <3>3. CASE DeleteKey /\ UrlOf[killing] = UrlOf[k]
      BY <2>1, <3>3, OwnUrl DEF DeleteKey, GoesForCause
    <3> QED
      BY <3>1, <3>2, <3>3
  <2> QED
    BY <2>2, <2>3
<1> QED
  BY <1>1, <1>2 DEF GoesForCause, GoneForCause, Cause

LEMMA AlwaysGoesForCause == Spec => []GoesForCause
<1>1. Init => GoesForCause
  BY NoKeyAssumption DEF Init, ApiInit, GoesForCause, GoneForCause
<1>2. Handed /\ InTime /\ NeverTooMany /\ GoesForCause /\ [Next]_vars => GoesForCause'
  BY StepGoesForCause
<1> QED
  BY <1>1, <1>2, AlwaysHanded, AlwaysInTime, AlwaysNeverTooMany, PTL DEF Spec

(* The value of a key that has its url key to itself is only gone when its *)
(* ttl is over or it was served as often as its limit says, whatever fails *)
(* and restarts cut short.                                                 *)
THEOREM OwnUrlKeysAreKept == Spec => []GoneForCause
BY AlwaysGoesForCause, PTL DEF GoesForCause

-----------------------------------------------------------------------------
(* Counts *)

(* No command has come between the Get and the Set of a reporter at the    *)
(* url key of k, which is k's alone, and no count has failed.              *)
Steady(k) == "count" \notin failed /\ HasOwnUrl(k) /\ UrlOf[k] \notin met

Setters(u) == {d \in Downloads : reporter[d] = "set" /\ Url(d) = u}

(* Then the value is the only one there is, and its count is exact.        *)
SteadyCounts ==
  \A k \in Keys : Steady(k) =>
    /\ \A d \in Setters(UrlOf[k]) : fetched[d] = value[UrlOf[k]]
    /\ \A c, d \in Setters(UrlOf[k]) : c = d
    /\ value[UrlOf[k]] # None => value[UrlOf[k]].used = Cardinality(Counted(k))
NothingLate == "count" \notin failed => \A d \in Downloads : late[d] = None

LEMMA SteadyStays ==
  ASSUME Handed, NEW k \in Keys, Steady(k)', [Next]_vars
  PROVE  Steady(k)
BY SentStays, NothingIsTakenBack DEF Steady, HasOwnUrl, Sent

LEMMA StepNothingLate ==
  ASSUME Handed, NothingLate, [Next]_vars
  PROVE  NothingLate'
BY Origins, NothingIsTakenBack DEF NothingLate, From, LateFrom

LEMMA OneMoreCounted ==
  ASSUME NEW k, NEW d, Counted(k)' = Counted(k) \cup {d}, d \notin Counted(k)
  PROVE  Cardinality(Counted(k)') = Cardinality(Counted(k)) + 1
BY FiniteCounts, FS_AddElement

LEMMA StepSteady ==
  ASSUME Handed, NothingLate, SteadyCounts, [Next]_vars, NEW k \in Keys, Steady(k)'
  PROVE  /\ \A d \in Setters(UrlOf[k])' : fetched'[d] = value'[UrlOf[k]]
         /\ \A c, d \in Setters(UrlOf[k])' : c = d
         /\ value'[UrlOf[k]] # None => value'[UrlOf[k]].used = Cardinality(Counted(k)')
<1> DEFINE u == UrlOf[k]
           Goal == /\ \A d \in Setters(u)' : fetched'[d] = value'[u]
                   /\ \A c, d \in Setters(u)' : c = d
                   /\ value'[u] # None => value'[u].used = Cardinality(Counted(k)')
<1>1. Steady(k) /\ u \in UrlKeys
  BY SteadyStays, UrlOfAssumption
<1>2. /\ \A d \in Setters(u) : fetched[d] = value[u]
      /\ \A c, d \in Setters(u) : c = d
      /\ value[u] # None => value[u].used = Cardinality(Counted(k))
  BY <1>1 DEF SteadyCounts
<1>3. ASSUME value'[u] \in {value[u], None}, Setters(u)' \subseteq Setters(u),
             \A d \in Setters(u)' : fetched'[d] = fetched[d] /\ value'[u] = value[u],
             Counted(k)' = Counted(k)
      PROVE  Goal
  BY <1>2, <1>3
<1> USE DEF Handed, TypeOK, ApiTypeOK, ReportsInOrder, ReportInOrder, Setters, Counted,
            ServedWith, Url
<1>4. CASE HandlerStep /\ UNCHANGED storeVars
  <2>1. Counted(k)' = Counted(k) /\ UNCHANGED key
    BY <1>4 DEF HandlerStep, Expire, Submit, Adds, ReturnStep, Return, Cancel, Deadline
  <2> QED
    BY <1>3, <1>4, <2>1
<1>5. ASSUME NEW l \in Keys, AddKey(l) PROVE Goal
  <2>1. /\ UNCHANGED <<downloadVars, fetched, reporter>> /\ ~Sent(l) /\ Sent(l)'
        /\ \/ value' = value
           \/ \E c \in Command : c.record \in NewRecords(l) /\ Put(UrlOf[l], c)
    BY <1>5, AddKeyIs DEF Sent
  <2>2. CASE l = k
    <3>1. value[u] = None /\ Setters(u) = {}
      BY <1>1, <2>1, <2>2, OwnUrl, NoRecordAssumption DEF Steady
    <3>2. Counted(k)' = {}
      BY <2>1, <2>2, NoKeyAssumption DEF RecordsInPlace
    <3>3. value'[u] # None => value'[u].used = 0
      BY <1>1, <2>1, <2>2, <3>1, PutIs, NewRecordIs
    <3>4. Setters(u)' = {}
      BY <2>1, <3>1
    <3> QED
      BY <3>2, <3>3, <3>4, FS_EmptySet
  <2>3. CASE l # k
    <3>1. UrlOf[l] # u
      BY <2>1, <2>3 DEF Steady, HasOwnUrl, Sent
    <3>2. value'[u] = value[u]
      BY <1>1, <2>1, <3>1, PutIs, UrlOfAssumption
    <3> QED
      BY <1>3, <2>1, <3>2
  <2> QED
    BY <2>2, <2>3
<1>6. ASSUME NEW w \in UrlKeys, ServerExpires(w) PROVE Goal
  <2>1. UNCHANGED <<apiVars, fetched, reporter>> /\ (w = u => Setters(u) = {})
        /\ value' = [value EXCEPT ![w] = None]
    BY <1>1, <1>6 DEF ServerExpires, Meets, Steady
  <2> QED
    BY <1>1, <1>3, <2>1
<1>7. ASSUME NEW d \in Downloads, NEW w \in UrlKeys, Access(d, w) PROVE Goal
  <2>1. PICK found \in {value[w], None} :
          /\ key' = [key EXCEPT ![d] = IF found = None THEN None ELSE found.key]
          /\ handler' = [handler EXCEPT ![d] =
                           IF found = None THEN "returning" ELSE "granted"]
          /\ fetched' = [fetched EXCEPT ![d] = found]
          /\ reporter' = [reporter EXCEPT ![d] =
                            IF found = None THEN "none" ELSE "waiting"]
    BY <1>7, AccessIs
  <2>2. UNCHANGED <<served, report, value>> /\ ~served[d]
    BY <1>7, AccessIs
  <2> QED
    BY <1>3, <2>1, <2>2
<1>8. ASSUME NEW d \in Downloads, Unlock(d) PROVE Goal
  <2>1. /\ UNCHANGED <<key, report, value, fetched, reporter>> /\ report[d] = "none"
        /\ \A c \in Downloads \ {d} : served'[c] = served[c]
    BY <1>8 DEF Unlock, Handle
  <2> QED
    BY <1>3, <2>1
<1>9. ASSUME NEW d \in Downloads, ReporterLeaves(d) \/ ReporterReceives(d) PROVE Goal
  <2>1. /\ UNCHANGED <<key, served, value, fetched>> /\ reporter[d] = "waiting"
        /\ \A c \in Downloads \ {d} : reporter'[c] = reporter[c] /\ report'[c] = report[c]
        /\ \/ reporter'[d] = "gone" /\ report'[d] # "sent"
           \/ reporter'[d] = "get"
    BY <1>9 DEF ReporterLeaves, ReporterReceives, Reported
  <2>2. /\ reporter'[d] # "set" /\ ~(report'[d] = "sent" /\ reporter'[d] \in {"sending", "gone"})
        /\ ~(report[d] = "sent" /\ reporter[d] \in {"sending", "gone"})
    BY <2>1
  <2>3. Counted(k)' = Counted(k)
    BY <2>1, <2>2
  <2>4. Setters(u)' \subseteq Setters(u)
    BY <2>1, <2>2
  <2> QED
    BY <1>3, <2>1, <2>3, <2>4
<1>10. ASSUME NEW d \in Downloads, ReporterGets(d) PROVE Goal
  <2>1. /\ reporter[d] = "get" /\ UNCHANGED <<apiVars, value>> /\ key[d] # None
        /\ \A c \in Downloads \ {d} : reporter'[c] = reporter[c] /\ fetched'[c] = fetched[c]
    BY <1>10, ReporterGetsIs DEF Getting
  <2>2. PICK fails \in BOOLEAN : Getting(d, fails)
    BY <1>10, ReporterGetsIs
  <2>3. CASE Url(d) # u
    <3>1. key[d] # k
      BY <2>3
    <3>2. Counted(k)' = Counted(k) /\ Setters(u)' = Setters(u)
      BY <2>1, <2>3, <3>1
    <3> QED
      BY <1>3, <2>1, <2>3, <3>2
  <2>4. CASE Url(d) = u
    <3>1. Setters(u) = {}
      BY <1>10, <2>4, ReporterGetsIs DEF Meets, Steady
    <3>2. Setters(u)' \subseteq {d}
      BY <2>1, <3>1
    <3>3. \/ reporter'[d] = "set" /\ fetched'[d] = value[u]
          \/ reporter'[d] # "set" /\ (served[d] => value[u] = None)
      BY <2>2, <2>4 DEF Getting, Steady
    <3>4. \A e \in Setters(u)' : fetched'[e] = value'[u]
      BY <2>1, <3>2, <3>3
    <3>5. value[u] # None => Counted(k)' = Counted(k)
      <4>1. value[u] # None => ~served[d] \/ reporter'[d] = "set"
        BY <3>3
      <4> QED
        BY <2>1, <4>1
    <3>6. value'[u] # None => value'[u].used = Cardinality(Counted(k)')
      BY <1>2, <2>1, <3>5
    <3> QED
      BY <3>2, <3>4, <3>6
  <2> QED
    BY <2>3, <2>4
<1>11. ASSUME NEW d \in Downloads, ReporterSets(d) PROVE Goal
  <2>1. /\ fetched[d] \in Record /\ fetched[d] # None /\ key[d] # None
        /\ served[d] /\ report[d] = "sent" /\ reporter[d] = "set" /\ Url(d) \in UrlKeys
    BY <1>11, SetAdds, NoRecordAssumption
  <2>2. /\ UNCHANGED apiVars /\ reporter'[d] \in {"sending", "gone"}
        /\ \A c \in Downloads \ {d} : reporter'[c] = reporter[c] /\ fetched'[c] = fetched[c]
    BY <1>11, <2>1, ReporterSetsIs
  <2>3. PICK c \in Command : c.record = Counting(fetched[d]) /\ Put(Url(d), c)
    BY <1>11, <2>1, ReporterSetsIs DEF Setting, Steady
  <2>4. CASE Url(d) # u
    <3>1. value'[u] = value[u] /\ key[d] # k
      BY <1>1, <2>1, <2>3, <2>4, PutIs
    <3>2. Counted(k)' = Counted(k) /\ Setters(u)' = Setters(u)
      BY <2>1, <2>2, <2>4, <3>1
    <3> QED
      BY <1>3, <2>2, <2>4, <3>1, <3>2
  <2>5. CASE Url(d) = u
    <3>1. d \in Setters(u) /\ fetched[d] = value[u] /\ key[d] = k
      BY <1>1, <1>2, <2>1, <2>5, OwnUrl DEF Steady
    <3>2. Setters(u)' = {}
      BY <1>2, <2>2, <3>1
    <3>3. Counted(k)' = Counted(k) \cup {d} /\ d \notin Counted(k)
      BY <2>1, <2>2, <3>1
    <3>4. Cardinality(Counted(k)') = Cardinality(Counted(k)) + 1
      <4> HIDE DEF Counted, Handed, TypeOK, ReportsInOrder, Setters
      <4> QED
        BY <3>3, OneMoreCounted
    <3>5. value'[u].used = fetched[d].used + 1
      BY <1>1, <2>1, <2>3, <2>5, PutIs, CountingIs
    <3> QED
      BY <1>2, <2>1, <3>1, <3>2, <3>4, <3>5
  <2> QED
    BY <2>4, <2>5
<1>12. ASSUME NEW d \in Downloads, LateSet(d) PROVE Goal
  BY <1>1, <1>12 DEF LateSet, Steady, NothingLate
<1>13. ASSUME NEW d \in Downloads, KillFromReporter(d) PROVE Goal
  <2>1. UNCHANGED <<apiVars, value>> /\ reporter[d] = "sending" /\ reporter'[d] = "gone"
        /\ \A c \in Downloads \ {d} : reporter'[c] = reporter[c] /\ fetched'[c] = fetched[c]
    BY <1>13 DEF KillFromReporter, Leaves
  <2> QED
    BY <1>3, <2>1
<1>14. CASE DeleteKey
  <2>1. /\ UNCHANGED <<apiVars, fetched, reporter>> /\ killing # None
        /\ \/ value' = value
           \/ /\ value' = [value EXCEPT ![UrlOf[killing]] = None]
              /\ Meets(UrlOf[killing])
    BY <1>14 DEF DeleteKey
  <2>2. CASE value'[u] = value[u]
    BY <1>3, <2>1, <2>2
  <2>3. CASE value'[u] # value[u]
    <3>1. value'[u] = None /\ Setters(u) = {}
      BY <1>1, <2>1, <2>3, UrlOfAssumption DEF Meets, Steady
    <3> QED
      BY <1>3, <2>1, <3>1
  <2> QED
    BY <2>2, <2>3
<1>15. CASE Restart
  <2>1. /\ UNCHANGED <<key, served, report, value>>
        /\ \A d \in Downloads : /\ reporter[d] \notin {"get", "set"}
                                /\ reporter'[d] = IF reporter[d] = "none" THEN "none" ELSE "gone"
    BY <1>15 DEF Restart, LostByRestart, Steady
  <2>2. Counted(k)' = Counted(k) /\ Setters(u)' = {}
    BY <2>1
  <2> QED
    BY <1>3, <2>1, <2>2
<1>16. CASE UNCHANGED vars
  BY <1>3, <1>16
<1> QED
  BY <1>4, <1>5, <1>6, <1>7, <1>8, <1>9, <1>10, <1>11, <1>12, <1>13, <1>14, <1>15, <1>16
  DEF Next

LEMMA AlwaysSteady == Spec => []SteadyCounts
<1>1. Init => NothingLate /\ SteadyCounts
  <2> SUFFICES ASSUME Init, NEW k \in Keys
               PROVE  /\ \A d \in Downloads : late[d] = None
                      /\ Setters(UrlOf[k]) = {} /\ value[UrlOf[k]] = None
    BY DEF NothingLate, SteadyCounts, Steady, Init
  <2> QED
    BY UrlOfAssumption DEF Init, Setters
<1>2. Handed /\ NothingLate /\ SteadyCounts /\ [Next]_vars => NothingLate' /\ SteadyCounts'
  <2> SUFFICES ASSUME Handed, NothingLate, SteadyCounts, [Next]_vars
               PROVE  SteadyCounts'
    BY StepNothingLate
  <2> QED
    BY StepSteady DEF SteadyCounts
<1> QED
  BY <1>1, <1>2, AlwaysHanded, PTL DEF Spec

(* No reported use is lost or counted twice at a url key that one key has  *)
(* to itself, as long as no command comes between a reporter's Get and Set *)
(* and no count fails.                                                     *)
THEOREM ExactCounts == Spec => []CountsAreExact
<1>1. SteadyCounts => CountsAreExact
  BY DEF SteadyCounts, CountsAreExact, Steady
<1> QED
  BY <1>1, AlwaysSteady, PTL
=============================================================================
