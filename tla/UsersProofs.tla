----------------------------- MODULE UsersProofs -----------------------------
(***************************************************************************)
(* What is proved of Users for any users that share ids, api keys and      *)
(* names in any way, any number of requests and deletions, and every       *)
(* interleaving of their loads and stores.                                 *)
(***************************************************************************)
EXTENDS Users, TLAPS

USE DEF maps, requestVars, deleteVars, vars

-----------------------------------------------------------------------------
(* The inductive invariant, part by part.                                  *)

(* Where a request is says what it has got and been answered. *)
RequestInPlace(r) ==
  /\ at[r] \in Creating => r \in NewUsers /\ answer[r] \in {None, "forbidden"}
  /\ at[r] \in {"idle", "resolve"} => answer[r] = None /\ who[r] = None
  /\ at[r] = "resolve" \/ who[r] # None => id[r] # None

DeletionInPlace(x) ==
  /\ deleteAt[x] = "idle" => deleting[x] = None
  /\ deleteAt[x] = "delete" => deleting[x] # None

InPlace ==
  /\ \A r \in Requests : RequestInPlace(r)
  /\ \A x \in Deletes : DeletionInPlace(x)

Typed == TypeOK /\ InPlace

(* How far a creation has come, and for good. *)
PastId(u) == at[u] \in Creating \ {"check id"} \/ answer[u] = "ok"
PastApiKey(u) == PastId(u) /\ at[u] # "check api key"
PastName(u) == PastApiKey(u) /\ at[u] # "check name"
StoredUser(u) == at[u] \in {"store api key", "store name"} \/ answer[u] = "ok"
StoredApiKey(u) == at[u] = "store name" \/ answer[u] = "ok"

(* Whatever a creation has stored is not None any more, unless deleted. *)
Taken(u) ==
  /\ StoredUser(u) => userById[IdOf[u]] # None \/ ~NeverDeleted(IdOf[u])
  /\ StoredApiKey(u) => uuidByApiKey[ApiKeyOf[u]] # None
  /\ answer[u] = "ok" => uuidByUsername[NameOf[u]] # None

AllTaken ==
  /\ \A u \in NewUsers : Taken(u)
  /\ userById[IdOf[Root]] # None \/ ~NeverDeleted(IdOf[Root])
  /\ uuidByApiKey[ApiKeyOf[Root]] # None
  /\ uuidByUsername[NameOf[Root]] # None

(* A user that is there was stored by a creation that was not refused. *)
HasStored(u) ==
  \/ at[u] \in {"store api key", "store name"}
  \/ at[u] = "done" /\ answer[u] \in {"ok", "forbidden"}

StoredByCreation ==
  \A u \in NewUsers : userById[IdOf[u]] = u => HasStored(u)

(* Creations that share something and are under way together have met. *)
Met ==
  \A u, v \in NewUsers :
    (u # v /\ Share(u, v) /\ at[u] \in Creating \ {"check id"}
           /\ at[v] \in Creating \ {"check id"}) => u \in raced

(* Who has met nobody is apart from everybody. *)
ApartFromRoot(u) ==
  /\ ApiKeyOf[u] = ApiKeyOf[Root] => ~PastApiKey(u)
  /\ NameOf[u] = NameOf[Root] => ~PastName(u)
  /\ IdOf[u] = IdOf[Root] /\ NeverDeleted(IdOf[u]) => ~PastId(u)

ApartFrom(u, v) ==
  /\ ApiKeyOf[u] = ApiKeyOf[v] => ~PastApiKey(u) \/ ~PastApiKey(v)
  /\ NameOf[u] = NameOf[v] => ~PastName(u) \/ ~PastName(v)
  /\ IdOf[u] = IdOf[v] /\ NeverDeleted(IdOf[u]) => ~PastId(u) \/ ~PastId(v)

Apart ==
  /\ \A u \in NewUsers : ApartFromRoot(u)
  /\ \A u \in NewUsers \ raced, v \in NewUsers : u # v => ApartFrom(u, v)

(* Who has met nobody finds nobody in its way, and then itself. *)
Owns(u) ==
  /\ NeverDeleted(IdOf[u]) =>
       /\ PastId(u) /\ ~StoredUser(u) => userById[IdOf[u]] = None
       /\ StoredUser(u) => userById[IdOf[u]] = u
  /\ StoredApiKey(u) => uuidByApiKey[ApiKeyOf[u]] = IdOf[u]
  /\ answer[u] = "ok" => uuidByUsername[NameOf[u]] = IdOf[u]

AllOwn == \A u \in NewUsers \ raced : Owns(u)

(* An id nobody deletes, and no creations raced for, stays whose it was. *)
Sure(i) == NeverDeleted(i) /\ \A v \in raced : IdOf[v] # i
IsOf(i, a) == userById[i] # None /\ ApiKeyOf[userById[i]] = a

PointsRight ==
  /\ \A a \in ApiKeys, i \in Ids :
       (uuidByApiKey[a] = i /\ Sure(i)) => IsOf(i, a)
  /\ \A r \in Requests, i \in Ids, a \in ApiKeys \cup {None} :
       (at[r] = "resolve" /\ id[r] = i /\ presented[r] = a /\ Sure(i)) => IsOf(i, a)

-----------------------------------------------------------------------------
(* Types *)

LEMMA InitTyped == Init => Typed
BY RootAssumption, FoundByAssumption, NobodyAssumption
DEF Init, Typed, TypeOK, InPlace, RequestInPlace, DeletionInPlace, Users, Requests, Creating

Answers == {"ok", "forbidden", "bad request", "error", None}
Places == {"idle", "resolve", "done"} \cup Creating

LEMMA GoesTo ==
  ASSUME TypeOK, NEW r \in Requests, NEW p \in Places, NEW a \in Answers, Goes(r, p, a)
  PROVE  /\ at' \in [Requests -> Places]
         /\ answer' \in [Requests -> Answers]
         /\ at'[r] = p
         /\ answer[r] = None => answer'[r] = a
         /\ answer[r] # None => answer'[r] = answer[r]
         /\ \A q \in Requests \ {r} : at'[q] = at[q] /\ answer'[q] = answer[q]
BY DEF TypeOK, Goes, Places, Answers

(* A request that changes its place, and what it has got on the way. *)
LEMMA StaysInPlace ==
  ASSUME TypeOK, InPlace, UNCHANGED deleteVars,
         NEW r \in Requests,
         \A q \in Requests \ {r} : /\ at'[q] = at[q] /\ answer'[q] = answer[q]
                                  /\ id'[q] = id[q] /\ who'[q] = who[q],
         RequestInPlace(r)'
  PROVE  InPlace'
BY DEF InPlace, RequestInPlace, DeletionInPlace

LEMMA CreatingStaysInPlace ==
  ASSUME TypeOK, InPlace, UNCHANGED <<id, who, deleteVars>>,
         NEW u \in NewUsers, at[u] \in Creating,
         NEW p \in Creating \cup {"done"}, NEW a \in Answers,
         Goes(u, p, a), p # "done" => a = None
  PROVE  InPlace'
<1>1. u \in Requests /\ p \in Places
  BY DEF Requests, Places
<1>2. RequestInPlace(u)
  BY <1>1 DEF InPlace
<1>3. RequestInPlace(u)'
  BY <1>1, <1>2, GoesTo DEF RequestInPlace, Creating
<1> QED
  BY <1>1, <1>3, GoesTo, StaysInPlace

LEMMA CreateGoes ==
  ASSUME NEW u \in NewUsers, Create(u)
  PROVE  /\ at[u] \in Creating
         /\ UNCHANGED <<presented, id, who, deleteVars>>
         /\ \E p \in Creating \cup {"done"}, a \in Answers :
              Goes(u, p, a) /\ (p # "done" => a = None)
BY DEF Create, CheckId, CheckApiKey, CheckName, StoreUser, StoreApiKey, StoreName,
   Looks, Stores, Creating, Answers

LEMMA StepTyped ==
  ASSUME TypeOK, InPlace, [Next]_vars
  PROVE  TypeOK'
<1> USE DEF TypeOK, Requests, Creating
<1>1. ASSUME NEW r \in Requests, NEW a \in ApiKeys, ResolveApiKey(r, a) PROVE TypeOK'
  BY <1>1 DEF ResolveApiKey, Goes
<1>2. ASSUME NEW r \in Requests, Check(r) \/ Authorize(r) PROVE TypeOK'
  <2>0. Resolves(r)
    BY <1>2 DEF Check, CheckWith, Authorize
  <2>1. id[r] \in Ids
    BY <2>0 DEF Resolves, InPlace, RequestInPlace
  <2>3. userById[id[r]] \in Users \cup {None}
    BY <2>1
  <2>4. who' \in [Requests -> Users \cup {None}]
    BY <2>0, <2>3 DEF Resolves
  <2>2. PICK p \in Places, a \in Answers : Goes(r, p, a)
    BY <1>2 DEF Check, CheckWith, Authorize, Places, Answers
  <2>5. at' \in [Requests -> Places] /\ answer' \in [Requests -> Answers]
    BY <2>2, GoesTo
  <2> QED
    BY <2>0, <2>4, <2>5 DEF Resolves, Places, Answers
<1>3. ASSUME NEW u \in NewUsers, Create(u) PROVE TypeOK'
  <2>1. userById' \in [Ids -> Users \cup {None}]
    BY <1>3, FoundByAssumption
    DEF Create, CheckId, CheckApiKey, CheckName, StoreUser, StoreApiKey, StoreName,
        Looks, Stores, Users
  <2>2. /\ uuidByApiKey' \in [ApiKeys -> Ids \cup {None}]
        /\ uuidByUsername' \in [Names -> Ids \cup {None}]
    BY <1>3, FoundByAssumption
    DEF Create, CheckId, CheckApiKey, CheckName, StoreUser, StoreApiKey, StoreName,
        Looks, Stores, Users
  <2>3. raced' \subseteq NewUsers
    BY <1>3
    DEF Create, CheckId, CheckApiKey, CheckName, StoreUser, StoreApiKey, StoreName,
        Looks, Stores
  <2>4. PICK p \in Creating \cup {"done"}, a \in Answers : Goes(u, p, a)
    BY <1>3, CreateGoes
  <2>5. at' \in [Requests -> Places] /\ answer' \in [Requests -> Answers]
    BY <2>4, GoesTo DEF Places
  <2> QED
    BY <1>3, <2>1, <2>2, <2>3, <2>5, CreateGoes DEF Places, Answers
<1>4. ASSUME NEW x \in Deletes, NEW i \in Ids, DeleteLoad(x, i) PROVE TypeOK'
  BY <1>4 DEF DeleteLoad
<1>5. ASSUME NEW x \in Deletes, Delete(x) PROVE TypeOK'
  BY <1>5 DEF Delete, InPlace, DeletionInPlace
<1>6. CASE UNCHANGED vars
  BY <1>6
<1> QED
  BY <1>1, <1>2, <1>3, <1>4, <1>5, <1>6 DEF Next

LEMMA StepInPlace ==
  ASSUME TypeOK, InPlace, [Next]_vars
  PROVE  InPlace'
<1>1. ASSUME NEW r \in Requests, NEW a \in ApiKeys, ResolveApiKey(r, a) PROVE InPlace'
  <2>1. RequestInPlace(r)
    BY DEF InPlace
  <2>2. PICK p \in {"done", "resolve"}, b \in {"error", None} :
          Goes(r, p, b) /\ (p = "resolve" => b = None /\ uuidByApiKey[a] # None)
    BY <1>1 DEF ResolveApiKey
  <2>3. p \in Places /\ b \in Answers
    BY DEF Places, Answers
  <2>4. RequestInPlace(r)'
    BY <1>1, <2>1, <2>2, <2>3, GoesTo
    DEF ResolveApiKey, RequestInPlace, TypeOK, Creating
  <2> QED
    BY <1>1, <2>2, <2>3, <2>4, GoesTo, StaysInPlace DEF ResolveApiKey, TypeOK
<1>2. ASSUME NEW r \in Requests, Check(r) \/ Authorize(r) PROVE InPlace'
  <2>1. RequestInPlace(r) /\ at[r] = "resolve"
    BY <1>2 DEF InPlace, Check, CheckWith, Authorize, Resolves
  <2>2. PICK p \in {"done", "check id"}, b \in Answers :
          Goes(r, p, b) /\ (p = "check id" => r \in NewUsers /\ b \in {None, "forbidden"})
    BY <1>2 DEF Check, CheckWith, Authorize, Answers
  <2>3. p \in Places
    BY DEF Places, Creating
  <2>4. id'[r] = id[r] /\ id[r] # None
    BY <1>2, <2>1 DEF Check, CheckWith, Authorize, Resolves, RequestInPlace
  <2>5. RequestInPlace(r)'
    BY <2>1, <2>2, <2>3, <2>4, GoesTo DEF RequestInPlace, Creating
  <2> QED
    BY <1>2, <2>2, <2>3, <2>5, GoesTo, StaysInPlace
    DEF Check, CheckWith, Authorize, Resolves, TypeOK
<1>3. ASSUME NEW u \in NewUsers, Create(u) PROVE InPlace'
  BY <1>3, CreateGoes, CreatingStaysInPlace
<1>4. ASSUME NEW x \in Deletes, NEW i \in Ids, DeleteLoad(x, i) PROVE InPlace'
  BY <1>4, NobodyAssumption
  DEF DeleteLoad, InPlace, RequestInPlace, DeletionInPlace, TypeOK
<1>5. ASSUME NEW x \in Deletes, Delete(x) PROVE InPlace'
  BY <1>5 DEF Delete, InPlace, RequestInPlace, DeletionInPlace, TypeOK
<1>6. CASE UNCHANGED vars
  BY <1>6 DEF InPlace, RequestInPlace, DeletionInPlace
<1> QED
  BY <1>1, <1>2, <1>3, <1>4, <1>5, <1>6 DEF Next

LEMMA AlwaysTyped == Spec => []Typed
<1>1. Typed /\ [Next]_vars => Typed'
  BY StepTyped, StepInPlace DEF Typed
<1> QED
  BY InitTyped, <1>1, PTL DEF Spec

(* Every variable keeps its type: the maps lead from api keys and names to *)
(* ids, and from ids to users, or nowhere.                                 *)
THEOREM TypeCorrect == Spec => []TypeOK
BY AlwaysTyped, PTL DEF Typed

-----------------------------------------------------------------------------
(* What the steps do to creations and to what they store *)

Under(u) == at[u] \in Creating \ {"check id"}

SameProgress(u) ==
  /\ PastId(u)' <=> PastId(u)
  /\ PastApiKey(u)' <=> PastApiKey(u)
  /\ PastName(u)' <=> PastName(u)
  /\ StoredUser(u)' <=> StoredUser(u)
  /\ StoredApiKey(u)' <=> StoredApiKey(u)
  /\ Under(u)' <=> Under(u)
  /\ (answer[u] = "ok")' <=> answer[u] = "ok"

LEMMA Unmoved ==
  ASSUME NEW u \in NewUsers, at'[u] = at[u], answer'[u] = answer[u]
  PROVE  SameProgress(u)
BY DEF SameProgress, PastId, PastApiKey, PastName, StoredUser, StoredApiKey, Under

Finding(r) == (\E a \in ApiKeys : ResolveApiKey(r, a)) \/ Check(r) \/ Authorize(r)

(* Until it creates, a request touches nothing that is shared. *)
LEMMA FindingGoes ==
  ASSUME NEW r \in Requests, Finding(r)
  PROVE  /\ at[r] \in {"idle", "resolve"}
         /\ UNCHANGED <<maps, raced, deleteVars>>
         /\ \E p \in {"done", "resolve", "check id"}, a \in Answers :
              Goes(r, p, a) /\ (r \in NewUsers => a # "ok")
<1>1. ASSUME NEW a \in ApiKeys, ResolveApiKey(r, a)
      PROVE  Goes(r, "done", "error") \/ Goes(r, "resolve", None)
  BY <1>1 DEF ResolveApiKey
<1>2. ASSUME Check(r)
      PROVE  /\ r \notin NewUsers
             /\ Goes(r, "done", "error") \/ Goes(r, "done", "ok") \/ Goes(r, "done", "forbidden")
  BY <1>2, ApartAssumption DEF Check, CheckWith
<1>3. ASSUME Authorize(r)
      PROVE  \E p \in {"done", "check id"}, a \in {None, "error", "forbidden", "bad request"} :
               Goes(r, p, a)
  BY <1>3 DEF Authorize
<1>4. /\ at[r] \in {"idle", "resolve"}
      /\ UNCHANGED <<maps, raced, deleteVars>>
  BY DEF Finding, ResolveApiKey, Check, CheckWith, Authorize, Resolves
<1>5. None # "ok"
  BY NobodyAssumption
<1> QED
  BY <1>1, <1>2, <1>3, <1>4, <1>5 DEF Finding, Answers

LEMMA FindingMovesNoCreation ==
  ASSUME Typed, NEW r \in Requests, Finding(r)
  PROVE  \A u \in NewUsers : SameProgress(u)
<1>1. PICK p \in {"done", "resolve", "check id"}, a \in Answers :
        Goes(r, p, a) /\ (r \in NewUsers => a # "ok")
  BY FindingGoes
<1>2. p \in Places /\ TypeOK /\ RequestInPlace(r) /\ at[r] \in {"idle", "resolve"}
  BY FindingGoes DEF Typed, InPlace, Places, Creating
<1>3. TAKE u \in NewUsers
<1>4. CASE u # r
  BY <1>1, <1>2, <1>4, GoesTo, Unmoved DEF Requests
<1>5. CASE u = r
  <2>1. at'[u] \in {"done", "resolve", "check id"} /\ answer'[u] # "ok"
    BY <1>1, <1>2, <1>5, GoesTo DEF RequestInPlace
  <2>2. at[u] \in {"idle", "resolve"} /\ answer[u] # "ok"
    BY <1>2, <1>5, NobodyAssumption DEF RequestInPlace
  <2> QED
    BY <2>1, <2>2
    DEF SameProgress, PastId, PastApiKey, PastName, StoredUser, StoredApiKey, Under, Creating
<1> QED
  BY <1>4, <1>5

(* A look finds nothing and goes on, or something and is the end of it. *)
LEMMA Looked ==
  ASSUME Typed, NEW u \in NewUsers, NEW p \in Creating, NEW next \in Creating, NEW found,
         Looks(u, p, found, next)
  PROVE  /\ at[u] = p
         /\ UNCHANGED <<maps, presented, id, who, deleteVars>>
         /\ answer[u] # "ok" /\ answer'[u] # "ok"
         /\ \/ found = None /\ at'[u] = next /\ answer'[u] = answer[u]
            \/ found # None /\ at'[u] = "done" /\ answer'[u] \in {"error", "forbidden"}
         /\ \A v \in NewUsers \ {u} : at'[v] = at[v] /\ answer'[v] = answer[v]
         /\ \A v \in NewUsers \ {u} : SameProgress(v)
<1>1. TypeOK /\ at[u] = p /\ u \in Requests /\ answer[u] \in {None, "forbidden"}
  BY DEF Typed, InPlace, RequestInPlace, Looks, Requests
<1>2. /\ next \in Places /\ "done" \in Places /\ None \in Answers /\ "error" \in Answers
      /\ None # "ok"
  BY NobodyAssumption DEF Places, Answers
<1>3. CASE found = None
  <2>1. Goes(u, next, None)
    BY <1>3 DEF Looks
  <2> QED
    BY <1>1, <1>2, <1>3, <2>1, GoesTo, Unmoved DEF Looks, Requests
<1>4. CASE found # None
  <2>1. Goes(u, "done", "error")
    BY <1>4 DEF Looks
  <2> QED
    BY <1>1, <1>2, <1>4, <2>1, GoesTo, Unmoved DEF Looks, Requests
<1> QED
  BY <1>3, <1>4

LEMMA Stored ==
  ASSUME Typed, NEW u \in NewUsers, NEW p \in Creating, NEW next \in Creating \cup {"done"},
         NEW a \in {None, "ok"}, Stores(u, p, next, a)
  PROVE  /\ at[u] = p /\ at'[u] = next
         /\ UNCHANGED <<presented, id, who, deleteVars, raced>>
         /\ answer[u] \in {None, "forbidden"} /\ None # "ok"
         /\ answer'[u] = IF answer[u] = None THEN a ELSE answer[u]
         /\ \A v \in NewUsers \ {u} : at'[v] = at[v] /\ answer'[v] = answer[v]
         /\ \A v \in NewUsers \ {u} : SameProgress(v)
<1>1. TypeOK /\ at[u] = p /\ u \in Requests /\ answer[u] \in {None, "forbidden"}
  BY DEF Typed, InPlace, RequestInPlace, Stores, Requests
<1>2. next \in Places /\ a \in Answers /\ None # "ok" /\ Goes(u, next, a)
  BY NobodyAssumption DEF Places, Answers, Stores
<1> QED
  BY <1>1, <1>2, GoesTo, Unmoved DEF Stores, Requests

LEMMA Found ==
  ASSUME NEW u \in Users
  PROVE  /\ IdOf[u] \in Ids /\ ApiKeyOf[u] \in ApiKeys /\ NameOf[u] \in Names
         /\ u # None /\ IdOf[u] # None
BY FoundByAssumption, NobodyAssumption

(* What a step of Create comes to for its user u: how far it gets, what it *)
(* found missing to get there, and what it stores.                         *)
Advances(u) ==
  /\ Under(u)' => Under(u) \/ CheckId(u)
  /\ PastId(u)' => PastId(u) \/ (CheckId(u) /\ userById[IdOf[u]] = None)
  /\ PastApiKey(u)' => PastApiKey(u) \/ (Under(u) /\ uuidByApiKey[ApiKeyOf[u]] = None)
  /\ PastName(u)' => PastName(u) \/ (Under(u) /\ uuidByUsername[NameOf[u]] = None)
  /\ PastId(u)' /\ StoredUser(u) => StoredUser(u)'
  /\ HasStored(u) => HasStored(u)'

StoresIts(u) ==
  /\ \/ userById' = userById /\ (StoredUser(u)' => StoredUser(u))
     \/ /\ userById'[IdOf[u]] = u
        /\ \A i \in Ids \ {IdOf[u]} : userById'[i] = userById[i]
        /\ PastId(u) /\ ~StoredUser(u) /\ StoredUser(u)' /\ HasStored(u)'
  /\ \/ uuidByApiKey' = uuidByApiKey /\ (StoredApiKey(u)' => StoredApiKey(u))
     \/ /\ uuidByApiKey'[ApiKeyOf[u]] = IdOf[u]
        /\ \A a \in ApiKeys \ {ApiKeyOf[u]} : uuidByApiKey'[a] = uuidByApiKey[a]
        /\ PastApiKey(u) /\ StoredUser(u)
  /\ \/ uuidByUsername' = uuidByUsername /\ (answer'[u] = "ok" => answer[u] = "ok")
     \/ /\ uuidByUsername'[NameOf[u]] = IdOf[u]
        /\ \A n \in Names \ {NameOf[u]} : uuidByUsername'[n] = uuidByUsername[n]
        /\ PastName(u) /\ StoredUser(u)

LEMMA CreationStep ==
  ASSUME Typed, NEW u \in NewUsers, Create(u)
  PROVE  /\ Advances(u) /\ StoresIts(u)
         /\ \A v \in NewUsers \ {u} : at'[v] = at[v] /\ answer'[v] = answer[v] /\ SameProgress(v)
         /\ raced \subseteq raced' /\ UNCHANGED deleteVars
<1> USE DEF Advances, StoresIts, PastId, PastApiKey, PastName, StoredUser, StoredApiKey,
            HasStored, Under, Creating
<1>0. /\ IdOf[u] \in Ids /\ ApiKeyOf[u] \in ApiKeys /\ NameOf[u] \in Names
      /\ userById \in [Ids -> Users \cup {None}]
      /\ uuidByApiKey \in [ApiKeys -> Ids \cup {None}]
      /\ uuidByUsername \in [Names -> Ids \cup {None}]
  BY Found DEF Users, Typed, TypeOK
<1>1. CASE CheckId(u)
  <2>1. Looks(u, "check id", userById[IdOf[u]], "check api key") /\ raced \subseteq raced'
    BY <1>1 DEF CheckId
  <2> QED
    BY <1>1, <2>1, Looked
<1>2. CASE CheckApiKey(u)
  <2>1. Looks(u, "check api key", uuidByApiKey[ApiKeyOf[u]], "check name") /\ raced' = raced
    BY <1>2 DEF CheckApiKey
  <2> QED
    BY <2>1, Looked
<1>3. CASE CheckName(u)
  <2>1. Looks(u, "check name", uuidByUsername[NameOf[u]], "store user") /\ raced' = raced
    BY <1>3 DEF CheckName
  <2> QED
    BY <2>1, Looked
<1>4. CASE StoreUser(u)
  <2>1. Stores(u, "store user", "store api key", None)
    BY <1>4 DEF StoreUser
  <2>2. /\ at[u] = "store user" /\ at'[u] = "store api key"
        /\ answer[u] # "ok" /\ answer'[u] # "ok"
        /\ UNCHANGED <<deleteVars, raced>>
        /\ \A v \in NewUsers \ {u} : at'[v] = at[v] /\ answer'[v] = answer[v] /\ SameProgress(v)
    BY <2>1, Stored
  <2> QED
    BY <1>0, <1>4, <2>2 DEF StoreUser
<1>5. CASE StoreApiKey(u)
  <2>1. Stores(u, "store api key", "store name", None)
    BY <1>5 DEF StoreApiKey
  <2>2. /\ at[u] = "store api key" /\ at'[u] = "store name"
        /\ answer[u] # "ok" /\ answer'[u] # "ok"
        /\ UNCHANGED <<deleteVars, raced>>
        /\ \A v \in NewUsers \ {u} : at'[v] = at[v] /\ answer'[v] = answer[v] /\ SameProgress(v)
    BY <2>1, Stored
  <2> QED
    BY <1>0, <1>5, <2>2 DEF StoreApiKey
<1>6. CASE StoreName(u)
  <2>1. Stores(u, "store name", "done", "ok")
    BY <1>6 DEF StoreName
  <2>2. /\ at[u] = "store name" /\ at'[u] = "done" /\ answer[u] \in {None, "forbidden"}
        /\ answer'[u] \in {"ok", "forbidden"}
        /\ answer[u] # "ok"
        /\ UNCHANGED <<deleteVars, raced>>
        /\ \A v \in NewUsers \ {u} : at'[v] = at[v] /\ answer'[v] = answer[v] /\ SameProgress(v)
    BY <2>1, Stored
  <2> QED
    BY <1>0, <1>6, <2>2 DEF StoreName
<1> QED
  BY <1>1, <1>2, <1>3, <1>4, <1>5, <1>6 DEF Create

Deletion(x) == (\E i \in Ids : DeleteLoad(x, i)) \/ Delete(x)

LEMMA DeletionStep ==
  ASSUME Typed, NEW x \in Deletes, Deletion(x)
  PROVE  /\ UNCHANGED <<uuidByApiKey, uuidByUsername, requestVars, raced>>
         /\ \A i \in Ids : NeverDeleted(i)' => NeverDeleted(i)
         /\ \A i \in Ids : \/ userById'[i] = userById[i]
                           \/ userById'[i] = None /\ ~NeverDeleted(i)'
<1>1. TypeOK /\ DeletionInPlace(x)
  BY DEF Typed, InPlace
<1>2. ASSUME NEW i \in Ids, DeleteLoad(x, i)
      PROVE  \A j \in Ids : NeverDeleted(j)' => NeverDeleted(j)
  BY <1>1, <1>2, NobodyAssumption DEF DeleteLoad, NeverDeleted, DeletionInPlace, TypeOK
<1>3. CASE Delete(x)
  BY <1>1, <1>3 DEF Delete, NeverDeleted, TypeOK
<1> QED
  BY <1>2, <1>3 DEF Deletion, DeleteLoad

LEMMA StepsAre ==
  ASSUME [Next]_vars
  PROVE  \/ \E r \in Requests : Finding(r)
         \/ \E u \in NewUsers : Create(u)
         \/ \E x \in Deletes : Deletion(x)
         \/ UNCHANGED vars
BY DEF Next, Finding, Deletion

(* Only its own Create moves a creation. *)
LEMMA ProgressOf ==
  ASSUME Typed, [Next]_vars, NEW v \in NewUsers
  PROVE  SameProgress(v) \/ Create(v)
<1>1. CASE \E r \in Requests : Finding(r)
  BY <1>1, FindingMovesNoCreation
<1>2. CASE \E u \in NewUsers : Create(u)
  BY <1>2, CreationStep
<1>3. CASE \E x \in Deletes : Deletion(x)
  BY <1>3, DeletionStep, Unmoved
<1>4. CASE UNCHANGED vars
  BY <1>4, Unmoved
<1> QED
  BY <1>1, <1>2, <1>3, <1>4, StepsAre

-----------------------------------------------------------------------------
(* What is stored stays, and what an api key or a name leads to *)

LEMMA NothingIsForgotten ==
  ASSUME Typed, [Next]_vars
  PROVE  /\ raced \subseteq raced'
         /\ \A i \in Ids :
              /\ NeverDeleted(i)' => NeverDeleted(i)
              /\ userById[i] # None => userById'[i] # None \/ ~NeverDeleted(i)'
         /\ \A a \in ApiKeys : uuidByApiKey[a] # None => uuidByApiKey'[a] # None
         /\ \A n \in Names : uuidByUsername[n] # None => uuidByUsername'[n] # None
<1> USE DEF NeverDeleted
<1>1. CASE \E r \in Requests : Finding(r)
  BY <1>1, FindingGoes
<1>2. ASSUME NEW u \in NewUsers, Create(u)
      PROVE  /\ raced \subseteq raced' /\ UNCHANGED deleteVars
             /\ \A i \in Ids : userById[i] # None => userById'[i] # None
             /\ \A a \in ApiKeys : uuidByApiKey[a] # None => uuidByApiKey'[a] # None
             /\ \A n \in Names : uuidByUsername[n] # None => uuidByUsername'[n] # None
  <2>1. StoresIts(u) /\ raced \subseteq raced' /\ UNCHANGED deleteVars
    BY <1>2, CreationStep
  <2> QED
    BY <2>1, Found DEF StoresIts, Users
<1>3. ASSUME NEW x \in Deletes, Deletion(x)
      PROVE  /\ raced = raced' /\ UNCHANGED <<uuidByApiKey, uuidByUsername>>
             /\ \A i \in Ids : NeverDeleted(i)' => NeverDeleted(i)
             /\ \A i \in Ids : userById[i] # None => userById'[i] # None \/ ~NeverDeleted(i)'
  BY <1>3, DeletionStep
<1>4. CASE UNCHANGED vars
  BY <1>4
<1> QED
  BY <1>1, <1>2, <1>3, <1>4, StepsAre

LEMMA StaysTaken ==
  ASSUME Typed, [Next]_vars, NEW u \in NewUsers, Taken(u), SameProgress(u)
  PROVE  Taken(u)'
BY NothingIsForgotten, Found DEF Taken, SameProgress, Users

LEMMA StepAllTaken ==
  ASSUME Typed, AllTaken, [Next]_vars
  PROVE  AllTaken'
<1>1. /\ (userById[IdOf[Root]] # None \/ ~NeverDeleted(IdOf[Root]))'
      /\ (uuidByApiKey[ApiKeyOf[Root]] # None)'
      /\ (uuidByUsername[NameOf[Root]] # None)'
  BY NothingIsForgotten, Found DEF AllTaken, Users
<1>2. ASSUME NEW v \in NewUsers PROVE Taken(v)'
  <2>0. Taken(v)
    BY DEF AllTaken
  <2>1. CASE SameProgress(v)
    BY <2>0, <2>1, StaysTaken
  <2>2. CASE Create(v)
    <3>1. StoresIts(v)
      BY <2>2, CreationStep
    <3>2. (StoredUser(v) => userById[IdOf[v]] # None \/ ~NeverDeleted(IdOf[v]))'
      BY <2>0, <3>1, NothingIsForgotten, Found DEF Taken, StoresIts, Users
    <3>3. (StoredApiKey(v) => uuidByApiKey[ApiKeyOf[v]] # None)'
      BY <2>0, <3>1, NothingIsForgotten, Found DEF Taken, StoresIts, Users
    <3>4. (answer[v] = "ok" => uuidByUsername[NameOf[v]] # None)'
      BY <2>0, <3>1, NothingIsForgotten, Found DEF Taken, StoresIts, Users
    <3> QED
      BY <3>2, <3>3, <3>4 DEF Taken
  <2> QED
    BY <2>1, <2>2, ProgressOf
<1> QED
  BY <1>1, <1>2 DEF AllTaken

LEMMA StepStoredByCreation ==
  ASSUME Typed, StoredByCreation, [Next]_vars
  PROVE  StoredByCreation'
<1> USE DEF StoredByCreation
<1>1. ASSUME NEW r \in Requests, Finding(r) PROVE StoredByCreation'
  <2>1. PICK p \in {"done", "resolve", "check id"}, a \in Answers : Goes(r, p, a)
    BY <1>1, FindingGoes
  <2>2. \A u \in NewUsers \ {r} : at'[u] = at[u] /\ answer'[u] = answer[u]
    BY <2>1, GoesTo DEF Places, Creating, Typed, Requests
  <2>3. r \in NewUsers => ~HasStored(r)
    BY <1>1, FindingGoes DEF HasStored
  <2> QED
    BY <1>1, <2>2, <2>3, FindingGoes DEF HasStored
<1>2. ASSUME NEW u \in NewUsers, Create(u) PROVE StoredByCreation'
  <2>1. HasStored(u) => HasStored(u)'
    BY <1>2, CreationStep DEF Advances
  <2>2. \A v \in NewUsers \ {u} : HasStored(v)' <=> HasStored(v)
    BY <1>2, CreationStep DEF HasStored
  <2>3. CASE userById' = userById
    BY <2>1, <2>2, <2>3
  <2>4. CASE /\ userById'[IdOf[u]] = u /\ HasStored(u)'
             /\ \A i \in Ids \ {IdOf[u]} : userById'[i] = userById[i]
    BY <2>2, <2>4, Found DEF Users
  <2> QED
    BY <1>2, <2>3, <2>4, CreationStep DEF StoresIts
<1>3. ASSUME NEW x \in Deletes, Deletion(x) PROVE StoredByCreation'
  BY <1>3, DeletionStep, Found DEF HasStored, Users
<1>4. CASE UNCHANGED vars
  BY <1>4 DEF HasStored
<1> QED
  BY <1>1, <1>2, <1>3, <1>4, StepsAre

LEMMA StepLeads ==
  ASSUME Typed, AllTaken, LeadsToSomebody, [Next]_vars
  PROVE  LeadsToSomebody'
<1>1. ASSUME UNCHANGED <<uuidByApiKey, uuidByUsername>> PROVE LeadsToSomebody'
  BY <1>1, NothingIsForgotten DEF LeadsToSomebody
<1>2. ASSUME NEW u \in NewUsers, Create(u) PROVE LeadsToSomebody'
  <2>1. StoresIts(u) /\ Taken(u)
    BY <1>2, CreationStep DEF AllTaken
  <2>2. ASSUME NEW i \in Ids, i # IdOf[u],
               (\E a \in ApiKeys : uuidByApiKey'[a] = i) \/ (\E n \in Names : uuidByUsername'[n] = i)
        PROVE  userById'[i] # None \/ ~NeverDeleted(i)'
    <3>1. (\E a \in ApiKeys : uuidByApiKey[a] = i) \/ (\E n \in Names : uuidByUsername[n] = i)
      BY <2>1, <2>2 DEF StoresIts
    <3> QED
      BY <3>1, NothingIsForgotten DEF LeadsToSomebody
  <2>3. CASE StoredUser(u)
    <3>1. userById[IdOf[u]] # None \/ ~NeverDeleted(IdOf[u])
      BY <2>1, <2>3 DEF Taken
    <3> QED
      BY <2>2, <3>1, NothingIsForgotten, Found DEF LeadsToSomebody, Users
  <2>4. CASE ~StoredUser(u)
    <3>1. UNCHANGED <<uuidByApiKey, uuidByUsername>>
      BY <2>1, <2>4 DEF StoresIts
    <3> QED
      BY <1>1, <3>1
  <2> QED
    BY <2>3, <2>4
<1> QED
  BY <1>1, <1>2, FindingGoes, DeletionStep, StepsAre

LEMMA InitShared == Init => AllTaken /\ StoredByCreation /\ LeadsToSomebody
<1> SUFFICES ASSUME Init PROVE AllTaken /\ StoredByCreation /\ LeadsToSomebody
  OBVIOUS
<1>1. Root \in Users /\ Root # None /\ IdOf[Root] # None /\ NewUsers \subseteq Users
  BY Found DEF Users
<1>2. AllTaken
  BY <1>1, Found, NobodyAssumption
  DEF Init, AllTaken, Taken, StoredUser, StoredApiKey, Users, Requests
<1>3. StoredByCreation
  BY <1>1, Found, RootAssumption DEF Init, StoredByCreation
<1>4. LeadsToSomebody
  <2>1. ASSUME NEW i \in Ids,
               (\E a \in ApiKeys : uuidByApiKey[a] = i) \/ (\E n \in Names : uuidByUsername[n] = i)
        PROVE  i = IdOf[Root]
    BY <2>1, NobodyAssumption DEF Init
  <2>2. \A i \in Ids : i = IdOf[Root] => userById[i] = Root
    BY DEF Init
  <2> QED
    BY <1>1, <2>1, <2>2 DEF LeadsToSomebody
<1> QED
  BY <1>2, <1>3, <1>4

Shared == Typed /\ AllTaken /\ StoredByCreation /\ LeadsToSomebody

LEMMA AlwaysShared == Spec => []Shared
<1>1. Shared /\ [Next]_vars => Shared'
  BY StepTyped, StepInPlace, StepAllTaken, StepStoredByCreation, StepLeads DEF Shared, Typed
<1>2. Init => Shared
  BY InitTyped, InitShared DEF Shared
<1> QED
  BY <1>1, <1>2, PTL DEF Spec

(* No api key and no name ever leads to an id without a user, whatever     *)
(* creations race, unless a Delete was given that id.                      *)
THEOREM PathsLeadToSomebody == Spec => []LeadsToSomebody
BY AlwaysShared, PTL DEF Shared

(* A creation answered 500 or 400 has left no user behind.  Nothing is     *)
(* said of one answered 403, whose handler goes on.                        *)
THEOREM FailedLeaveNobody == Spec => []FailedIsNotCreated
<1>1. Shared => FailedIsNotCreated
  BY NobodyAssumption
  DEF Shared, Typed, InPlace, RequestInPlace, StoredByCreation, HasStored, FailedIsNotCreated,
      Creating, Requests
<1> QED
  BY <1>1, AlwaysShared, PTL

-----------------------------------------------------------------------------
(* Creations that have met nobody are apart, and own what they store *)

LEMMA StepMet ==
  ASSUME Typed, Met, [Next]_vars
  PROVE  Met'
<1>1. ASSUME NEW u \in NewUsers, NEW v \in NewUsers, u # v, Share(u, v), Create(u),
             Under(u)', Under(v)'
      PROVE  u \in raced' /\ v \in raced'
  <2>1. Under(v) /\ (Under(u) \/ CheckId(u)) /\ raced \subseteq raced'
    BY <1>1, CreationStep DEF SameProgress, Advances
  <2>2. CASE Under(u)
    BY <1>1, <2>1, <2>2 DEF Met, Under, Share
  <2>3. CASE CheckId(u)
    BY <1>1, <2>1, <2>3 DEF CheckId, Under
  <2> QED
    BY <2>1, <2>2, <2>3
<1>2. ASSUME NEW u \in NewUsers, NEW v \in NewUsers, u # v, Share(u, v), Under(u)', Under(v)'
      PROVE  u \in raced'
  <2>1. CASE Create(u)
    BY <1>1, <1>2, <2>1
  <2>2. CASE Create(v)
    <3>1. Share(v, u)
      BY <1>2 DEF Share
    <3> QED
      BY <1>1, <1>2, <2>2, <3>1
  <2>3. CASE SameProgress(u) /\ SameProgress(v)
    BY <1>2, <2>3, NothingIsForgotten DEF SameProgress, Met, Under
  <2> QED
    BY <2>1, <2>2, <2>3, ProgressOf
<1> QED
  BY <1>2 DEF Met, Under, Share

LEMMA StaysApart ==
  ASSUME Typed, AllTaken, Met, [Next]_vars,
         NEW u \in NewUsers, NEW v \in NewUsers, u # v, Create(u), ApartFrom(u, v),
         u \notin raced' \/ v \notin raced'
  PROVE  ApartFrom(u, v)'
<1>1. /\ Advances(u) /\ SameProgress(v) /\ raced \subseteq raced' /\ Taken(v)
      /\ IdOf[u] \in Ids /\ (NeverDeleted(IdOf[u])' => NeverDeleted(IdOf[u]))
  BY CreationStep, NothingIsForgotten, Found DEF AllTaken, Users
<1>2. PastId(v) => Under(v) \/ answer[v] = "ok"
  BY DEF PastId, Under
<1>3. ASSUME Share(u, v), Under(u) PROVE ~Under(v)
  BY <1>1, <1>3 DEF Met, Under, Share
<1>4. ASSUME Share(u, v), CheckId(u) PROVE ~Under(v)
  BY <1>4 DEF CheckId, Under
<1>5. (IdOf[u] = IdOf[v] /\ NeverDeleted(IdOf[u]) => ~PastId(u) \/ ~PastId(v))'
  <2> SUFFICES ASSUME IdOf[u] = IdOf[v], NeverDeleted(IdOf[u])', PastId(u)', PastId(v)'
               PROVE  FALSE
    OBVIOUS
  <2>1. PastId(v) /\ ~PastId(u) /\ Share(u, v)
    BY <1>1 DEF ApartFrom, SameProgress, Share
  <2>2. CheckId(u) /\ userById[IdOf[u]] = None
    BY <1>1, <2>1 DEF Advances
  <2>3. answer[v] = "ok"
    BY <1>2, <1>4, <2>1, <2>2
  <2> QED
    BY <1>1, <2>2, <2>3 DEF Taken, StoredUser
<1>6. (ApiKeyOf[u] = ApiKeyOf[v] => ~PastApiKey(u) \/ ~PastApiKey(v))'
  <2> SUFFICES ASSUME ApiKeyOf[u] = ApiKeyOf[v], PastApiKey(u)', PastApiKey(v)'
               PROVE  FALSE
    OBVIOUS
  <2>1. PastApiKey(v) /\ ~PastApiKey(u) /\ Share(u, v)
    BY <1>1 DEF ApartFrom, SameProgress, Share
  <2>2. Under(u) /\ uuidByApiKey[ApiKeyOf[u]] = None
    BY <1>1, <2>1 DEF Advances
  <2>3. answer[v] = "ok"
    BY <1>2, <1>3, <2>1, <2>2 DEF PastApiKey
  <2> QED
    BY <1>1, <2>2, <2>3 DEF Taken, StoredApiKey
<1>7. (NameOf[u] = NameOf[v] => ~PastName(u) \/ ~PastName(v))'
  <2> SUFFICES ASSUME NameOf[u] = NameOf[v], PastName(u)', PastName(v)'
               PROVE  FALSE
    OBVIOUS
  <2>1. PastName(v) /\ ~PastName(u) /\ Share(u, v)
    BY <1>1 DEF ApartFrom, SameProgress, Share
  <2>2. Under(u) /\ uuidByUsername[NameOf[u]] = None
    BY <1>1, <2>1 DEF Advances
  <2>3. answer[v] = "ok"
    BY <1>2, <1>3, <2>1, <2>2 DEF PastName, PastApiKey
  <2> QED
    BY <1>1, <2>2, <2>3 DEF Taken
<1> QED
  BY <1>5, <1>6, <1>7 DEF ApartFrom

LEMMA StepApart ==
  ASSUME Typed, AllTaken, Met, Apart, [Next]_vars
  PROVE  Apart'
<1>1. ASSUME NEW u \in NewUsers PROVE ApartFromRoot(u)'
  <2>1. ApartFromRoot(u) /\ IdOf[u] \in Ids /\ (NeverDeleted(IdOf[u])' => NeverDeleted(IdOf[u]))
    BY NothingIsForgotten, Found DEF Apart, Users
  <2>2. CASE SameProgress(u)
    BY <2>1, <2>2 DEF ApartFromRoot, SameProgress
  <2>3. CASE Create(u)
    <3>1. Advances(u)
      BY <2>3, CreationStep
    <3> QED
      BY <2>1, <3>1 DEF ApartFromRoot, Advances, AllTaken
  <2> QED
    BY <2>2, <2>3, ProgressOf
<1>2. ASSUME NEW u \in NewUsers, u \notin raced', NEW v \in NewUsers, u # v
      PROVE  ApartFrom(u, v)'
  <2>1. ApartFrom(u, v) /\ IdOf[u] \in Ids /\ (NeverDeleted(IdOf[u])' => NeverDeleted(IdOf[u]))
    BY <1>2, NothingIsForgotten, Found DEF Apart, Users
  <2>2. CASE Create(u)
    BY <1>2, <2>1, <2>2, StaysApart
  <2>3. CASE Create(v)
    <3>1. ApartFrom(v, u)
      BY <2>1 DEF ApartFrom
    <3>2. ApartFrom(v, u)'
      BY <1>2, <2>3, <3>1, StaysApart
    <3> QED
      BY <3>2 DEF ApartFrom
  <2>4. CASE SameProgress(u) /\ SameProgress(v)
    BY <2>1, <2>4 DEF ApartFrom, SameProgress
  <2> QED
    BY <2>2, <2>3, <2>4, ProgressOf
<1> QED
  BY <1>1, <1>2 DEF Apart

(* What has been stored lies behind what has been checked. *)
LEMMA StoredIsPast ==
  ASSUME Typed, NEW u \in NewUsers
  PROVE  /\ StoredUser(u) => PastId(u)
         /\ StoredApiKey(u) => PastApiKey(u) /\ StoredUser(u)
         /\ answer[u] = "ok" => PastName(u)
BY NobodyAssumption
DEF Typed, InPlace, RequestInPlace, StoredUser, StoredApiKey, PastId, PastApiKey, PastName,
    Creating, Requests

LEMMA StepAllOwn ==
  ASSUME Typed, AllTaken, Met, Apart, AllOwn, [Next]_vars
  PROVE  AllOwn'
<1> SUFFICES ASSUME NEW u \in NewUsers, u \notin raced'
             PROVE  Owns(u)'
  BY DEF AllOwn
<1>1. /\ Owns(u) /\ IdOf[u] \in Ids /\ ApiKeyOf[u] \in ApiKeys /\ NameOf[u] \in Names
      /\ (NeverDeleted(IdOf[u])' => NeverDeleted(IdOf[u]))
  BY NothingIsForgotten, Found DEF AllOwn, Users
<1>2. ASSUME SameProgress(u), UNCHANGED <<uuidByApiKey, uuidByUsername>>,
             userById'[IdOf[u]] = userById[IdOf[u]] \/ ~NeverDeleted(IdOf[u])'
      PROVE  Owns(u)'
  BY <1>1, <1>2 DEF Owns, SameProgress
<1>3. CASE Create(u)
  <2>1. Advances(u) /\ StoresIts(u)
    BY <1>3, CreationStep
  <2> QED
    BY <1>1, <2>1 DEF Owns, Advances, StoresIts
<1>4. ASSUME NEW v \in NewUsers, v # u, Create(v) PROVE Owns(u)'
  <2>1. StoresIts(v) /\ SameProgress(u) /\ ApartFrom(u, v)
    BY <1>4, CreationStep, NothingIsForgotten DEF Apart
  <2>2. NeverDeleted(IdOf[u]) /\ PastId(u) => userById'[IdOf[u]] = userById[IdOf[u]]
    BY <1>1, <2>1 DEF StoresIts, ApartFrom
  <2>3. PastApiKey(u) => uuidByApiKey'[ApiKeyOf[u]] = uuidByApiKey[ApiKeyOf[u]]
    BY <1>1, <2>1 DEF StoresIts, ApartFrom
  <2>4. PastName(u) => uuidByUsername'[NameOf[u]] = uuidByUsername[NameOf[u]]
    BY <1>1, <2>1 DEF StoresIts, ApartFrom
  <2> QED
    BY <1>1, <2>1, <2>2, <2>3, <2>4, StoredIsPast DEF Owns, SameProgress
<1>5. CASE \E r \in Requests : Finding(r)
  BY <1>2, <1>5, FindingGoes, FindingMovesNoCreation
<1>6. CASE \E x \in Deletes : Deletion(x)
  BY <1>1, <1>2, <1>6, DeletionStep, Unmoved
<1>7. CASE UNCHANGED vars
  BY <1>2, <1>7, Unmoved
<1> QED
  BY <1>3, <1>4, <1>5, <1>6, <1>7, StepsAre

LEMMA InitOwn == Init => Met /\ Apart /\ AllOwn
<1> SUFFICES ASSUME Init, NEW u \in NewUsers
             PROVE  at[u] = "idle" /\ answer[u] = None /\ None # "ok"
  BY DEF Met, Apart, ApartFromRoot, ApartFrom, AllOwn, Owns, PastId, PastApiKey, PastName,
         StoredUser, StoredApiKey, Creating
<1> QED
  BY NobodyAssumption DEF Init, Requests

Exclusive == Typed /\ AllTaken /\ Met /\ Apart /\ AllOwn

LEMMA AlwaysExclusive == Spec => []Exclusive
<1>1. Exclusive /\ [Next]_vars => Exclusive'
  BY StepTyped, StepInPlace, StepAllTaken, StepMet, StepApart, StepAllOwn DEF Exclusive, Typed
<1>2. Init => Exclusive
  BY InitTyped, InitShared, InitOwn DEF Exclusive
<1> QED
  BY <1>1, <1>2, PTL DEF Spec

(* Whoever was answered 200, and met nobody it shares something with, is   *)
(* found by its id, its api key and its name.                              *)
THEOREM CreatedAreFound == Spec => []CreatedIsFound
<1>1. Exclusive => CreatedIsFound
  BY DEF Exclusive, AllOwn, Owns, StoredUser, StoredApiKey, CreatedIsFound
<1> QED
  BY <1>1, AlwaysExclusive, PTL

(* Two users answered 200, of whom one met nobody it shares something      *)
(* with, have nothing in common, apart from the id of one that was deleted. *)
THEOREM CreatedAreApart == Spec => []CreatedApart
<1>1. Exclusive => CreatedApart
  <2> SUFFICES ASSUME Exclusive, NEW u \in NewUsers, u \notin raced, answer[u] = "ok",
                      NEW v \in Users, u # v, v = Root \/ answer[v] = "ok"
               PROVE  /\ ApiKeyOf[u] # ApiKeyOf[v]
                      /\ NameOf[u] # NameOf[v]
                      /\ IdOf[u] = IdOf[v] => ~NeverDeleted(IdOf[u])
    BY DEF CreatedApart
  <2>1. PastId(u) /\ PastApiKey(u) /\ PastName(u)
    BY StoredIsPast DEF Exclusive, StoredApiKey, PastId
  <2>2. CASE v = Root
    BY <2>1, <2>2 DEF Exclusive, Apart, ApartFromRoot
  <2>3. CASE v # Root
    <3>1. v \in NewUsers /\ ApartFrom(u, v)
      BY <2>3 DEF Exclusive, Apart, Users
    <3>2. PastId(v) /\ PastApiKey(v) /\ PastName(v)
      BY <2>3, <3>1, StoredIsPast DEF Exclusive, StoredApiKey, PastId
    <3> QED
      BY <2>1, <3>1, <3>2 DEF ApartFrom
  <2> QED
    BY <2>2, <2>3
<1> QED
  BY <1>1, AlwaysExclusive, PTL

-----------------------------------------------------------------------------
(* Who a request is taken for *)

LEMMA StaysSure ==
  ASSUME Typed, [Next]_vars, NEW i \in Ids, Sure(i)'
  PROVE  Sure(i)
BY NothingIsForgotten DEF Sure

(* An id whose user is known goes on to be that user's. *)
LEMMA StaysIts ==
  ASSUME Typed, AllOwn, [Next]_vars, NEW i \in Ids, Sure(i)', NEW a, IsOf(i, a)
  PROVE  IsOf(i, a)'
<1>1. userById'[i] = userById[i]
  <2>1. ASSUME NEW u \in NewUsers, Create(u) PROVE userById'[i] = userById[i]
    <3>1. StoresIts(u)
      BY <2>1, CreationStep
    <3>2. ASSUME IdOf[u] = i, PastId(u), ~StoredUser(u) PROVE FALSE
      <4>1. u \notin raced /\ NeverDeleted(i)
        BY <3>2, StaysSure DEF Sure
      <4> QED
        BY <3>2, <4>1 DEF AllOwn, Owns, IsOf
    <3> QED
      BY <3>1, <3>2 DEF StoresIts
  <2>2. ASSUME NEW x \in Deletes, Deletion(x) PROVE userById'[i] = userById[i]
    BY <2>2, DeletionStep DEF Sure
  <2> QED
    BY <2>1, <2>2, FindingGoes, StepsAre
<1> QED
  BY <1>1 DEF IsOf

LEMMA StepKeysPointRight ==
  ASSUME Typed, AllOwn, PointsRight, [Next]_vars,
         NEW a \in ApiKeys, NEW i \in Ids, uuidByApiKey'[a] = i, Sure(i)'
  PROVE  IsOf(i, a)'
<1>1. Sure(i)
  BY StaysSure
<1>2. CASE uuidByApiKey'[a] = uuidByApiKey[a]
  <2>1. IsOf(i, a)
    BY <1>1, <1>2 DEF PointsRight
  <2> QED
    BY <2>1, StaysIts
<1>3. ASSUME NEW u \in NewUsers, Create(u), uuidByApiKey'[a] # uuidByApiKey[a]
      PROVE  IsOf(i, a)'
  <2>1. StoresIts(u) /\ u # None
    BY <1>3, CreationStep, Found DEF Users
  <2>2. a = ApiKeyOf[u] /\ i = IdOf[u] /\ StoredUser(u)
    BY <1>3, <2>1 DEF StoresIts
  <2>3. u \notin raced /\ NeverDeleted(i)
    BY <1>1, <2>2 DEF Sure
  <2>4. userById[i] = u
    BY <2>2, <2>3 DEF AllOwn, Owns
  <2>5. IsOf(i, a)
    BY <2>1, <2>2, <2>4 DEF IsOf
  <2> QED
    BY <2>5, StaysIts
<1> QED
  BY <1>2, <1>3, FindingGoes, DeletionStep, StepsAre

(* Where a request stands changes, or the id and api key it goes by stay. *)
LEMMA ResolvingStep ==
  ASSUME Typed, [Next]_vars, NEW r \in Requests, at'[r] = "resolve"
  PROVE  \/ /\ at[r] = "resolve" /\ id'[r] = id[r] /\ presented'[r] = presented[r]
         \/ /\ presented'[r] \in ApiKeys /\ id'[r] = uuidByApiKey[presented'[r]]
            /\ id'[r] # None /\ UNCHANGED <<userById, raced, deleteVars>>
<1>1. ASSUME NEW q \in Requests, NEW a \in ApiKeys, ResolveApiKey(q, a), q = r
      PROVE  /\ presented'[r] = a /\ id'[r] = uuidByApiKey[a] /\ id'[r] # None
             /\ UNCHANGED <<userById, raced, deleteVars>>
  <2>1. Goes(r, "done", "error") \/ uuidByApiKey[a] # None
    BY <1>1 DEF ResolveApiKey
  <2>2. "done" \in Places /\ "error" \in Answers /\ TypeOK
    BY DEF Typed, Places, Answers
  <2>3. ~Goes(r, "done", "error")
    BY <2>2, GoesTo
  <2> QED
    BY <1>1, <2>1, <2>3 DEF ResolveApiKey, Typed, TypeOK
<1>2. ASSUME NEW q \in Requests, NEW a \in ApiKeys, ResolveApiKey(q, a), q # r
      PROVE  at[r] = "resolve" /\ id'[r] = id[r] /\ presented'[r] = presented[r]
  BY <1>2 DEF ResolveApiKey, Goes, Typed, TypeOK
<1>3. ASSUME NEW q \in Requests, Check(q) \/ Authorize(q)
      PROVE  at[r] = "resolve" /\ id'[r] = id[r] /\ presented'[r] = presented[r]
  BY <1>3 DEF Check, CheckWith, Authorize, Resolves, Goes, Typed, TypeOK
<1>4. ASSUME NEW u \in NewUsers, Create(u)
      PROVE  at[r] = "resolve" /\ id'[r] = id[r] /\ presented'[r] = presented[r]
  <2>1. PICK p \in Creating \cup {"done"}, a \in Answers : Goes(u, p, a)
    BY <1>4, CreateGoes
  <2>2. at'[r] = at[r]
    BY <2>1, GoesTo DEF Typed, Places, Creating, Requests
  <2> QED
    BY <1>4, <2>2, CreateGoes
<1>5. ASSUME NEW x \in Deletes, Deletion(x)
      PROVE  at[r] = "resolve" /\ id'[r] = id[r] /\ presented'[r] = presented[r]
  BY <1>5, DeletionStep
<1> QED
  BY <1>1, <1>2, <1>3, <1>4, <1>5, StepsAre DEF Finding

LEMMA StepPointsRight ==
  ASSUME Typed, AllOwn, PointsRight, [Next]_vars
  PROVE  PointsRight'
<1>1. ASSUME NEW r \in Requests, NEW i \in Ids, NEW a \in ApiKeys \cup {None},
             at'[r] = "resolve", id'[r] = i, presented'[r] = a, Sure(i)'
      PROVE  IsOf(i, a)'
  <2>1. Sure(i)
    BY <1>1, StaysSure
  <2>2. IsOf(i, a)
    BY <1>1, <2>1, ResolvingStep DEF PointsRight
  <2> QED
    BY <1>1, <2>2, StaysIts
<1> QED
  BY <1>1, StepKeysPointRight DEF PointsRight

LEMMA StepActsForItself ==
  ASSUME Typed, PointsRight, ActsForItself, [Next]_vars
  PROVE  ActsForItself'
<1> SUFFICES ASSUME NEW r \in Requests, NEW i \in Ids, id'[r] = i, who'[r] # None,
                    r \in Checks => answer'[r] = "ok",
                    r \in NewUsers => Sure(i)'
             PROVE  ApiKeyOf[who'[r]] = presented'[r]
  <2>1. \A r \in Requests : who'[r] # None => id'[r] \in Ids
    <3>1. TypeOK' /\ InPlace'
      BY StepTyped, StepInPlace DEF Typed
    <3>2. id' \in [Requests -> Ids \cup {None}]
      BY <3>1 DEF TypeOK
    <3>3. \A r \in Requests : who'[r] # None => id'[r] # None
      BY <3>1 DEF InPlace, RequestInPlace
    <3> QED
      BY <3>2, <3>3
  <2>2. SUFFICES ASSUME NEW r \in Requests, who'[r] # None, r \in Checks => answer'[r] = "ok",
                        r \in NewUsers => Sure(id[r])'
                 PROVE  ApiKeyOf[who'[r]] = presented'[r]
    BY DEF ActsForItself, Sure
  <2>3. PICK i \in Ids : id'[r] = i
    BY <2>1, <2>2
  <2> QED
    BY <2>2, <2>3 DEF Sure
<1>1. r \in NewUsers => Sure(i)
  BY StaysSure
<1>2. ASSUME who'[r] = who[r], id'[r] = id[r], presented'[r] = presented[r],
             r \in Checks => answer'[r] = answer[r]
      PROVE  ApiKeyOf[who'[r]] = presented'[r]
  BY <1>1, <1>2 DEF ActsForItself, Sure
<1>3. TypeOK /\ RequestInPlace(r)
  BY DEF Typed, InPlace
<1>4. ASSUME NEW q \in Requests, NEW a \in ApiKeys, ResolveApiKey(q, a)
      PROVE  ApiKeyOf[who'[r]] = presented'[r]
  <2>1. q # r
    BY <1>3, <1>4 DEF ResolveApiKey, RequestInPlace
  <2> QED
    BY <1>2, <1>3, <1>4, <2>1 DEF ResolveApiKey, Goes, TypeOK
<1>5. ASSUME NEW q \in Requests, q # r, Check(q) \/ Authorize(q)
      PROVE  ApiKeyOf[who'[r]] = presented'[r]
  BY <1>2, <1>3, <1>5 DEF Check, CheckWith, Authorize, Resolves, Goes, TypeOK
<1>6. ASSUME Check(r)
      PROVE  ApiKeyOf[who'[r]] = presented'[r]
  <2>1. r \in Checks /\ presented'[r] = presented[r] /\ answer[r] = None
    BY <1>3, <1>6 DEF Check, CheckWith, Resolves, RequestInPlace
  <2>2. ~Goes(r, "done", "error") /\ ~Goes(r, "done", "forbidden")
    BY <1>3, <2>1, GoesTo DEF Places, Answers
  <2> QED
    BY <1>6, <2>1, <2>2 DEF Check, CheckWith
<1>7. ASSUME Authorize(r)
      PROVE  ApiKeyOf[who'[r]] = presented'[r]
  <2>1. /\ r \in NewUsers /\ at[r] = "resolve" /\ id[r] = i
        /\ who'[r] = userById[i] /\ presented'[r] = presented[r]
    BY <1>3, <1>7 DEF Authorize, Resolves, TypeOK
  <2>2. presented[r] \in ApiKeys \cup {None}
    BY <1>3 DEF TypeOK
  <2>3. IsOf(i, presented[r])
    BY <1>1, <2>1, <2>2 DEF PointsRight
  <2> QED
    BY <2>1, <2>3 DEF IsOf
<1>8. ASSUME NEW u \in NewUsers, Create(u)
      PROVE  ApiKeyOf[who'[r]] = presented'[r]
  <2>1. PICK p \in Creating \cup {"done"}, a \in Answers : Goes(u, p, a)
    BY <1>8, CreateGoes
  <2>2. r \in Checks => answer'[r] = answer[r]
    BY <1>3, <2>1, GoesTo, ApartAssumption DEF Places, Requests
  <2> QED
    BY <1>2, <1>8, <2>2, CreateGoes
<1>9. ASSUME NEW x \in Deletes, Deletion(x)
      PROVE  ApiKeyOf[who'[r]] = presented'[r]
  BY <1>2, <1>9, DeletionStep
<1> QED
  BY <1>2, <1>4, <1>5, <1>6, <1>7, <1>8, <1>9, StepsAre DEF Finding

Known == Exclusive /\ PointsRight /\ ActsForItself

LEMMA InitKnown == Init => PointsRight /\ ActsForItself
<1> SUFFICES ASSUME Init PROVE PointsRight /\ ActsForItself
  OBVIOUS
<1>1. IsOf(IdOf[Root], ApiKeyOf[Root])
  BY Found DEF Init, IsOf, Users
<1>2. \A a \in ApiKeys, i \in Ids : uuidByApiKey[a] = i => a = ApiKeyOf[Root] /\ i = IdOf[Root]
  BY NobodyAssumption DEF Init
<1> QED
  BY <1>1, <1>2 DEF Init, PointsRight, ActsForItself

LEMMA AlwaysKnown == Spec => []Known
<1>1. Known /\ [Next]_vars => Known'
  BY StepTyped, StepInPlace, StepAllTaken, StepMet, StepApart, StepAllOwn, StepPointsRight,
     StepActsForItself
  DEF Known, Exclusive, Typed
<1>2. Init => Known
  BY InitTyped, InitShared, InitOwn, InitKnown DEF Known, Exclusive
<1> QED
  BY <1>1, <1>2, PTL DEF Spec

(* Whoever is let upload or add a key holds the api key it came with; so   *)
(* does whoever is let create users, unless the id was deleted or raced    *)
(* for, which that handler does not verify.                                *)
THEOREM RequestsActForThemselves == Spec => []ActsForItself
BY AlwaysKnown, PTL DEF Known
=============================================================================
