-------------------------------- MODULE Users --------------------------------
(***************************************************************************)
(* users.MemoryStore and the handlers that ask it who a request comes      *)
(* from: /api/user/create, /upload and /api/add.  The store is three       *)
(* sync.Maps: a Load, Store or Delete is atomic, and nothing holds between *)
(* them.                                                                   *)
(*                                                                         *)
(* A user is what the body of one creation says; a body that is sent twice *)
(* is two users who share everything.  What follows the check of the api   *)
(* key in /upload and /api/add is left to CompoundStore and ApiAccess.     *)
(***************************************************************************)
EXTENDS Naturals, FiniteSets

CONSTANTS
  NewUsers,    \* the users somebody tries to create, one per request
  Root,        \* the user main.go creates
  Ids, ApiKeys, Names,
  IdOf, ApiKeyOf, NameOf,   \* what a user is found by
  Creators,    \* the users whose role lets them create users
  Uploaders,   \* the users whose role lets them upload, or add keys
  Checks,      \* requests to /upload and /api/add
  Deletes,     \* calls of Delete
  None         \* nobody, and nothing

Users == NewUsers \cup {Root}
Requests == NewUsers \cup Checks

ASSUME RootAssumption == Root \notin NewUsers
ASSUME FoundByAssumption ==
  /\ IdOf \in [Users -> Ids]
  /\ ApiKeyOf \in [Users -> ApiKeys]
  /\ NameOf \in [Users -> Names]
ASSUME RolesAssumption == Creators \subseteq Users /\ Uploaders \subseteq Users
ASSUME ApartAssumption == NewUsers \cap Checks = {}
ASSUME NobodyAssumption ==
  None \notin Users \cup Ids \cup ApiKeys \cup Names \cup {"ok", "forbidden", "bad request", "error"}

VARIABLES
  userById, uuidByApiKey, uuidByUsername,   \* the maps of the store
  at,         \* at[r]: what request r does next
  presented,  \* presented[r]: the api key it came with
  id,         \* id[r]: the id that api key led to
  who,        \* who[r]: the user that id led to
  answer,     \* answer[r]: what it was answered
  deleting,   \* deleting[x]: the id call x of Delete was given
  deleteAt    \* deleteAt[x]: where that call is

(* What the properties speak of, and the code does not keep. *)
VARIABLE raced   \* the users whose Create met another one they share with

maps == <<userById, uuidByApiKey, uuidByUsername>>
requestVars == <<at, presented, id, who, answer>>
deleteVars == <<deleting, deleteAt>>
vars == <<maps, requestVars, deleteVars, raced>>

Creating == {"check id", "check api key", "check name",
             "store user", "store api key", "store name"}

TypeOK ==
  /\ userById \in [Ids -> Users \cup {None}]
  /\ uuidByApiKey \in [ApiKeys -> Ids \cup {None}]
  /\ uuidByUsername \in [Names -> Ids \cup {None}]
  /\ at \in [Requests -> {"idle", "resolve", "done"} \cup Creating]
  /\ presented \in [Requests -> ApiKeys \cup {None}]
  /\ id \in [Requests -> Ids \cup {None}]
  /\ who \in [Requests -> Users \cup {None}]
  /\ answer \in [Requests -> {"ok", "forbidden", "bad request", "error", None}]
  /\ deleting \in [Deletes -> Ids \cup {None}]
  /\ deleteAt \in [Deletes -> {"idle", "delete", "done"}]
  /\ raced \subseteq NewUsers

(* main.go creates Root before it serves. *)
Init ==
  /\ userById = [i \in Ids |-> IF i = IdOf[Root] THEN Root ELSE None]
  /\ uuidByApiKey = [a \in ApiKeys |-> IF a = ApiKeyOf[Root] THEN IdOf[Root] ELSE None]
  /\ uuidByUsername = [n \in Names |-> IF n = NameOf[Root] THEN IdOf[Root] ELSE None]
  /\ at = [r \in Requests |-> "idle"]
  /\ presented = [r \in Requests |-> None]
  /\ id = [r \in Requests |-> None]
  /\ who = [r \in Requests |-> None]
  /\ answer = [r \in Requests |-> None]
  /\ deleting = [x \in Deletes |-> None]
  /\ deleteAt = [x \in Deletes |-> "idle"]
  /\ raced = {}

(* The request goes on to p.  The first answer stays: a status that has    *)
(* been written is not changed by one that comes after it.                 *)
Goes(r, p, a) ==
  /\ at' = [at EXCEPT ![r] = p]
  /\ answer' = [answer EXCEPT ![r] = IF @ = None THEN a ELSE @]

-----------------------------------------------------------------------------
(* ResolveByApiKey, with which all three handlers begin *)

ResolveApiKey(r, a) ==
  /\ at[r] = "idle"
  /\ presented' = [presented EXCEPT ![r] = a]
  /\ id' = [id EXCEPT ![r] = uuidByApiKey[a]]
  /\ \/ uuidByApiKey[a] = None /\ Goes(r, "done", "error")
     \/ uuidByApiKey[a] # None /\ Goes(r, "resolve", None)
  /\ UNCHANGED <<maps, who, deleteVars, raced>>

Resolves(r) ==
  /\ at[r] = "resolve"
  /\ who' = [who EXCEPT ![r] = userById[id[r]]]
  /\ UNCHANGED <<maps, presented, id, deleteVars, raced>>

CheckWith(r, verified) ==
  /\ r \in Checks
  /\ Resolves(r)
  /\ \/ who'[r] = None /\ Goes(r, "done", "error")
     \/ /\ who'[r] # None
        /\ \/ verified /\ who'[r] \in Uploaders /\ Goes(r, "done", "ok")
           \/ ~(verified /\ who'[r] \in Uploaders) /\ Goes(r, "done", "forbidden")

(* Mutant: takes the api key for verified because it was found. *)
Check_Unverified(r) == CheckWith(r, TRUE)

(* /upload and /api/add: VerifyApiKey, and then the role. *)
Check(r) == CheckWith(r, ApiKeyOf[who'[r]] = presented[r])

(* /api/user/create asks for the role only, and goes on after it has       *)
(* answered "forbidden".  The body may not be a valid user.                *)
Authorize(r) ==
  /\ r \in NewUsers
  /\ Resolves(r)
  /\ \/ who'[r] = None /\ Goes(r, "done", "error")
     \/ /\ who'[r] \in Creators
        /\ Goes(r, "check id", None) \/ Goes(r, "done", "bad request")
     \/ /\ who'[r] \notin Creators \cup {None}
        /\ Goes(r, "check id", "forbidden") \/ Goes(r, "done", "forbidden")

-----------------------------------------------------------------------------
(* Create *)

Share(u, v) == IdOf[u] = IdOf[v] \/ ApiKeyOf[u] = ApiKeyOf[v] \/ NameOf[u] = NameOf[v]

(* One of the three looks: the value found is none, or Create returns. *)
Looks(u, p, found, next) ==
  /\ at[u] = p
  /\ \/ found = None /\ Goes(u, next, None)
     \/ found # None /\ Goes(u, "done", "error")
  /\ UNCHANGED <<maps, presented, id, who, deleteVars>>

CheckId(u) ==
  /\ Looks(u, "check id", userById[IdOf[u]], "check api key")
  /\ LET others == {v \in NewUsers \ {u} : at[v] \in Creating \ {"check id"} /\ Share(u, v)}
     IN raced' = IF others = {} THEN raced ELSE raced \cup others \cup {u}

CheckApiKey(u) ==
  /\ Looks(u, "check api key", uuidByApiKey[ApiKeyOf[u]], "check name")
  /\ UNCHANGED raced

(* Mutants: does not look, or does not return what it has found. *)
CheckName_Unseen(u) ==
  /\ Looks(u, "check name", None, "store user")
  /\ UNCHANGED raced
CheckName_GoesOn(u) ==
  /\ at[u] = "check name"
  /\ Goes(u, "store user",
          IF uuidByUsername[NameOf[u]] = None THEN None ELSE "error")
  /\ UNCHANGED <<maps, presented, id, who, deleteVars, raced>>

CheckName(u) ==
  /\ Looks(u, "check name", uuidByUsername[NameOf[u]], "store user")
  /\ UNCHANGED raced

Stores(u, p, next, a) ==
  /\ at[u] = p
  /\ Goes(u, next, a)
  /\ UNCHANGED <<presented, id, who, deleteVars, raced>>

(* Mutant: stores the user after what leads to it. *)
StoreUser_Last(u) ==
  \/ Stores(u, "store user", "store api key", None) /\ UNCHANGED maps
  \/ /\ answer[u] = "ok" /\ userById[IdOf[u]] = None
     /\ userById' = [userById EXCEPT ![IdOf[u]] = u]
     /\ UNCHANGED <<uuidByApiKey, uuidByUsername, requestVars, deleteVars, raced>>

StoreUser(u) ==
  /\ Stores(u, "store user", "store api key", None)
  /\ userById' = [userById EXCEPT ![IdOf[u]] = u]
  /\ UNCHANGED <<uuidByApiKey, uuidByUsername>>

StoreApiKey(u) ==
  /\ Stores(u, "store api key", "store name", None)
  /\ uuidByApiKey' = [uuidByApiKey EXCEPT ![ApiKeyOf[u]] = IdOf[u]]
  /\ UNCHANGED <<userById, uuidByUsername>>

StoreName(u) ==
  /\ Stores(u, "store name", "done", "ok")
  /\ uuidByUsername' = [uuidByUsername EXCEPT ![NameOf[u]] = IdOf[u]]
  /\ UNCHANGED <<userById, uuidByApiKey>>

-----------------------------------------------------------------------------
(* Delete, which no handler calls yet *)

DeleteLoad(x, i) ==
  /\ deleteAt[x] = "idle"
  /\ deleting' = [deleting EXCEPT ![x] = i]
  /\ deleteAt' = [deleteAt EXCEPT ![x] = IF userById[i] = None THEN "done" ELSE "delete"]
  /\ UNCHANGED <<maps, requestVars, raced>>

(* Its api key and its name go on to point to it. *)
Delete(x) ==
  /\ deleteAt[x] = "delete"
  /\ userById' = [userById EXCEPT ![deleting[x]] = None]
  /\ deleteAt' = [deleteAt EXCEPT ![x] = "done"]
  /\ UNCHANGED <<uuidByApiKey, uuidByUsername, requestVars, deleting, raced>>

-----------------------------------------------------------------------------
Create(u) ==
  \/ CheckId(u) \/ CheckApiKey(u) \/ CheckName(u)
  \/ StoreUser(u) \/ StoreApiKey(u) \/ StoreName(u)

Next ==
  \/ \E r \in Requests :
       (\E a \in ApiKeys : ResolveApiKey(r, a)) \/ Check(r) \/ Authorize(r)
  \/ \E u \in NewUsers : Create(u)
  \/ \E x \in Deletes : (\E i \in Ids : DeleteLoad(x, i)) \/ Delete(x)

Spec == Init /\ [][Next]_vars

-----------------------------------------------------------------------------
(* Properties *)

NeverDeleted(i) == \A x \in Deletes : deleting[x] # i

(* Whose creation was answered 200 is found by id, by api key and by name, *)
(* whatever other creations are refused or half way, unless one of them    *)
(* shares something and ran at the same time.                              *)
CreatedIsFound ==
  \A u \in NewUsers \ raced :
    (answer[u] = "ok" /\ NeverDeleted(IdOf[u])) =>
      /\ userById[IdOf[u]] = u
      /\ uuidByApiKey[ApiKeyOf[u]] = IdOf[u]
      /\ uuidByUsername[NameOf[u]] = IdOf[u]

(* An api key or name leads to a user in every interleaving, races too:    *)
(* the user is stored before what leads to it.                             *)
LeadsToSomebody ==
  \A i \in Ids :
    (\/ \E a \in ApiKeys : uuidByApiKey[a] = i
     \/ \E n \in Names : uuidByUsername[n] = i)
      => userById[i] # None \/ ~NeverDeleted(i)

(* Two users answered 200 never share an api key or a name, nor an id      *)
(* unless one was deleted.  (Delete, which nothing calls, leaves api key   *)
(* and name taken, and so the property does not leave them out; nothing in *)
(* the repository promises that they are.)                                 *)
CreatedApart ==
  \A u \in NewUsers \ raced, v \in Users :
    (u # v /\ answer[u] = "ok" /\ (v = Root \/ answer[v] = "ok")) =>
      /\ ApiKeyOf[u] # ApiKeyOf[v]
      /\ NameOf[u] # NameOf[v]
      /\ IdOf[u] = IdOf[v] => ~NeverDeleted(IdOf[u])

(* A request is taken for the user whose api key came with it.  /upload    *)
(* and /api/add verify that, should the id have gone to another user by a  *)
(* race or after a Delete; /api/user/create does not, and relies on the    *)
(* maps agreeing.                                                          *)
ActsForItself ==
  \A r \in Requests :
    (/\ who[r] # None
     /\ r \in Checks => answer[r] = "ok"
     /\ r \in NewUsers => /\ NeverDeleted(id[r])
                          /\ \A v \in raced : IdOf[v] # id[r])
      => ApiKeyOf[who[r]] = presented[r]

(* A creation answered 500, for an api key that leads to nobody or for     *)
(* what one of its three looks has found, or 400, for its body, leaves no  *)
(* user behind.  One answered 403 is left out: the handler goes on and may *)
(* create the user.                                                        *)
FailedIsNotCreated ==
  \A u \in NewUsers :
    answer[u] \in {"error", "bad request"} => userById[IdOf[u]] # u
=============================================================================
