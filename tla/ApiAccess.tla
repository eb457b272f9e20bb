----------------------------- MODULE ApiAccess -----------------------------
(***************************************************************************)
(* The two handlers of router.go that use an AccessStore: /api/add, which  *)
(* adds an access key, and /api/download, which downloads a file with one. *)
(* What the store does with a key is left to the module of the store; the  *)
(* actions here say what happens to the requests.                          *)
(***************************************************************************)
EXTENDS Naturals, FiniteSets

CONSTANTS
  Keys,        \* access keys, one per /api/add request
  UrlKeys,     \* the url keys they are found under
  UrlOf,       \* the url key of a key
  Limited,     \* the keys with a limit
  Limit,       \* how often a limited key may be used
  Expiring,    \* the keys with a ttl
  Downloads,   \* /api/download requests
  None         \* no key, no download

ASSUME UrlOfAssumption == UrlOf \in [Keys -> UrlKeys]
ASSUME LimitAssumption ==
  /\ Limited \subseteq Keys
  /\ Limit \in [Keys -> Nat]
  /\ \A k \in Keys \ Limited : Limit[k] = 0
ASSUME ExpiringAssumption == Expiring \subseteq Keys
ASSUME DownloadsAssumption == IsFiniteSet(Downloads)
ASSUME NoKeyAssumption == None \notin Keys \cup Downloads

VARIABLES
  expired,   \* the keys whose ttl is over
  adding,    \* adding[k]: where the /api/add request of k is
  handler,   \* handler[d]: where the handler of download d is
  key,       \* key[d]: the key Access returned to it
  served,    \* served[d]: its backMessage, true once Download has returned
  report,    \* report[d]: the goroutine that sends the backMessage
  ctxDone    \* the downloads whose context is cancelled or past its deadline

addVars == <<expired, adding>>
downloadVars == <<handler, key, served, report, ctxDone>>
apiVars == <<addVars, downloadVars>>

ApiTypeOK ==
  /\ expired \subseteq Expiring
  /\ adding \in [Keys -> {"idle", "submitted", "store", "send", "added", "refused"}]
  /\ handler \in [Downloads -> {"idle", "granted", "returning", "cancelling", "done"}]
  /\ key \in [Downloads -> Keys \cup {None}]
  /\ served \in [Downloads -> BOOLEAN]
  /\ report \in [Downloads -> {"none", "sending", "sent"}]
  /\ ctxDone \subseteq Downloads

ApiInit ==
  /\ expired = {}
  /\ adding = [k \in Keys |-> "idle"]
  /\ handler = [d \in Downloads |-> "idle"]
  /\ key = [d \in Downloads |-> None]
  /\ served = [d \in Downloads |-> FALSE]
  /\ report = [d \in Downloads |-> "none"]
  /\ ctxDone = {}

-----------------------------------------------------------------------------
(* /api/add *)

(* Time passes until the ttl of k. *)
Expire(k) ==
  /\ k \in Expiring \ expired
  /\ expired' = expired \cup {k}
  /\ UNCHANGED <<adding, downloadVars>>

(* The request of k goes from one place of AddKey to the next. *)
Adds(k, from, to) ==
  /\ adding[k] = from
  /\ adding' = [adding EXCEPT ![k] = to]
  /\ UNCHANGED <<expired, downloadVars>>

(* NewKeyOptions refuses a ttl that is over, once, when the key is made. *)
Submit(k) == Adds(k, "idle", IF k \in expired THEN "refused" ELSE "submitted")

-----------------------------------------------------------------------------
(* /api/download *)

(* Access returns k to d, or an error if k is None. *)
Accessed(d, k) ==
  /\ handler[d] = "idle"
  /\ key' = [key EXCEPT ![d] = k]
  /\ handler' = [handler EXCEPT ![d] = IF k = None THEN "returning" ELSE "granted"]
  /\ UNCHANGED <<addVars, served, report, ctxDone>>

(* The key needs unlocking and the unlock key sent along is not valid, or  *)
(* Download panics because the client has gone; or Download returns, and   *)
(* whatever it has answered, the backMessage is true.                      *)
Handle(d) ==
  /\ handler[d] = "granted"
  /\ handler' = [handler EXCEPT ![d] = "returning"]
  /\ \E s \in BOOLEAN : served' = [served EXCEPT ![d] = s]
  /\ UNCHANGED <<addVars, key, report, ctxDone>>

(* The deferred calls, last one first: start the goroutine that sends the  *)
(* backMessage, then cancel the context.                                   *)
Return(d) ==
  /\ handler[d] = "returning"
  /\ handler' = [handler EXCEPT ![d] = "cancelling"]
  /\ report' = [report EXCEPT ![d] = "sending"]
  /\ UNCHANGED <<addVars, key, served, ctxDone>>

Cancel(d) ==
  /\ handler[d] = "cancelling"
  /\ handler' = [handler EXCEPT ![d] = "done"]
  /\ ctxDone' = ctxDone \cup {d}
  /\ UNCHANGED <<addVars, key, served, report>>

(* 100 seconds after the request came. *)
Deadline(d) ==
  /\ handler[d] \notin {"idle", "done"}
  /\ d \notin ctxDone
  /\ ctxDone' = ctxDone \cup {d}
  /\ UNCHANGED <<addVars, handler, key, served, report>>

(* The send of the backMessage is received, its channel being unbuffered. *)
Reported(d) ==
  /\ report[d] = "sending"
  /\ report' = [report EXCEPT ![d] = "sent"]
  /\ UNCHANGED <<addVars, handler, key, served, ctxDone>>

ReturnStep(d) == Return(d) \/ Cancel(d)

(* The steps that no store takes part in. *)
ApiStep ==
  \/ \E k \in Keys : Expire(k) \/ Submit(k)
  \/ \E d \in Downloads : Handle(d) \/ ReturnStep(d) \/ Deadline(d)

-----------------------------------------------------------------------------
(* What the properties of the stores speak of. *)

(* The limit of k is reached at a count of n. *)
Reaches(k, n) == k \in Limited /\ n >= Limit[k]

(* The downloads that were served with k. *)
ServedWith(k) == {d \in Downloads : key[d] = k /\ served[d]}
=============================================================================
