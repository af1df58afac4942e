------------------------------ MODULE ModelService ------------------------------
(***************************************************************************)
(* The list of upstream models (internal/proxy/models.go) behind           *)
(* /v1/models, /admin/models and the resolution of a request's model.  The *)
(* list is read and replaced under a lock, and fetched outside of it, by   *)
(* any number of callers at once.                                          *)
(*                                                                         *)
(* A fetch needs credentials and an answer from upstream, and may fail.    *)
(* The module is a component of Administration.                            *)
(***************************************************************************)
EXTENDS Naturals, FiniteSets

CONSTANTS
    Callers,     \* requests that need the list
    Lists,       \* what upstream may offer: sets of keys
    Requested,   \* names that chat requests ask for
    ModelAlias,  \* DefaultAliases
    MaxChanges,  \* bound on upstream's changes
    MaxCalls     \* bound on the calls

ASSUME ModelAssumption ==
    /\ {MaxChanges, MaxCalls} \subseteq Nat
    /\ \A keys \in Lists : "" \notin keys
    /\ Requested \cap {"list", "relist", "refresh"} = {}

VARIABLES
    modelsByKey,  \* the keys of the list
    lastError,    \* is the last refresh a failure?
    at,           \* at[c]: where caller c is
    call,         \* call[c]: "list"; "refresh" and then "relist"; or the name to resolve
    fetched,      \* fetched[c]: what c was offered, before it is stored
    result,       \* result[c]: what c was answered: a key, a list, or an error
    offer,        \* what upstream offers now
    changes, calls,
    offers,       \* every offer so far (history)
    seen          \* seen[c]: offers during the call of c (history)

callVars == <<at, call, fetched, result>>
modelVars == <<modelsByKey, lastError, callVars, offer, changes, calls, offers, seen>>

Key(k) == [is |-> "key", key |-> k]
List(keys) == [is |-> "list", keys |-> keys]
Error == [is |-> "error"]
ErrUnknownModel == [is |-> "unknown"]
Pending == [is |-> "pending"]

\* Calls of ListModels: without, or after, a refresh.
Listing == {"list", "relist"}

Points == {"idle", "read", "fetch", "store", "reread"}

ModelTypeOK ==
    /\ modelsByKey \in Lists \cup {{}}
    /\ lastError \in BOOLEAN
    /\ at \in [Callers -> Points]
    /\ call \in [Callers -> Requested \cup Listing \cup {"refresh"}]
    /\ \A c \in Callers : at[c] # "idle" <=> result[c] = Pending

ModelInit ==
    /\ modelsByKey = {}
    /\ lastError = FALSE
    /\ at = [c \in Callers |-> "idle"]
    /\ call = [c \in Callers |-> "list"]
    /\ fetched = [c \in Callers |-> {}]
    /\ result = [c \in Callers |-> Error]
    /\ offer \in Lists
    /\ changes = 0
    /\ calls = 0
    /\ offers = {offer}
    /\ seen = [c \in Callers |-> {}]

Goto(c, l) == at' = [at EXCEPT ![c] = l]

Return(c, r) ==
    /\ Goto(c, "idle")
    /\ result' = [result EXCEPT ![c] = r]

-----------------------------------------------------------------------------
\* The critical sections that read the list.
IsAlias(m) == m \in {"", "auto"} \cup DOMAIN ModelAlias

\* Any list that is stored while c is under way is one of these, or a later offer.
OffersAtHand == {offer} \cup {fetched[d] : d \in {e \in Callers : at[e] = "store"}}

BeginFromCache(c) == \* mutant: the console's refresh is answered from the list, too
    /\ at[c] = "idle"
    /\ calls < MaxCalls
    /\ calls' = calls + 1
    /\ result' = [result EXCEPT ![c] = Pending]
    /\ seen' = [seen EXCEPT ![c] = OffersAtHand]
    /\ \E k \in Requested \cup Listing : call' = [call EXCEPT ![c] = k]
    /\ Goto(c, "read")
    /\ UNCHANGED <<modelsByKey, lastError, fetched, offer, changes, offers>>

(***************************************************************************)
(* GET /v1/models, GET or POST /admin/models, or a chat request.  A POST   *)
(* refreshes the list first.                                               *)
(***************************************************************************)
Begin(c) ==
    /\ at[c] = "idle"
    /\ calls < MaxCalls
    /\ calls' = calls + 1
    /\ result' = [result EXCEPT ![c] = Pending]
    /\ seen' = [seen EXCEPT ![c] = OffersAtHand]
    /\ \/ /\ call' = [call EXCEPT ![c] = "refresh"]
          /\ Goto(c, "fetch")
       \/ /\ \E k \in Requested \cup {"list"} : call' = [call EXCEPT ![c] = k]
          /\ Goto(c, "read")
    /\ UNCHANGED <<modelsByKey, lastError, fetched, offer, changes, offers>>

\* ListModels and ResolveChatModel, up to a refresh: it is made if the list is empty.
Read(c) ==
    LET m == call[c]
        named == m \notin Listing
    IN  /\ at[c] = "read"
        /\ \/ /\ named /\ IsAlias(m)
              /\ Return(c, Key(IF m \in {"", "auto"} THEN "" ELSE ModelAlias[m]))
           \/ /\ named /\ ~IsAlias(m) /\ m \in modelsByKey
              /\ Return(c, Key(m))
           \/ /\ ~(named /\ (IsAlias(m) \/ m \in modelsByKey))
              /\ Goto(c, IF modelsByKey = {} THEN "fetch" ELSE "reread")
              /\ UNCHANGED result
        /\ UNCHANGED <<modelsByKey, lastError, call, fetched, offer, changes, calls, offers, seen>>

(***************************************************************************)
(* Refresh, outside the lock: credentials and the request to upstream.     *)
(* recordError keeps the list; a chat request drops the error and goes on, *)
(* the others are answered it.                                             *)
(***************************************************************************)
Fetch(c) ==
    /\ at[c] = "fetch"
    /\ \/ /\ fetched' = [fetched EXCEPT ![c] = offer]
          /\ Goto(c, "store")
          /\ UNCHANGED <<lastError, result>>
       \/ /\ lastError' = TRUE
          /\ IF call[c] \notin Requested THEN Return(c, Error)
             ELSE Goto(c, "reread") /\ UNCHANGED result
          /\ UNCHANGED fetched
    /\ UNCHANGED <<modelsByKey, call, offer, changes, calls, offers, seen>>

\* The end of Refresh, under the lock.
Store(c) ==
    /\ at[c] = "store"
    /\ modelsByKey' = fetched[c]
    /\ lastError' = FALSE
    /\ Goto(c, IF call[c] = "refresh" THEN "read" ELSE "reread")
    /\ call' = IF call[c] = "refresh" THEN [call EXCEPT ![c] = "relist"] ELSE call
    /\ fetched' = [fetched EXCEPT ![c] = {}]
    /\ UNCHANGED <<result, offer, changes, calls, offers, seen>>

RefuseUnlisted(c) == \* mutant: an empty list, too, refuses
    /\ at[c] = "reread"
    /\ Return(c, IF call[c] \in Listing THEN List(modelsByKey)
                 ELSE IF call[c] \in modelsByKey THEN Key(call[c]) ELSE ErrUnknownModel)
    /\ UNCHANGED <<modelsByKey, lastError, call, fetched, offer, changes, calls, offers, seen>>

\* The last critical section; without a list any name goes through.
Reread(c) ==
    /\ at[c] = "reread"
    /\ Return(c, CASE call[c] \in Listing -> List(modelsByKey)
                   [] call[c] \notin Listing /\ (call[c] \in modelsByKey \/ modelsByKey = {}) ->
                        Key(call[c])
                   [] OTHER -> ErrUnknownModel)
    /\ UNCHANGED <<modelsByKey, lastError, call, fetched, offer, changes, calls, offers, seen>>

\* Upstream changes what it offers.
Change ==
    /\ changes < MaxChanges
    /\ changes' = changes + 1
    /\ offer' \in Lists
    /\ offers' = offers \cup {offer'}
    /\ seen' = [c \in Callers |-> IF at[c] = "idle" THEN seen[c] ELSE seen[c] \cup {offer'}]
    /\ UNCHANGED <<modelsByKey, lastError, callVars, calls>>

ModelNext ==
    \/ \E c \in Callers : Begin(c) \/ Read(c) \/ Fetch(c) \/ Store(c) \/ Reread(c)
    \/ Change

-----------------------------------------------------------------------------
(***************************************************************************)
(* A model that upstream offered all the time is never refused as unknown: *)
(* not while the list is fetched, nor after a fetch that failed, nor if    *)
(* fetches overlap and the older list is stored last.                      *)
(***************************************************************************)
OfferedIsNotRefused ==
    \A c \in Callers : result[c] = ErrUnknownModel => \E keys \in offers : call[c] \notin keys

(***************************************************************************)
(* The console's refresh is answered a list that upstream offered during   *)
(* the call, or that another caller had already fetched, and not stored,   *)
(* when it began: overlapping refreshes put back no older one.             *)
(***************************************************************************)
RefreshIsFresh ==
    \A c \in Callers :
        call[c] = "relist" /\ result[c].is = "list" => result[c].keys \in seen[c]

=============================================================================
