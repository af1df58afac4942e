------------------------------ MODULE SessionStore ------------------------------
(***************************************************************************)
(* The in-memory conversations behind X-Session-Id                         *)
(* (internal/proxy/sessions.go).  One mutex guards the map, each operation *)
(* below is one critical section.  A conversation is a sequence of turns;  *)
(* what a turn is, is the caller's business.                               *)
(*                                                                         *)
(* The module is a component: ChatPipeline composes its operations with    *)
(* the chat handlers, which build a request from a conversation in one     *)
(* critical section and save it with the answer in another.                *)
(***************************************************************************)
EXTENDS Naturals, Sequences, FiniteSets

CONSTANTS
    Sids,        \* session ids
    NoSession,   \* the empty id: a request outside any conversation
    TTL,         \* session.ttl_minutes, 0 if sessions never expire
    MaxSessions  \* session.max_sessions, 0 if there is no limit

ASSUME SessionAssumption ==
    /\ NoSession \notin Sids
    /\ TTL \in Nat
    /\ MaxSessions \in Nat

VARIABLES
    now,         \* store.now()
    live,        \* keys of store.sessions
    turns,       \* turns[s]: Turns of sessions[s], empty if s is not in the map
    updated      \* updated[s]: UpdatedAt of sessions[s]

storeVars == <<live, turns, updated>>

SessionInit ==
    /\ live = {}
    /\ turns = [s \in Sids |-> <<>>]
    /\ updated = [s \in Sids |-> 0]

(***************************************************************************)
(* mergeCanonicalTurns.  A client either repeats the whole history or      *)
(* sends only what is new; the code tells the two apart by comparing.      *)
(***************************************************************************)
HasPrefix(incoming, existing) ==
    /\ Len(existing) <= Len(incoming)
    /\ \A i \in 1..Len(existing) : incoming[i] = existing[i]

MergeByAppending(existing, incoming) == \* mutant: no comparison
    existing \o incoming

Merge(existing, incoming) ==
    IF HasPrefix(incoming, existing) THEN incoming ELSE existing \o incoming

Stale(s) == s \in live /\ TTL > 0 /\ now > updated[s] + TTL

StaleSessions == {s \in Sids : Stale(s)}

Drop(S) ==
    /\ live' = live \ S
    /\ turns' = [s \in Sids |-> IF s \in S THEN <<>> ELSE turns[s]]
    /\ UNCHANGED updated

SweepOverCapacity == \* mutant: expiry waits until the store is too full
    IF Cardinality(live) > MaxSessions THEN Drop(StaleSessions) ELSE UNCHANGED storeVars

\* SweepExpired, and List.
SweepExpired == Drop(StaleSessions)

Delete(s) == Drop({s})

BuiltWithoutSweep(s, incoming) == \* mutant: the sweep is left to the ticker
    IF s = NoSession THEN incoming ELSE Merge(turns[s], incoming)

\* What BuildCanonicalRequest returns; it sweeps before it reads.
Built(s, incoming) ==
    IF s = NoSession \/ Stale(s) THEN incoming ELSE Merge(turns[s], incoming)

\* BuildCanonicalRequest, its effect on the store.
BuildCanonicalRequest(s) ==
    IF s = NoSession THEN UNCHANGED storeVars ELSE SweepExpired

VictimsOffByOne(s) == \* mutant: > for >=
    LET fresh == live \ StaleSessions
    IN  IF MaxSessions = 0 \/ Cardinality(fresh) <= MaxSessions \/ s \in fresh
        THEN {{}}
        ELSE {{v} : v \in {v \in fresh : \A w \in fresh : updated[v] <= updated[w]}}

VictimsOfUpdates(s) == \* mutant: a session that exists already counts as new
    LET fresh == live \ StaleSessions
    IN  IF MaxSessions = 0 \/ Cardinality(fresh) < MaxSessions
        THEN {{}}
        ELSE {{v} : v \in {v \in fresh : \A w \in fresh : updated[v] <= updated[w]}}

(***************************************************************************)
(* ensureCapacityLocked, after the sweep: the sets of sessions it may      *)
(* delete, none or one of the least recently updated.                      *)
(***************************************************************************)
Victims(s) ==
    LET fresh == live \ StaleSessions
    IN  IF MaxSessions = 0 \/ Cardinality(fresh) < MaxSessions \/ s \in fresh
        THEN {{}}
        ELSE {{v} : v \in {v \in fresh : \A w \in fresh : updated[v] <= updated[w]}}

Store(s, ts) ==
    \E victim \in Victims(s) :
        LET out == StaleSessions \cup victim
        IN  /\ live' = (live \ out) \cup {s}
            /\ turns' = [r \in Sids |-> CASE r = s -> ts
                                          [] r # s /\ r \in out -> <<>>
                                          [] OTHER -> turns[r]]
            /\ updated' = [updated EXCEPT ![s] = now]

SaveAnyId(s, ts) == \* mutant: the empty id is not set aside
    Store(s, ts)

(***************************************************************************)
(* SaveCanonicalResponse: the conversation becomes ts, the turns of the    *)
(* request as it was built and the answer, whatever is stored by now.      *)
(***************************************************************************)
SaveCanonicalResponse(s, ts) ==
    IF s = NoSession THEN UNCHANGED storeVars ELSE Store(s, ts)

=============================================================================
