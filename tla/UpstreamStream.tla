---------------------------- MODULE UpstreamStream ----------------------------
(***************************************************************************)
(* The upstream's event stream (internal/proxy/sse.go) and what it means.  *)
(* Tool calls come in fragments: each has an index, the first of a call an *)
(* id and a name (its head), and any of them a part of the arguments.      *)
(*                                                                         *)
(* Texts and parts are named by where they came from: the number of their  *)
(* event, and for a fragment its number in the event.  Ids, names and      *)
(* arguments are known by these positions, never spelled.                  *)
(***************************************************************************)
EXTENDS Naturals, Sequences, FiniteSets

CONSTANTS
    Indexes,     \* tool call indexes the upstream uses
    Events,      \* the events it may send
    MaxEvents    \* bound on the length of the stream

Fragment == [index : Indexes, head : BOOLEAN, args : BOOLEAN]

\* One parsed line.  Reasoning and text of all choices are one string each.
SSEEvent == [reasoning : BOOLEAN, content : BOOLEAN, calls : Seq(Fragment)]

ASSUME StreamAssumption ==
    /\ Events \subseteq SSEEvent
    /\ MaxEvents \in Nat

VARIABLES
    upstream,    \* the events received
    next         \* the loop over the last event's fragments: the one it is at

streamVars == <<upstream, next>>

StreamInit ==
    /\ upstream = <<>>
    /\ next = 1

\* ScanSSEWithLines delivers a line that ParseSSELine took; other lines are errors, or
\* skipped.
Receive(e) ==
    /\ Len(upstream) < MaxEvents
    /\ upstream' = Append(upstream, e)

-----------------------------------------------------------------------------
\* The positions that the handler has been at.
Positions ==
    {p \in UNION {{n} \X DOMAIN upstream[n].calls : n \in DOMAIN upstream} :
        p[1] < Len(upstream) \/ p[2] < next}

FragmentAt(p) == upstream[p[1]].calls[p[2]]

Before(p, q) == p[1] < q[1] \/ (p[1] = q[1] /\ p[2] < q[2])

AtOrBefore(p, q) == p = q \/ Before(p, q)

Heads == {p \in Positions : FragmentAt(p).head}

\* h is the head of the call that the fragment at p belongs to.
Begins(h, p) ==
    /\ h \in Heads
    /\ FragmentAt(h).index = FragmentAt(p).index
    /\ AtOrBefore(h, p)
    /\ \A g \in Heads :
        FragmentAt(g).index = FragmentAt(p).index /\ AtOrBefore(g, p) => AtOrBefore(g, h)

\* The calls that the fragments so far mean: each head with the parts that follow it.
CallsMeant ==
    {[head |-> h, args |-> {p \in Positions : FragmentAt(p).args /\ Begins(h, p)}] : h \in Heads}

(***************************************************************************)
(* What upstreams do that the code relies on.  Orderly: an event has one   *)
(* thing in it, the first fragment of a call is its head, and no text or   *)
(* reasoning comes between the fragments of a call.  Sequential: nor does  *)
(* another call.  Indexed: no two calls share an index.                    *)
(***************************************************************************)
Quiet(h, p) ==
    \A n \in h[1]..p[1] : ~upstream[n].content /\ ~upstream[n].reasoning

Orderly ==
    /\ \A n \in DOMAIN upstream :
        /\ ~(upstream[n].content /\ upstream[n].reasoning)
        /\ upstream[n].calls # <<>> => ~upstream[n].content /\ ~upstream[n].reasoning
    /\ \A p \in Positions : \E h \in Heads : Begins(h, p) /\ Quiet(h, p)

Sequential ==
    /\ Orderly
    /\ \A p, q \in Positions : \A h \in Heads :
        Begins(h, p) /\ Before(h, q) /\ Before(q, p) => Begins(h, q)

Indexed ==
    \A g, h \in Heads : FragmentAt(g).index = FragmentAt(h).index => g = h

-----------------------------------------------------------------------------
AtIndex(i) == {p \in Positions : FragmentAt(p).index = i}

MergeLastArguments == \* mutant: a part replaces the parts before it
    {[head |-> CHOOSE h \in AtIndex(i) \cap Heads : \A g \in AtIndex(i) \cap Heads : AtOrBefore(g, h),
      args |-> {p \in AtIndex(i) : /\ FragmentAt(p).args
                                   /\ \A q \in AtIndex(i) : FragmentAt(q).args => AtOrBefore(q, p)}] :
        i \in {i \in Indexes : AtIndex(i) \cap Heads # {}}}

(***************************************************************************)
(* mergeToolCallDeltas, over all fragments of a stream that has ended: one *)
(* call for each index, with the last head and all parts.  (A call whose   *)
(* fragments have no head, which no client could use, is left out.)        *)
(***************************************************************************)
MergeToolCallDeltas ==
    {[head |-> CHOOSE h \in AtIndex(i) \cap Heads : \A g \in AtIndex(i) \cap Heads : AtOrBefore(g, h),
      args |-> {p \in AtIndex(i) : FragmentAt(p).args}] :
        i \in {i \in Indexes : AtIndex(i) \cap Heads # {}}}

=============================================================================
