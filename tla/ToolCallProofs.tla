---------------------------- MODULE ToolCallProofs ----------------------------
(***************************************************************************)
(* The tool calls of both streams, for any number of events, calls and     *)
(* parts: a chat client gets every call of an orderly upstream once and    *)
(* whole, and a client of the other endpoint, and one that asks for no     *)
(* stream, gets the same calls.                                            *)
(*                                                                         *)
(* The argument: what is known of a call is its head and the parts that    *)
(* its head begins, in the call that is pending or written (CallInv), and  *)
(* in the block that was opened for it (MessageInv); and with an index of  *)
(* its own the parts of a head are those of its index (MeantIsMerged).     *)
(***************************************************************************)
EXTENDS ResponseStreamProofs

USE DEF streamVars, chatVars, blockVars

-----------------------------------------------------------------------------
(***************************************************************************)
(* Positions are ordered, a fragment belongs to one call at most, and what *)
(* comes later does not change that.                                       *)
(***************************************************************************)
LEMMA PositionsAreOrdered ==
    ASSUME StreamInv
    PROVE  /\ \A p \in Positions : p = <<p[1], p[2]>> /\ p[1] \in 1..Len(upstream) /\ p[2] \in Nat
           /\ \A p \in Positions : FragmentAt(p) \in Fragment /\ FragmentAt(p).index \in Indexes
           /\ \A p, q \in Positions : AtOrBefore(p, q) /\ AtOrBefore(q, p) => p = q
           /\ \A p, q \in Positions : AtOrBefore(p, q) \/ AtOrBefore(q, p)
<1>1. upstream \in Seq(Events)
  BY DEF StreamInv, TypeOK
<1>2. \A p \in Positions : /\ p = <<p[1], p[2]>> /\ p[1] \in 1..Len(upstream) /\ p[2] \in Nat
                           /\ FragmentAt(p) \in Fragment
  BY <1>1, PositionsAreOf, PositionType DEF FragmentAt
<1>3. Len(upstream) \in Nat
  BY <1>1
<1>4. \A p, q \in Positions : AtOrBefore(p, q) /\ AtOrBefore(q, p) => p = q
  BY <1>2, <1>3 DEF AtOrBefore, Before
<1>5. ASSUME NEW p \in Positions, NEW q \in Positions
      PROVE  AtOrBefore(p, q) \/ AtOrBefore(q, p)
  <2>1. /\ p[1] \in Nat /\ p[2] \in Nat /\ q[1] \in Nat /\ q[2] \in Nat
        /\ p = <<p[1], p[2]>> /\ q = <<q[1], q[2]>>
    BY <1>2, <1>3
  <2>2. CASE p[1] = q[1] /\ p[2] = q[2]
    BY <2>1, <2>2 DEF AtOrBefore
  <2>3. QED
    BY <2>1, <2>2 DEF AtOrBefore, Before
<1>6. \A p \in Positions : FragmentAt(p).index \in Indexes
  BY <1>2 DEF Fragment
<1>7. QED
  BY <1>2, <1>4, <1>5, <1>6

OneCallEach == \A p, g, h : Begins(g, p) /\ Begins(h, p) => g = h

LEMMA BeginsOnce == StreamInv => OneCallEach
<1> SUFFICES ASSUME StreamInv, NEW p, NEW g, NEW h, Begins(g, p), Begins(h, p)
             PROVE  g = h
  BY DEF OneCallEach
<1>1. g \in Positions /\ h \in Positions
  BY DEF Begins, Heads
<1>2. AtOrBefore(g, h) /\ AtOrBefore(h, g)
  BY DEF Begins
<1>3. QED
  BY <1>1, <1>2, PositionsAreOrdered

\* The head of a call is the head of its call.
LEMMA HeadsBegin ==
    ASSUME NEW h \in Heads
    PROVE  Begins(h, h)
  BY DEF Begins, AtOrBefore

LEMMA BeginsStays ==
    ASSUME StreamInv, GoesOn, NEW p \in Positions, NEW h
    PROVE  Begins(h, p)' <=> Begins(h, p)
<1>1. FragmentAt(p)' = FragmentAt(p) /\ \A q \in Positions' : AtOrBefore(q, p) => q \in Positions
  BY DEF GoesOn
<1>2. \A g : g \in Heads' /\ AtOrBefore(g, p) <=> g \in Heads /\ AtOrBefore(g, p)
  BY <1>1 DEF GoesOn, Heads
<1>3. \A g \in Heads : FragmentAt(g)' = FragmentAt(g)
  BY DEF GoesOn, Heads
<1>4. QED
  BY <1>1, <1>2, <1>3 DEF Begins

\* The parts that are meant by the call that h begins.
PartsMeant(h) == {p \in Positions : FragmentAt(p).args /\ Begins(h, p)}

MeantSoFar(c) == c.head \in Heads /\ Parts(c) = PartsMeant(c.head)

LastAtIndex(h) ==
    \A g \in Heads : FragmentAt(g).index = FragmentAt(h).index => AtOrBefore(g, h)

LEMMA MeantStays ==
    ASSUME StreamInv, GoesOn, Positions' = Positions
    PROVE  /\ Heads' = Heads
           /\ \A h : PartsMeant(h)' = PartsMeant(h)
           /\ \A p \in Positions : FragmentAt(p)' = FragmentAt(p)
<1>1. \A p \in Positions : FragmentAt(p)' = FragmentAt(p)
  BY DEF GoesOn
<1>2. Heads' = Heads
  BY <1>1 DEF Heads
<1>3. ASSUME NEW h
      PROVE  PartsMeant(h)' = PartsMeant(h)
  <2>1. \A p \in Positions : Begins(h, p)' <=> Begins(h, p)
    BY BeginsStays
  <2>2. QED
    BY <1>1, <2>1 DEF PartsMeant
<1>4. QED
  BY <1>1, <1>2, <1>3

\* A head that is read begins a call without touching the others.
LEMMA MeantByHead ==
    ASSUME StreamInv, StreamInv', pc = "fragments", Advance, FragmentAt(Here).head,
           NEW here, here = Here
    PROVE  /\ Heads' = Heads \cup {here} /\ here \notin Heads
           /\ \A h \in Heads : PartsMeant(h)' = PartsMeant(h)
           /\ PartsMeant(here)' = IF FragmentAt(here).args THEN {here} ELSE {}
           /\ \A h \in Heads : AtOrBefore(h, here)
<1>1. /\ GoesOn
      /\ Positions' = Positions \cup {here} /\ here \notin Positions
      /\ \A p \in Positions : Before(p, here)
      /\ \A p : FragmentAt(p)' = FragmentAt(p)
  BY AdvanceGoesOn, AdvancePositions
<1>2. Heads' = Heads \cup {here} /\ here \notin Heads
  BY <1>1 DEF Heads
<1>3. Begins(here, here)'
  <2>1. here \in Heads'
    BY <1>2
  <2>2. QED
    BY <2>1 DEF Begins, AtOrBefore
<1>4. OneCallEach'
  BY BeginsOnce, PTL
<1>5. ASSUME NEW h \in Heads
      PROVE  PartsMeant(h)' = PartsMeant(h)
  <2>1. \A p \in Positions : Begins(h, p)' <=> Begins(h, p)
    BY <1>1, BeginsStays
  <2>2. ~Begins(h, here)'
    <3>1. h # here
      BY <1>2, <1>5
    <3>2. QED
      BY <1>3, <1>4, <3>1 DEF OneCallEach
  <2>3. QED
    BY <1>1, <2>1, <2>2 DEF PartsMeant
<1>6. PartsMeant(here)' = IF FragmentAt(here).args THEN {here} ELSE {}
  <2>1. \A p \in Positions : ~Begins(here, p)'
    <3>1. ASSUME NEW p \in Positions
          PROVE  ~Begins(here, p)'
      <4>1. Begins(here, p)' <=> Begins(here, p)
        BY <1>1, BeginsStays
      <4>2. ~Begins(here, p)
        BY <1>2 DEF Begins
      <4>3. QED
        BY <4>1, <4>2
    <3>2. QED
      BY <3>1
  <2>2. QED
    BY <1>1, <1>3, <2>1 DEF PartsMeant
<1>7. QED
  BY <1>1, <1>2, <1>5, <1>6 DEF Heads, AtOrBefore

\* A part is put to the call that its index was last begun by.
LEMMA MeantByPart ==
    ASSUME StreamInv, StreamInv', pc = "fragments", Advance, ~FragmentAt(Here).head,
           NEW here, here = Here, NEW g, Begins(g, here)'
    PROVE  /\ Heads' = Heads /\ g \in Heads
           /\ FragmentAt(g).index = FragmentAt(here).index /\ LastAtIndex(g)
           /\ \A h : h # g => PartsMeant(h)' = PartsMeant(h)
           /\ PartsMeant(g)' = PartsMeant(g) \cup (IF FragmentAt(here).args THEN {here} ELSE {})
<1>1. /\ GoesOn
      /\ Positions' = Positions \cup {here} /\ here \notin Positions
      /\ \A p \in Positions : Before(p, here)
      /\ \A p : FragmentAt(p)' = FragmentAt(p)
  BY AdvanceGoesOn, AdvancePositions
<1>2. Heads' = Heads
  BY <1>1 DEF Heads
<1>3. OneCallEach'
  BY BeginsOnce, PTL
<1>4. g \in Heads /\ FragmentAt(g).index = FragmentAt(here).index /\ LastAtIndex(g)
  <2>1. \A h \in Heads : h \in Positions /\ AtOrBefore(h, here)
    BY <1>1 DEF Heads, AtOrBefore
  <2>2. QED
    BY <1>1, <1>2, <2>1 DEF Begins, LastAtIndex
<1>5. \A h : \A p \in Positions : Begins(h, p)' <=> Begins(h, p)
  BY <1>1, BeginsStays
<1>6. \A h : h # g => ~Begins(h, here)'
  BY <1>3 DEF OneCallEach
<1>7. QED
  BY <1>1, <1>2, <1>4, <1>5, <1>6 DEF PartsMeant

-----------------------------------------------------------------------------
(***************************************************************************)
(* The calls of a chat stream.                                             *)
(***************************************************************************)

\* While nothing but fragments follows the head of a call, something is pending at its index.
SilentBegun ==
    pc \in {"read", "flush", "fragments"} =>
        \A h \in Heads : Silent(h) => Begun(FragmentAt(h).index)

PendingInv ==
    \A i \in Indexes : Begun(i) =>
        /\ MeantSoFar(pending[i])
        /\ FragmentAt(pending[i].head).index = i
        /\ LastAtIndex(pending[i].head)

WrittenInv ==
    /\ \A j \in Written("call") : MeantSoFar(out[j].call)
    /\ \A j, k \in Written("call") : out[j].call.head = out[k].call.head => j = k

\* Each head is that of a call that is written, or of one that is pending, not of both.
HeadsInv ==
    /\ \A j \in Written("call"), i \in Indexes : Begun(i) => pending[i].head # out[j].call.head
    /\ \A h \in Heads : \/ \E j \in Written("call") : out[j].call.head = h
                       \/ \E i \in Indexes : Begun(i) /\ pending[i].head = h

CallInv ==
    endpoint = "chat" =>
        /\ SilentBegun
        /\ pc = "done" => NonePending
        /\ Orderly => PendingInv /\ WrittenInv /\ HeadsInv

LEMMA InitCalls == Init => CallInv
<1> SUFFICES ASSUME Init PROVE CallInv
  OBVIOUS
<1>1. \A k : Written(k) = {}
  BY DEF Init, Written
<1>2. \A i \in Indexes : ~Begun(i)
  BY DEF Init, Begun
<1>3. Heads = {}
  BY DEF Init, StreamInit, Heads, Positions
<1>4. QED
  BY <1>1, <1>2, <1>3 DEF Init, CallInv, SilentBegun, PendingInv, WrittenInv, HeadsInv

\* An event by itself changes no call: an orderly one with text has none.
LEMMA ReceiveCalls ==
    ASSUME StreamInv, CallInv, NEW e \in Events, ChatContent(e) \/ ChatFragments(e)
    PROVE  CallInv'
<1>1. /\ pc = "read" /\ endpoint = "chat" /\ Receive(e)
      /\ UNCHANGED <<pending, out>>
      /\ next' \in {1, Len(e.calls) + 1} /\ (e.content \/ next' = 1)
      /\ pc' \in {"read", "flush", "fragments"}
  BY DEF ChatContent, ChatFragments
<1>2. /\ GoesOn
      /\ Len(upstream') = Len(upstream) + 1 /\ upstream'[Len(upstream')] = e
      /\ Len(upstream) \in Nat
      /\ \A p \in Positions' : p[1] \in 1..Len(upstream')
      /\ next' = 1 => Positions' = Positions
  BY <1>1, ReceiveGoesOn DEF StreamInv, TypeOK
<1>3. Positions' # Positions => e.content /\ e.calls # <<>>
  <2>1. e.calls = <<>> => Len(e.calls) + 1 = 1
    OBVIOUS
  <2>2. QED
    BY <1>1, <1>2, <2>1
<1>4. SilentBegun'
  <2>1. CASE e.content
    <3>1. \A h \in Heads' : ~Silent(h)'
      BY <1>2, <2>1 DEF Heads, Silent
    <3>2. QED
      BY <3>1 DEF SilentBegun
  <2>2. CASE ~e.content
    <3>1. Heads' = Heads /\ \A p \in Positions : FragmentAt(p)' = FragmentAt(p)
      BY <1>2, <1>3, <2>2, MeantStays
    <3>2. \A h \in Heads : Silent(h)' => Silent(h)
      BY <1>2 DEF GoesOn, Heads, Silent
    <3>3. QED
      BY <1>1, <3>1, <3>2 DEF CallInv, SilentBegun, Begun, Heads
  <2>3. QED
    BY <2>1, <2>2
<1>5. ASSUME Orderly'
      PROVE  PendingInv' /\ WrittenInv' /\ HeadsInv'
  <2>1. Orderly /\ PendingInv /\ WrittenInv /\ HeadsInv
    BY <1>1, <1>2, <1>5, OrderlyBefore DEF CallInv
  <2>2. Positions' = Positions
    <3>1. Len(upstream') \in DOMAIN upstream'
      BY <1>2 DEF GoesOn
    <3>2. QED
      BY <1>2, <1>3, <1>5, <3>1 DEF Orderly
  <2>3. /\ Heads' = Heads
        /\ \A h : PartsMeant(h)' = PartsMeant(h)
        /\ \A p \in Heads : FragmentAt(p)' = FragmentAt(p)
    BY <1>2, <2>2, MeantStays DEF Heads
  <2>4. \A c : MeantSoFar(c) => MeantSoFar(c)'
    BY <2>3 DEF MeantSoFar, Parts
  <2>5. \A h \in Heads : LastAtIndex(h) => LastAtIndex(h)'
    BY <2>3 DEF LastAtIndex
  <2>6. Written("call")' = Written("call") /\ out' = out /\ pending' = pending
    BY <1>1 DEF Written
  <2>7. PendingInv'
    BY <2>1, <2>3, <2>4, <2>5, <2>6 DEF PendingInv, Begun, MeantSoFar
  <2>8. WrittenInv' /\ HeadsInv'
    BY <2>1, <2>3, <2>4, <2>6 DEF WrittenInv, HeadsInv, Begun
  <2>9. QED
    BY <2>7, <2>8
<1>6. QED
  BY <1>1, <1>4, <1>5 DEF CallInv

\* What a step that reads nothing leaves as it was.
LEMMA StreamStays ==
    ASSUME UNCHANGED streamVars
    PROVE  /\ Heads' = Heads /\ (Orderly' <=> Orderly)
           /\ \A p : FragmentAt(p)' = FragmentAt(p)
           /\ \A h : PartsMeant(h)' = PartsMeant(h)
           /\ \A h : (LastAtIndex(h)' <=> LastAtIndex(h)) /\ (Silent(h)' <=> Silent(h))
           /\ \A c : MeantSoFar(c)' <=> MeantSoFar(c)
  BY DEF Heads, Orderly, Positions, FragmentAt, Begins, Quiet, PartsMeant, LastAtIndex, Silent,
     MeantSoFar, Parts

LEMMA EmitPendingCalls ==
    ASSUME StreamInv, CallInv, NEW i \in Indexes, EmitPending(i)
    PROVE  CallInv'
<1> DEFINE x == [kind |-> "call", call |-> pending[i]]
           new == Len(out) + 1
<1>1. /\ endpoint = "chat" /\ Begun(i) /\ Write(<<x>>) /\ pc \in {"flush", "finish"} /\ pc' = pc
      /\ pending' = [pending EXCEPT ![i] = NoCall]
      /\ UNCHANGED streamVars /\ SilentBegun
      /\ upstream \in Seq(Events) /\ Len(upstream) \in Nat
      /\ pc = "flush" => Current.content /\ upstream # <<>>
  BY DEF EmitPending, Begun, CallInv, StreamInv, TypeOK
<1>2. out \in Seq(Chunk) /\ x \in Chunk
  BY ChunkTypes DEF StreamInv, TypeOK
<1>3. /\ Written("call")' = Written("call") \cup {new}
      /\ \A j \in Written("call") : out'[j] = out[j]
      /\ out'[new].call = pending[i]
  <2>1. /\ Written("call")' = Written("call") \cup (IF x.kind = "call" THEN {new} ELSE {})
        /\ \A j \in 1..Len(out) : out'[j] = out[j]
        /\ out'[new] = x
    BY <1>1, <1>2, WriteOne
  <2>2. QED
    BY <2>1 DEF Written
<1>4. \A k \in Indexes : (Begun(k)' <=> Begun(k) /\ k # i) /\ (k # i => pending'[k] = pending[k])
  BY <1>1 DEF StreamInv, TypeOK, Begun
<1> HIDE DEF x, new
<1>5. SilentBegun'
  <2>1. CASE pc = "flush"
    <3>1. \A h \in Heads : h[1] \in 1..Len(upstream)
      BY PositionsAreOrdered DEF Heads
    <3>2. \A h \in Heads : ~Silent(h)
      BY <1>1, <2>1, <3>1 DEF Silent, Current
    <3>3. QED
      BY <1>1, <3>2, StreamStays DEF SilentBegun
  <2>2. QED
    BY <1>1, <2>1 DEF SilentBegun
<1>6. ASSUME Orderly'
      PROVE  PendingInv' /\ WrittenInv' /\ HeadsInv'
  <2>1. PendingInv /\ WrittenInv /\ HeadsInv
    BY <1>1, <1>6, StreamStays DEF CallInv
  <2>2. PendingInv'
    BY <1>1, <1>4, <2>1, StreamStays DEF PendingInv
  <2>3. MeantSoFar(pending[i]) /\ FragmentAt(pending[i].head).index = i
    BY <1>1, <2>1 DEF PendingInv
  <2>4. WrittenInv'
    <3>1. \A j \in Written("call")' : MeantSoFar(out'[j].call)
      BY <1>3, <2>1, <2>3 DEF WrittenInv
    <3>2. \A j, k \in Written("call")' : out'[j].call.head = out'[k].call.head => j = k
      BY <1>1, <1>3, <2>1 DEF WrittenInv, HeadsInv
    <3>3. QED
      BY <1>1, <3>1, <3>2, StreamStays DEF WrittenInv
  <2>5. HeadsInv'
    <3>1. \A j \in Written("call")', k \in Indexes :
            Begun(k) /\ k # i => pending[k].head # out'[j].call.head
      BY <1>3, <2>1, <2>3 DEF HeadsInv, PendingInv
    <3>2. \A h \in Heads : \/ \E j \in Written("call")' : out'[j].call.head = h
                           \/ \E k \in Indexes : Begun(k)' /\ pending'[k].head = h
      BY <1>3, <1>4, <2>1 DEF HeadsInv
    <3>3. QED
      BY <1>1, <1>4, <3>1, <3>2, StreamStays DEF HeadsInv
  <2>6. QED
    BY <2>2, <2>4, <2>5
<1>7. QED
  BY <1>1, <1>5, <1>6 DEF CallInv

\* A step that does nothing to the calls.
LEMMA OtherCalls ==
    ASSUME StreamInv, CallInv, UNCHANGED <<streamVars, endpoint, pending>>, endpoint = "chat",
           Written("call")' = Written("call"), \A j \in Written("call") : out'[j] = out[j],
           pc' \in {"read", "flush", "fragments"} => pc \in {"read", "flush", "fragments"},
           pc' = "done" => pc = "done" \/ NonePending
    PROVE  CallInv'
<1>1. \A i : Begun(i)' <=> Begun(i)
  BY DEF Begun
<1>2. SilentBegun' /\ (pc' = "done" => NonePending')
  BY <1>1, StreamStays DEF CallInv, SilentBegun, NonePending
<1>3. ASSUME Orderly'
      PROVE  PendingInv' /\ WrittenInv' /\ HeadsInv'
  <2>1. PendingInv /\ WrittenInv /\ HeadsInv
    BY <1>3, StreamStays DEF CallInv
  <2>2. QED
    BY <1>1, <2>1, StreamStays DEF PendingInv, WrittenInv, HeadsInv
<1>4. QED
  BY <1>2, <1>3 DEF CallInv

\* The fragment that begins a call: what is pending at its index is written.
LEMMA HeadCalls ==
    ASSUME StreamInv, StreamInv', ChatStream, PendingInv, WrittenInv, HeadsInv, ChatFragment,
           NEW f, NEW i, f = Current.calls[next], i = f.index, f.head, NEW here, here = Here
    PROVE  PendingInv' /\ WrittenInv' /\ HeadsInv'
<1> DEFINE x == [kind |-> "call", call |-> pending[i]]
           new == Len(out) + 1
<1>1. /\ pc = "fragments" /\ endpoint = "chat" /\ Advance
      /\ out \in Seq(Chunk) /\ pending \in [Indexes -> Call]
  BY DEF ChatFragment, StreamInv, TypeOK
<1>2. /\ i \in Indexes
      /\ \A k \in Indexes \ {i} : pending'[k] = pending[k]
      /\ Begun(i)' /\ pending'[i].head = here
      /\ Parts(pending'[i]) = IF f.args THEN {here} ELSE {}
      /\ IF Begun(i) THEN Write(<<x>>) ELSE out' = out
  BY FragmentEffect
<1>3. FragmentAt(here) = f /\ \A p : FragmentAt(p)' = FragmentAt(p)
  BY <1>1, AdvancePositions
<1>4. /\ Heads' = Heads \cup {here} /\ here \notin Heads
      /\ \A h \in Heads : PartsMeant(h)' = PartsMeant(h)
      /\ PartsMeant(here)' = IF f.args THEN {here} ELSE {}
      /\ \A h \in Heads : AtOrBefore(h, here)
  BY <1>1, <1>3, MeantByHead
<1>5. \A k \in Indexes : k # i => (Begun(k)' <=> Begun(k))
  BY <1>2 DEF Begun
<1>6. /\ ~Begun(i) => Written("call")' = Written("call") /\ out' = out
      /\ Begun(i) => Written("call")' = Written("call") \cup {new} /\ out'[new].call = pending[i]
      /\ \A j \in Written("call") : out'[j] = out[j]
  <2>1. CASE Begun(i)
    <3>1. x \in Chunk
      BY <1>1, <1>2, ChunkTypes
    <3>2. /\ Written("call")' = Written("call") \cup (IF x.kind = "call" THEN {new} ELSE {})
          /\ \A j \in 1..Len(out) : out'[j] = out[j]
          /\ out'[new] = x
      BY <1>1, <1>2, <2>1, <3>1, WriteOne
    <3>3. QED
      BY <2>1, <3>2 DEF Written
  <2>2. CASE ~Begun(i)
    BY <1>2, <2>2 DEF Written
  <2>3. QED
    BY <2>1, <2>2
<1> HIDE DEF x, new
<1>7. \A c : MeantSoFar(c) => MeantSoFar(c)' /\ c.head # here
  BY <1>4 DEF MeantSoFar, Parts
<1>8. \A j \in Written("call")' : \/ j \in Written("call") /\ out'[j] = out[j]
                                  \/ j = new /\ out'[j].call = pending[i] /\ Begun(i)
  BY <1>6
<1>9. \A j \in Written("call")' : MeantSoFar(out'[j].call)
  BY <1>2, <1>8 DEF WrittenInv, PendingInv
<1>10. PendingInv'
  <2>1. /\ MeantSoFar(pending[i])' /\ FragmentAt(here).index = i
        /\ LastAtIndex(here)'
    <3>1. LastAtIndex(here)'
      BY <1>4 DEF LastAtIndex, AtOrBefore
    <3>2. MeantSoFar(pending[i])'
      BY <1>2, <1>4 DEF MeantSoFar, Parts
    <3>3. QED
      BY <1>3, <3>1, <3>2
  <2>2. ASSUME NEW k \in Indexes, k # i, Begun(k)
        PROVE  /\ MeantSoFar(pending[k])' /\ FragmentAt(pending[k].head).index = k
               /\ LastAtIndex(pending[k].head)'
    <3>1. /\ MeantSoFar(pending[k]) /\ FragmentAt(pending[k].head).index = k
          /\ LastAtIndex(pending[k].head)
      BY <2>2 DEF PendingInv
    <3>2. LastAtIndex(pending[k].head)'
      BY <1>2, <1>3, <1>4, <2>2, <3>1 DEF LastAtIndex
    <3>3. MeantSoFar(pending[k])'
      BY <1>2, <1>7, <2>2, <3>1
    <3>4. QED
      BY <3>1, <3>2, <3>3
  <2>3. QED
    BY <1>2, <1>3, <1>5, <2>1, <2>2 DEF PendingInv, LastAtIndex
<1>11. WrittenInv'
  <2>1. \A j \in Written("call")' : MeantSoFar(out[j].call)'
    BY <1>7, <1>9 DEF MeantSoFar, Parts
  <2>2. \A j, k \in Written("call")' : out'[j].call.head = out'[k].call.head => j = k
    BY <1>2, <1>8 DEF WrittenInv, HeadsInv
  <2>3. QED
    BY <2>1, <2>2 DEF WrittenInv
<1>12. HeadsInv'
  <2>1. ASSUME NEW j \in Written("call")', NEW k \in Indexes, Begun(k)'
        PROVE  pending'[k].head # out'[j].call.head
    <3>1. CASE k = i
      BY <1>2, <1>7, <1>9, <3>1
    <3>2. CASE k # i
      BY <1>2, <1>5, <1>8, <2>1, <3>2 DEF HeadsInv, PendingInv
    <3>3. QED
      BY <3>1, <3>2
  <2>2. ASSUME NEW h \in Heads'
        PROVE  \/ \E j \in Written("call")' : out'[j].call.head = h
               \/ \E k \in Indexes : Begun(k)' /\ pending'[k].head = h
    <3>1. CASE h = here
      BY <1>2, <3>1
    <3>2. CASE h \in Heads
      BY <1>2, <1>5, <1>6, <3>2 DEF HeadsInv
    <3>3. QED
      BY <1>4, <3>1, <3>2
  <2>3. QED
    BY <2>1, <2>2 DEF HeadsInv
<1>13. QED
  BY <1>10, <1>11, <1>12

\* A part: in an orderly stream its call is pending.
LEMMA PartCalls ==
    ASSUME StreamInv, StreamInv', ChatStream, SilentBegun, PendingInv, WrittenInv, HeadsInv,
           ChatFragment, Orderly',
           NEW f, NEW i, f = Current.calls[next], i = f.index, ~f.head, NEW here, here = Here
    PROVE  PendingInv' /\ WrittenInv' /\ HeadsInv'
<1>1. /\ pc = "fragments" /\ Advance /\ pending \in [Indexes -> Call] /\ upstream' = upstream
  BY DEF ChatFragment, StreamInv, TypeOK, Advance
<1>2. /\ FragmentAt(here) = f /\ \A p : FragmentAt(p)' = FragmentAt(p)
      /\ here \in Positions' /\ here[1] = Len(upstream)
  BY <1>1, AdvancePositions, FragmentType DEF StreamInv
<1>3. PICK g \in Heads' : Begins(g, here)' /\ Quiet(g, here)'
  BY <1>2 DEF Orderly
<1>4. /\ Heads' = Heads /\ g \in Heads
      /\ FragmentAt(g).index = i /\ LastAtIndex(g)
      /\ \A h : h # g => PartsMeant(h)' = PartsMeant(h)
      /\ PartsMeant(g)' = PartsMeant(g) \cup (IF f.args THEN {here} ELSE {})
  BY <1>1, <1>2, <1>3, MeantByPart
<1>5. Begun(i)
  <2>1. Silent(g)
    BY <1>1, <1>2, <1>3 DEF Quiet, Silent
  <2>2. QED
    BY <1>1, <1>4, <2>1 DEF SilentBegun
<1>6. /\ i \in Indexes
      /\ \A k \in Indexes \ {i} : pending'[k] = pending[k]
      /\ Begun(i)' /\ out' = out
      /\ Parts(pending'[i]) = Parts(pending[i]) \cup (IF f.args THEN {here} ELSE {})
      /\ pending'[i].head = pending[i].head
  BY <1>5, FragmentEffect
<1>7. pending[i].head = g
  <2>1. /\ pending[i].head \in Heads /\ FragmentAt(pending[i].head).index = i
        /\ LastAtIndex(pending[i].head)
    BY <1>5, <1>6 DEF PendingInv, MeantSoFar
  <2>2. AtOrBefore(g, pending[i].head) /\ AtOrBefore(pending[i].head, g)
    BY <1>4, <2>1 DEF LastAtIndex
  <2>3. QED
    BY <1>4, <2>1, <2>2, PositionsAreOrdered DEF Heads
<1>8. \A k \in Indexes : Begun(k)' <=> Begun(k)
  BY <1>5, <1>6 DEF Begun
<1>9. \A c : MeantSoFar(c) /\ c.head # g => MeantSoFar(c)'
  BY <1>4 DEF MeantSoFar, Parts
<1>10. PendingInv'
  <2>1. MeantSoFar(pending[i])'
    <3>1. MeantSoFar(pending[i])
      BY <1>5, <1>6 DEF PendingInv
    <3>2. QED
      BY <1>4, <1>6, <1>7, <3>1 DEF MeantSoFar, Parts
  <2>2. ASSUME NEW k \in Indexes, k # i, Begun(k)
        PROVE  MeantSoFar(pending[k])'
    <3>1. MeantSoFar(pending[k]) /\ pending[k].head # g
      BY <1>4, <2>2 DEF PendingInv
    <3>2. QED
      BY <1>6, <1>9, <2>2, <3>1 DEF MeantSoFar, Parts
  <2>3. \A k \in Indexes : pending'[k].head = pending[k].head
    BY <1>6
  <2>4. \A h : LastAtIndex(h)' <=> LastAtIndex(h)
    BY <1>2, <1>4 DEF LastAtIndex
  <2>5. \A k \in Indexes : Begun(k) =>
          FragmentAt(pending[k].head).index = k /\ LastAtIndex(pending[k].head)
    BY DEF PendingInv
  <2>6. QED
    BY <1>2, <1>8, <2>1, <2>2, <2>3, <2>4, <2>5 DEF PendingInv, LastAtIndex
<1>11. WrittenInv' /\ HeadsInv'
  <2>1. Written("call")' = Written("call") /\ out' = out
    BY <1>6 DEF Written
  <2>2. \A j \in Written("call") : out[j].call.head # g /\ MeantSoFar(out[j].call)
    BY <1>5, <1>6, <1>7 DEF HeadsInv, WrittenInv
  <2>3. \A j \in Written("call") : MeantSoFar(out[j].call)'
    BY <1>9, <2>1, <2>2 DEF MeantSoFar, Parts
  <2>4. \A k \in Indexes : pending'[k].head = pending[k].head
    BY <1>6
  <2>5. QED
    BY <1>4, <1>8, <2>1, <2>3, <2>4 DEF WrittenInv, HeadsInv
<1>12. QED
  BY <1>10, <1>11

LEMMA FragmentCalls ==
    ASSUME StreamInv, StreamInv', ChatStream, CallInv, ChatFragment
    PROVE  CallInv'
<1>1. PICK f, i, here : f = Current.calls[next] /\ i = f.index /\ here = Here
  OBVIOUS
<1>2. /\ pc = "fragments" /\ endpoint = "chat" /\ Advance /\ pc' \in {"read", "fragments"}
  BY DEF ChatFragment, Advance
<1>3. /\ Positions' = Positions \cup {here} /\ FragmentAt(here) = f
      /\ \A p : FragmentAt(p)' = FragmentAt(p)
      /\ upstream' = upstream /\ f.head \in BOOLEAN
  BY <1>1, <1>2, AdvancePositions, FragmentType DEF StreamInv, Fragment
<1>4. /\ i \in Indexes /\ Begun(i)'
      /\ \A k \in Indexes \ {i} : pending'[k] = pending[k]
  BY <1>1, FragmentEffect
<1>5. SilentBegun'
  <2>1. \A h \in Heads' : h = here \/ h \in Heads
    BY <1>3 DEF Heads
  <2>2. \A h \in Heads : Silent(h)' => Begun(FragmentAt(h).index)
    BY <1>2, <1>3 DEF CallInv, SilentBegun, Silent
  <2>3. \A h \in Heads' : FragmentAt(h).index \in Indexes
    <3>1. (\A p \in Positions : FragmentAt(p).index \in Indexes) /\ FragmentAt(here).index \in Indexes
      BY <1>1, <1>3, <1>4, PositionsAreOrdered
    <3>2. QED
      BY <1>3, <3>1 DEF Heads
  <2>4. \A k \in Indexes : Begun(k) => Begun(k)'
    BY <1>4 DEF Begun
  <2>5. \A h \in Heads' : Silent(h)' => Begun(FragmentAt(h).index)'
    BY <1>1, <1>3, <1>4, <2>1, <2>2, <2>3, <2>4
  <2>6. QED
    BY <2>5 DEF SilentBegun
<1>6. ASSUME Orderly'
      PROVE  PendingInv' /\ WrittenInv' /\ HeadsInv'
  <2>1. Orderly
    BY <1>2, <1>6, AdvanceGoesOn, OrderlyBefore
  <2>2. PendingInv /\ WrittenInv /\ HeadsInv /\ SilentBegun
    BY <1>2, <2>1 DEF CallInv
  <2>3. CASE f.head
    BY <1>1, <2>2, <2>3, HeadCalls
  <2>4. CASE ~f.head
    BY <1>1, <1>6, <2>2, <2>4, PartCalls
  <2>5. QED
    BY <2>3, <2>4
<1>7. QED
  BY <1>2, <1>5, <1>6 DEF CallInv

LEMMA NextCalls == StreamInv /\ StreamInv' /\ ChatStream /\ CallInv /\ [Next]_vars => CallInv'
<1> SUFFICES ASSUME StreamInv, StreamInv', ChatStream, CallInv, [Next]_vars, endpoint' = "chat"
             PROVE  CallInv'
  BY DEF CallInv
<1>1. endpoint = "chat"
  BY DEF Next, vars, ChatContent, ChatFragments, MessageText, MessageFragments, EmitPending,
     WriteContent, ChatFragment, Advance, ChatEnd, ChatFinish, MessageFragment, MessageEnd, Fail
<1>2. CASE WriteContent \/ ChatFinish \/ Fail
  <2>1. PICK x \in Chunk : x.kind # "call" /\ Write(<<x>>)
    <3>1. CASE WriteContent
      <4>1. [kind |-> "text", at |-> Len(upstream)] \in Chunk
        BY ChunkTypes DEF StreamInv, TypeOK
      <4>2. QED
        BY <3>1, <4>1 DEF WriteContent
    <3>2. CASE ChatFinish
      BY <3>2, ChunkTypes DEF ChatFinish
    <3>3. CASE Fail
      <4>1. CloseBlock = <<>>
        BY <1>1 DEF StreamInv, CloseBlock
      <4>2. Write(<<[kind |-> "error"]>>)
        BY <3>3, <4>1 DEF Fail
      <4>3. QED
        BY <4>2, ChunkTypes
    <3>4. QED
      BY <1>2, <3>1, <3>2, <3>3
  <2>2. /\ Written("call")' = Written("call") \cup (IF x.kind = "call" THEN {Len(out) + 1} ELSE {})
        /\ \A j \in 1..Len(out) : out'[j] = out[j]
    BY <2>1, WriteOne DEF StreamInv, TypeOK
  <2>3. Written("call")' = Written("call") /\ \A j \in Written("call") : out'[j] = out[j]
    BY <2>1, <2>2 DEF Written
  <2>4. /\ UNCHANGED <<streamVars, endpoint, pending>>
        /\ pc' \in {"read", "flush", "fragments"} => pc \in {"read", "flush", "fragments"}
        /\ pc' = "done" => NonePending
    BY <1>2 DEF WriteContent, ChatFinish, Fail
  <2>5. QED
    BY <1>1, <2>3, <2>4, OtherCalls
<1>3. CASE ChatEnd \/ UNCHANGED vars
  <2>1. /\ UNCHANGED <<streamVars, endpoint, pending, out>>
        /\ pc' \in {"read", "flush", "fragments"} => pc \in {"read", "flush", "fragments"}
        /\ pc' = "done" => pc = "done"
    BY <1>3 DEF ChatEnd, vars
  <2>2. Written("call")' = Written("call") /\ \A j \in Written("call") : out'[j] = out[j]
    BY <2>1 DEF Written
  <2>3. QED
    BY <1>1, <2>1, <2>2, OtherCalls
<1>4. QED
  BY <1>1, <1>2, <1>3, ReceiveCalls, EmitPendingCalls, FragmentCalls
  DEF Next, MessageText, MessageFragments, MessageFragment, MessageEnd

LEMMA CallsHold == Spec => [](StreamInv /\ CallInv)
  BY InitStream, NextStream, InitChat, NextChat, InitCalls, NextCalls, PTL DEF Spec

\* Calls by their heads: there is one for each, with the parts that it means.
LEMMA ByHeads ==
    ASSUME NEW S, \A c \in S : c.head \in Heads /\ c = [head |-> c.head, args |-> PartsMeant(c.head)],
           \A h \in Heads : \E c \in S : c.head = h
    PROVE  S = CallsMeant
<1>1. CallsMeant = {[head |-> h, args |-> PartsMeant(h)] : h \in Heads}
  BY DEF CallsMeant, PartsMeant
<1>2. \A c \in S : c \in {[head |-> h, args |-> PartsMeant(h)] : h \in Heads}
  OBVIOUS
<1>3. ASSUME NEW h \in Heads
      PROVE  [head |-> h, args |-> PartsMeant(h)] \in S
  <2>1. PICK c \in S : c.head = h
    OBVIOUS
  <2>2. c = [head |-> c.head, args |-> PartsMeant(c.head)]
    OBVIOUS
  <2>3. QED
    BY <2>1, <2>2
<1>4. QED
  BY <1>1, <1>2, <1>3

(***************************************************************************)
(* A chat client gets every call once and with all its parts, from every   *)
(* orderly upstream; only what is not emitted yet is pending, and nothing  *)
(* is at the end.                                                          *)
(***************************************************************************)
THEOREM CallsArriveWhole == Spec => []CallsAreWhole
<1>1. StreamInv /\ CallInv => CallsAreWhole
  <2> SUFFICES ASSUME StreamInv, CallInv, endpoint = "chat", Orderly
               PROVE  CallsAreWhole
    BY DEF CallsAreWhole
  <2>1. PendingInv /\ WrittenInv /\ HeadsInv /\ (pc = "done" => NonePending)
    BY DEF CallInv
  <2>2. \A c \in CallsWritten : /\ \E j \in Written("call") : c.head = out[j].call.head
                                /\ c.head \in Heads
                                /\ c = [head |-> c.head, args |-> PartsMeant(c.head)]
    BY <2>1 DEF CallsWritten, AsMeant, WrittenInv, MeantSoFar, Parts
  <2>3. \A c \in CallsPending : /\ \E i \in Indexes : Begun(i) /\ c.head = pending[i].head
                                /\ c.head \in Heads
                                /\ c = [head |-> c.head, args |-> PartsMeant(c.head)]
    BY <2>1 DEF CallsPending, AsMeant, PendingInv, MeantSoFar, Parts, Begun
  <2>4. /\ \A j \in Written("call") : \E c \in CallsWritten : c.head = out[j].call.head
        /\ \A i \in Indexes : Begun(i) => \E c \in CallsPending : c.head = pending[i].head
    <3>1. \A c : AsMeant(c).head = c.head
      BY DEF AsMeant
    <3>2. \A j \in Written("call") : AsMeant(out[j].call) \in CallsWritten
      BY DEF CallsWritten
    <3>3. \A i \in Indexes : Begun(i) => AsMeant(pending[i]) \in CallsPending
      BY DEF CallsPending, Begun
    <3>4. QED
      BY <3>1, <3>2, <3>3
  <2>5. CallsWritten \cup CallsPending = CallsMeant
    <3>1. \A h \in Heads : \E c \in CallsWritten \cup CallsPending : c.head = h
      BY <2>1, <2>4 DEF HeadsInv
    <3>2. QED
      BY <2>2, <2>3, <3>1, ByHeads
  <2>6. CallsWritten \cap CallsPending = {}
    BY <2>1, <2>2, <2>3 DEF HeadsInv
  <2>7. \A i, j \in Written("call") : out[i].call = out[j].call => i = j
    BY <2>1 DEF WrittenInv
  <2>8. pc = "done" => CallsPending = {}
    BY <2>1 DEF NonePending, CallsPending
  <2>9. QED
    BY <2>5, <2>6, <2>7, <2>8 DEF CallsAreWhole
<1>2. QED
  BY <1>1, CallsHold, PTL

-----------------------------------------------------------------------------
(***************************************************************************)
(* The calls of a messages stream: what its blocks tell of them.           *)
(***************************************************************************)

\* The blocks of calls in o, each with its number and its head.
ToolBlocks(o) ==
    {<<o[i].index, o[i].head>> : i \in {i \in OfKind(o, "start") : o[i].type = "tool_use"}}

\* What the deltas of block n in o bring.
InBlock(o, n) == {o[i].at : i \in {i \in OfKind(o, "delta") : o[i].index = n}}

LEMMA OneMoreTells ==
    ASSUME NEW o \in Seq(Chunk), NEW x \in Chunk
    PROVE  /\ ToolBlocks(Append(o, x)) =
                IF x.kind = "start" /\ x.type = "tool_use"
                THEN ToolBlocks(o) \cup {<<x.index, x.head>>} ELSE ToolBlocks(o)
           /\ \A n : InBlock(Append(o, x), n) =
                IF x.kind = "delta" /\ x.index = n
                THEN InBlock(o, n) \cup {x.at} ELSE InBlock(o, n)
<1> DEFINE p == Append(o, x)
           last == Len(o) + 1
<1>1. Longer(o, x, p)
  BY OneMore
<1> HIDE DEF p, last
<1>2. /\ \A k : OfKind(p, k) = OfKind(o, k) \cup (IF x.kind = k THEN {last} ELSE {})
      /\ \A k : \A j \in OfKind(o, k) : p[j] = o[j]
      /\ p[last] = x
  BY <1>1 DEF Longer, OfKind, last
<1>3. /\ OfKind(p, "start") = OfKind(o, "start") \cup (IF x.kind = "start" THEN {last} ELSE {})
      /\ OfKind(p, "delta") = OfKind(o, "delta") \cup (IF x.kind = "delta" THEN {last} ELSE {})
  BY <1>2
<1>4. ToolBlocks(p) = IF x.kind = "start" /\ x.type = "tool_use"
                      THEN ToolBlocks(o) \cup {<<x.index, x.head>>} ELSE ToolBlocks(o)
  <2>1. CASE x.kind = "start" /\ x.type = "tool_use"
    <3>1. {i \in OfKind(p, "start") : p[i].type = "tool_use"} =
            {i \in OfKind(o, "start") : o[i].type = "tool_use"} \cup {last}
      BY <1>2, <1>3, <2>1
    <3>2. QED
      BY <1>2, <2>1, <3>1 DEF ToolBlocks
  <2>2. CASE ~(x.kind = "start" /\ x.type = "tool_use")
    <3>1. {i \in OfKind(p, "start") : p[i].type = "tool_use"} =
            {i \in OfKind(o, "start") : o[i].type = "tool_use"}
      BY <1>2, <1>3, <2>2
    <3>2. QED
      BY <1>2, <2>2, <3>1 DEF ToolBlocks
  <2>3. QED
    BY <2>1, <2>2
<1>5. ASSUME NEW n
      PROVE  InBlock(p, n) = IF x.kind = "delta" /\ x.index = n
                             THEN InBlock(o, n) \cup {x.at} ELSE InBlock(o, n)
  <2>1. CASE x.kind = "delta" /\ x.index = n
    <3>1. {i \in OfKind(p, "delta") : p[i].index = n} =
            {i \in OfKind(o, "delta") : o[i].index = n} \cup {last}
      BY <1>2, <1>3, <2>1
    <3>2. QED
      BY <1>2, <2>1, <3>1 DEF InBlock
  <2>2. CASE ~(x.kind = "delta" /\ x.index = n)
    <3>1. {i \in OfKind(p, "delta") : p[i].index = n} =
            {i \in OfKind(o, "delta") : o[i].index = n}
      BY <1>2, <1>3, <2>2
    <3>2. QED
      BY <1>2, <2>2, <3>1 DEF InBlock
  <2>3. QED
    BY <2>1, <2>2
<1>6. QED
  BY <1>4, <1>5 DEF p

TellsTheSame(o, p) == ToolBlocks(p) = ToolBlocks(o) /\ \A n : InBlock(p, n) = InBlock(o, n)

LEMMA CloseTells ==
    ASSUME StreamInv
    PROVE  out \o CloseBlock \in Seq(Chunk) /\ TellsTheSame(out, out \o CloseBlock)
<1>1. out \in Seq(Chunk) /\ CloseBlock \in Seq(Chunk)
  BY CloseBlockType DEF StreamInv, TypeOK
<1>2. CASE blockType = "none"
  <2>1. out \o CloseBlock = out
    BY <1>1, <1>2 DEF CloseBlock
  <2>2. QED
    BY <1>1, <2>1 DEF TellsTheSame
<1>3. CASE blockType # "none"
  <2>1. Stop \in Chunk /\ Stop.kind = "stop"
    BY <1>3, ChunkTypes DEF StreamInv, TypeOK, Stop
  <2>2. out \o CloseBlock = Append(out, Stop)
    BY <1>1, <1>3, <2>1 DEF CloseBlock
  <2>3. TellsTheSame(out, Append(out, Stop))
    BY <1>1, <2>1, OneMoreTells DEF TellsTheSame
  <2>4. QED
    BY <1>1, <2>2, <2>3
<1>4. QED
  BY <1>2, <1>3

LEMMA OpenTells ==
    ASSUME StreamInv, NEW x \in Chunk, x.kind = "start"
    PROVE  /\ out \o (CloseBlock \o <<x>>) \in Seq(Chunk)
           /\ ToolBlocks(out \o (CloseBlock \o <<x>>)) = ToolBlocks(out) \cup
                (IF x.type = "tool_use" THEN {<<x.index, x.head>>} ELSE {})
           /\ \A n : InBlock(out \o (CloseBlock \o <<x>>), n) = InBlock(out, n)
<1>1. out \in Seq(Chunk) /\ CloseBlock \in Seq(Chunk)
  BY CloseBlockType DEF StreamInv, TypeOK
<1> DEFINE closed == out \o CloseBlock
<1>2. out \o (CloseBlock \o <<x>>) = Append(closed, x)
  BY <1>1
<1>3. closed \in Seq(Chunk) /\ TellsTheSame(out, closed)
  BY CloseTells
<1> HIDE DEF closed
<1>4. Append(closed, x) \in Seq(Chunk)
  BY <1>3
<1>5. QED
  BY <1>2, <1>3, <1>4, OneMoreTells, ZenonT(30) DEF TellsTheSame

LEMMA DeltaTells ==
    ASSUME StreamInv, NEW t \in {"thinking", "text"}, DeltaInBlock(t)
    PROVE  /\ blockIndex' = IF blockType # t THEN blockIndex + 1 ELSE blockIndex
           /\ blockType' = t
           /\ ToolBlocks(out') = ToolBlocks(out)
           /\ \A n : n # blockIndex' => InBlock(out', n) = InBlock(out, n)
<1> DEFINE at == <<Len(upstream) + 1, 0>>
           index == IF blockType # t THEN blockIndex + 1 ELSE blockIndex
           start == [kind |-> "start", index |-> index, type |-> t, head |-> None]
           delta == [kind |-> "delta", index |-> index, type |-> t, at |-> at]
           opened == out \o (IF blockType # t THEN CloseBlock \o <<start>> ELSE <<>>)
<1>1. at \in Position /\ None \in Position
  BY NoCallType DEF StreamInv, TypeOK, Position
<1>2. index \in Nat \ {0} /\ t \in BlockTypes
  BY DEF StreamInv, TypeOK, BlockTypes
<1>3. /\ start \in Chunk /\ delta \in Chunk /\ delta.kind = "delta" /\ delta.index = index
      /\ start.kind = "start" /\ start.type = t
  BY <1>1, <1>2, ChunkTypes
<1>4. /\ Write((IF blockType # t THEN CloseBlock \o <<start>> ELSE <<>>) \o <<delta>>)
      /\ blockIndex' = index /\ blockType' = t
  BY DEF DeltaInBlock
<1> HIDE DEF start, delta
<1>5. out \in Seq(Chunk) /\ CloseBlock \in Seq(Chunk)
  BY CloseBlockType DEF StreamInv, TypeOK
<1>6. /\ opened \in Seq(Chunk)
      /\ ToolBlocks(opened) = ToolBlocks(out)
      /\ \A n : InBlock(opened, n) = InBlock(out, n)
  <2>1. CASE blockType = t
    <3>1. opened = out
      BY <1>5, <2>1
    <3>2. QED
      BY <1>5, <3>1
  <2>2. CASE blockType # t
    <3>1. opened = out \o (CloseBlock \o <<start>>)
      BY <2>2
    <3> HIDE DEF opened
    <3>2. QED
      BY <1>3, <3>1, OpenTells
  <2>3. QED
    BY <2>1, <2>2
<1>7. out' = Append(opened, delta)
  BY <1>3, <1>4, <1>5 DEF Write
<1>8. blockIndex' = IF blockType # t THEN blockIndex + 1 ELSE blockIndex
  BY <1>4
<1> HIDE DEF index, opened
<1>9. /\ ToolBlocks(out') = ToolBlocks(out)
      /\ \A n : n # index => InBlock(out', n) = InBlock(out, n)
  BY <1>3, <1>6, <1>7, OneMoreTells
<1>10. QED
  BY <1>4, <1>8, <1>9

LEMMA FragmentTells ==
    ASSUME StreamInv, MessageFragment, NEW f, f = Current.calls[next], NEW here, here = Here
    PROVE  /\ blockIndex' = IF f.head THEN blockIndex + 1 ELSE blockIndex
           /\ ToolBlocks(out') = ToolBlocks(out) \cup
                (IF f.head THEN {<<blockIndex + 1, here>>} ELSE {})
           /\ \A n : InBlock(out', n) = InBlock(out, n) \cup
                (IF f.args /\ n = blockIndex' THEN {here} ELSE {})
<1> DEFINE index == IF f.head THEN blockIndex + 1 ELSE blockIndex
           start == [kind |-> "start", index |-> index, type |-> "tool_use", head |-> here]
           delta == [kind |-> "delta", index |-> index, type |-> "tool_use", at |-> here]
           opened == out \o (IF f.head THEN CloseBlock \o <<start>> ELSE <<>>)
<1>1. f \in Fragment /\ here \in Position /\ f.head \in BOOLEAN /\ f.args \in BOOLEAN
  BY FragmentType DEF MessageFragment, StreamInv, Fragment
<1>2. index \in Nat /\ (f.head => index \in Nat \ {0}) /\ "tool_use" \in BlockTypes
  BY <1>1 DEF StreamInv, TypeOK, BlockTypes
<1>3. /\ f.head => start \in Chunk
      /\ delta \in Chunk /\ delta.kind = "delta" /\ delta.index = index /\ delta.at = here
      /\ start.kind = "start" /\ start.index = index /\ start.type = "tool_use" /\ start.head = here
  BY <1>1, <1>2, ChunkTypes
<1>4. /\ Write((IF f.head THEN CloseBlock \o <<start>> ELSE <<>>)
               \o (IF f.args THEN <<delta>> ELSE <<>>))
      /\ blockIndex' = index
  BY DEF MessageFragment
<1> HIDE DEF start, delta
<1>5. out \in Seq(Chunk) /\ CloseBlock \in Seq(Chunk)
  BY CloseBlockType DEF StreamInv, TypeOK
<1>6. /\ opened \in Seq(Chunk)
      /\ ToolBlocks(opened) = ToolBlocks(out) \cup (IF f.head THEN {<<index, here>>} ELSE {})
      /\ \A n : InBlock(opened, n) = InBlock(out, n)
  <2>1. CASE ~f.head
    <3>1. opened = out
      BY <1>5, <2>1
    <3>2. QED
      BY <1>5, <2>1, <3>1
  <2>2. CASE f.head
    <3>1. opened = out \o (CloseBlock \o <<start>>)
      BY <2>2
    <3> HIDE DEF opened, index
    <3>2. QED
      BY <1>3, <2>2, <3>1, OpenTells
  <2>3. QED
    BY <1>1, <2>1, <2>2
<1>7. f.head => index = blockIndex + 1
  OBVIOUS
<1>8. blockIndex' = IF f.head THEN blockIndex + 1 ELSE blockIndex
  BY <1>4
<1>9. CASE f.args
  <2>1. out' = Append(opened, delta)
    BY <1>3, <1>4, <1>5, <1>9 DEF Write
  <2> HIDE DEF index, opened
  <2>2. QED
    BY <1>3, <1>4, <1>6, <1>7, <1>8, <1>9, <2>1, OneMoreTells
<1>10. CASE ~f.args
  <2>1. out' = opened
    BY <1>3, <1>4, <1>5, <1>10 DEF Write
  <2> HIDE DEF index, opened
  <2>2. QED
    BY <1>4, <1>6, <1>7, <1>8, <1>10, <2>1
<1>11. QED
  BY <1>1, <1>9, <1>10

LastHead(h) == \A g \in Heads : AtOrBefore(g, h)

\* Blocks of calls have numbers of their own and heads of their own.
BlockNumbers ==
    /\ \A b \in ToolBlocks(out) : b[1] \in Nat /\ b[1] <= blockIndex /\ b[2] \in Heads
    /\ \A b, c \in ToolBlocks(out) : b[1] = c[1] \/ b[2] = c[2] => b = c
    /\ \A n \in Nat : n > blockIndex => InBlock(out, n) = {}

\* What the last block is: of a call if its fragments may go on, and of none if it is of text.
LastBlock ==
    /\ blockType \in {"thinking", "text"} =>
         \A b \in ToolBlocks(out) : b[1] # blockIndex
    /\ pc \notin {"done", "failed"} =>
         \A h \in Heads : Silent(h) /\ LastHead(h) => <<blockIndex, h>> \in ToolBlocks(out)

\* Each head has its block, with the parts that it means.
BlocksTell ==
    /\ hasToolUse = (Heads # {})
    /\ \A b \in ToolBlocks(out) : InBlock(out, b[1]) = PartsMeant(b[2])
    /\ \A h \in Heads : \E b \in ToolBlocks(out) : b[2] = h

MessageInv ==
    endpoint = "messages" => BlockNumbers /\ LastBlock /\ (Sequential => BlocksTell)

LEMMA SequentialBefore ==
    ASSUME StreamInv, GoesOn, Sequential'
    PROVE  Sequential
<1>1. Orderly
  BY OrderlyBefore DEF Sequential
<1>2. ASSUME NEW p \in Positions, NEW q \in Positions, NEW h \in Heads,
             Begins(h, p), Before(h, q), Before(q, p)
      PROVE  Begins(h, q)
  <2>1. p \in Positions' /\ q \in Positions' /\ h \in Heads'
    BY DEF GoesOn, Heads
  <2>2. Begins(h, p)'
    BY <1>2, BeginsStays
  <2>3. Begins(h, q)'
    BY <1>2, <2>1, <2>2 DEF Sequential
  <2>4. QED
    BY <2>3, BeginsStays
<1>3. QED
  BY <1>1, <1>2 DEF Sequential

LEMMA InitMessage == Init => MessageInv
<1> SUFFICES ASSUME Init PROVE MessageInv
  OBVIOUS
<1>1. out = <<>> /\ upstream = <<>> /\ blockType = "none" /\ hasToolUse = FALSE
  BY DEF Init, StreamInit
<1>2. \A k : OfKind(out, k) = {}
  BY <1>1 DEF OfKind
<1>3. ToolBlocks(out) = {} /\ \A n : InBlock(out, n) = {}
  BY <1>2 DEF ToolBlocks, InBlock
<1>4. Heads = {}
  BY <1>1 DEF Heads, Positions
<1>5. QED
  BY <1>1, <1>3, <1>4 DEF MessageInv, BlockNumbers, LastBlock, BlocksTell

LEMMA MessageTextTells ==
    ASSUME StreamInv, MessageInv, NEW e \in Events, MessageText(e)
    PROVE  MessageInv'
<1>1. /\ pc = "read" /\ pc' = pc /\ endpoint = "messages" /\ Receive(e)
      /\ next' = Len(e.calls) + 1 /\ hasToolUse' = hasToolUse
      /\ e.reasoning \/ e.content
      /\ BlockNumbers /\ LastBlock
      /\ blockIndex \in Nat
  BY DEF MessageText, MessageInv, StreamInv, TypeOK
<1>2. /\ GoesOn
      /\ Len(upstream') = Len(upstream) + 1 /\ upstream'[Len(upstream')] = e
      /\ \A p \in Positions' : p[1] \in 1..Len(upstream')
      /\ next' = 1 => Positions' = Positions
  <2>1. pc = "read" /\ Receive(e) /\ next' \in {1, Len(e.calls) + 1}
    BY <1>1
  <2>2. QED
    BY <2>1, ReceiveGoesOn
<1>3. PICK t \in {"thinking", "text"} : DeltaInBlock(t)
  BY DEF MessageText
<1>4. /\ blockIndex' = IF blockType # t THEN blockIndex + 1 ELSE blockIndex
      /\ blockType' = t
      /\ ToolBlocks(out') = ToolBlocks(out)
      /\ \A n : n # blockIndex' => InBlock(out', n) = InBlock(out, n)
  BY <1>3, DeltaTells
<1>5. \A b \in ToolBlocks(out) : b[1] # blockIndex'
  BY <1>1, <1>4 DEF BlockNumbers, LastBlock
<1>6. \A h \in Heads : h \in Heads'
  BY <1>2 DEF GoesOn, Heads
<1>7. BlockNumbers'
  <2>1. \A n \in Nat : n > blockIndex' => n > blockIndex
    BY <1>1, <1>4
  <2>2. \A n \in Nat : n > blockIndex' => InBlock(out', n) = {}
    BY <1>1, <1>4, <2>1 DEF BlockNumbers
  <2>3. \A b \in ToolBlocks(out) : b[1] \in Nat /\ b[1] <= blockIndex' /\ b[2] \in Heads'
    BY <1>1, <1>4, <1>6 DEF BlockNumbers
  <2>4. QED
    BY <1>1, <1>4, <2>2, <2>3 DEF BlockNumbers
<1>8. LastBlock'
  <2>1. \A h \in Heads' : ~Silent(h)'
    BY <1>1, <1>2 DEF Heads, Silent
  <2>2. QED
    BY <1>4, <1>5, <2>1 DEF LastBlock
<1>9. Sequential' => BlocksTell'
  <2> SUFFICES ASSUME Sequential' PROVE BlocksTell'
    OBVIOUS
  <2>1. BlocksTell
    BY <1>1, <1>2, SequentialBefore DEF MessageInv
  <2>2. Positions' = Positions
    <3>1. Len(upstream') \in DOMAIN upstream'
      BY <1>2 DEF GoesOn, StreamInv, TypeOK
    <3>2. e.calls = <<>>
      BY <1>1, <1>2, <3>1 DEF Sequential, Orderly
    <3>3. next' = 1
      BY <1>1, <3>2
    <3>4. QED
      BY <1>2, <3>3
  <2>3. Heads' = Heads /\ \A h : PartsMeant(h)' = PartsMeant(h)
    BY <1>2, <2>2, MeantStays
  <2>4. QED
    BY <1>1, <1>4, <1>5, <2>1, <2>3 DEF BlocksTell
<1>10. QED
  BY <1>7, <1>8, <1>9 DEF MessageInv

LEMMA MessageFragmentsTell ==
    ASSUME StreamInv, MessageInv, NEW e \in Events, MessageFragments(e)
    PROVE  MessageInv'
<1>1. /\ pc = "read" /\ endpoint = "messages" /\ Receive(e) /\ next' = 1
      /\ UNCHANGED <<blockIndex, blockType, hasToolUse, out>>
  BY DEF MessageFragments
<1>2. GoesOn /\ Positions' = Positions
  BY <1>1, ReceiveGoesOn
<1>3. /\ Heads' = Heads
      /\ \A h : PartsMeant(h)' = PartsMeant(h)
  BY <1>2, MeantStays
<1>4. /\ \A h \in Heads : Silent(h)' => Silent(h)
      /\ \A h : LastHead(h)' <=> LastHead(h)
  BY <1>2, <1>3 DEF GoesOn, Heads, Silent, LastHead
<1>5. Sequential' => Sequential
  BY <1>2, SequentialBefore
<1>6. QED
  BY <1>1, <1>3, <1>4, <1>5 DEF MessageInv, BlockNumbers, LastBlock, BlocksTell

\* The fragment that begins a call begins its block.
LEMMA HeadTells ==
    ASSUME StreamInv, StreamInv', MessageInv, MessageFragment,
           NEW f, f = Current.calls[next], f.head, NEW here, here = Here
    PROVE  MessageInv'
<1>1. /\ pc = "fragments" /\ endpoint = "messages" /\ endpoint' = endpoint /\ Advance
      /\ hasToolUse' = TRUE /\ blockType' = "tool_use"
      /\ BlockNumbers /\ blockIndex \in Nat
  BY Zenon DEF MessageFragment, Advance, MessageInv, StreamInv, TypeOK
<1>2. /\ blockIndex' = blockIndex + 1
      /\ ToolBlocks(out') = ToolBlocks(out) \cup {<<blockIndex + 1, here>>}
      /\ \A n : n # blockIndex + 1 => InBlock(out', n) = InBlock(out, n)
      /\ InBlock(out', blockIndex + 1) = InBlock(out, blockIndex + 1) \cup
           (IF f.args THEN {here} ELSE {})
  BY FragmentTells
<1>3. FragmentAt(here) = f
  BY <1>1, AdvancePositions
<1>4. /\ Heads' = Heads \cup {here} /\ here \notin Heads
      /\ \A h \in Heads : PartsMeant(h)' = PartsMeant(h)
      /\ PartsMeant(here)' = IF f.args THEN {here} ELSE {}
      /\ \A h \in Heads : AtOrBefore(h, here)
  BY <1>1, <1>3, MeantByHead
<1>5. InBlock(out', blockIndex + 1) = IF f.args THEN {here} ELSE {}
  <2>1. InBlock(out, blockIndex + 1) = {}
    BY <1>1 DEF BlockNumbers
  <2>2. QED
    BY <1>2, <2>1
<1>6. \A b \in ToolBlocks(out) : b[1] \in Nat /\ b[1] < blockIndex + 1 /\ b[2] \in Heads
  BY <1>1 DEF BlockNumbers
<1>7. \A b \in ToolBlocks(out') : \/ b \in ToolBlocks(out)
                                  \/ b = <<blockIndex + 1, here>> /\ b[1] = blockIndex + 1 /\ b[2] = here
  BY <1>2
<1>8. BlockNumbers'
  <2>1. \A b \in ToolBlocks(out') : b[1] \in Nat /\ b[1] <= blockIndex' /\ b[2] \in Heads'
    BY <1>1, <1>2, <1>4, <1>6, <1>7
  <2>2. \A b, c \in ToolBlocks(out') : b[1] = c[1] \/ b[2] = c[2] => b = c
    BY <1>1, <1>4, <1>6, <1>7 DEF BlockNumbers
  <2>3. \A n \in Nat : n > blockIndex' => InBlock(out', n) = {}
    BY <1>1, <1>2 DEF BlockNumbers
  <2>4. QED
    BY <2>1, <2>2, <2>3 DEF BlockNumbers
<1>9. LastBlock'
  <2>1. \A h \in Heads' : LastHead(h)' => h = here
    <3>1. \A h \in Heads' : LastHead(h)' => AtOrBefore(here, h)
      BY <1>4 DEF LastHead, AtOrBefore
    <3>2. \A h \in Heads : ~AtOrBefore(here, h)
      <4>1. GoesOn /\ here \in Positions' /\ here \notin Positions
        BY <1>1, AdvanceGoesOn, AdvancePositions
      <4>2. QED
        BY <4>1 DEF GoesOn, Heads
    <3>3. QED
      BY <1>4, <3>1, <3>2
  <2>2. <<blockIndex', here>> \in ToolBlocks(out')
    BY <1>2
  <2>3. QED
    BY <1>1, <2>1, <2>2 DEF LastBlock
<1>10. Sequential' => BlocksTell'
  <2> SUFFICES ASSUME Sequential' PROVE BlocksTell'
    OBVIOUS
  <2>1. BlocksTell
    BY <1>1, AdvanceGoesOn, SequentialBefore DEF MessageInv
  <2>2. \A b \in ToolBlocks(out) : InBlock(out', b[1]) = PartsMeant(b[2])'
    <3>1. ASSUME NEW n, NEW h, <<n, h>> \in ToolBlocks(out)
          PROVE  InBlock(out', n) = PartsMeant(h)'
      BY <1>2, <1>4, <1>6, <2>1, <3>1 DEF BlocksTell
    <3>2. \A b \in ToolBlocks(out) : b = <<b[1], b[2]>>
      BY DEF ToolBlocks
    <3>3. QED
      BY <3>1, <3>2
  <2>3. \A b \in ToolBlocks(out') : InBlock(out', b[1]) = PartsMeant(b[2])'
    BY <1>4, <1>5, <1>7, <2>2
  <2>4. \A h \in Heads' : \E b \in ToolBlocks(out') : b[2] = h
    <3>1. <<blockIndex + 1, here>> \in ToolBlocks(out')
      BY <1>2
    <3>2. \A h \in Heads : \E b \in ToolBlocks(out') : b[2] = h
      BY <1>2, <2>1 DEF BlocksTell
    <3>3. QED
      BY <1>4, <3>1, <3>2
  <2>5. Heads' # {}
    BY <1>4
  <2>6. QED
    BY <1>1, <2>3, <2>4, <2>5 DEF BlocksTell
<1>11. QED
  BY <1>1, <1>8, <1>9, <1>10 DEF MessageInv

\* In a sequential stream a part belongs to the call that began last of all.
LEMMA LastBegins ==
    ASSUME StreamInv, StreamInv', pc = "fragments", Advance, ~FragmentAt(Here).head, Sequential',
           NEW here, here = Here
    PROVE  \E g \in Heads : Begins(g, here)' /\ Silent(g) /\ LastHead(g)
<1>1. /\ Positions' = Positions \cup {here} /\ here \notin Positions
      /\ \A p \in Positions : Before(p, here)
      /\ \A p : FragmentAt(p)' = FragmentAt(p)
      /\ upstream' = upstream /\ here[1] = Len(upstream)
  BY AdvancePositions, FragmentType DEF StreamInv
<1>2. Orderly'
  BY DEF Sequential
<1>3. PICK g \in Heads' : Begins(g, here)' /\ Quiet(g, here)'
  BY <1>1, <1>2 DEF Orderly
<1>4. Heads' = Heads
  BY <1>1 DEF Heads
<1>5. Silent(g)
  BY <1>1, <1>3 DEF Quiet, Silent
<1>6. ASSUME NEW k \in Heads
      PROVE  AtOrBefore(k, g)
  <2>1. k \in Positions /\ g \in Positions
    BY <1>3, <1>4 DEF Heads
  <2>2. CASE AtOrBefore(g, k) /\ g # k
    <3>1. Before(g, k) /\ Before(k, here)
      BY <1>1, <2>1, <2>2 DEF AtOrBefore
    <3>2. Begins(g, k)'
      BY <1>1, <1>3, <2>1, <3>1 DEF Sequential
    <3>3. Begins(k, k)'
      <4>1. k \in Heads'
        BY <1>4
      <4>2. QED
        BY <4>1 DEF Begins, AtOrBefore
    <3>4. OneCallEach'
      BY BeginsOnce, PTL
    <3>5. QED
      BY <2>2, <3>2, <3>3, <3>4 DEF OneCallEach
  <2>3. QED
    BY <2>1, <2>2, PositionsAreOrdered DEF AtOrBefore
<1>7. QED
  BY <1>3, <1>4, <1>5, <1>6 DEF LastHead

LEMMA PartTells ==
    ASSUME StreamInv, StreamInv', MessageInv, MessageFragment,
           NEW f, f = Current.calls[next], ~f.head, NEW here, here = Here
    PROVE  MessageInv'
<1>1. /\ pc = "fragments" /\ endpoint = "messages" /\ endpoint' = endpoint /\ Advance
      /\ blockType' = blockType
      /\ BlockNumbers /\ LastBlock /\ blockIndex \in Nat
  BY DEF MessageFragment, Advance, MessageInv, StreamInv, TypeOK
<1>2. hasToolUse' = hasToolUse
  <2>1. hasToolUse' = (hasToolUse \/ f.head) /\ hasToolUse \in BOOLEAN
    BY DEF MessageFragment, StreamInv, TypeOK
  <2>2. QED
    BY <2>1
<1>3. /\ blockIndex' = blockIndex
      /\ ToolBlocks(out') = ToolBlocks(out)
      /\ \A n : n # blockIndex => InBlock(out', n) = InBlock(out, n)
      /\ InBlock(out', blockIndex) = InBlock(out, blockIndex) \cup (IF f.args THEN {here} ELSE {})
  <2>1. /\ blockIndex' = blockIndex
        /\ ToolBlocks(out') = ToolBlocks(out) \cup {}
        /\ \A n : InBlock(out', n) = InBlock(out, n) \cup
             (IF f.args /\ n = blockIndex' THEN {here} ELSE {})
    BY FragmentTells
  <2>2. \A n : n # blockIndex => InBlock(out', n) = InBlock(out, n) \cup {}
    BY <2>1
  <2>3. QED
    BY <2>1, <2>2
<1>4. /\ FragmentAt(here) = f /\ upstream' = upstream
      /\ Positions' = Positions \cup {here} /\ here \notin Positions
      /\ \A p : FragmentAt(p)' = FragmentAt(p)
  BY <1>1, AdvancePositions
<1>5. Heads' = Heads
  BY <1>4 DEF Heads
<1>6. BlockNumbers'
  <2>1. \A n \in Nat : n > blockIndex => InBlock(out', n) = {}
    BY <1>1, <1>3 DEF BlockNumbers
  <2>2. QED
    BY <1>1, <1>3, <1>5, <2>1 DEF BlockNumbers
<1>7. LastBlock'
  <2>1. pc' \notin {"done", "failed"} /\ pc \notin {"done", "failed"}
    BY <1>1 DEF Advance
  <2>2. \A h \in Heads : (Silent(h)' <=> Silent(h)) /\ (LastHead(h)' <=> LastHead(h))
    BY <1>4, <1>5 DEF Silent, LastHead
  <2>3. QED
    BY <1>1, <1>3, <1>5, <2>1, <2>2 DEF LastBlock
<1>8. Sequential' => BlocksTell'
  <2> SUFFICES ASSUME Sequential' PROVE BlocksTell'
    OBVIOUS
  <2>1. BlocksTell
    BY <1>1, AdvanceGoesOn, SequentialBefore DEF MessageInv
  <2>2. PICK g \in Heads : Begins(g, here)' /\ Silent(g) /\ LastHead(g)
    BY <1>1, <1>4, LastBegins
  <2>3. <<blockIndex, g>> \in ToolBlocks(out)
    BY <1>1, <2>2 DEF LastBlock
  <2>4. /\ \A h : h # g => PartsMeant(h)' = PartsMeant(h)
        /\ PartsMeant(g)' = PartsMeant(g) \cup (IF f.args THEN {here} ELSE {})
    BY <1>1, <1>4, <2>2, MeantByPart
  <2>5. ASSUME NEW n, NEW h, <<n, h>> \in ToolBlocks(out)
        PROVE  InBlock(out', n) = PartsMeant(h)'
    <3>1. InBlock(out, n) = PartsMeant(h)
      BY <2>1, <2>5 DEF BlocksTell
    <3>2. (n = blockIndex \/ h = g) => n = blockIndex /\ h = g
      BY <1>1, <2>3, <2>5 DEF BlockNumbers
    <3>3. QED
      BY <1>3, <2>4, <3>1, <3>2
  <2>6. \A b \in ToolBlocks(out') : InBlock(out', b[1]) = PartsMeant(b[2])'
    <3>1. \A b \in ToolBlocks(out) : b = <<b[1], b[2]>>
      BY DEF ToolBlocks
    <3>2. QED
      BY <1>3, <2>5, <3>1
  <2>7. QED
    BY <1>2, <1>3, <1>5, <2>1, <2>6 DEF BlocksTell
<1>9. QED
  BY <1>1, <1>6, <1>7, <1>8 DEF MessageInv

LEMMA EndTells ==
    ASSUME StreamInv, MessageInv, MessageEnd \/ Fail, endpoint = "messages"
    PROVE  MessageInv'
<1>1. /\ pc' \in {"done", "failed"} /\ blockType' = "none"
      /\ UNCHANGED <<streamVars, endpoint, blockIndex, hasToolUse>>
  BY DEF MessageEnd, Fail
<1>2. PICK x \in Chunk : x.kind \in {"end", "error"} /\ Write(CloseBlock \o <<x>>)
  BY ChunkTypes DEF MessageEnd, Fail
<1> DEFINE closed == out \o CloseBlock
<1>3. out' = Append(closed, x)
  BY <1>2, CloseBlockType DEF Write, StreamInv, TypeOK
<1>4. closed \in Seq(Chunk) /\ TellsTheSame(out, closed)
  BY CloseTells
<1> HIDE DEF closed
<1>5. TellsTheSame(out, out')
  BY <1>2, <1>3, <1>4, OneMoreTells DEF TellsTheSame
<1>6. Sequential' <=> Sequential
  BY <1>1 DEF Sequential, Orderly, Positions, Heads, Begins, Quiet, FragmentAt
<1>7. Heads' = Heads /\ \A h : PartsMeant(h)' = PartsMeant(h)
  BY <1>1, StreamStays
<1>8. QED
  BY <1>1, <1>5, <1>6, <1>7
  DEF MessageInv, BlockNumbers, LastBlock, BlocksTell, TellsTheSame

LEMMA NextMessages == StreamInv /\ StreamInv' /\ MessageInv /\ [Next]_vars => MessageInv'
<1> SUFFICES ASSUME StreamInv, StreamInv', MessageInv, [Next]_vars, endpoint' = "messages"
             PROVE  MessageInv'
  BY DEF MessageInv
<1>1. endpoint = "messages"
  BY DEF Next, vars, ChatContent, ChatFragments, MessageText, MessageFragments, EmitPending,
     WriteContent, ChatFragment, Advance, ChatEnd, ChatFinish, MessageFragment, MessageEnd, Fail
<1>2. CASE UNCHANGED vars
  <2>1. Sequential' <=> Sequential
    BY <1>2 DEF vars, Sequential, Orderly, Positions, Heads, Begins, Quiet, FragmentAt
  <2>2. Heads' = Heads /\ \A h : PartsMeant(h)' = PartsMeant(h)
    BY <1>2, StreamStays DEF vars
  <2>3. \A h : (Silent(h)' <=> Silent(h)) /\ (LastHead(h)' <=> LastHead(h))
    BY <1>2, <2>2 DEF vars, Silent, LastHead
  <2>4. QED
    BY <1>2, <2>1, <2>2, <2>3 DEF vars, MessageInv, BlockNumbers, LastBlock, BlocksTell
<1>3. CASE MessageFragment
  <2>1. PICK f, here : f = Current.calls[next] /\ here = Here
    OBVIOUS
  <2>2. QED
    BY <1>3, <2>1, HeadTells, PartTells
<1>4. QED
  BY <1>1, <1>2, <1>3, MessageTextTells, MessageFragmentsTell, EndTells
  DEF Next, ChatContent, ChatFragments, EmitPending, WriteContent, ChatFragment, ChatEnd, ChatFinish

\* What the fragments mean is what mergeToolCallDeltas finds, if no index is used again.
LEMMA MeantIsMerged ==
    ASSUME StreamInv, Orderly, Indexed
    PROVE  CallsMeant = MergeToolCallDeltas
<1> DEFINE used == {i \in Indexes : AtIndex(i) \cap Heads # {}}
           lastHead(i) == CHOOSE h \in AtIndex(i) \cap Heads :
                            \A g \in AtIndex(i) \cap Heads : AtOrBefore(g, h)
           merged(i) == [head |-> lastHead(i), args |-> {p \in AtIndex(i) : FragmentAt(p).args}]
           meant(h) == [head |-> h, args |-> PartsMeant(h)]
<1>1. \A h \in Heads : h \in Positions /\ FragmentAt(h).index \in Indexes
  BY PositionsAreOrdered DEF Heads
<1>2. ASSUME NEW h \in Heads, NEW i, i = FragmentAt(h).index
      PROVE  i \in used /\ merged(i) = meant(h)
  <2>1. AtIndex(i) \cap Heads = {h}
    BY <1>1, <1>2 DEF AtIndex, Indexed
  <2>2. lastHead(i) = h
    BY <2>1 DEF AtOrBefore
  <2>3. {p \in AtIndex(i) : FragmentAt(p).args} = PartsMeant(h)
    <3>1. ASSUME NEW p \in Positions, FragmentAt(p).index = i
          PROVE  Begins(h, p)
      <4>1. PICK g \in Heads : Begins(g, p)
        BY DEF Orderly
      <4>2. g = h
        BY <1>2, <3>1, <4>1 DEF Begins, Indexed
      <4>3. QED
        BY <4>1, <4>2
    <3>2. \A p : Begins(h, p) => FragmentAt(p).index = i
      BY <1>2 DEF Begins
    <3>3. QED
      BY <3>1, <3>2 DEF AtIndex, PartsMeant
  <2>4. i \in used
    BY <1>1, <1>2, <2>1
  <2>5. QED
    BY <2>2, <2>3, <2>4
<1>3. ASSUME NEW i \in used
      PROVE  \E h \in Heads : i = FragmentAt(h).index
  BY DEF AtIndex
<1>4. CallsMeant = {meant(h) : h \in Heads} /\ MergeToolCallDeltas = {merged(i) : i \in used}
  BY DEF CallsMeant, MergeToolCallDeltas, PartsMeant
<1> HIDE DEF used, merged, meant
<1>5. QED
  BY <1>2, <1>3, <1>4

(***************************************************************************)
(* Every endpoint gives its client the same calls: the chat stream, the    *)
(* messages stream and the merge of the answers without streaming, for     *)
(* every upstream whose calls come one after another under indexes of      *)
(* their own.                                                              *)
(***************************************************************************)
THEOREM EndpointsGiveTheSame == Spec => []EndpointsAgree
<1>1. StreamInv /\ CallsAreWhole /\ MessageInv => EndpointsAgree
  <2> SUFFICES ASSUME StreamInv, CallsAreWhole, MessageInv, pc = "done", Sequential, Indexed
               PROVE  EndpointsAgree
    BY DEF EndpointsAgree
  <2>1. CallsMeant = MergeToolCallDeltas
    BY MeantIsMerged DEF Sequential
  <2>2. CASE endpoint = "chat"
    <3>1. CallsWritten \cup CallsPending = CallsMeant /\ CallsPending = {}
      BY <2>2 DEF CallsAreWhole, Sequential
    <3>2. QED
      BY <2>1, <2>2, <3>1 DEF EndpointsAgree
  <2>3. CASE endpoint = "messages"
    <3> DEFINE told(b) == [head |-> b[2], args |-> InBlock(out, b[1])]
    <3>1. BlockNumbers /\ BlocksTell
      BY <2>3 DEF MessageInv
    <3>2. \A k : Written(k) = OfKind(out, k)
      BY DEF Written, OfKind
    <3>3. CallsInBlocks = {told(b) : b \in ToolBlocks(out)}
      <4> DEFINE starts == {i \in OfKind(out, "start") : out[i].type = "tool_use"}
                 block(i) == <<out[i].index, out[i].head>>
      <4>1. CallsInBlocks = {told(block(i)) : i \in starts}
        BY <3>2 DEF CallsInBlocks, InBlock
      <4>2. ToolBlocks(out) = {block(i) : i \in starts}
        BY DEF ToolBlocks
      <4> HIDE DEF starts, block, told
      <4>3. QED
        BY <4>1, <4>2
    <3>4. \A b \in ToolBlocks(out) :
            told(b).head = b[2] /\ b[2] \in Heads /\ told(b).args = PartsMeant(b[2])
            /\ told(b) = [head |-> b[2], args |-> PartsMeant(b[2])]
      BY <3>1 DEF BlockNumbers, BlocksTell
    <3>5. \A h \in Heads : \E b \in ToolBlocks(out) : b[2] = h
      BY <3>1 DEF BlocksTell
    <3> HIDE DEF told
    <3>6. CallsInBlocks = CallsMeant
      <4>1. \A c \in CallsInBlocks :
              c.head \in Heads /\ c = [head |-> c.head, args |-> PartsMeant(c.head)]
        BY <3>3, <3>4
      <4>2. \A h \in Heads : \E c \in CallsInBlocks : c.head = h
        BY <3>3, <3>4, <3>5
      <4>3. QED
        BY <4>1, <4>2, ByHeads
    <3>7. CallsMeant # {} <=> Heads # {}
      BY DEF CallsMeant
    <3>8. hasToolUse = (Heads # {})
      BY <3>1 DEF BlocksTell
    <3>9. hasToolUse = (MergeToolCallDeltas # {})
      BY <2>1, <3>7, <3>8
    <3>10. QED
      BY <2>1, <2>3, <3>6, <3>9 DEF EndpointsAgree
  <2>4. QED
    BY <2>2, <2>3 DEF StreamInv, TypeOK
<1>2. QED
  BY <1>1, CallsArriveWhole, StreamHolds, NextStream, InitStream, InitMessage, NextMessages, PTL
  DEF Spec

=============================================================================
