-------------------------- MODULE ResponseStreamProofs --------------------------
(***************************************************************************)
(* The chat stream, for any upstream: any events, of any number, with any  *)
(* tool call indexes.                                                      *)
(***************************************************************************)
EXTENDS ResponseStream, SequenceTheorems, FiniteSetTheorems, TLAPS

USE DEF streamVars, chatVars, blockVars

\* Where the handler is decides what it has in hand.
StreamInv ==
    /\ TypeOK
    /\ pc \in {"flush", "finish"} => endpoint = "chat"
    /\ pc = "flush" => upstream # <<>> /\ Current.content
    /\ pc = "fragments" =>
         /\ upstream # <<>>
         /\ next \in 1..Len(Current.calls)
         /\ ~Current.content
         /\ endpoint = "messages" => ~Current.reasoning
    /\ pc # "fragments" /\ upstream # <<>> => next = Len(Current.calls) + 1
    /\ blockType # "none" => endpoint = "messages" /\ blockIndex > 0
    /\ pc \in {"done", "failed"} => blockType = "none"

LEMMA EventType ==
    ASSUME NEW e \in Events
    PROVE  /\ e.reasoning \in BOOLEAN /\ e.content \in BOOLEAN
           /\ e.calls \in Seq(Fragment) /\ Len(e.calls) \in Nat
  BY StreamAssumption DEF SSEEvent

LEMMA FragmentType ==
    ASSUME TypeOK, pc = "fragments", upstream # <<>>, next \in 1..Len(Current.calls)
    PROVE  /\ Current \in Events
           /\ Current.calls[next] \in Fragment
           /\ Current.calls[next].index \in Indexes
           /\ Here \in Position /\ Here # None
           /\ Here[1] = Len(upstream) /\ Here[2] = next /\ Len(upstream) \in Nat \ {0}
<1>1. Len(upstream) \in Nat \ {0} /\ Current \in Events
  BY DEF TypeOK, Current
<1>2. Current.calls[next] \in Fragment
  BY <1>1, EventType
<1>3. Here \in Position /\ Here # None /\ Here[1] = Len(upstream) /\ Here[2] = next
  BY <1>1 DEF TypeOK, Here, None, Position
<1>4. QED
  BY <1>1, <1>2, <1>3 DEF Fragment

LEMMA NoCallType == None \in Position /\ NoCall \in Call
<1>1. None \in Position
  BY DEF None, Position
<1>2. QED
  BY <1>1 DEF NoCall, Call

LEMMA ReceiveType ==
    ASSUME TypeOK, NEW e \in Events, Receive(e)
    PROVE  /\ upstream' \in Seq(Events) /\ upstream' # <<>>
           /\ Len(upstream') = Len(upstream) + 1
           /\ Current' = e
           /\ \A n \in 1..Len(upstream) : upstream'[n] = upstream[n]
  BY DEF TypeOK, Receive, Current

\* One chunk more.
LEMMA WriteOne ==
    ASSUME out \in Seq(Chunk), NEW x \in Chunk, Write(<<x>>)
    PROVE  /\ out' \in Seq(Chunk)
           /\ Len(out') = Len(out) + 1 /\ Len(out) \in Nat
           /\ \A j \in 1..Len(out) : out'[j] = out[j]
           /\ out'[Len(out) + 1] = x
           /\ \A k : Written(k)' = Written(k) \cup (IF x.kind = k THEN {Len(out) + 1} ELSE {})
<1>1. /\ out' \in Seq(Chunk)
      /\ Len(out') = Len(out) + 1 /\ Len(out) \in Nat
      /\ \A j \in 1..Len(out) : out'[j] = out[j]
      /\ out'[Len(out) + 1] = x
  BY DEF Write
<1>2. QED
  BY <1>1 DEF Written

LEMMA WriteSome ==
    ASSUME StreamInv, NEW xs, xs \in Seq(Chunk), Write(xs)
    PROVE  out' \in Seq(Chunk)
  BY DEF Write, StreamInv, TypeOK

LEMMA ChunkTypes ==
    /\ \A n \in Nat : [kind |-> "text", at |-> n] \in Chunk
    /\ \A c \in Call : [kind |-> "call", call |-> c] \in Chunk
    /\ \A n \in Nat \ {0}, t \in BlockTypes, h \in Position :
         [kind |-> "start", index |-> n, type |-> t, head |-> h] \in Chunk
    /\ \A n \in Nat, t \in BlockTypes, p \in Position :
         [kind |-> "delta", index |-> n, type |-> t, at |-> p] \in Chunk
    /\ \A n \in Nat \ {0} : [kind |-> "stop", index |-> n] \in Chunk
    /\ \A r \in {"stop", "end_turn", "tool_use"} : [kind |-> "end", reason |-> r] \in Chunk
    /\ [kind |-> "error"] \in Chunk
  BY DEF Chunk

LEMMA CloseBlockType ==
    ASSUME StreamInv
    PROVE  CloseBlock \in Seq(Chunk)
  BY ChunkTypes DEF StreamInv, TypeOK, CloseBlock, Stop

LEMMA InitStream == Init => StreamInv
<1> SUFFICES ASSUME Init PROVE StreamInv
  OBVIOUS
<1>1. TypeOK
  <2>1. pending \in [Indexes -> Call]
    BY NoCallType DEF Init
  <2>2. upstream \in Seq(Events) /\ out \in Seq(Chunk)
    BY DEF Init, StreamInit
  <2>3. /\ next \in Nat \ {0} /\ blockIndex \in Nat
        /\ endpoint \in {"chat", "messages"} /\ pc = "read" /\ blockType = "none"
    BY DEF Init, StreamInit
  <2>4. hasToolUse \in BOOLEAN
    BY Zenon DEF Init
  <2>5. QED
    BY <2>1, <2>2, <2>3, <2>4 DEF TypeOK
<1>2. QED
  BY <1>1 DEF Init, StreamInit, StreamInv

LEMMA DeltaKeeps ==
    ASSUME StreamInv, NEW type \in BlockTypes, DeltaInBlock(type)
    PROVE  out' \in Seq(Chunk) /\ blockIndex' \in Nat \ {0} /\ blockType' = type
<1> DEFINE at == <<Len(upstream) + 1, 0>>
           index == IF blockType # type THEN blockIndex + 1 ELSE blockIndex
           start == [kind |-> "start", index |-> index, type |-> type, head |-> None]
           delta == [kind |-> "delta", index |-> index, type |-> type, at |-> at]
<1>1. at \in Position /\ None \in Position
  BY NoCallType DEF StreamInv, TypeOK, Position
<1>2. index \in Nat \ {0}
  BY DEF StreamInv, TypeOK, BlockTypes
<1>3. start \in Chunk /\ delta \in Chunk
  BY <1>1, <1>2, ChunkTypes
<1>4. Write((IF blockType # type THEN CloseBlock \o <<start>> ELSE <<>>) \o <<delta>>)
      /\ blockIndex' = index /\ blockType' = type
  BY DEF DeltaInBlock
<1> HIDE DEF start, delta, index
<1>5. (IF blockType # type THEN CloseBlock \o <<start>> ELSE <<>>) \o <<delta>> \in Seq(Chunk)
  BY <1>3, CloseBlockType
<1>6. QED
  BY <1>2, <1>4, <1>5, WriteSome DEF StreamInv, TypeOK

LEMMA AdvanceKeeps ==
    ASSUME StreamInv, pc = "fragments", Advance
    PROVE  /\ next' \in Nat \ {0}
           /\ pc' = "fragments" => next' \in 1..Len(Current.calls)
           /\ pc' # "fragments" => pc' = "read" /\ next' = Len(Current.calls) + 1
           /\ Current' = Current /\ UNCHANGED <<upstream, endpoint>>
<1>1. Len(Current.calls) \in Nat
  BY FragmentType, EventType DEF StreamInv
<1>2. QED
  BY <1>1 DEF StreamInv, TypeOK, Advance, Current

LEMMA PartType ==
    ASSUME Here \in Position, NEW f \in Fragment
    PROVE  Part(f) \in Seq(Position)
  BY DEF Part

LEMMA ChatFragmentKeeps ==
    ASSUME StreamInv, ChatFragment
    PROVE  StreamInv'
<1> DEFINE f == Current.calls[next]
           i == f.index
           begun == [head |-> IF f.head THEN Here ELSE None, args |-> Part(f)]
           emitted == IF pending[i] = NoCall THEN <<>> ELSE <<[kind |-> "call", call |-> pending[i]]>>
<1>1. pc = "fragments" /\ f \in Fragment /\ i \in Indexes /\ Here \in Position
      /\ Advance /\ UNCHANGED blockVars
  BY FragmentType DEF ChatFragment, StreamInv
<1>2. Part(f) \in Seq(Position) /\ begun \in Call
  BY <1>1, PartType, NoCallType DEF Call
<1>3. pending' \in [Indexes -> Call]
  <2>1. CASE pending' = [pending EXCEPT ![i].args = @ \o Part(f)]
    <3>1. pending[i].args \o Part(f) \in Seq(Position) /\ pending[i].head \in Position
      BY <1>1, <1>2 DEF StreamInv, TypeOK, Call
    <3>2. [pending[i] EXCEPT !.args = @ \o Part(f)] \in Call
      BY <1>1, <3>1 DEF StreamInv, TypeOK, Call
    <3>3. pending' = [pending EXCEPT ![i] = [pending[i] EXCEPT !.args = @ \o Part(f)]]
      BY <2>1
    <3>4. QED
      BY <1>1, <3>2, <3>3 DEF StreamInv, TypeOK
  <2>2. CASE pending' = [pending EXCEPT ![i] = begun]
    BY <1>2, <2>2 DEF StreamInv, TypeOK
  <2>3. QED
    BY <2>1, <2>2 DEF ChatFragment
<1>4. out' \in Seq(Chunk)
  <2>1. emitted \in Seq(Chunk)
    <3>1. pending[i] \in Call
      BY <1>1 DEF StreamInv, TypeOK
    <3>2. QED
      BY <3>1, ChunkTypes
  <2>2. out' = out \/ Write(emitted)
    BY DEF ChatFragment
  <2>3. QED
    BY <2>1, <2>2, WriteSome DEF StreamInv, TypeOK
<1>5. QED
  BY <1>1, <1>3, <1>4, AdvanceKeeps DEF StreamInv, TypeOK

LEMMA MessageFragmentKeeps ==
    ASSUME StreamInv, MessageFragment
    PROVE  StreamInv'
<1> DEFINE f == Current.calls[next]
           index == IF f.head THEN blockIndex + 1 ELSE blockIndex
           start == [kind |-> "start", index |-> index, type |-> "tool_use", head |-> Here]
           delta == [kind |-> "delta", index |-> index, type |-> "tool_use", at |-> Here]
           opened == IF f.head THEN CloseBlock \o <<start>> ELSE <<>>
           filled == IF f.args THEN <<delta>> ELSE <<>>
<1>1. pc = "fragments" /\ f \in Fragment /\ Here \in Position /\ endpoint = "messages"
      /\ Advance /\ UNCHANGED pending
  BY FragmentType DEF MessageFragment, StreamInv
<1>2. f.head \in BOOLEAN /\ f.args \in BOOLEAN /\ index \in Nat /\ (f.head => index \in Nat \ {0})
  BY <1>1 DEF Fragment, StreamInv, TypeOK
<1>3. (f.head => start \in Chunk) /\ delta \in Chunk
  BY <1>1, <1>2, ChunkTypes DEF BlockTypes
<1>4. /\ Write(opened \o filled)
      /\ blockIndex' = index
      /\ blockType' = IF f.head THEN "tool_use" ELSE blockType
      /\ hasToolUse' = (hasToolUse \/ f.head)
  BY DEF MessageFragment
<1> HIDE DEF start, delta
<1>5. opened \in Seq(Chunk) /\ filled \in Seq(Chunk)
  BY <1>3, CloseBlockType
<1> HIDE DEF opened, filled
<1>6. out' \in Seq(Chunk)
  <2>1. opened \o filled \in Seq(Chunk)
    BY <1>5
  <2>2. QED
    BY <1>4, <2>1, WriteSome
<1>7. blockType' \in BlockTypes \cup {"none"} /\ (blockType' # "none" => index > 0)
  BY <1>2, <1>4 DEF StreamInv, TypeOK, BlockTypes
<1> HIDE DEF index, f
<1>8. QED
  BY <1>1, <1>2, <1>4, <1>6, <1>7, AdvanceKeeps DEF StreamInv, TypeOK

LEMMA NextStream == StreamInv /\ [Next]_vars => StreamInv'
<1> SUFFICES ASSUME StreamInv, [Next]_vars
             PROVE  StreamInv'
  OBVIOUS
<1>1. ASSUME NEW e \in Events, ChatContent(e) \/ ChatFragments(e) \/ MessageFragments(e)
      PROVE  StreamInv'
  <2>1. e.calls = <<>> \/ 1 \in 1..Len(e.calls)
    BY EventType
  <2>2. Receive(e) /\ UNCHANGED <<endpoint, pending, blockVars, out>>
    BY <1>1 DEF ChatContent, ChatFragments, MessageFragments
  <2>3. CASE ChatContent(e)
    BY <2>2, <2>3, EventType, ReceiveType DEF ChatContent, StreamInv, TypeOK
  <2>4. CASE ChatFragments(e)
    BY <2>1, <2>2, <2>4, EventType, ReceiveType DEF ChatFragments, StreamInv, TypeOK
  <2>5. CASE MessageFragments(e)
    BY <2>1, <2>2, <2>5, EventType, ReceiveType DEF MessageFragments, StreamInv, TypeOK
  <2>6. QED
    BY <1>1, <2>3, <2>4, <2>5
<1>2. ASSUME NEW e \in Events, MessageText(e)
      PROVE  StreamInv'
  <2>1. PICK type \in BlockTypes : DeltaInBlock(type)
    BY <1>2 DEF MessageText, BlockTypes
  <2>2. out' \in Seq(Chunk) /\ blockIndex' \in Nat \ {0} /\ blockType' \in BlockTypes
    BY <2>1, DeltaKeeps
  <2>3. QED
    BY <1>2, <2>2, EventType, ReceiveType DEF MessageText, StreamInv, TypeOK
<1>3. ASSUME NEW i \in Indexes, EmitPending(i)
      PROVE  StreamInv'
  <2>1. [kind |-> "call", call |-> pending[i]] \in Chunk
    BY ChunkTypes DEF StreamInv, TypeOK
  <2>2. out' \in Seq(Chunk)
    BY <1>3, <2>1, WriteOne DEF EmitPending, StreamInv, TypeOK
  <2>3. pending' \in [Indexes -> Call]
    BY <1>3, NoCallType DEF EmitPending, StreamInv, TypeOK
  <2>4. QED
    BY <1>3, <2>2, <2>3 DEF EmitPending, StreamInv, TypeOK, Current
<1>4. CASE WriteContent
  <2>1. out' \in Seq(Chunk)
    BY <1>4, ChunkTypes, WriteOne DEF WriteContent, StreamInv, TypeOK
  <2>2. QED
    BY <1>4, <2>1 DEF WriteContent, StreamInv, TypeOK, Current
<1>5. CASE ChatEnd
  BY <1>5 DEF ChatEnd, StreamInv, TypeOK, Current
<1>6. CASE ChatFinish
  <2>1. out' \in Seq(Chunk)
    BY <1>6, ChunkTypes, WriteOne DEF ChatFinish, StreamInv, TypeOK
  <2>2. QED
    BY <1>6, <2>1 DEF ChatFinish, StreamInv, TypeOK, Current
<1>7. CASE MessageEnd \/ Fail
  <2>1. PICK x \in Chunk : Write(CloseBlock \o <<x>>)
    BY <1>7, ChunkTypes DEF MessageEnd, Fail
  <2>2. out' \in Seq(Chunk)
    <3>1. CloseBlock \o <<x>> \in Seq(Chunk)
      BY CloseBlockType
    <3>2. QED
      BY <2>1, <3>1, WriteSome
  <2>3. QED
    BY <1>7, <2>2 DEF MessageEnd, Fail, StreamInv, TypeOK, Current
<1>8. CASE UNCHANGED vars
  BY <1>8 DEF vars, StreamInv, TypeOK, Current
<1>9. QED
  BY <1>1, <1>2, <1>3, <1>4, <1>5, <1>6, <1>7, <1>8, ChatFragmentKeeps, MessageFragmentKeeps
  DEF Next

LEMMA StreamHolds == Spec => []StreamInv
  BY InitStream, NextStream, PTL DEF Spec

(***************************************************************************)
(* The type invariant of both streams.                                     *)
(***************************************************************************)
THEOREM StreamTypeCorrect == Spec => []TypeOK
<1>1. StreamInv => TypeOK
  BY DEF StreamInv
<1>2. QED
  BY <1>1, StreamHolds, PTL

-----------------------------------------------------------------------------
(***************************************************************************)
(* Positions: the handler goes through them in order, and what it has read *)
(* stays as it was.                                                        *)
(***************************************************************************)
PositionsOf(u, n) ==
    {p \in UNION {{m} \X DOMAIN u[m].calls : m \in DOMAIN u} : p[1] < Len(u) \/ p[2] < n}

LEMMA PositionsAre ==
    ASSUME NEW u \in Seq(Events), NEW n
    PROVE  \A p : p \in PositionsOf(u, n) <=>
              \E k \in 1..Len(u) : \E l \in 1..Len(u[k].calls) :
                 p = <<k, l>> /\ (k < Len(u) \/ l < n)
<1>1. \A k \in 1..Len(u) : DOMAIN u[k].calls = 1..Len(u[k].calls)
  <2>1. \A k \in 1..Len(u) : u[k] \in Events
    OBVIOUS
  <2>2. QED
    BY <2>1, EventType
<1>2. DOMAIN u = 1..Len(u)
  OBVIOUS
<1>3. QED
  BY <1>1, <1>2 DEF PositionsOf

\* In the state of now, and of next.
LEMMA PositionsAreOf ==
    /\ Positions = PositionsOf(upstream, next)
    /\ Positions' = PositionsOf(upstream', next')
  BY DEF Positions, PositionsOf

LEMMA PositionType ==
    ASSUME NEW u \in Seq(Events), NEW n, NEW p \in PositionsOf(u, n)
    PROVE  /\ p = <<p[1], p[2]>> /\ p \in Position
           /\ p[1] \in 1..Len(u) /\ p[2] \in 1..Len(u[p[1]].calls)
           /\ p[1] < Len(u) \/ p[2] < n
           /\ u[p[1]] \in Events /\ u[p[1]].calls[p[2]] \in Fragment
           /\ Len(u) \in Nat /\ Len(u[p[1]].calls) \in Nat
<1>1. PICK k \in 1..Len(u) : \E l \in 1..Len(u[k].calls) :
         p = <<k, l>> /\ (k < Len(u) \/ l < n)
  BY PositionsAre
<1>2. PICK l \in 1..Len(u[k].calls) :
         p = <<k, l>> /\ (k < Len(u) \/ l < n)
  BY <1>1
<1>3. u[k] \in Events /\ Len(u) \in Nat
  OBVIOUS
<1>4. u[k].calls \in Seq(Fragment) /\ Len(u[k].calls) \in Nat
  BY <1>3, EventType
<1>5. u[k].calls[l] \in Fragment
  BY <1>4
<1>6. QED
  BY <1>2, <1>3, <1>4, <1>5 DEF Position

\* A new event; its fragments count as read if the handler passes over them.
LEMMA ReceivePositions ==
    ASSUME StreamInv, pc = "read", NEW e \in Events, Receive(e),
           next' \in {1, Len(e.calls) + 1}
    PROVE  /\ Positions \subseteq Positions'
           /\ \A p \in Positions :
                /\ FragmentAt(p)' = FragmentAt(p)
                /\ upstream'[p[1]] = upstream[p[1]]
                /\ p[1] \in 1..Len(upstream)
           /\ \A p \in Positions' : p \notin Positions =>
                p[1] = Len(upstream) + 1 /\ upstream'[p[1]] = e /\ next' # 1
<1>1. /\ upstream \in Seq(Events) /\ upstream' \in Seq(Events)
      /\ Len(upstream) \in Nat /\ Len(e.calls) \in Nat
      /\ Len(upstream') = Len(upstream) + 1
      /\ \A n \in 1..Len(upstream) : upstream'[n] = upstream[n]
      /\ upstream'[Len(upstream) + 1] = e
  BY ReceiveType, EventType DEF StreamInv, TypeOK, Current
<1>2. ASSUME NEW p \in Positions
      PROVE  /\ FragmentAt(p)' = FragmentAt(p) /\ upstream'[p[1]] = upstream[p[1]]
             /\ p \in Positions' /\ p[1] \in 1..Len(upstream)
  <2>1. /\ p = <<p[1], p[2]>>
        /\ p[1] \in 1..Len(upstream) /\ p[2] \in 1..Len(upstream[p[1]].calls)
    BY <1>1, PositionType, PositionsAreOf
  <2>2. upstream'[p[1]] = upstream[p[1]]
    BY <1>1, <2>1
  <2>3. p[1] \in 1..Len(upstream') /\ p[1] < Len(upstream')
    BY <1>1, <2>1
  <2>4. p \in PositionsOf(upstream', next')
    BY <1>1, <2>1, <2>2, <2>3, PositionsAre
  <2>5. QED
    BY <2>1, <2>2, <2>4, PositionsAreOf DEF FragmentAt
<1>3. ASSUME NEW p \in Positions', p \notin Positions
      PROVE  p[1] = Len(upstream) + 1 /\ next' # 1
  <2>1. /\ p = <<p[1], p[2]>>
        /\ p[1] \in 1..Len(upstream') /\ p[2] \in 1..Len(upstream'[p[1]].calls)
        /\ p[1] < Len(upstream') \/ p[2] < next'
        /\ Len(upstream'[p[1]].calls) \in Nat
    BY <1>1, PositionType, PositionsAreOf
  <2>2. CASE p[1] \in 1..Len(upstream)
    <3>1. upstream'[p[1]] = upstream[p[1]]
      BY <1>1, <2>2
    <3>2. p[1] < Len(upstream) \/ p[2] < next
      BY <1>1, <2>1, <2>2, <3>1 DEF StreamInv, Current
    <3>3. p \in PositionsOf(upstream, next)
      BY <1>1, <2>1, <2>2, <3>1, <3>2, PositionsAre
    <3>4. QED
      BY <1>3, <3>3, PositionsAreOf
  <2>3. CASE p[1] = Len(upstream) + 1
    BY <1>1, <2>1, <2>3
  <2>4. QED
    BY <1>1, <2>1, <2>2, <2>3
<1>4. QED
  BY <1>1, <1>2, <1>3

\* The loop over the fragments goes one on.
LEMMA AdvancePositions ==
    ASSUME StreamInv, pc = "fragments", Advance
    PROVE  /\ Positions' = Positions \cup {Here} /\ Here \notin Positions
           /\ FragmentAt(Here) = Current.calls[next] /\ ~upstream[Here[1]].content
           /\ \A p \in Positions : Before(p, Here) /\ p[1] \in 1..Len(upstream)
           /\ \A p : FragmentAt(p)' = FragmentAt(p)
           /\ upstream' = upstream
<1>1. /\ upstream \in Seq(Events) /\ upstream' = upstream /\ next' = next + 1
      /\ Len(upstream) \in Nat \ {0} /\ next \in Nat /\ Len(Current.calls) \in Nat
      /\ next \in 1..Len(Current.calls)
      /\ Here = <<Len(upstream), next>> /\ Current = upstream[Len(upstream)]
      /\ ~Current.content
  BY FragmentType, EventType DEF Advance, StreamInv, TypeOK, Here, Current
<1>2. \A p : p \in PositionsOf(upstream, next + 1) <=> p \in PositionsOf(upstream, next) \/ p = Here
  <2>1. ASSUME NEW p, p \in PositionsOf(upstream, next + 1)
        PROVE  p \in PositionsOf(upstream, next) \/ p = Here
    <3>1. /\ p = <<p[1], p[2]>>
          /\ p[1] \in 1..Len(upstream) /\ p[2] \in 1..Len(upstream[p[1]].calls)
          /\ p[1] < Len(upstream) \/ p[2] < next + 1
          /\ Len(upstream[p[1]].calls) \in Nat
      BY <1>1, <2>1, PositionType
    <3>2. p[1] < Len(upstream) \/ p[2] < next \/ p = Here
      BY <1>1, <3>1
    <3>3. QED
      BY <1>1, <3>1, <3>2, PositionsAre
  <2>2. ASSUME NEW p, p \in PositionsOf(upstream, next)
        PROVE  p \in PositionsOf(upstream, next + 1)
    <3>1. /\ p = <<p[1], p[2]>>
          /\ p[1] \in 1..Len(upstream) /\ p[2] \in 1..Len(upstream[p[1]].calls)
          /\ p[1] < Len(upstream) \/ p[2] < next
          /\ Len(upstream[p[1]].calls) \in Nat
      BY <1>1, <2>2, PositionType
    <3>2. p[1] < Len(upstream) \/ p[2] < next + 1
      BY <1>1, <3>1
    <3>3. QED
      BY <1>1, <3>1, <3>2, PositionsAre
  <2>3. Here \in PositionsOf(upstream, next + 1)
    BY <1>1, PositionsAre
  <2>4. QED
    BY <2>1, <2>2, <2>3
<1>3. ASSUME NEW p \in Positions
      PROVE  Before(p, Here) /\ p[1] \in 1..Len(upstream) /\ p # Here
  <2>1. /\ p = <<p[1], p[2]>> /\ p[1] \in 1..Len(upstream) /\ p[2] \in 1..Len(upstream[p[1]].calls)
        /\ p[1] < Len(upstream) \/ p[2] < next
        /\ Len(upstream[p[1]].calls) \in Nat
    BY <1>1, PositionType, PositionsAreOf
  <2>2. QED
    BY <1>1, <2>1 DEF Before
<1>4. Positions' = Positions \cup {Here}
  BY <1>1, <1>2, PositionsAreOf
<1>5. QED
  BY <1>1, <1>3, <1>4 DEF FragmentAt

-----------------------------------------------------------------------------
(***************************************************************************)
(* The parts of the arguments.  Each part that was read is in one call,    *)
(* emitted or pending, a pending call has parts of its own index, and the  *)
(* parts of a call are in order.                                           *)
(***************************************************************************)
Read == {p \in Positions : FragmentAt(p).args /\ ~upstream[p[1]].content}

Ordered(c) ==
    \A k, l \in 1..Len(c.args) :
        k < l => /\ Before(c.args[k], c.args[l])
                 /\ FragmentAt(c.args[k]).index = FragmentAt(c.args[l]).index

Parts(c) == ElementsOf(c.args)

Begun(i) == pending[i] # NoCall

PartInv ==
    /\ \A i \in Indexes : Begun(i) =>
         /\ Ordered(pending[i])
         /\ \A p \in Parts(pending[i]) : p \in Read /\ FragmentAt(p).index = i
    /\ \A j \in Written("call") : Ordered(out[j].call) /\ Parts(out[j].call) \subseteq Read
    /\ \A j, k \in Written("call") : j # k =>
         \A p \in Parts(out[j].call) : p \notin Parts(out[k].call)
    /\ \A j \in Written("call"), i \in Indexes : Begun(i) =>
         \A p \in Parts(pending[i]) : p \notin Parts(out[j].call)
    /\ \A p \in Read :
         \/ \E j \in Written("call") : p \in Parts(out[j].call)
         \/ \E i \in Indexes : Begun(i) /\ p \in Parts(pending[i])

\* Texts come from events that the handler has read, before any part that is pending.
TextInv ==
    /\ \A j \in Written("text") :
         out[j].at \in 1..Len(upstream) /\ upstream[out[j].at].content
    /\ TextAfterItsCalls
    /\ \A j \in Written("text"), i \in Indexes : Begun(i) =>
         \A p \in Parts(pending[i]) : out[j].at < p[1]

ChatStream == endpoint = "chat" => PartInv /\ TextInv

LEMMA WrittenType ==
    ASSUME TypeOK
    PROVE  /\ \A j \in Written("call") : j \in 1..Len(out) /\ out[j].call \in Call
           /\ \A j \in Written("text") : j \in 1..Len(out) /\ out[j].at \in Nat
  BY DEF TypeOK, Written, Chunk

LEMMA InitChat == Init => ChatStream
<1> SUFFICES ASSUME Init PROVE PartInv /\ TextInv
  BY DEF ChatStream
<1>1. \A k : Written(k) = {}
  BY DEF Init, Written
<1>2. \A i \in Indexes : ~Begun(i)
  BY DEF Init, Begun
<1>3. Positions = {}
  BY DEF Init, StreamInit, Positions
<1>4. QED
  BY <1>1, <1>2, <1>3 DEF PartInv, TextInv, TextAfterItsCalls, Read

\* Nothing happens to calls, and what is read has no new parts.
LEMMA CallsStay ==
    ASSUME StreamInv, PartInv, TextAfterItsCalls, pending' = pending,
           Written("call")' = Written("call"),
           \A j \in Written("call") : out'[j] = out[j],
           Read' = Read, \A p \in Positions : FragmentAt(p)' = FragmentAt(p)
    PROVE  PartInv'
<1>1. ASSUME NEW c \in Call, Parts(c) \subseteq Read, Ordered(c)
      PROVE  Ordered(c)'
  <2>1. \A k \in 1..Len(c.args) : FragmentAt(c.args[k])' = FragmentAt(c.args[k])
    BY <1>1 DEF Parts, ElementsOf, Read
  <2>2. QED
    BY <1>1, <2>1 DEF Ordered, Before
<1>2. \A i \in Indexes : pending[i] \in Call /\ (Begun(i)' <=> Begun(i))
  BY DEF StreamInv, TypeOK, Begun
<1>3. \A j \in Written("call") : out[j].call \in Call
  BY WrittenType DEF StreamInv
<1>4. \A p \in Read : FragmentAt(p)' = FragmentAt(p)
  BY DEF Read
<1>5. \A i \in Indexes : Begun(i) => Ordered(pending[i])'
  BY <1>1, <1>2 DEF PartInv
<1>6. \A j \in Written("call") : Ordered(out[j].call)'
  BY <1>1, <1>3 DEF PartInv
<1>7. QED
  BY <1>2, <1>4, <1>5, <1>6 DEF PartInv

LEMMA ReceiveChat ==
    ASSUME StreamInv, ChatStream, NEW e \in Events, ChatContent(e) \/ ChatFragments(e)
    PROVE  ChatStream'
<1>1. /\ pc = "read" /\ endpoint = "chat" /\ endpoint' = endpoint /\ Receive(e)
      /\ UNCHANGED <<pending, out>>
      /\ next' \in {1, Len(e.calls) + 1} /\ (e.content \/ next' = 1)
  BY DEF ChatContent, ChatFragments
<1>2. /\ Positions \subseteq Positions'
      /\ \A p \in Positions :
           /\ FragmentAt(p)' = FragmentAt(p)
           /\ upstream'[p[1]] = upstream[p[1]]
           /\ p[1] \in 1..Len(upstream)
      /\ \A p \in Positions' : p \notin Positions =>
           upstream'[p[1]] = e /\ next' # 1
  BY <1>1, ReceivePositions
<1>3. Read' = Read
  BY <1>1, <1>2 DEF Read
<1>4. \A k : Written(k)' = Written(k)
  BY <1>1 DEF Written
<1>5. PartInv'
  BY <1>1, <1>2, <1>3, <1>4, CallsStay DEF ChatStream, TextInv
<1>6. TextInv'
  <2>1. \A n \in 1..Len(upstream) : n \in 1..Len(upstream') /\ upstream'[n] = upstream[n]
    BY <1>1, ReceiveType DEF StreamInv, TypeOK
  <2>2. QED
    BY <1>1, <1>4, <2>1 DEF ChatStream, TextInv, TextAfterItsCalls, Begun, Parts
<1>7. QED
  BY <1>5, <1>6 DEF ChatStream

LEMMA EmitPendingChat ==
    ASSUME StreamInv, ChatStream, NEW i \in Indexes, EmitPending(i)
    PROVE  ChatStream'
<1> DEFINE x == [kind |-> "call", call |-> pending[i]]
           new == Len(out) + 1
<1>1. /\ endpoint = "chat" /\ Begun(i) /\ Write(<<x>>)
      /\ pending' = [pending EXCEPT ![i] = NoCall]
      /\ UNCHANGED <<upstream, next>>
      /\ PartInv /\ TextInv
  BY DEF EmitPending, Begun, ChatStream
<1>2. out \in Seq(Chunk) /\ x \in Chunk
  BY ChunkTypes DEF StreamInv, TypeOK
<1>3. /\ Len(out) \in Nat
      /\ \A j \in 1..Len(out) : out'[j] = out[j]
      /\ out'[new] = x
      /\ Written("call")' = Written("call") \cup {new}
      /\ Written("text")' = Written("text")
  <2>1. /\ Written("call")' = Written("call") \cup (IF x.kind = "call" THEN {new} ELSE {})
        /\ Written("text")' = Written("text") \cup (IF x.kind = "text" THEN {new} ELSE {})
    BY <1>1, <1>2, WriteOne
  <2>2. QED
    BY <1>1, <1>2, <2>1, WriteOne
<1>4. \A k \in Indexes : (Begun(k)' <=> Begun(k) /\ k # i) /\ (k # i => pending'[k] = pending[k])
  BY <1>1 DEF StreamInv, TypeOK, Begun
<1>5. /\ Read' = Read
      /\ \A p : FragmentAt(p)' = FragmentAt(p)
      /\ \A c : Ordered(c)' <=> Ordered(c)
      /\ \A c : Parts(c)' = Parts(c)
  BY <1>1 DEF Read, Positions, FragmentAt, Ordered, Parts
<1>6. /\ \A j \in Written("call") \cup Written("text") : j \in 1..Len(out)
      /\ \A k \in 1..Len(out) : k < new
  BY <1>3 DEF Written
<1>7. x.call = pending[i]
  OBVIOUS
<1> HIDE DEF x, new
<1>8. PartInv'
  <2>1. \A k \in Indexes : Begun(k)' =>
         /\ Ordered(pending'[k])
         /\ \A p \in Parts(pending'[k]) : p \in Read /\ FragmentAt(p).index = k
    BY <1>1, <1>4 DEF PartInv
  <2>0. /\ \A j \in Written("call") : out'[j].call = out[j].call /\ j # new
        /\ out'[new].call = pending[i]
    BY <1>3, <1>6, <1>7
  <2>2. \A j \in Written("call")' : Ordered(out'[j].call) /\ Parts(out'[j].call) \subseteq Read
    <3>1. Ordered(pending[i]) /\ Parts(pending[i]) \subseteq Read
      BY <1>1 DEF PartInv
    <3>2. QED
      BY <1>1, <1>3, <2>0, <3>1 DEF PartInv
  <2>3. ASSUME NEW j \in Written("call")', NEW k \in Written("call")', j # k,
               NEW p \in Parts(out'[j].call)
        PROVE  p \notin Parts(out'[k].call)
    <3>1. CASE j = new
      BY <1>1, <1>3, <2>0, <2>3, <3>1 DEF PartInv
    <3>2. CASE k = new
      BY <1>1, <1>3, <2>0, <2>3, <3>2 DEF PartInv
    <3>3. CASE j \in Written("call") /\ k \in Written("call")
      BY <1>1, <2>0, <2>3, <3>3 DEF PartInv
    <3>4. QED
      BY <1>3, <3>1, <3>2, <3>3
  <2>4. ASSUME NEW j \in Written("call")', NEW k \in Indexes, Begun(k)',
               NEW p \in Parts(pending'[k])
        PROVE  p \notin Parts(out'[j].call)
    <3>1. Begun(k) /\ k # i /\ p \in Parts(pending[k])
      BY <1>4, <2>4
    <3>2. CASE j = new
      BY <1>1, <2>0, <3>1, <3>2 DEF PartInv
    <3>3. CASE j \in Written("call")
      BY <1>1, <2>0, <3>1, <3>3 DEF PartInv
    <3>4. QED
      BY <1>3, <3>2, <3>3
  <2>5. \A p \in Read :
         \/ \E j \in Written("call")' : p \in Parts(out'[j].call)
         \/ \E k \in Indexes : Begun(k)' /\ p \in Parts(pending'[k])
    BY <1>1, <1>3, <1>4, <1>6, <1>7 DEF PartInv
  <2>6. QED
    BY <1>5, <2>1, <2>2, <2>3, <2>4, <2>5 DEF PartInv
<1>9. TextInv'
  BY <1>1, <1>3, <1>4, <1>5, <1>6, <1>7 DEF TextInv, TextAfterItsCalls, Parts
<1>10. QED
  BY <1>8, <1>9 DEF ChatStream

\* The end, the failure, and the text once no call is pending.
LEMMA OtherChunk ==
    ASSUME StreamInv, ChatStream, endpoint = "chat", UNCHANGED <<upstream, next, pending>>,
           NEW x \in Chunk, Write(<<x>>),
           \/ x.kind \notin {"text", "call"}
           \/ /\ x = [kind |-> "text", at |-> Len(upstream)]
              /\ NonePending /\ upstream # <<>> /\ Current.content
    PROVE  ChatStream'
<1> DEFINE new == Len(out) + 1
<1>1. /\ out \in Seq(Chunk) /\ Len(out) \in Nat
      /\ \A j \in 1..Len(out) : out'[j] = out[j]
      /\ out'[new] = x
      /\ \A k : Written(k)' = Written(k) \cup (IF x.kind = k THEN {new} ELSE {})
  BY WriteOne DEF StreamInv, TypeOK
<1>2. Written("call")' = Written("call")
  <2>1. x.kind # "call"
    OBVIOUS
  <2>2. Written("call")' = Written("call") \cup (IF x.kind = "call" THEN {new} ELSE {})
    BY <1>1
  <2>3. QED
    BY <2>1, <2>2
<1>3. /\ \A j \in Written("call") \cup Written("text") : j \in 1..Len(out) /\ out'[j] = out[j]
      /\ \A k \in 1..Len(out) : k < new
  BY <1>1 DEF Written
<1>4. Read' = Read /\ \A p : FragmentAt(p)' = FragmentAt(p)
  BY DEF Read, Positions, FragmentAt
<1>5. PartInv'
  BY <1>2, <1>3, <1>4, CallsStay DEF ChatStream, TextInv
<1>6. TextInv'
  <2>1. /\ \A i \in Indexes : (Begun(i)' <=> Begun(i))
        /\ \A c : Parts(c)' = Parts(c)
    BY DEF Begun, Parts
  <2>2. CASE x.kind \notin {"text", "call"}
    <3>1. Written("text")' = Written("text")
      BY <1>1, <2>2
    <3>2. QED
      BY <1>2, <1>3, <2>1, <3>1 DEF ChatStream, TextInv, TextAfterItsCalls, Parts
  <2>3. CASE x = [kind |-> "text", at |-> Len(upstream)] /\ NonePending /\ upstream # <<>>
             /\ Current.content
    <3>1. Written("text")' = Written("text") \cup {new} /\ out'[new].at = Len(upstream)
      BY <1>1, <2>3
    <3>2. Len(upstream) \in 1..Len(upstream) /\ upstream[Len(upstream)].content
      BY <2>3 DEF StreamInv, TypeOK, Current
    <3>3. \A i \in Indexes : ~Begun(i)
      BY <2>3 DEF NonePending, Begun
    <3>4. \A j \in Written("call") : ~(new < j)
      BY <1>1, <1>3
    <3> HIDE DEF new
    <3>5. \A j \in Written("text")' :
            out'[j].at \in 1..Len(upstream) /\ upstream[out'[j].at].content
      BY <1>3, <3>1, <3>2 DEF ChatStream, TextInv
    <3>6. TextAfterItsCalls'
      BY <1>2, <1>3, <3>1, <3>4 DEF ChatStream, TextInv, TextAfterItsCalls
    <3>7. QED
      BY <2>1, <3>3, <3>5, <3>6 DEF TextInv
  <2>4. QED
    BY <2>2, <2>3
<1>7. QED
  BY <1>5, <1>6 DEF ChatStream

LEMMA PartsOfOne == \A p : ElementsOf(<<p>>) = {p} /\ ElementsOf(<<>>) = {}
<1>1. ASSUME NEW p
      PROVE  ElementsOf(<<p>>) = {p}
  <2>1. Len(<<p>>) = 1 /\ <<p>>[1] = p
    OBVIOUS
  <2>2. ElementsOf(<<p>>) = {<<p>>[k] : k \in 1..1}
    BY <2>1 DEF ElementsOf
  <2>3. QED
    BY <2>1, <2>2
<1>2. ElementsOf(<<>>) = {}
  BY DEF ElementsOf
<1>3. QED
  BY <1>1, <1>2

LEMMA PartsAppend ==
    ASSUME NEW s \in Seq(Position), NEW p
    PROVE  ElementsOf(s \o <<p>>) = ElementsOf(s) \cup {p}
<1>1. /\ Len(s \o <<p>>) = Len(s) + 1 /\ Len(s) \in Nat
      /\ \A k \in 1..Len(s) : (s \o <<p>>)[k] = s[k]
      /\ (s \o <<p>>)[Len(s) + 1] = p
  OBVIOUS
<1>2. QED
  BY <1>1 DEF ElementsOf

\* A later part of the same index is put at the end.
LEMMA OrderedAppend ==
    ASSUME NEW c \in Call, Ordered(c), NEW p, NEW i,
           \A r \in Parts(c) : Before(r, p) /\ FragmentAt(r).index = i,
           FragmentAt(p).index = i
    PROVE  Ordered([c EXCEPT !.args = @ \o <<p>>])
<1> DEFINE d == [c EXCEPT !.args = @ \o <<p>>]
<1>1. /\ c.args \in Seq(Position) /\ d.args = c.args \o <<p>>
      /\ Len(d.args) = Len(c.args) + 1 /\ Len(c.args) \in Nat
      /\ \A k \in 1..Len(c.args) : d.args[k] = c.args[k] /\ c.args[k] \in Parts(c)
      /\ d.args[Len(c.args) + 1] = p
  BY DEF Call, Parts, ElementsOf
<1> HIDE DEF d
<1>2. ASSUME NEW k \in 1..Len(d.args), NEW l \in 1..Len(d.args), k < l
      PROVE  Before(d.args[k], d.args[l]) /\ FragmentAt(d.args[k]).index = FragmentAt(d.args[l]).index
  <2>1. k \in 1..Len(c.args)
    BY <1>1, <1>2
  <2>2. CASE l \in 1..Len(c.args)
    BY <1>1, <1>2, <2>1, <2>2 DEF Ordered
  <2>3. CASE l = Len(c.args) + 1
    BY <1>1, <2>1, <2>3
  <2>4. QED
    BY <1>1, <2>2, <2>3
<1>3. Ordered(d)
  BY <1>2 DEF Ordered
<1>4. QED
  BY <1>3 DEF d

\* What a fragment does to the pending calls, and what it makes the handler emit.
LEMMA FragmentEffect ==
    ASSUME StreamInv, ChatStream, ChatFragment, NEW f, NEW i,
           f = Current.calls[next], i = f.index
    PROVE  /\ i \in Indexes
           /\ \A k \in Indexes \ {i} : pending'[k] = pending[k]
           /\ pending'[i] \in Call /\ Begun(i)' /\ Ordered(pending'[i])
           /\ \/ /\ ~f.head /\ Begun(i) /\ out' = out
                 /\ Parts(pending'[i]) = Parts(pending[i]) \cup (IF f.args THEN {Here} ELSE {})
                 /\ pending'[i].head = pending[i].head
              \/ /\ f.head \/ ~Begun(i)
                 /\ Parts(pending'[i]) = IF f.args THEN {Here} ELSE {}
                 /\ pending'[i].head = IF f.head THEN Here ELSE None
                 /\ IF Begun(i) THEN Write(<<[kind |-> "call", call |-> pending[i]]>>) ELSE out' = out
<1>1. /\ pc = "fragments" /\ endpoint = "chat" /\ i \in Indexes /\ f \in Fragment
      /\ Here \in Position /\ Here # None /\ Advance
      /\ PartInv /\ pending \in [Indexes -> Call]
  BY FragmentType DEF ChatFragment, StreamInv, TypeOK, ChatStream
<1>2. FragmentAt(Here) = f /\ \A p \in Positions : Before(p, Here)
  BY <1>1, AdvancePositions
<1>3. ASSUME NEW c \in Call
      PROVE  /\ [c EXCEPT !.args = @ \o Part(f)] \in Call
             /\ [c EXCEPT !.args = @ \o Part(f)].head = c.head
             /\ Parts([c EXCEPT !.args = @ \o Part(f)]) = Parts(c) \cup (IF f.args THEN {Here} ELSE {})
  <2>1. c.args \in Seq(Position)
    BY DEF Call
  <2>2. c.args \o Part(f) \in Seq(Position)
    BY <1>1, <2>1, PartType
  <2>3. ElementsOf(c.args \o Part(f)) = ElementsOf(c.args) \cup (IF f.args THEN {Here} ELSE {})
    <3>1. CASE f.args
      BY <2>1, <3>1, PartsAppend DEF Part
    <3>2. CASE ~f.args
      <4>1. c.args \o Part(f) = c.args
        BY <2>1, <3>2 DEF Part
      <4>2. QED
        BY <3>2, <4>1
    <3>3. QED
      BY <3>1, <3>2
  <2>4. /\ [c EXCEPT !.args = @ \o Part(f)] \in Call
        /\ [c EXCEPT !.args = @ \o Part(f)].head = c.head
        /\ [c EXCEPT !.args = @ \o Part(f)].args = c.args \o Part(f)
    BY <2>2 DEF Call
  <2>5. QED
    BY <2>3, <2>4 DEF Parts
<1>4. CASE ~f.head /\ Begun(i)
  <2> DEFINE d == [pending[i] EXCEPT !.args = @ \o Part(f)]
  <2>1. pending' = [pending EXCEPT ![i] = d] /\ out' = out /\ pending[i] \in Call
    BY <1>1, <1>4 DEF ChatFragment, Begun
  <2>2. /\ d \in Call /\ d.head = pending[i].head
        /\ Parts(d) = Parts(pending[i]) \cup (IF f.args THEN {Here} ELSE {})
    BY <1>3, <2>1
  <2>3. Ordered(pending[i]) /\ \A p \in Parts(pending[i]) : p \in Positions /\ FragmentAt(p).index = i
    BY <1>1, <1>4 DEF PartInv, Read
  <2>4. CASE f.args
    <3>1. d = [pending[i] EXCEPT !.args = @ \o <<Here>>]
      BY <2>4 DEF Part
    <3>2. Ordered(d)
      <4>1. \A r \in Parts(pending[i]) : Before(r, Here) /\ FragmentAt(r).index = i
        BY <1>2, <2>3
      <4>2. FragmentAt(Here).index = i
        BY <1>2
      <4> HIDE DEF d
      <4>3. Ordered([pending[i] EXCEPT !.args = @ \o <<Here>>])
        BY <2>1, <2>3, <4>1, <4>2, OrderedAppend
      <4>4. QED
        BY <3>1, <4>3
    <3>3. Here \in Parts(d) /\ Parts(NoCall) = {None}
      <4>1. ElementsOf(<<None>>) = {None}
        BY PartsOfOne
      <4>2. QED
        BY <2>2, <2>4, <4>1 DEF Parts, NoCall
    <3>4. d # NoCall
      BY <1>1, <3>3
    <3> HIDE DEF d
    <3>5. QED
      BY <1>1, <1>4, <2>1, <2>2, <3>2, <3>4 DEF Begun
  <2>5. CASE ~f.args
    <3>1. d = pending[i]
      <4>1. pending[i].args \o Part(f) = pending[i].args
        BY <2>1, <2>5 DEF Part, Call
      <4>2. QED
        BY <2>1, <4>1 DEF Call
    <3> HIDE DEF d
    <3>2. QED
      BY <1>1, <1>4, <2>1, <2>2, <2>3, <3>1 DEF Begun
  <2>6. QED
    BY <2>4, <2>5
<1>5. CASE f.head \/ ~Begun(i)
  <2> DEFINE d == [head |-> IF f.head THEN Here ELSE None, args |-> Part(f)]
  <2>1. /\ pending' = [pending EXCEPT ![i] = d]
        /\ Write(IF pending[i] = NoCall THEN <<>> ELSE <<[kind |-> "call", call |-> pending[i]]>>)
    BY <1>1, <1>5 DEF ChatFragment, Begun
  <2>2. d \in Call
    BY <1>1, PartType, NoCallType DEF Call
  <2>3. Parts(d) = (IF f.args THEN {Here} ELSE {}) /\ Len(d.args) \in {0, 1}
    <3>1. Part(f) \in {<<>>, <<Here>>} /\ (f.args <=> Part(f) = <<Here>>)
      BY DEF Part
    <3>2. ElementsOf(<<Here>>) = {Here} /\ ElementsOf(<<>>) = {}
      BY PartsOfOne
    <3>3. Len(<<Here>>) = 1 /\ Len(<<>>) = 0
      OBVIOUS
    <3>4. QED
      BY <3>1, <3>2, <3>3 DEF Parts
  <2>4. Ordered(d)
    BY <2>3 DEF Ordered
  <2>5. d # NoCall
    <3>1. NoCall.args = <<None>>
      BY DEF NoCall
    <3>2. d.args \in {<<>>, <<Here>>}
      BY DEF Part
    <3>3. <<None>> # <<>> /\ <<None>> # <<Here>>
      BY <1>1
    <3>4. QED
      BY <3>1, <3>2, <3>3
  <2>6. d.head = IF f.head THEN Here ELSE None
    OBVIOUS
  <2> HIDE DEF d
  <2>7. ~Begun(i) => out' = out
    BY <1>1, <2>1 DEF Write, Begun, StreamInv, TypeOK
  <2>8. Begun(i) => Write(<<[kind |-> "call", call |-> pending[i]]>>)
    BY <2>1 DEF Begun
  <2>9. QED
    BY <1>1, <1>5, <2>1, <2>2, <2>3, <2>4, <2>5, <2>6, <2>7, <2>8 DEF Begun
<1>6. QED
  BY <1>4, <1>5

\* The calls of a chat stream after a fragment: written, and pending.
LEMMA FragmentChat ==
    ASSUME StreamInv, ChatStream, ChatFragment, NEW f, NEW i,
           f = Current.calls[next], i = f.index
    PROVE  ChatStream'
<1> DEFINE x == [kind |-> "call", call |-> pending[i]]
           new == Len(out) + 1
           part == IF f.args THEN {Here} ELSE {}
<1>1. /\ pc = "fragments" /\ endpoint = "chat" /\ endpoint' = endpoint /\ Advance
      /\ PartInv /\ TextInv /\ i \in Indexes
      /\ pending \in [Indexes -> Call] /\ out \in Seq(Chunk) /\ Len(out) \in Nat
  <2>1. /\ pc = "fragments" /\ endpoint = "chat" /\ Advance
        /\ pending \in [Indexes -> Call] /\ out \in Seq(Chunk)
    BY DEF ChatFragment, StreamInv, TypeOK
  <2>2. i \in Indexes
    BY <2>1, FragmentType DEF StreamInv
  <2>3. QED
    BY <2>1, <2>2 DEF Advance, ChatStream
<1>2. /\ Positions' = Positions \cup {Here} /\ Here \notin Positions
      /\ FragmentAt(Here) = f /\ ~upstream[Here[1]].content
      /\ \A p \in Positions : Before(p, Here)
      /\ \A p : FragmentAt(p)' = FragmentAt(p)
      /\ upstream' = upstream /\ Here[1] = Len(upstream)
  BY <1>1, AdvancePositions, FragmentType DEF StreamInv
<1>3. /\ \A k \in Indexes \ {i} : pending'[k] = pending[k]
      /\ pending'[i] \in Call /\ Begun(i)' /\ Ordered(pending'[i])
      /\ \/ /\ ~f.head /\ Begun(i) /\ out' = out
            /\ Parts(pending'[i]) = Parts(pending[i]) \cup part
         \/ /\ f.head \/ ~Begun(i)
            /\ Parts(pending'[i]) = part
            /\ IF Begun(i) THEN Write(<<x>>) ELSE out' = out
  BY FragmentEffect
<1>4. Read' = Read \cup part /\ (\A p \in part : p \notin Read)
  BY <1>2 DEF Read
<1>5. /\ \A c : Ordered(c)' <=> Ordered(c)
      /\ \A c : Parts(c)' = Parts(c)
  BY <1>2 DEF Ordered, Parts
<1>6. \A k \in Indexes \ {i} : Begun(k)' <=> Begun(k)
  BY <1>3 DEF Begun
<1>7. \A p \in part : FragmentAt(p).index = i
  BY <1>2
<1>8. x.call = pending[i] /\ (\A k \in 1..Len(out) : k # new /\ k < new)
      /\ \A j \in Written("call") \cup Written("text") : j \in 1..Len(out)
  BY <1>1 DEF Written
<1>9. ASSUME Write(<<x>>)
      PROVE  /\ \A j \in 1..Len(out) : out'[j] = out[j]
             /\ out'[new].call = pending[i]
             /\ Written("call")' = Written("call") \cup {new}
             /\ Written("text")' = Written("text")
  <2>1. x \in Chunk /\ x.kind = "call"
    BY <1>1, ChunkTypes
  <2>2. /\ \A j \in 1..Len(out) : out'[j] = out[j]
        /\ out'[new] = x
        /\ Written("call")' = Written("call") \cup (IF x.kind = "call" THEN {new} ELSE {})
        /\ Written("text")' = Written("text") \cup (IF x.kind = "text" THEN {new} ELSE {})
    BY <1>1, <1>9, <2>1, WriteOne
  <2> HIDE DEF x, new
  <2>3. QED
    BY <1>8, <2>1, <2>2
<1>10. out' = out => \A k : Written(k)' = Written(k)
  BY DEF Written
<1>11. \A p \in Parts(pending[i]) : Begun(i) => p \in Read /\ FragmentAt(p).index = i /\ p \notin part
  BY <1>1, <1>4 DEF PartInv
<1> HIDE DEF x, new, part
<1>12. CASE ~f.head /\ Begun(i) /\ out' = out /\ Parts(pending'[i]) = Parts(pending[i]) \cup part
  <2>1. \A k \in Indexes : Begun(k)' =>
          /\ Ordered(pending'[k])
          /\ \A p \in Parts(pending'[k]) : p \in Read \cup part /\ FragmentAt(p).index = k
    BY <1>1, <1>3, <1>6, <1>7, <1>11, <1>12 DEF PartInv
  <2>2. \A j \in Written("call"), k \in Indexes : Begun(k)' =>
          \A p \in Parts(pending'[k]) : p \notin Parts(out[j].call)
    <3>1. \A j \in Written("call") : \A p \in part : p \notin Parts(out[j].call)
      BY <1>1, <1>4 DEF PartInv
    <3>2. QED
      BY <1>1, <1>3, <1>6, <1>12, <3>1 DEF PartInv
  <2>3. \A p \in Read \cup part :
          \/ \E j \in Written("call") : p \in Parts(out[j].call)
          \/ \E k \in Indexes : Begun(k)' /\ p \in Parts(pending'[k])
    <3>1. \A k \in Indexes : Begun(k) => Begun(k)' /\ Parts(pending[k]) \subseteq Parts(pending'[k])
      BY <1>3, <1>6, <1>12
    <3>2. \A p \in part : i \in Indexes /\ Begun(i)' /\ p \in Parts(pending'[i])
      BY <1>1, <1>3, <1>12
    <3>3. QED
      BY <1>1, <3>1, <3>2 DEF PartInv
  <2>4. /\ \A j \in Written("call") : Ordered(out[j].call) /\ Parts(out[j].call) \subseteq Read
        /\ \A j, k \in Written("call") : j # k =>
             \A p \in Parts(out[j].call) : p \notin Parts(out[k].call)
    BY <1>1 DEF PartInv
  <2>5. PartInv'
    <3>1. Written("call")' = Written("call") /\ out' = out /\ Read' = Read \cup part
      BY <1>4, <1>10, <1>12
    <3>2. \A j \in Written("call")' :
            Ordered(out'[j].call) /\ Parts(out'[j].call) \subseteq Read
      BY <2>4, <3>1
    <3>3. \A j, k \in Written("call")' : j # k =>
            \A p \in Parts(out'[j].call) : p \notin Parts(out'[k].call)
      BY <2>4, <3>1
    <3>4. \A j \in Written("call")', k \in Indexes : Begun(k)' =>
            \A p \in Parts(pending'[k]) : p \notin Parts(out'[j].call)
      BY <2>2, <3>1
    <3>5. \A p \in Read \cup part :
            \/ \E j \in Written("call")' : p \in Parts(out'[j].call)
            \/ \E k \in Indexes : Begun(k)' /\ p \in Parts(pending'[k])
      BY <2>3, <3>1
    <3>6. QED
      BY <1>2, <1>4, <1>5, <2>1, <3>2, <3>3, <3>4, <3>5 DEF PartInv
  <2>6. \A j \in Written("text"), k \in Indexes : Begun(k)' =>
          \A p \in Parts(pending'[k]) : out[j].at < p[1]
    <3>1. \A j \in Written("text") : \A p \in part : out[j].at < p[1]
      BY <1>1, <1>2 DEF TextInv, part
    <3>2. QED
      BY <1>1, <1>3, <1>6, <1>12, <3>1 DEF TextInv
  <2>7. TextInv'
    BY <1>1, <1>2, <1>5, <1>10, <1>12, <2>6 DEF TextInv, TextAfterItsCalls, Parts
  <2>8. QED
    BY <2>5, <2>7 DEF ChatStream
<1>13. CASE Parts(pending'[i]) = part /\ ~Begun(i) /\ out' = out
  <2>1. \A k \in Indexes : Begun(k)' =>
          /\ Ordered(pending'[k])
          /\ \A p \in Parts(pending'[k]) : p \in Read \cup part /\ FragmentAt(p).index = k
    BY <1>1, <1>3, <1>6, <1>7, <1>13 DEF PartInv
  <2>2. \A j \in Written("call"), k \in Indexes : Begun(k)' =>
          \A p \in Parts(pending'[k]) : p \notin Parts(out[j].call)
    <3>1. \A j \in Written("call") : \A p \in part : p \notin Parts(out[j].call)
      BY <1>1, <1>4 DEF PartInv
    <3>2. QED
      BY <1>1, <1>3, <1>6, <1>13, <3>1 DEF PartInv
  <2>3. \A p \in Read \cup part :
          \/ \E j \in Written("call") : p \in Parts(out[j].call)
          \/ \E k \in Indexes : Begun(k)' /\ p \in Parts(pending'[k])
    <3>1. \A k \in Indexes : Begun(k) => Begun(k)' /\ Parts(pending[k]) \subseteq Parts(pending'[k])
      BY <1>3, <1>6, <1>13
    <3>2. \A p \in part : i \in Indexes /\ Begun(i)' /\ p \in Parts(pending'[i])
      BY <1>1, <1>3, <1>13
    <3>3. QED
      BY <1>1, <3>1, <3>2 DEF PartInv
  <2>4. /\ \A j \in Written("call") : Ordered(out[j].call) /\ Parts(out[j].call) \subseteq Read
        /\ \A j, k \in Written("call") : j # k =>
             \A p \in Parts(out[j].call) : p \notin Parts(out[k].call)
    BY <1>1 DEF PartInv
  <2>5. PartInv'
    <3>1. Written("call")' = Written("call") /\ out' = out /\ Read' = Read \cup part
      BY <1>4, <1>10, <1>13
    <3>2. \A j \in Written("call")' :
            Ordered(out'[j].call) /\ Parts(out'[j].call) \subseteq Read
      BY <2>4, <3>1
    <3>3. \A j, k \in Written("call")' : j # k =>
            \A p \in Parts(out'[j].call) : p \notin Parts(out'[k].call)
      BY <2>4, <3>1
    <3>4. \A j \in Written("call")', k \in Indexes : Begun(k)' =>
            \A p \in Parts(pending'[k]) : p \notin Parts(out'[j].call)
      BY <2>2, <3>1
    <3>5. \A p \in Read \cup part :
            \/ \E j \in Written("call")' : p \in Parts(out'[j].call)
            \/ \E k \in Indexes : Begun(k)' /\ p \in Parts(pending'[k])
      BY <2>3, <3>1
    <3>6. QED
      BY <1>2, <1>4, <1>5, <2>1, <3>2, <3>3, <3>4, <3>5 DEF PartInv
  <2>6. \A j \in Written("text"), k \in Indexes : Begun(k)' =>
          \A p \in Parts(pending'[k]) : out[j].at < p[1]
    <3>1. \A j \in Written("text") : \A p \in part : out[j].at < p[1]
      BY <1>1, <1>2 DEF TextInv, part
    <3>2. QED
      BY <1>1, <1>3, <1>6, <1>13, <3>1 DEF TextInv
  <2>7. TextInv'
    BY <1>1, <1>2, <1>5, <1>10, <1>13, <2>6 DEF TextInv, TextAfterItsCalls, Parts
  <2>8. QED
    BY <2>5, <2>7 DEF ChatStream
<1>14. CASE Parts(pending'[i]) = part /\ Begun(i) /\ Write(<<x>>)
  <2>1. /\ \A j \in Written("call") : j # new /\ out'[j] = out[j]
        /\ out'[new].call = pending[i]
        /\ Written("call")' = Written("call") \cup {new}
    BY <1>8, <1>9, <1>14
  <2>2. \A k \in Indexes : Begun(k)' =>
          /\ Ordered(pending'[k])
          /\ \A p \in Parts(pending'[k]) : p \in Read \cup part /\ FragmentAt(p).index = k
    BY <1>1, <1>3, <1>6, <1>7, <1>14 DEF PartInv
  <2>3. \A j \in Written("call")' : Ordered(out'[j].call) /\ Parts(out'[j].call) \subseteq Read
    <3>1. Ordered(pending[i]) /\ Parts(pending[i]) \subseteq Read
      BY <1>1, <1>14 DEF PartInv
    <3>2. QED
      BY <1>1, <2>1, <3>1 DEF PartInv
  <2>4. ASSUME NEW j \in Written("call")', NEW k \in Written("call")', j # k,
               NEW p \in Parts(out'[j].call)
        PROVE  p \notin Parts(out'[k].call)
    <3>1. CASE j = new
      BY <1>1, <1>14, <2>1, <2>4, <3>1 DEF PartInv
    <3>2. CASE k = new
      BY <1>1, <1>14, <2>1, <2>4, <3>2 DEF PartInv
    <3>3. CASE j \in Written("call") /\ k \in Written("call")
      BY <1>1, <2>1, <2>4, <3>3 DEF PartInv
    <3>4. QED
      BY <2>1, <3>1, <3>2, <3>3
  <2>5. ASSUME NEW j \in Written("call")', NEW k \in Indexes, Begun(k)',
               NEW p \in Parts(pending'[k])
        PROVE  p \notin Parts(out'[j].call)
    <3>1. CASE k = i
      <4>1. p \notin Read
        BY <1>4, <1>14, <2>5, <3>1
      <4>2. QED
        BY <4>1, <2>3
    <3>2. CASE k # i
      <4>1. Begun(k) /\ p \in Parts(pending[k])
        BY <1>3, <1>6, <2>5, <3>2
      <4>2. CASE j = new
        BY <1>1, <1>11, <1>14, <2>1, <3>2, <4>1, <4>2 DEF PartInv
      <4>3. CASE j \in Written("call")
        BY <1>1, <2>1, <4>1, <4>3 DEF PartInv
      <4>4. QED
        BY <2>1, <4>2, <4>3
    <3>3. QED
      BY <3>1, <3>2
  <2>6. ASSUME NEW p \in Read \cup part
        PROVE  \/ \E j \in Written("call")' : p \in Parts(out'[j].call)
               \/ \E k \in Indexes : Begun(k)' /\ p \in Parts(pending'[k])
    <3>1. CASE p \in part
      <4>1. i \in Indexes /\ Begun(i)' /\ p \in Parts(pending'[i])
        BY <1>1, <1>3, <1>14, <3>1
      <4>2. QED
        BY <4>1
    <3>2. ASSUME NEW j \in Written("call"), p \in Parts(out[j].call)
          PROVE  \E k \in Written("call")' : p \in Parts(out'[k].call)
      BY <2>1, <3>2
    <3>3. ASSUME NEW k \in Indexes, Begun(k), p \in Parts(pending[k])
          PROVE  \/ \E j \in Written("call")' : p \in Parts(out'[j].call)
                 \/ \E l \in Indexes : Begun(l)' /\ p \in Parts(pending'[l])
      BY <1>3, <1>6, <2>1, <3>3
    <3>4. QED
      BY <1>1, <3>1, <3>2, <3>3 DEF PartInv
  <2>7. PartInv'
    BY <1>2, <1>4, <1>5, <2>2, <2>3, <2>4, <2>5, <2>6 DEF PartInv
  <2>8. \A j \in Written("text"), k \in Indexes : Begun(k)' =>
          \A p \in Parts(pending'[k]) : out[j].at < p[1]
    <3>1. \A j \in Written("text") : \A p \in part : out[j].at < p[1]
      BY <1>1, <1>2 DEF TextInv, part
    <3>2. QED
      BY <1>1, <1>3, <1>6, <1>14, <3>1 DEF TextInv
  <2>9. TextInv'
    <3>1. /\ Written("text")' = Written("text")
          /\ \A j \in Written("text") : out'[j] = out[j]
      BY <1>8, <1>9, <1>14
    <3>2. TextAfterItsCalls'
      <4>1. ASSUME NEW j \in Written("text"), NEW k \in Written("call")', j < k,
                   NEW p \in Parts(out'[k].call)
            PROVE  out[j].at < p[1]
        BY <1>1, <1>14, <2>1, <4>1 DEF TextInv, TextAfterItsCalls, Parts
      <4>2. QED
        BY <3>1, <4>1 DEF TextAfterItsCalls, Parts
    <3>3. QED
      BY <1>1, <1>2, <1>5, <2>8, <3>1, <3>2 DEF TextInv
  <2>10. QED
    BY <2>7, <2>9 DEF ChatStream
<1>15. QED
  BY <1>3, <1>12, <1>13, <1>14

LEMMA NextChat == StreamInv /\ ChatStream /\ [Next]_vars => ChatStream'
<1> SUFFICES ASSUME StreamInv, ChatStream, [Next]_vars, endpoint' = "chat"
             PROVE  ChatStream'
  BY DEF ChatStream
<1>1. endpoint = "chat"
  BY DEF Next, vars, ChatContent, ChatFragments, MessageText, MessageFragments, EmitPending,
     WriteContent, ChatFragment, Advance, ChatEnd, ChatFinish, MessageFragment, MessageEnd, Fail
<1>2. CASE WriteContent
  <2>1. [kind |-> "text", at |-> Len(upstream)] \in Chunk
    BY ChunkTypes DEF StreamInv, TypeOK
  <2>2. QED
    BY <1>1, <1>2, <2>1, OtherChunk DEF WriteContent, StreamInv
<1>3. CASE ChatFinish \/ Fail
  <2>1. PICK x \in {[kind |-> "end", reason |-> "stop"], [kind |-> "error"]} : Write(<<x>>)
    <3>1. CASE ChatFinish
      BY <3>1 DEF ChatFinish
    <3>2. CASE Fail
      <4>1. CloseBlock = <<>>
        BY <1>1 DEF StreamInv, CloseBlock
      <4>2. QED
        BY <3>2, <4>1 DEF Fail
    <3>3. QED
      BY <1>3, <3>1, <3>2
  <2>2. x \in Chunk /\ x.kind \notin {"text", "call"}
    BY ChunkTypes
  <2>3. QED
    BY <1>1, <1>3, <2>1, <2>2, OtherChunk DEF ChatFinish, Fail
<1>4. CASE ChatEnd \/ UNCHANGED vars
  <2>1. UNCHANGED <<upstream, next, pending, out, endpoint>>
    BY <1>4 DEF ChatEnd, vars
  <2>2. /\ Written("call")' = Written("call") /\ Written("text")' = Written("text")
        /\ out' = out /\ upstream' = upstream /\ pending' = pending
    BY <2>1 DEF Written
  <2>3. Read' = Read /\ \A p : FragmentAt(p)' = FragmentAt(p)
    BY <2>1 DEF Read, Positions, FragmentAt
  <2>4. PartInv /\ TextInv
    BY <1>1 DEF ChatStream
  <2>5. PartInv'
    BY <2>2, <2>3, <2>4, CallsStay DEF TextInv
  <2>6. TextInv'
    BY <2>2, <2>4 DEF TextInv, TextAfterItsCalls, Parts, Begun
  <2>7. QED
    BY <2>5, <2>6 DEF ChatStream
<1>5. CASE ChatFragment
  <2>1. \E f, i : f = Current.calls[next] /\ i = f.index
    OBVIOUS
  <2>2. QED
    BY <1>5, <2>1, FragmentChat
<1>6. QED
  BY <1>1, <1>2, <1>3, <1>4, <1>5, ReceiveChat, EmitPendingChat
  DEF Next, MessageText, MessageFragments, MessageFragment, MessageEnd

\* The inductive invariant of the chat stream.
LEMMA ChatStreamHolds == Spec => [](StreamInv /\ ChatStream)
  BY InitStream, NextStream, InitChat, NextChat, PTL DEF Spec

(***************************************************************************)
(* No part of the arguments is lost, doubled, mixed into another index or  *)
(* put before an earlier one, whatever the upstream sends.                 *)
(***************************************************************************)
THEOREM PartsAreKept == Spec => []EveryPartOnce
<1>1. StreamInv /\ ChatStream => EveryPartOnce
  <2> SUFFICES ASSUME StreamInv, ChatStream, endpoint = "chat"
               PROVE  EveryPartOnce
    BY DEF EveryPartOnce
  <2> DEFINE calls == {out[j].call : j \in Written("call")}
                      \cup ({pending[i] : i \in Indexes} \ {NoCall})
  <2>1. PartInv
    BY DEF ChatStream
  <2>2. \A c \in calls : \/ \E j \in Written("call") : c = out[j].call
                         \/ \E i \in Indexes : Begun(i) /\ c = pending[i]
    BY DEF Begun
  <2>3. /\ \A j \in Written("call") : out[j].call \in calls
        /\ \A i \in Indexes : Begun(i) => pending[i] \in calls
    BY DEF Begun
  <2> HIDE DEF calls
  <2>4. UNION {Parts(c) : c \in calls} = Read
    <3>1. \A c \in calls : Parts(c) \subseteq Read
      BY <2>1, <2>2 DEF PartInv
    <3>2. \A p \in Read : \E c \in calls : p \in Parts(c)
      BY <2>1, <2>3 DEF PartInv
    <3>3. QED
      BY <3>1, <3>2
  <2>5. ASSUME NEW c \in calls, NEW d \in calls, NEW p \in Parts(c), p \in Parts(d)
        PROVE  c = d
    <3>1. CASE \E j \in Written("call") : c = out[j].call
      BY <2>1, <2>2, <2>5, <3>1 DEF PartInv
    <3>2. CASE \E i \in Indexes : Begun(i) /\ c = pending[i]
      BY <2>1, <2>2, <2>5, <3>2 DEF PartInv
    <3>3. QED
      BY <2>2, <3>1, <3>2
  <2>6. \A c \in calls : Ordered(c)
    BY <2>1, <2>2 DEF PartInv
  <2>7. \A c \in calls, d \in calls : Parts(c) \cap Parts(d) # {} => c = d
    BY <2>5
  <2>8. QED
    BY <2>4, <2>6, <2>7 DEF EveryPartOnce, calls, Parts, Read, Ordered
<1>2. QED
  BY <1>1, ChatStreamHolds, PTL

\* A messages stream has neither chat texts nor chat calls among its chunks.
BlockChunk == {c \in Chunk : c.kind \notin {"text", "call"}}

MessageStream == endpoint = "messages" => out \in Seq(BlockChunk)

LEMMA WriteBlocks ==
    ASSUME out \in Seq(BlockChunk), NEW xs \in Seq(BlockChunk), Write(xs)
    PROVE  out' \in Seq(BlockChunk)
  BY DEF Write

LEMMA CloseBlockIsBlock ==
    ASSUME StreamInv
    PROVE  CloseBlock \in Seq(BlockChunk)
<1>1. ASSUME blockType # "none"
      PROVE  Stop \in BlockChunk
  BY <1>1, ChunkTypes DEF StreamInv, TypeOK, Stop, BlockChunk
<1>2. QED
  BY <1>1 DEF CloseBlock

\* A step of a messages stream writes at most: the end of a block, the begin of one, a chunk.
LEMMA BlockStep ==
    ASSUME StreamInv, MessageStream, endpoint = "messages", NEW opens \in BOOLEAN,
           NEW start, NEW rest, opens => start \in BlockChunk, rest \in Seq(BlockChunk),
           Write((IF opens THEN CloseBlock \o <<start>> ELSE <<>>) \o rest)
    PROVE  out' \in Seq(BlockChunk)
<1>1. (IF opens THEN CloseBlock \o <<start>> ELSE <<>>) \o rest \in Seq(BlockChunk)
  BY CloseBlockIsBlock
<1>2. QED
  BY <1>1, WriteBlocks DEF MessageStream

LEMMA NextMessage == StreamInv /\ MessageStream /\ [Next]_vars => MessageStream'
<1> SUFFICES ASSUME StreamInv, MessageStream, [Next]_vars, endpoint' = "messages"
             PROVE  out' \in Seq(BlockChunk)
  BY DEF MessageStream
<1>1. endpoint = "messages" /\ out \in Seq(BlockChunk)
  BY DEF Next, vars, ChatContent, ChatFragments, MessageText, MessageFragments, EmitPending,
     WriteContent, ChatFragment, Advance, ChatEnd, ChatFinish, MessageFragment, MessageEnd, Fail,
     MessageStream
<1>2. ASSUME NEW e \in Events, MessageText(e)
      PROVE  out' \in Seq(BlockChunk)
  <2>1. PICK type \in BlockTypes : DeltaInBlock(type)
    BY <1>2 DEF MessageText, BlockTypes
  <2> DEFINE at == <<Len(upstream) + 1, 0>>
             index == IF blockType # type THEN blockIndex + 1 ELSE blockIndex
             start == [kind |-> "start", index |-> index, type |-> type, head |-> None]
             delta == [kind |-> "delta", index |-> index, type |-> type, at |-> at]
  <2>2. at \in Position /\ None \in Position
    BY NoCallType DEF StreamInv, TypeOK, Position
  <2>3. index \in Nat \ {0}
    BY DEF StreamInv, TypeOK, BlockTypes
  <2>4. start \in BlockChunk /\ delta \in BlockChunk
    BY <2>2, <2>3, ChunkTypes DEF BlockChunk
  <2>5. Write((IF blockType # type THEN CloseBlock \o <<start>> ELSE <<>>) \o <<delta>>)
    BY <2>1 DEF DeltaInBlock
  <2> HIDE DEF start, delta
  <2>6. <<delta>> \in Seq(BlockChunk)
    BY <2>4
  <2>7. QED
    BY <1>1, <2>4, <2>5, <2>6, BlockStep
<1>3. CASE MessageFragment
  <2> DEFINE f == Current.calls[next]
             index == IF f.head THEN blockIndex + 1 ELSE blockIndex
             start == [kind |-> "start", index |-> index, type |-> "tool_use", head |-> Here]
             delta == [kind |-> "delta", index |-> index, type |-> "tool_use", at |-> Here]
             filled == IF f.args THEN <<delta>> ELSE <<>>
  <2>1. f \in Fragment /\ Here \in Position /\ f.head \in BOOLEAN
    BY <1>3, FragmentType DEF MessageFragment, StreamInv, Fragment
  <2>2. index \in Nat /\ (f.head => index \in Nat \ {0})
    BY <2>1 DEF StreamInv, TypeOK
  <2>3. (f.head => start \in BlockChunk) /\ delta \in BlockChunk
    BY <2>1, <2>2, ChunkTypes DEF BlockTypes, BlockChunk
  <2>4. Write((IF f.head THEN CloseBlock \o <<start>> ELSE <<>>) \o filled)
    BY <1>3 DEF MessageFragment
  <2> HIDE DEF start, delta
  <2>5. filled \in Seq(BlockChunk)
    BY <2>3
  <2> HIDE DEF filled, f
  <2>6. QED
    BY <1>1, <2>1, <2>3, <2>4, <2>5, BlockStep
<1>4. CASE MessageEnd \/ Fail
  <2>1. PICK x \in BlockChunk : Write(CloseBlock \o <<x>>)
    BY <1>4, ChunkTypes DEF MessageEnd, Fail, BlockChunk
  <2>2. CloseBlock \o <<x>> \in Seq(BlockChunk)
    BY CloseBlockIsBlock
  <2>3. QED
    BY <1>1, <2>1, <2>2, WriteBlocks
<1>5. CASE out' = out
  BY <1>1, <1>5
<1>6. QED
  BY <1>1, <1>2, <1>3, <1>4, <1>5 DEF Next, vars, ChatContent, ChatFragments, MessageFragments,
     EmitPending, WriteContent, ChatFragment, ChatEnd, ChatFinish

(***************************************************************************)
(* A chat client sees no call after a text that the upstream sent later,   *)
(* whatever the upstream sends; there are neither in a messages stream.    *)
(***************************************************************************)
THEOREM TextKeepsItsPlace == Spec => []TextAfterItsCalls
<1>1. StreamInv /\ ChatStream /\ MessageStream => TextAfterItsCalls
  <2> SUFFICES ASSUME StreamInv, ChatStream, MessageStream
               PROVE  TextAfterItsCalls
    OBVIOUS
  <2>1. CASE endpoint = "chat"
    BY <2>1 DEF ChatStream, TextInv
  <2>2. CASE endpoint = "messages"
    <3>1. Written("text") = {}
      BY <2>2 DEF MessageStream, Written, BlockChunk
    <3>2. QED
      BY <3>1 DEF TextAfterItsCalls
  <2>3. QED
    BY <2>1, <2>2 DEF StreamInv, TypeOK
<1>2. Init => MessageStream
  BY DEF Init, MessageStream
<1>3. QED
  BY <1>1, <1>2, NextMessage, StreamHolds, ChatStreamHolds, PTL DEF Spec

-----------------------------------------------------------------------------
(***************************************************************************)
(* The content blocks of a messages stream, for any upstream: any events,  *)
(* of any number, with any tool call indexes.                              *)
(*                                                                         *)
(* The argument goes by the chunk: what the handler knows of its blocks,   *)
(* their number and the type of the open one, is what was written.         *)
(***************************************************************************)
\* The chunks of kind k in o, and how many of them come before i.
OfKind(o, k) == {j \in 1..Len(o) : o[j].kind = k}

Count(o, k, i) == Cardinality({j \in OfKind(o, k) : j < i})

\* o has b blocks, of which the last is open, and of type t, unless t is "none".
Nested(o, b, t) ==
    /\ Count(o, "start", Len(o) + 1) = b
    /\ Count(o, "stop", Len(o) + 1) = IF t = "none" THEN b ELSE b - 1
    /\ \A i \in OfKind(o, "start") :
         o[i].index = Count(o, "start", i) + 1 /\ Count(o, "stop", i) = Count(o, "start", i)
    /\ \A i \in OfKind(o, "stop") :
         o[i].index = Count(o, "start", i) /\ Count(o, "stop", i) = Count(o, "start", i) - 1
    /\ t # "none" => \E j \in OfKind(o, "start") : o[j].index = b /\ o[j].type = t

\* Each delta lies in an open block of its type.
DeltasFit(o) ==
    \A i \in OfKind(o, "delta") :
        /\ Count(o, "stop", i) = Count(o, "start", i) - 1
        /\ \E j \in OfKind(o, "start") : j < i /\ o[j].index = o[i].index /\ o[j].type = o[i].type

Ends(o) == OfKind(o, "end") \cup OfKind(o, "error")

-----------------------------------------------------------------------------
LEMMA CountIsNat ==
    ASSUME NEW o \in Seq(Chunk), NEW k, NEW i
    PROVE  Count(o, k, i) \in Nat /\ IsFiniteSet({j \in OfKind(o, k) : j < i})
<1>1. IsFiniteSet(1..Len(o))
  BY FS_Interval
<1>2. {j \in OfKind(o, k) : j < i} \subseteq 1..Len(o)
  BY DEF OfKind
<1>3. QED
  BY <1>1, <1>2, FS_Subset, FS_CardinalityType DEF Count

\* One chunk more changes no count before it.
Longer(o, x, p) ==
    /\ p \in Seq(Chunk) /\ Len(p) = Len(o) + 1 /\ Len(o) \in Nat
    /\ \A j \in 1..Len(o) : p[j] = o[j]
    /\ p[Len(o) + 1] = x
    /\ \A k : OfKind(p, k) = OfKind(o, k) \cup (IF x.kind = k THEN {Len(o) + 1} ELSE {})
    /\ \A k : \A i \in 1..(Len(o) + 1) : Count(p, k, i) = Count(o, k, i)
    /\ \A k : Count(p, k, Len(o) + 2) = Count(o, k, Len(o) + 1) + (IF x.kind = k THEN 1 ELSE 0)

LEMMA OneMore ==
    ASSUME NEW o \in Seq(Chunk), NEW x \in Chunk
    PROVE  Longer(o, x, Append(o, x))
<1> DEFINE p == Append(o, x)
           n == Len(o)
<1>1. /\ p \in Seq(Chunk) /\ Len(p) = n + 1 /\ n \in Nat
      /\ \A j \in 1..n : p[j] = o[j]
      /\ p[n + 1] = x
  OBVIOUS
<1> HIDE DEF p, n
<1>2. ASSUME NEW k
      PROVE  OfKind(p, k) = OfKind(o, k) \cup (IF x.kind = k THEN {n + 1} ELSE {})
  BY <1>1 DEF OfKind, n
<1>3. \A k : \A j \in OfKind(o, k) : j \in 1..n
  BY DEF OfKind, n
<1>4. ASSUME NEW k, NEW i \in 1..(n + 1)
      PROVE  Count(p, k, i) = Count(o, k, i)
  <2>1. {j \in OfKind(p, k) : j < i} = {j \in OfKind(o, k) : j < i}
    BY <1>1, <1>2, <1>3
  <2>2. QED
    BY <2>1 DEF Count
<1>5. ASSUME NEW k
      PROVE  Count(p, k, n + 2) = Count(o, k, n + 1) + (IF x.kind = k THEN 1 ELSE 0)
  <2> DEFINE S == {j \in OfKind(o, k) : j < n + 1}
             T == {j \in OfKind(p, k) : j < n + 2}
  <2>1. IsFiniteSet(S) /\ Cardinality(S) \in Nat /\ n + 1 \notin S
    <3>1. IsFiniteSet({j \in OfKind(o, k) : j < n + 1}) /\ Count(o, k, n + 1) \in Nat
      BY CountIsNat
    <3>2. QED
      BY <1>1, <3>1 DEF Count
  <2>2. T = S \cup (IF x.kind = k THEN {n + 1} ELSE {})
    BY <1>1, <1>2, <1>3
  <2> HIDE DEF S, T
  <2>3. Cardinality(T) = Cardinality(S) + (IF x.kind = k THEN 1 ELSE 0)
    <3>1. CASE x.kind = k
      BY <2>1, <2>2, <3>1, FS_AddElement
    <3>2. CASE x.kind # k
      <4>1. T = S
        BY <2>2, <3>2
      <4>2. QED
        BY <2>1, <3>2, <4>1
    <3>3. QED
      BY <3>1, <3>2
  <2>4. QED
    BY <2>3 DEF Count, S, T
<1>6. QED
  BY <1>1, <1>2, <1>4, <1>5 DEF Longer, p, n

\* The chunks by which the blocks of a stream go on.
LEMMA AddStart ==
    ASSUME NEW o \in Seq(Chunk), NEW b \in Nat, NEW t \in BlockTypes, NEW x \in Chunk,
           x.kind = "start", x.index = b + 1, x.type = t, Nested(o, b, "none")
    PROVE  /\ Nested(Append(o, x), b + 1, t)
           /\ DeltasFit(o) => DeltasFit(Append(o, x))
           /\ Ends(Append(o, x)) = Ends(o)
<1> DEFINE p == Append(o, x)
           n == Len(o)
<1>0. Longer(o, x, p)
  BY OneMore
<1> HIDE DEF p, n
<1>1. /\ p \in Seq(Chunk) /\ Len(p) = n + 1 /\ n \in Nat
      /\ \A j \in 1..n : p[j] = o[j]
      /\ p[n + 1] = x
      /\ \A k : OfKind(p, k) = OfKind(o, k) \cup (IF x.kind = k THEN {n + 1} ELSE {})
      /\ \A k : \A i \in 1..(n + 1) : Count(p, k, i) = Count(o, k, i)
      /\ \A k : Count(p, k, n + 2) = Count(o, k, n + 1) + (IF x.kind = k THEN 1 ELSE 0)
  BY <1>0 DEF Longer, n
<1>2. \A k : \A j \in OfKind(o, k) : j \in 1..n
  BY DEF OfKind, n
<1>3. /\ OfKind(p, "start") = OfKind(o, "start") \cup {n + 1}
      /\ OfKind(p, "stop") = OfKind(o, "stop") /\ OfKind(p, "delta") = OfKind(o, "delta")
      /\ OfKind(p, "end") = OfKind(o, "end") /\ OfKind(p, "error") = OfKind(o, "error")
  BY <1>1
<1>4. /\ Count(p, "start", Len(p) + 1) = b + 1 /\ Count(p, "stop", Len(p) + 1) = b
      /\ Count(p, "start", n + 1) = b /\ Count(p, "stop", n + 1) = b
  BY <1>1 DEF Nested, n
<1>5. Nested(p, b + 1, t)
  <2>1. t # "none"
    BY DEF BlockTypes
  <2>2. \A i \in OfKind(p, "start") :
          p[i].index = Count(p, "start", i) + 1 /\ Count(p, "stop", i) = Count(p, "start", i)
    BY <1>1, <1>2, <1>3, <1>4 DEF Nested
  <2>3. \A i \in OfKind(p, "stop") :
          p[i].index = Count(p, "start", i) /\ Count(p, "stop", i) = Count(p, "start", i) - 1
    BY <1>1, <1>2, <1>3 DEF Nested
  <2>4. n + 1 \in OfKind(p, "start") /\ p[n + 1].index = b + 1 /\ p[n + 1].type = t
    BY <1>1, <1>3
  <2>5. QED
    BY <1>4, <2>1, <2>2, <2>3, <2>4 DEF Nested
<1>6. DeltasFit(o) => DeltasFit(p)
  BY <1>1, <1>2, <1>3 DEF DeltasFit
<1>7. QED
  BY <1>3, <1>5, <1>6 DEF Ends, p

LEMMA AddStop ==
    ASSUME NEW o \in Seq(Chunk), NEW b \in Nat, NEW t \in BlockTypes, NEW x \in Chunk,
           x.kind = "stop", x.index = b, Nested(o, b, t)
    PROVE  /\ Nested(Append(o, x), b, "none")
           /\ DeltasFit(o) => DeltasFit(Append(o, x))
           /\ Ends(Append(o, x)) = Ends(o)
<1> DEFINE p == Append(o, x)
           n == Len(o)
<1>0. Longer(o, x, p)
  BY OneMore
<1> HIDE DEF p, n
<1>1. /\ p \in Seq(Chunk) /\ Len(p) = n + 1 /\ n \in Nat
      /\ \A j \in 1..n : p[j] = o[j]
      /\ p[n + 1] = x
      /\ \A k : OfKind(p, k) = OfKind(o, k) \cup (IF x.kind = k THEN {n + 1} ELSE {})
      /\ \A k : \A i \in 1..(n + 1) : Count(p, k, i) = Count(o, k, i)
      /\ \A k : Count(p, k, n + 2) = Count(o, k, n + 1) + (IF x.kind = k THEN 1 ELSE 0)
  BY <1>0 DEF Longer, n
<1>2. \A k : \A j \in OfKind(o, k) : j \in 1..n
  BY DEF OfKind, n
<1>3. /\ OfKind(p, "stop") = OfKind(o, "stop") \cup {n + 1}
      /\ OfKind(p, "start") = OfKind(o, "start") /\ OfKind(p, "delta") = OfKind(o, "delta")
      /\ OfKind(p, "end") = OfKind(o, "end") /\ OfKind(p, "error") = OfKind(o, "error")
  BY <1>1
<1>4. /\ Count(p, "start", Len(p) + 1) = b /\ Count(p, "stop", Len(p) + 1) = b
      /\ Count(p, "start", n + 1) = b /\ Count(p, "stop", n + 1) = b - 1
  BY <1>1 DEF Nested, n, BlockTypes
<1>5. Nested(p, b, "none")
  BY <1>1, <1>2, <1>3, <1>4, SMTT(30) DEF Nested, BlockTypes
<1>6. DeltasFit(o) => DeltasFit(p)
  BY <1>1, <1>2, <1>3 DEF DeltasFit
<1>7. QED
  BY <1>3, <1>5, <1>6 DEF Ends, p

LEMMA AddDelta ==
    ASSUME NEW o \in Seq(Chunk), NEW b \in Nat, NEW t, NEW x \in Chunk,
           x.kind = "delta", Nested(o, b, t)
    PROVE  /\ Nested(Append(o, x), b, t)
           /\ DeltasFit(Append(o, x)) => DeltasFit(o)
           /\ DeltasFit(o) /\ t # "none" /\ x.index = b /\ x.type = t => DeltasFit(Append(o, x))
           /\ Ends(Append(o, x)) = Ends(o)
<1> DEFINE p == Append(o, x)
           n == Len(o)
<1>0. Longer(o, x, p)
  BY OneMore
<1> HIDE DEF p, n
<1>1. /\ p \in Seq(Chunk) /\ Len(p) = n + 1 /\ n \in Nat
      /\ \A j \in 1..n : p[j] = o[j]
      /\ p[n + 1] = x
      /\ \A k : OfKind(p, k) = OfKind(o, k) \cup (IF x.kind = k THEN {n + 1} ELSE {})
      /\ \A k : \A i \in 1..(n + 1) : Count(p, k, i) = Count(o, k, i)
      /\ \A k : Count(p, k, n + 2) = Count(o, k, n + 1) + (IF x.kind = k THEN 1 ELSE 0)
  BY <1>0 DEF Longer, n
<1>2. \A k : \A j \in OfKind(o, k) : j \in 1..n
  BY DEF OfKind, n
<1>3. /\ OfKind(p, "delta") = OfKind(o, "delta") \cup {n + 1}
      /\ OfKind(p, "start") = OfKind(o, "start") /\ OfKind(p, "stop") = OfKind(o, "stop")
      /\ OfKind(p, "end") = OfKind(o, "end") /\ OfKind(p, "error") = OfKind(o, "error")
  BY <1>1
<1>4. /\ Count(p, "start", Len(p) + 1) = b
      /\ Count(p, "stop", Len(p) + 1) = IF t = "none" THEN b ELSE b - 1
      /\ Count(p, "start", n + 1) = b
      /\ Count(p, "stop", n + 1) = IF t = "none" THEN b ELSE b - 1
  BY <1>1, CountIsNat DEF Nested, n
<1>5. Nested(p, b, t)
  BY <1>1, <1>2, <1>3, <1>4 DEF Nested
<1>6. DeltasFit(p) => DeltasFit(o)
  BY <1>1, <1>2, <1>3 DEF DeltasFit
<1>7. DeltasFit(o) /\ t # "none" /\ x.index = b /\ x.type = t => DeltasFit(p)
  <2> SUFFICES ASSUME DeltasFit(o), t # "none", x.index = b, x.type = t
               PROVE  DeltasFit(p)
    OBVIOUS
  <2>1. PICK j \in OfKind(o, "start") : o[j].index = b /\ o[j].type = t
    BY DEF Nested
  <2>2. \A i \in OfKind(o, "delta") :
          /\ Count(p, "stop", i) = Count(p, "start", i) - 1
          /\ \E k \in OfKind(p, "start") : k < i /\ p[k].index = p[i].index /\ p[k].type = p[i].type
    BY <1>1, <1>2, <1>3 DEF DeltasFit
  <2>3. j \in OfKind(p, "start") /\ j < n + 1 /\ p[j].index = p[n + 1].index
        /\ p[j].type = p[n + 1].type
    BY <1>1, <1>2, <1>3, <2>1
  <2>4. QED
    BY <1>3, <1>4, <2>2, <2>3 DEF DeltasFit
<1>8. QED
  BY <1>3, <1>5, <1>6, <1>7 DEF Ends, p

LEMMA AddEnd ==
    ASSUME NEW o \in Seq(Chunk), NEW b \in Nat, NEW x \in Chunk,
           x.kind \in {"end", "error"}, Nested(o, b, "none"), Ends(o) = {}
    PROVE  /\ Nested(Append(o, x), b, "none")
           /\ DeltasFit(o) => DeltasFit(Append(o, x))
           /\ Ends(Append(o, x)) = {Len(Append(o, x))}
           /\ Count(Append(o, x), "stop", Len(Append(o, x))) =
                Count(Append(o, x), "start", Len(Append(o, x)))
<1> DEFINE p == Append(o, x)
           n == Len(o)
<1>0. Longer(o, x, p)
  BY OneMore
<1> HIDE DEF p, n
<1>1. /\ p \in Seq(Chunk) /\ Len(p) = n + 1 /\ n \in Nat
      /\ \A j \in 1..n : p[j] = o[j]
      /\ p[n + 1] = x
      /\ \A k : OfKind(p, k) = OfKind(o, k) \cup (IF x.kind = k THEN {n + 1} ELSE {})
      /\ \A k : \A i \in 1..(n + 1) : Count(p, k, i) = Count(o, k, i)
      /\ \A k : Count(p, k, n + 2) = Count(o, k, n + 1) + (IF x.kind = k THEN 1 ELSE 0)
  BY <1>0 DEF Longer, n
<1>2. \A k : \A j \in OfKind(o, k) : j \in 1..n
  BY DEF OfKind, n
<1>3. /\ \A k \in {"start", "stop", "delta"} : OfKind(p, k) = OfKind(o, k)
      /\ OfKind(p, "end") \cup OfKind(p, "error") = Ends(o) \cup {n + 1}
  BY <1>1 DEF Ends
<1>4. /\ Count(p, "start", Len(p) + 1) = b /\ Count(p, "stop", Len(p) + 1) = b
      /\ Count(p, "start", n + 1) = b /\ Count(p, "stop", n + 1) = b
  BY <1>1 DEF Nested, n
<1>5. Nested(p, b, "none")
  BY <1>1, <1>2, <1>3, <1>4 DEF Nested
<1>6. DeltasFit(o) => DeltasFit(p)
  BY <1>1, <1>2, <1>3 DEF DeltasFit
<1>7. Ends(p) = {Len(p)} /\ Count(p, "stop", Len(p)) = Count(p, "start", Len(p))
  BY <1>1, <1>3, <1>4 DEF Ends
<1>8. QED
  BY <1>5, <1>6, <1>7 DEF p

-----------------------------------------------------------------------------
(***************************************************************************)
(* The upstream.  An orderly one was orderly before.                       *)
(***************************************************************************)

\* The events of the stream since position h are fragments only.
Silent(h) == \A n \in h[1]..Len(upstream) : ~upstream[n].content /\ ~upstream[n].reasoning

\* While nothing but fragments follows the head of a call, its block is open.
ToolOpen ==
    pc \notin {"done", "failed"} =>
        \A h \in Heads : Silent(h) => blockType = "tool_use"

BlockInv ==
    endpoint = "messages" =>
        /\ Nested(out, blockIndex, blockType)
        /\ ToolOpen
        /\ Orderly => DeltasFit(out)
        /\ IF pc \in {"done", "failed"}
           THEN /\ Ends(out) = {Len(out)}
                /\ Count(out, "stop", Len(out)) = Count(out, "start", Len(out))
           ELSE Ends(out) = {}

LEMMA InitBlocks == Init => BlockInv
<1> SUFFICES ASSUME Init PROVE BlockInv
  OBVIOUS
<1>1. out = <<>> /\ blockIndex = 0 /\ blockType = "none" /\ upstream = <<>> /\ pc = "read"
  BY DEF Init, StreamInit
<1>2. \A k : OfKind(out, k) = {}
  BY <1>1 DEF OfKind
<1>3. \A k, i : Count(out, k, i) = 0
  <2>1. \A k, i : {j \in OfKind(out, k) : j < i} = {}
    BY <1>2
  <2>2. QED
    BY <2>1, FS_EmptySet DEF Count
<1>4. Heads = {}
  BY <1>1 DEF Heads, Positions
<1>5. QED
  BY <1>1, <1>2, <1>3, <1>4 DEF BlockInv, Nested, ToolOpen, DeltasFit, Ends

\* The end of the open block, if there is one.
LEMMA CloseKeeps ==
    ASSUME StreamInv, Nested(out, blockIndex, blockType)
    PROVE  /\ out \o CloseBlock \in Seq(Chunk)
           /\ Nested(out \o CloseBlock, blockIndex, "none")
           /\ DeltasFit(out) => DeltasFit(out \o CloseBlock)
           /\ Ends(out \o CloseBlock) = Ends(out)
<1>1. out \in Seq(Chunk) /\ blockIndex \in Nat /\ blockType \in BlockTypes \cup {"none"}
  BY DEF StreamInv, TypeOK
<1>2. CASE blockType = "none"
  <2>1. out \o CloseBlock = out
    BY <1>1, <1>2 DEF CloseBlock
  <2>2. QED
    BY <1>1, <1>2, <2>1
<1>3. CASE blockType # "none"
  <2>1. Stop \in Chunk /\ Stop.kind = "stop" /\ Stop.index = blockIndex
    BY <1>1, <1>3, ChunkTypes DEF StreamInv, Stop
  <2>2. out \o CloseBlock = Append(out, Stop)
    BY <1>1, <1>3, <2>1 DEF CloseBlock
  <2>3. blockType \in BlockTypes
    BY <1>1, <1>3
  <2>4. Append(out, Stop) \in Seq(Chunk)
    BY <1>1, <2>1
  <2>5. QED
    BY <1>1, <2>1, <2>2, <2>3, <2>4, AddStop
<1>4. QED
  BY <1>2, <1>3

\* What is written with a new block: the end of the one before it, and its begin.
LEMMA OpenKeeps ==
    ASSUME StreamInv, Nested(out, blockIndex, blockType), NEW t \in BlockTypes,
           NEW x \in Chunk, x.kind = "start", x.index = blockIndex + 1, x.type = t
    PROVE  /\ out \o (CloseBlock \o <<x>>) \in Seq(Chunk)
           /\ Nested(out \o (CloseBlock \o <<x>>), blockIndex + 1, t)
           /\ DeltasFit(out) => DeltasFit(out \o (CloseBlock \o <<x>>))
           /\ Ends(out \o (CloseBlock \o <<x>>)) = Ends(out)
<1>1. out \in Seq(Chunk) /\ CloseBlock \in Seq(Chunk) /\ blockIndex \in Nat
  BY CloseBlockType DEF StreamInv, TypeOK
<1> DEFINE closed == out \o CloseBlock
<1>2. out \o (CloseBlock \o <<x>>) = Append(closed, x)
  BY <1>1
<1>3. /\ closed \in Seq(Chunk)
      /\ Nested(closed, blockIndex, "none")
      /\ DeltasFit(out) => DeltasFit(closed)
      /\ Ends(closed) = Ends(out)
  BY CloseKeeps
<1> HIDE DEF closed
<1>4. Append(closed, x) \in Seq(Chunk)
  BY <1>3
<1>5. QED
  BY <1>1, <1>2, <1>3, <1>4, AddStart

\* What is written at the end of a stream.
LEMMA EndKeeps ==
    ASSUME StreamInv, Nested(out, blockIndex, blockType), Ends(out) = {},
           NEW x \in Chunk, x.kind \in {"end", "error"}, Write(CloseBlock \o <<x>>)
    PROVE  /\ Nested(out', blockIndex, "none")
           /\ DeltasFit(out) => DeltasFit(out')
           /\ Ends(out') = {Len(out')}
           /\ Count(out', "stop", Len(out')) = Count(out', "start", Len(out'))
<1>1. out \in Seq(Chunk) /\ CloseBlock \in Seq(Chunk) /\ blockIndex \in Nat
  BY CloseBlockType DEF StreamInv, TypeOK
<1> DEFINE closed == out \o CloseBlock
<1>2. out' = Append(closed, x)
  BY <1>1 DEF Write
<1>3. /\ closed \in Seq(Chunk)
      /\ Nested(closed, blockIndex, "none")
      /\ DeltasFit(out) => DeltasFit(closed)
      /\ Ends(closed) = {}
  BY CloseKeeps
<1> HIDE DEF closed
<1>4. QED
  BY <1>1, <1>2, <1>3, AddEnd

-----------------------------------------------------------------------------
\* Nothing of what was read is read otherwise later, or after what comes later.
GoesOn ==
    /\ upstream' \in Seq(Events) /\ Len(upstream) <= Len(upstream')
    /\ \A n \in 1..Len(upstream) : upstream'[n] = upstream[n]
    /\ Positions \subseteq Positions'
    /\ \A p \in Positions : FragmentAt(p)' = FragmentAt(p) /\ p[1] \in 1..Len(upstream)
    /\ \A p \in Positions, q \in Positions' : AtOrBefore(q, p) => q \in Positions

LEMMA OrderlyBefore ==
    ASSUME StreamInv, GoesOn, Orderly'
    PROVE  Orderly
<1>1. DOMAIN upstream = 1..Len(upstream) /\ DOMAIN upstream' = 1..Len(upstream')
  BY DEF GoesOn, StreamInv, TypeOK
<1>2. \A n \in DOMAIN upstream :
        /\ ~(upstream[n].content /\ upstream[n].reasoning)
        /\ upstream[n].calls # <<>> => ~upstream[n].content /\ ~upstream[n].reasoning
  BY <1>1 DEF GoesOn, Orderly
<1>3. ASSUME NEW p \in Positions
      PROVE  \E h \in Heads : Begins(h, p) /\ Quiet(h, p)
  <2>1. PICK h \in Heads' : Begins(h, p)' /\ Quiet(h, p)'
    BY DEF GoesOn, Orderly
  <2>2. h \in Positions' /\ FragmentAt(h)'.head /\ AtOrBefore(h, p)
    BY <2>1 DEF Heads, Begins
  <2>3. h \in Positions /\ h \in Heads
    BY <2>2 DEF GoesOn, Heads
  <2>4. \A g \in Heads : g \in Heads' /\ FragmentAt(g)' = FragmentAt(g)
    BY DEF GoesOn, Heads
  <2>5. Begins(h, p)
    BY <2>1, <2>2, <2>3, <2>4 DEF GoesOn, Begins
  <2>6. h[1] \in 1..Len(upstream) /\ p[1] \in 1..Len(upstream)
    BY <2>3 DEF GoesOn
  <2>7. Quiet(h, p)
    BY <2>1, <2>6 DEF GoesOn, Quiet
  <2>8. QED
    BY <2>3, <2>5, <2>7
<1>4. QED
  BY <1>2, <1>3 DEF Orderly

LEMMA ReceiveGoesOn ==
    ASSUME StreamInv, pc = "read", NEW e \in Events, Receive(e),
           next' \in {1, Len(e.calls) + 1}
    PROVE  /\ GoesOn
           /\ Len(upstream') = Len(upstream) + 1 /\ upstream'[Len(upstream')] = e
           /\ \A p \in Positions' : p[1] \in 1..Len(upstream')
           /\ next' = 1 => Positions' = Positions
<1>1. /\ upstream' \in Seq(Events)
      /\ Len(upstream) \in Nat /\ Len(upstream') = Len(upstream) + 1
      /\ \A n \in 1..Len(upstream) : upstream'[n] = upstream[n]
      /\ upstream'[Len(upstream')] = e
  BY ReceiveType DEF StreamInv, TypeOK, Current
<1>2. /\ Positions \subseteq Positions'
      /\ \A p \in Positions : FragmentAt(p)' = FragmentAt(p) /\ p[1] \in 1..Len(upstream)
      /\ \A p \in Positions' : p \notin Positions => p[1] = Len(upstream) + 1 /\ next' # 1
  BY ReceivePositions
<1>3. \A p \in Positions, q \in Positions' : AtOrBefore(q, p) => q \in Positions
  BY <1>1, <1>2 DEF AtOrBefore, Before
<1>4. \A p \in Positions : FragmentAt(p)' = FragmentAt(p) /\ p[1] \in 1..Len(upstream)
  BY <1>2
<1>5. GoesOn
  BY <1>1, <1>2, <1>3, <1>4 DEF GoesOn
<1>6. \A p \in Positions' : p[1] \in 1..Len(upstream')
  BY <1>1, <1>2
<1>7. next' = 1 => Positions' = Positions
  BY <1>2
<1>8. QED
  BY <1>1, <1>5, <1>6, <1>7

LEMMA AdvanceGoesOn ==
    ASSUME StreamInv, pc = "fragments", Advance
    PROVE  GoesOn
<1>1. /\ Positions' = Positions \cup {Here} /\ Here \notin Positions
      /\ \A p \in Positions : Before(p, Here) /\ p[1] \in 1..Len(upstream)
      /\ \A p : FragmentAt(p)' = FragmentAt(p)
      /\ upstream' = upstream /\ upstream \in Seq(Events) /\ Len(upstream) \in Nat
  BY AdvancePositions DEF StreamInv, TypeOK
<1>2. \A p \in Positions : p[1] \in Nat /\ p[2] \in Nat /\ Here[1] \in Nat /\ Here[2] \in Nat
  BY <1>1, PositionsAreOf, PositionType, FragmentType DEF StreamInv, TypeOK
<1>3. ASSUME NEW p \in Positions PROVE ~AtOrBefore(Here, p)
  BY <1>1, <1>2 DEF AtOrBefore, Before
<1>4. \A p \in Positions, q \in Positions' : AtOrBefore(q, p) => q \in Positions
  BY <1>1, <1>3
<1>5. QED
  BY <1>1, <1>4 DEF GoesOn

-----------------------------------------------------------------------------
(***************************************************************************)
(* The steps of the messages stream.                                       *)
(***************************************************************************)
LEMMA DeltaKeepsBlocks ==
    ASSUME StreamInv, Nested(out, blockIndex, blockType), NEW t \in BlockTypes, DeltaInBlock(t)
    PROVE  /\ Nested(out', blockIndex', blockType')
           /\ DeltasFit(out) => DeltasFit(out')
           /\ Ends(out') = Ends(out)
<1> DEFINE at == <<Len(upstream) + 1, 0>>
           index == IF blockType # t THEN blockIndex + 1 ELSE blockIndex
           start == [kind |-> "start", index |-> index, type |-> t, head |-> None]
           delta == [kind |-> "delta", index |-> index, type |-> t, at |-> at]
           opened == out \o (IF blockType # t THEN CloseBlock \o <<start>> ELSE <<>>)
<1>1. at \in Position /\ None \in Position
  BY NoCallType DEF StreamInv, TypeOK, Position
<1>2. index \in Nat \ {0} /\ t # "none"
  BY DEF StreamInv, TypeOK, BlockTypes
<1>3. /\ start \in Chunk /\ delta \in Chunk /\ delta.kind = "delta"
      /\ delta.index = index /\ delta.type = t
      /\ start.kind = "start" /\ start.index = index /\ start.type = t
  BY <1>1, <1>2, ChunkTypes
<1>4. /\ Write((IF blockType # t THEN CloseBlock \o <<start>> ELSE <<>>) \o <<delta>>)
      /\ blockIndex' = index /\ blockType' = t
  BY DEF DeltaInBlock
<1> HIDE DEF start, delta
<1>5. out \in Seq(Chunk) /\ CloseBlock \in Seq(Chunk)
  BY CloseBlockType DEF StreamInv, TypeOK
<1>6. /\ opened \in Seq(Chunk)
      /\ Nested(opened, index, t)
      /\ DeltasFit(out) => DeltasFit(opened)
      /\ Ends(opened) = Ends(out)
  <2>1. CASE blockType = t
    <3>1. opened = out
      BY <1>5, <2>1
    <3>2. QED
      BY <1>5, <2>1, <3>1
  <2>2. CASE blockType # t
    <3>1. index = blockIndex + 1 /\ opened = out \o (CloseBlock \o <<start>>)
      BY <2>2
    <3> HIDE DEF index, opened
    <3>2. QED
      BY <1>3, <3>1, OpenKeeps
  <2>3. QED
    BY <2>1, <2>2
<1>7. out' = Append(opened, delta)
  BY <1>3, <1>4, <1>5 DEF Write
<1> HIDE DEF index, opened
<1>8. QED
  BY <1>2, <1>3, <1>4, <1>6, <1>7, AddDelta

\* A fragment's arguments are in place if the last block that was opened is a call's.
LEMMA FragmentKeepsBlocks ==
    ASSUME StreamInv, Nested(out, blockIndex, blockType), MessageFragment
    PROVE  /\ Nested(out', blockIndex', blockType')
           /\ DeltasFit(out) /\ blockType' = "tool_use" => DeltasFit(out')
           /\ Ends(out') = Ends(out)
<1> DEFINE f == Current.calls[next]
           index == IF f.head THEN blockIndex + 1 ELSE blockIndex
           start == [kind |-> "start", index |-> index, type |-> "tool_use", head |-> Here]
           delta == [kind |-> "delta", index |-> index, type |-> "tool_use", at |-> Here]
           opened == out \o (IF f.head THEN CloseBlock \o <<start>> ELSE <<>>)
<1>1. f \in Fragment /\ Here \in Position /\ f.head \in BOOLEAN /\ f.args \in BOOLEAN
  BY FragmentType DEF MessageFragment, StreamInv, Fragment
<1>2. index \in Nat /\ (f.head => index \in Nat \ {0}) /\ "tool_use" \in BlockTypes
  BY <1>1 DEF StreamInv, TypeOK, BlockTypes
<1>3. /\ f.head => start \in Chunk
      /\ delta \in Chunk /\ delta.kind = "delta" /\ delta.index = index /\ delta.type = "tool_use"
      /\ start.kind = "start" /\ start.index = index /\ start.type = "tool_use"
  BY <1>1, <1>2, ChunkTypes
<1>4. /\ Write((IF f.head THEN CloseBlock \o <<start>> ELSE <<>>)
               \o (IF f.args THEN <<delta>> ELSE <<>>))
      /\ blockIndex' = index
      /\ blockType' = IF f.head THEN "tool_use" ELSE blockType
  BY DEF MessageFragment
<1> HIDE DEF start, delta, f
<1>5. out \in Seq(Chunk) /\ CloseBlock \in Seq(Chunk)
  BY CloseBlockType DEF StreamInv, TypeOK
<1>6. /\ opened \in Seq(Chunk)
      /\ Nested(opened, index, blockType')
      /\ DeltasFit(out) => DeltasFit(opened)
      /\ Ends(opened) = Ends(out)
  <2>1. CASE ~f.head
    <3>1. opened = out
      BY <1>5, <2>1
    <3>2. QED
      BY <1>4, <1>5, <2>1, <3>1
  <2>2. CASE f.head
    <3>1. index = blockIndex + 1 /\ opened = out \o (CloseBlock \o <<start>>)
          /\ blockType' = "tool_use"
      BY <1>4, <2>2
    <3> HIDE DEF index, opened
    <3>2. QED
      BY <1>2, <1>3, <2>2, <3>1, OpenKeeps
  <2>3. QED
    BY <1>1, <2>1, <2>2
<1>7. CASE f.args
  <2>1. out' = Append(opened, delta)
    BY <1>3, <1>4, <1>5, <1>7 DEF Write
  <2> HIDE DEF index, opened
  <2>2. QED
    BY <1>2, <1>3, <1>4, <1>6, <2>1, AddDelta
<1>8. CASE ~f.args
  <2>1. out' = opened
    BY <1>3, <1>4, <1>5, <1>8 DEF Write
  <2> HIDE DEF index, opened
  <2>2. QED
    BY <1>4, <1>6, <2>1
<1>9. QED
  BY <1>1, <1>7, <1>8

LEMMA MessageTextBlocks ==
    ASSUME StreamInv, BlockInv, NEW e \in Events, MessageText(e)
    PROVE  BlockInv'
<1>1. /\ pc = "read" /\ pc' = pc /\ endpoint = "messages" /\ Receive(e)
      /\ next' = Len(e.calls) + 1
      /\ e.reasoning \/ e.content
  BY DEF MessageText
<1>2. /\ GoesOn
      /\ Len(upstream') = Len(upstream) + 1 /\ upstream'[Len(upstream')] = e
      /\ \A p \in Positions' : p[1] \in 1..Len(upstream')
  <2>1. pc = "read" /\ Receive(e) /\ next' \in {1, Len(e.calls) + 1}
    BY <1>1
  <2>2. QED
    BY <2>1, ReceiveGoesOn
<1>3. PICK t \in BlockTypes : DeltaInBlock(t)
  BY DEF MessageText, BlockTypes
<1>4. /\ Nested(out', blockIndex', blockType')
      /\ DeltasFit(out) => DeltasFit(out')
      /\ Ends(out') = {}
  BY <1>1, <1>3, DeltaKeepsBlocks DEF BlockInv
<1>5. Orderly' => DeltasFit(out')
  BY <1>1, <1>2, <1>4, OrderlyBefore DEF BlockInv
<1>6. \A h \in Heads' : ~Silent(h)'
  BY <1>1, <1>2 DEF Heads, Silent
<1>7. QED
  BY <1>1, <1>4, <1>5, <1>6 DEF BlockInv, ToolOpen

LEMMA MessageFragmentsBlocks ==
    ASSUME StreamInv, BlockInv, NEW e \in Events, MessageFragments(e)
    PROVE  BlockInv'
<1>1. /\ pc = "read" /\ pc' \in {"read", "fragments"} /\ endpoint = "messages" /\ Receive(e)
      /\ next' = 1 /\ UNCHANGED <<blockIndex, blockType, out>>
  BY DEF MessageFragments
<1>2. GoesOn /\ Positions' = Positions
  BY <1>1, ReceiveGoesOn
<1>3. Orderly' => DeltasFit(out')
  BY <1>1, <1>2, OrderlyBefore DEF BlockInv
<1>4. \A h \in Heads' : h \in Heads /\ (Silent(h)' => Silent(h))
  BY <1>2 DEF GoesOn, Heads, Silent
<1>5. QED
  BY <1>1, <1>3, <1>4 DEF BlockInv, ToolOpen

LEMMA MessageFragmentBlocks ==
    ASSUME StreamInv, BlockInv, MessageFragment
    PROVE  BlockInv'
<1>1. /\ pc = "fragments" /\ pc' \in {"read", "fragments"} /\ endpoint = "messages" /\ Advance
      /\ blockType' = IF Current.calls[next].head THEN "tool_use" ELSE blockType
  BY DEF MessageFragment, Advance
<1>2. /\ GoesOn
      /\ Positions' = Positions \cup {Here} /\ Here \notin Positions
      /\ FragmentAt(Here) = Current.calls[next]
      /\ \A p : FragmentAt(p)' = FragmentAt(p)
      /\ upstream' = upstream /\ Here[1] = Len(upstream)
  BY <1>1, AdvanceGoesOn, AdvancePositions, FragmentType DEF StreamInv
<1>3. /\ Nested(out', blockIndex', blockType')
      /\ DeltasFit(out) /\ blockType' = "tool_use" => DeltasFit(out')
      /\ Ends(out') = {}
  BY <1>1, FragmentKeepsBlocks DEF BlockInv
<1>4. \A h \in Heads' : Silent(h)' => blockType' = "tool_use"
  <2>1. \A h \in Heads' : h = Here \/ h \in Heads
    BY <1>2 DEF Heads
  <2>2. Here \in Heads' => blockType' = "tool_use"
    BY <1>1, <1>2 DEF Heads
  <2>3. \A h \in Heads : Silent(h)' => blockType = "tool_use"
    BY <1>1, <1>2 DEF BlockInv, ToolOpen, Silent
  <2>4. QED
    BY <1>1, <2>1, <2>2, <2>3
<1>5. Orderly' => DeltasFit(out')
  <2> SUFFICES ASSUME Orderly' PROVE DeltasFit(out')
    OBVIOUS
  <2>0. PICK k, l : k = Len(upstream) /\ <<k, l>> \in Positions'
    BY <1>2 DEF Here
  <2>1. PICK h \in Heads' : Begins(h, <<k, l>>)' /\ Quiet(h, <<k, l>>)'
    BY <2>0 DEF Orderly
  <2>2. Silent(h)'
    BY <1>2, <2>0, <2>1 DEF Quiet, Silent
  <2>3. DeltasFit(out)
    BY <1>1, <1>2, OrderlyBefore DEF BlockInv
  <2>4. QED
    BY <1>3, <1>4, <2>2, <2>3
<1>6. QED
  BY <1>1, <1>3, <1>4, <1>5 DEF BlockInv, ToolOpen

LEMMA EndBlocks ==
    ASSUME StreamInv, BlockInv, MessageEnd \/ Fail, endpoint = "messages"
    PROVE  BlockInv'
<1>1. /\ pc = "read" /\ pc' \in {"done", "failed"} /\ blockType' = "none"
      /\ UNCHANGED <<streamVars, endpoint, blockIndex>>
  BY DEF MessageEnd, Fail
<1>2. PICK x \in Chunk : x.kind \in {"end", "error"} /\ Write(CloseBlock \o <<x>>)
  BY ChunkTypes DEF MessageEnd, Fail
<1>3. /\ Nested(out', blockIndex, "none")
      /\ DeltasFit(out) => DeltasFit(out')
      /\ Ends(out') = {Len(out')}
      /\ Count(out', "stop", Len(out')) = Count(out', "start", Len(out'))
  BY <1>1, <1>2, EndKeeps DEF BlockInv
<1>4. Orderly' <=> Orderly
  BY <1>1 DEF Orderly, Positions, Heads, Begins, Quiet, FragmentAt
<1>5. QED
  BY <1>1, <1>3, <1>4 DEF BlockInv, ToolOpen

LEMMA NextBlocks == StreamInv /\ BlockInv /\ [Next]_vars => BlockInv'
<1> SUFFICES ASSUME StreamInv, BlockInv, [Next]_vars, endpoint' = "messages"
             PROVE  BlockInv'
  BY DEF BlockInv
<1>1. endpoint = "messages"
  BY DEF Next, vars, ChatContent, ChatFragments, MessageText, MessageFragments, EmitPending,
     WriteContent, ChatFragment, Advance, ChatEnd, ChatFinish, MessageFragment, MessageEnd, Fail
<1>2. CASE UNCHANGED vars
  <2>1. Orderly' <=> Orderly
    BY <1>2 DEF vars, Orderly, Positions, Heads, Begins, Quiet, FragmentAt
  <2>2. ToolOpen' <=> ToolOpen
    BY <1>2 DEF vars, ToolOpen, Heads, Positions, FragmentAt, Silent
  <2>3. QED
    BY <1>1, <1>2, <2>1, <2>2 DEF vars, BlockInv
<1>3. QED
  BY <1>1, <1>2, MessageTextBlocks, MessageFragmentsBlocks, MessageFragmentBlocks, EndBlocks
  DEF Next, ChatContent, ChatFragments, EmitPending, WriteContent, ChatFragment, ChatEnd, ChatFinish

(***************************************************************************)
(* The blocks of a messages stream have consecutive numbers, do not        *)
(* overlap and are all ended, whatever the upstream sends; every delta is  *)
(* in an open block of its type if the upstream is orderly.                *)
(***************************************************************************)
THEOREM BlocksAreNested == Spec => []BlocksNest
<1>1. StreamInv /\ BlockInv => BlocksNest
  <2> SUFFICES ASSUME StreamInv, BlockInv, endpoint = "messages"
               PROVE  BlocksNest
    BY DEF BlocksNest
  <2>1. \A k : Written(k) = OfKind(out, k)
    BY DEF Written, OfKind
  <2>2. \A k, i : Cardinality({j \in Written(k) : j < i}) = Count(out, k, i)
    BY <2>1 DEF Count
  <2>3. /\ Nested(out, blockIndex, blockType)
        /\ Orderly => DeltasFit(out)
        /\ pc \in {"done", "failed"} =>
             /\ Ends(out) = {Len(out)}
             /\ Count(out, "stop", Len(out)) = Count(out, "start", Len(out))
    BY DEF BlockInv
  <2>4. \A i \in Written("start") :
          /\ out[i].index = Count(out, "start", i) + 1
          /\ Count(out, "stop", i) = Count(out, "start", i)
    BY <2>1, <2>3 DEF Nested
  <2>5. \A i \in Written("stop") :
          /\ out[i].index = Count(out, "start", i)
          /\ Count(out, "stop", i) = Count(out, "start", i) - 1
    BY <2>1, <2>3 DEF Nested
  <2>6. pc \in {"done", "failed"} => Written("end") \cup Written("error") = {Len(out)}
    BY <2>1, <2>3 DEF Ends
  <2>7. Orderly => \A i \in Written("delta") :
          /\ Count(out, "stop", i) = Count(out, "start", i) - 1
          /\ \E j \in Written("start") :
               j < i /\ out[j].index = out[i].index /\ out[j].type = out[i].type
    BY <2>1, <2>3 DEF DeltasFit
  <2> DEFINE open(i) == Cardinality({j \in Written("start") : j < i})
             closed(i) == Cardinality({j \in Written("stop") : j < i})
  <2>8. \A i : open(i) = Count(out, "start", i) /\ closed(i) = Count(out, "stop", i)
    BY <2>2
  <2> HIDE DEF open, closed
  <2>9. \A i \in Written("start") : out[i].index = open(i) + 1 /\ closed(i) = open(i)
    BY <2>4, <2>8
  <2>10. \A i \in Written("stop") : out[i].index = open(i) /\ closed(i) = open(i) - 1
    BY <2>5, <2>8
  <2>11. pc \in {"done", "failed"} => closed(Len(out)) = open(Len(out))
    BY <2>3, <2>8
  <2>12. Orderly => \A i \in Written("delta") :
           /\ closed(i) = open(i) - 1
           /\ \E j \in Written("start") :
                j < i /\ out[j].index = out[i].index /\ out[j].type = out[i].type
    BY <2>7, <2>8
  <2> USE DEF open, closed
  <2>13. QED
    BY <2>6, <2>9, <2>10, <2>11, <2>12 DEF BlocksNest
<1>2. QED
  BY <1>1, InitBlocks, NextBlocks, StreamHolds, PTL DEF Spec

=============================================================================
