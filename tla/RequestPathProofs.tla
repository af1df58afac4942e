--------------------------- MODULE RequestPathProofs ---------------------------
(***************************************************************************)
(* Safety of the way of a request from the client's body to the upstream's,*)
(* for any clients, rules, edits, conversations and records.               *)
(*                                                                         *)
(* First what the model's operators do: induction over sequences, folds    *)
(* that distribute over concatenation (Cat and its laws, under which every *)
(* conversion of MessageIR is a sum over turns, or over blocks), validation*)
(* and its canonical form, the projection, the body, the evaluation of the *)
(* rules.  Then an invariant for each group of properties: PathTypes (the  *)
(* types, with the domains), FlowInv (what a request holds is what its     *)
(* steps so far made of the one before), TurnsInv (every turn is of a      *)
(* validated request or an answer), NamedInv (calls without a name),       *)
(* OriginInv (every request is the canonical form of an accepted body).    *)
(***************************************************************************)
EXTENDS RequestPath, PolicyRulesProofs, SequenceTheorems

-----------------------------------------------------------------------------
(***************************************************************************)
(* Sequences.  What holds of the empty one, and of every other if of the   *)
(* one without its last element, holds of all.                             *)
(***************************************************************************)
LEMMA InductionOnSeqs ==
    ASSUME NEW A, NEW S, <<>> \in S,
           \A s \in Seq(A), x \in A : s \in S => Append(s, x) \in S
    PROVE  Seq(A) \subseteq S
<1> DEFINE Good == {n \in Nat : \A s \in Seq(A) : Len(s) = n => s \in S}
<1>1. 0 \in Good
  OBVIOUS
<1>2. ASSUME NEW n \in Nat, n \in Good
      PROVE  n + 1 \in Good
  <2> SUFFICES ASSUME NEW s \in Seq(A), Len(s) = n + 1
               PROVE  s \in S
    BY <1>2
  <2> DEFINE t == SubSeq(s, 1, n)
  <2>1. t \in Seq(A) /\ Len(t) = n /\ s[n + 1] \in A
    OBVIOUS
  <2>2. s = Append(t, s[n + 1])
    OBVIOUS
  <2>3. t \in S
    BY <2>1, <1>2
  <2> HIDE DEF t
  <2>4. QED
    BY <2>1, <2>2, <2>3
<1> HIDE DEF Good
<1>3. Nat \subseteq Good
  BY <1>1, <1>2, InductionOnSets
<1>4. QED
  BY <1>3 DEF Good

\* The function of FlattenSeq.
Flattens(f, ss, N) == f = [i \in 1..N |-> IF i = 1 THEN ss[i] ELSE f[i - 1] \o ss[i]]

LEMMA FlattensExists ==
    ASSUME NEW ss, NEW N \in Nat
    PROVE  \E f : Flattens(f, ss, N)
<1> DEFINE Good == {n \in Nat : \E f : Flattens(f, ss, n)}
<1>1. 0 \in Good
  <2>1. Flattens([i \in 1..0 |-> i], ss, 0)
    BY DEF Flattens
  <2>2. QED
    BY <2>1
<1>2. ASSUME NEW n \in Nat, n \in Good
      PROVE  n + 1 \in Good
  <2>1. PICK f : Flattens(f, ss, n)
    BY <1>2
  <2> DEFINE last == IF n = 0 THEN ss[1] ELSE f[n] \o ss[n + 1]
             g == [i \in 1..(n + 1) |-> IF i = n + 1 THEN last ELSE f[i]]
             h == [i \in 1..(n + 1) |-> IF i = 1 THEN ss[i] ELSE g[i - 1] \o ss[i]]
  <2> HIDE DEF last
  <2>2. g[n + 1] = last /\ \A i \in 1..n : g[i] = f[i]
    OBVIOUS
  <2> HIDE DEF g
  <2>3. ASSUME NEW i \in 1..(n + 1)
        PROVE  g[i] = h[i]
    <3>1. CASE i = n + 1
      BY <3>1, <2>2 DEF last
    <3>2. CASE i # n + 1
      <4>1. i \in 1..n /\ (i # 1 => i - 1 \in 1..n)
        BY <3>2
      <4>2. f[i] = IF i = 1 THEN ss[i] ELSE f[i - 1] \o ss[i]
        BY <4>1, <2>1 DEF Flattens
      <4>3. QED
        BY <4>1, <4>2, <2>2
    <3>3. QED
      BY <3>1, <3>2
  <2>4. g = h
    BY <2>3 DEF g
  <2>5. Flattens(g, ss, n + 1)
    BY <2>4 DEF Flattens
  <2>6. QED
    BY <2>5
<1> HIDE DEF Good
<1>3. N \in Good
  BY <1>1, <1>2, InductionOnSets
<1>4. QED
  BY <1>3 DEF Good

LEMMA FlattenIs ==
    ASSUME NEW ss, Len(ss) \in Nat, Len(ss) # 0
    PROVE  \E f : Flattens(f, ss, Len(ss)) /\ FlattenSeq(ss) = f[Len(ss)]
<1> DEFINE f == CHOOSE f : Flattens(f, ss, Len(ss))
<1>1. Flattens(f, ss, Len(ss))
  BY FlattensExists
<1>2. FlattenSeq(ss) = f[Len(ss)]
  BY DEF FlattenSeq, Flattens
<1>3. QED
  BY <1>1, <1>2

LEMMA FlattenEmpty == FlattenSeq(<<>>) = <<>>
  BY DEF FlattenSeq

LEMMA FlattenAppend ==
    ASSUME NEW A, NEW ss \in Seq(Seq(A)), NEW s \in Seq(A)
    PROVE  FlattenSeq(Append(ss, s)) = FlattenSeq(ss) \o s
<1> DEFINE N == Len(ss)
           tt == Append(ss, s)
<1>1. N \in Nat /\ Len(tt) = N + 1 /\ tt[N + 1] = s /\ \A i \in 1..N : tt[i] = ss[i]
  OBVIOUS
<1> HIDE DEF tt
<1>2. PICK g : Flattens(g, tt, N + 1) /\ FlattenSeq(tt) = g[N + 1]
  BY <1>1, FlattenIs
<1>3. CASE N = 0
  <2>1. ss = <<>> /\ g[1] = s
    BY <1>1, <1>2, <1>3 DEF Flattens
  <2>2. QED
    BY <1>2, <1>3, <2>1, FlattenEmpty DEF tt
<1>4. CASE N # 0
  <2>1. PICK f : Flattens(f, ss, N) /\ FlattenSeq(ss) = f[N]
    BY <1>1, <1>4, FlattenIs
  <2> DEFINE Good == {n \in Nat : n + 1 <= N => f[n + 1] = g[n + 1]}
  <2>8. \A i \in 1..N : f[i] = IF i = 1 THEN ss[i] ELSE f[i - 1] \o ss[i]
    BY <2>1 DEF Flattens
  <2>9. \A i \in 1..(N + 1) : g[i] = IF i = 1 THEN tt[i] ELSE g[i - 1] \o tt[i]
    BY <1>2 DEF Flattens
  <2>2. 0 \in Good
    BY <1>1, <2>8, <2>9
  <2>3. ASSUME NEW n \in Nat, n \in Good
        PROVE  n + 1 \in Good
    <3> SUFFICES ASSUME n + 2 <= N
                 PROVE  f[n + 2] = g[n + 2]
      OBVIOUS
    <3> DEFINE i == n + 2
    <3>1. i \in 1..N /\ i # 1 /\ i - 1 = n + 1 /\ i \in 1..(N + 1)
      BY <1>1
    <3> HIDE DEF i
    <3>2. f[i] = f[i - 1] \o ss[i] /\ g[i] = g[i - 1] \o tt[i]
      BY <3>1, <2>8, <2>9
    <3>3. f[n + 1] = g[n + 1]
      BY <2>3, <1>1
    <3>4. f[i] = g[i]
      BY <1>1, <3>1, <3>2, <3>3
    <3>5. QED
      BY <3>4 DEF i
  <2> HIDE DEF Good
  <2>4. N - 1 \in Good
    <3>1. N - 1 \in Nat
      BY <1>1, <1>4
    <3>2. QED
      BY <3>1, <2>2, <2>3, InductionOnSets
  <2>5. f[N] = g[N]
    BY <2>4, <1>1, <1>4 DEF Good
  <2>6. g[N + 1] = g[N] \o s
    <3>1. N + 1 \in 1..(N + 1) /\ N + 1 # 1 /\ (N + 1) - 1 = N
      BY <1>1, <1>4
    <3>2. g[N + 1] = g[(N + 1) - 1] \o tt[N + 1]
      BY <3>1, <2>9
    <3>3. QED
      BY <3>1, <3>2, <1>1
  <2>7. QED
    BY <1>2, <2>1, <2>5, <2>6 DEF tt
<1>5. QED
  BY <1>3, <1>4

LEMMA FlattenType ==
    ASSUME NEW A, NEW ss \in Seq(Seq(A))
    PROVE  FlattenSeq(ss) \in Seq(A)
<1> DEFINE Good == {tt \in Seq(Seq(A)) : FlattenSeq(tt) \in Seq(A)}
<1>1. <<>> \in Good
  <2>1. <<>> \in Seq(Seq(A)) /\ <<>> \in Seq(A)
    OBVIOUS
  <2>2. QED
    BY <2>1, FlattenEmpty
<1>2. ASSUME NEW tt \in Seq(Seq(A)), NEW s \in Seq(A), tt \in Good
      PROVE  Append(tt, s) \in Good
  <2>1. Append(tt, s) \in Seq(Seq(A)) /\ FlattenSeq(tt) \in Seq(A)
    BY <1>2
  <2>2. FlattenSeq(Append(tt, s)) = FlattenSeq(tt) \o s
    BY FlattenAppend
  <2>3. FlattenSeq(tt) \o s \in Seq(A)
    BY <2>1
  <2>4. QED
    BY <2>1, <2>2, <2>3
<1> HIDE DEF Good
<1>3. Seq(Seq(A)) \subseteq Good
  BY <1>1, <1>2, InductionOnSeqs
<1>4. QED
  BY <1>3 DEF Good

\* The elements of a sequence of sequences, and of the sequence that it makes.
ElementsIn(s) == {s[i] : i \in DOMAIN s}

LEMMA FlattenElements ==
    ASSUME NEW A, NEW ss \in Seq(Seq(A))
    PROVE  ElementsIn(FlattenSeq(ss)) = UNION {ElementsIn(ss[i]) : i \in DOMAIN ss}
<1> DEFINE All(tt) == UNION {ElementsIn(tt[i]) : i \in DOMAIN tt}
           Good == {tt \in Seq(Seq(A)) : ElementsIn(FlattenSeq(tt)) = All(tt)}
<1>1. <<>> \in Good
  BY FlattenEmpty DEF ElementsIn
<1>2. ASSUME NEW tt \in Seq(Seq(A)), NEW s \in Seq(A), tt \in Good
      PROVE  Append(tt, s) \in Good
  <2>1. FlattenSeq(Append(tt, s)) = FlattenSeq(tt) \o s /\ FlattenSeq(tt) \in Seq(A)
    BY FlattenAppend, FlattenType
  <2>2. \A t \in Seq(A) : ElementsIn(t \o s) = ElementsIn(t) \cup ElementsIn(s)
    <3> SUFFICES ASSUME NEW t \in Seq(A)
                 PROVE  ElementsIn(t \o s) = ElementsIn(t) \cup ElementsIn(s)
      OBVIOUS
    <3>1. /\ DOMAIN t = 1..Len(t) /\ DOMAIN s = 1..Len(s)
          /\ DOMAIN (t \o s) = 1..(Len(t) + Len(s))
          /\ \A i \in 1..Len(t) : (t \o s)[i] = t[i] /\ i \in DOMAIN (t \o s)
          /\ \A i \in 1..Len(s) : (t \o s)[Len(t) + i] = s[i] /\ Len(t) + i \in DOMAIN (t \o s)
          /\ \A i \in DOMAIN (t \o s) : i \in 1..Len(t) \/ (i - Len(t) \in 1..Len(s) /\ i = Len(t) + (i - Len(t)))
      OBVIOUS
    <3> HIDE DEF Good, All
    <3>2. ASSUME NEW x \in ElementsIn(t \o s)
          PROVE  x \in ElementsIn(t) \cup ElementsIn(s)
      <4>1. PICK i \in DOMAIN (t \o s) : x = (t \o s)[i]
        BY DEF ElementsIn
      <4>2. QED
        BY <3>1, <4>1 DEF ElementsIn
    <3>3. ASSUME NEW x \in ElementsIn(t)
          PROVE  x \in ElementsIn(t \o s)
      BY <3>1 DEF ElementsIn
    <3>4. ASSUME NEW x \in ElementsIn(s)
          PROVE  x \in ElementsIn(t \o s)
      <4>1. PICK i \in 1..Len(s) : x = s[i]
        BY <3>1 DEF ElementsIn
      <4>2. (t \o s)[Len(t) + i] = x /\ Len(t) + i \in DOMAIN (t \o s)
        BY <3>1, <4>1
      <4>3. QED
        BY <4>2 DEF ElementsIn
    <3>5. QED
      BY <3>2, <3>3, <3>4
  <2>3. All(Append(tt, s)) = All(tt) \cup ElementsIn(s)
    <3>1. /\ DOMAIN Append(tt, s) = DOMAIN tt \cup {Len(tt) + 1}
          /\ Append(tt, s)[Len(tt) + 1] = s
          /\ \A i \in DOMAIN tt : Append(tt, s)[i] = tt[i]
      OBVIOUS
    <3>2. QED
      BY <3>1
  <2> HIDE DEF All
  <2>4. ElementsIn(FlattenSeq(tt)) = All(tt) /\ Append(tt, s) \in Seq(Seq(A))
    BY <1>2
  <2>5. ElementsIn(FlattenSeq(Append(tt, s))) = All(Append(tt, s))
    BY <2>1, <2>2, <2>3, <2>4
  <2>6. QED
    BY <2>4, <2>5
<1> HIDE DEF Good
<1>3. Seq(Seq(A)) \subseteq Good
  BY <1>1, <1>2, InductionOnSeqs
<1>4. QED
  BY <1>3 DEF Good

-----------------------------------------------------------------------------
(***************************************************************************)
(* Each conversion gives what its types say.                               *)
(***************************************************************************)
LEMMA PartTexts ==
    ASSUME NEW parts \in Seq(Parts)
    PROVE  Gather(PartText, parts) \in Texts
<1>1. \A p \in Parts : PartText(p) \in Seq(Words)
  <2>1. <<>> \in Seq(Words)
    OBVIOUS
  <2>2. QED
    BY <2>1 DEF Parts, PartText, Texts
<1>2. Each(PartText, parts) \in Seq(Seq(Words))
  BY <1>1 DEF Each
<1>3. QED
  BY <1>2, FlattenType DEF Gather, Texts

LEMMA DecodedType ==
    ASSUME NEW m \in Messages
    PROVE  /\ Decoded(m) \in Messages
           /\ Decoded(m).role = m.role
           /\ Decoded(m).parts = m.parts
           /\ Decoded(m).calls = m.calls
           /\ Decoded(m).id = m.id
  BY PartTexts DEF Messages, Decoded

LEMMA NamedCalls ==
    ASSUME NEW calls \in Seq(ToolCalls)
    PROVE  Those(Named, calls) \in Seq(ToolCalls)
<1> DEFINE F(c) == IF Named(c) THEN <<c>> ELSE <<>>
<1>1. \A c \in ToolCalls : F(c) \in Seq(ToolCalls)
  OBVIOUS
<1>2. [i \in 1..Len(calls) |-> F(calls[i])] \in Seq(Seq(ToolCalls))
  BY <1>1
<1>3. QED
  BY <1>2, FlattenType DEF Those, Gather, Each

LEMMA WithNamedCallsType ==
    ASSUME NEW messages \in Seq(Messages)
    PROVE  WithNamedCalls(messages) \in Seq(Messages) /\ Len(WithNamedCalls(messages)) = Len(messages)
<1> DEFINE F(m) == IF m.role = "assistant" THEN [m EXCEPT !.calls = Those(Named, @)] ELSE m
<1>1. \A m \in Messages : F(m) \in Messages
  BY NamedCalls DEF Messages
<1> HIDE DEF F
<1>2. [i \in 1..Len(messages) |-> F(messages[i])] \in Seq(Messages)
  BY <1>1
<1>3. QED
  BY <1>2 DEF WithNamedCalls, Each, F

Silent == {b \in Blocks : ~IsCall(b)}

LEMMA PartBlocks ==
    ASSUME NEW parts \in Seq(Parts), ~MalformedParts(parts)
    PROVE  Gather(PartBlock, parts) \in Seq(Blocks) /\ Gather(PartBlock, parts) \in Seq(Silent)
<1>1. \A i \in DOMAIN parts : PartBlock(parts[i]) \in Seq(Silent)
  <2> SUFFICES ASSUME NEW i \in DOMAIN parts
               PROVE  PartBlock(parts[i]) \in Seq(Silent)
    OBVIOUS
  <2> DEFINE p == parts[i]
  <2>1. p \in Parts /\ p.type \in {"text", "image_url"}
    BY DEF MalformedParts
  <2> HIDE DEF p
  <2>2. CASE p.type = "text"
    <3>1. Text(p.text) \in Silent
      BY <2>1, <2>2 DEF Parts, Text, Blocks, Silent, IsCall
    <3>2. QED
      BY <2>2, <3>1 DEF PartBlock, p
  <2>3. CASE p.type # "text"
    <3>1. Media("image", p.source) \in Silent
      BY <2>1, <2>3 DEF Parts, Media, Blocks, Silent, IsCall
    <3>2. QED
      BY <2>3, <3>1 DEF PartBlock, p
  <2>4. QED
    BY <2>2, <2>3
<1>2. Each(PartBlock, parts) \in Seq(Seq(Silent))
  BY <1>1 DEF Each
<1>3. Gather(PartBlock, parts) \in Seq(Silent)
  BY <1>2, FlattenType DEF Gather
<1>4. Silent \subseteq Blocks
  BY DEF Silent
<1>5. QED
  BY <1>3, <1>4

LEMMA TextBlockType ==
    ASSUME NEW s \in Texts
    PROVE  TextBlock(s) \in Seq(Blocks)
<1>1. Text(s) \in Blocks
  BY DEF Text, Blocks
<1>2. QED
  BY <1>1 DEF TextBlock

LEMMA CallBlocks ==
    ASSUME NEW calls \in Seq(ToolCalls)
    PROVE  Each(Call, calls) \in Seq(Blocks)
<1>1. \A c \in ToolCalls : Call(c) \in Blocks
  BY DEF Call, Blocks
<1>2. QED
  BY <1>1 DEF Each

LEMMA TurnOfMessageType ==
    ASSUME NEW m \in Messages, m.role \in Roles, ~MalformedParts(m.parts)
    PROVE  TurnOfMessage(m) \in Turns
<1>1. /\ m.text \in Texts /\ m.parts \in Seq(Parts) /\ m.calls \in Seq(ToolCalls)
      /\ m.id \in Words
  BY DEF Messages
<1>2. CASE m.role \in {"system", "user"}
  BY <1>1, <1>2, PartBlocks, TextBlockType DEF TurnOfMessage, Turns, Roles
<1>3. CASE m.role = "assistant"
  <2>1. TextBlock(m.text) \o Each(Call, m.calls) \in Seq(Blocks)
    BY <1>1, TextBlockType, CallBlocks
  <2>2. QED
    BY <1>3, <2>1 DEF TurnOfMessage, Turns, Roles
<1>4. CASE m.role = "tool"
  <2>1. Result(m.id, m.text) \in Blocks
    BY <1>1 DEF Result, Blocks
  <2>2. QED
    BY <1>4, <2>1 DEF TurnOfMessage, Turns, Roles
<1>5. QED
  BY <1>2, <1>3, <1>4 DEF Roles

LEMMA BlockOfContentType ==
    ASSUME NEW b \in Contents
    PROVE  BlockOfContent(b) \in Seq(Blocks)
<1>1. CASE b.type = "text"
  <2>1. Text(b.text) \in Blocks
    BY <1>1 DEF Contents, ContentTypes, Text, Blocks
  <2>2. QED
    BY <1>1, <2>1 DEF BlockOfContent
<1>2. CASE b.type = "thinking"
  <2>1. Reasoning(b.text) \in Blocks
    BY <1>2 DEF Contents, ContentTypes, Reasoning, Blocks
  <2>2. QED
    BY <1>2, <2>1 DEF BlockOfContent
<1>3. CASE b.type = "tool_use"
  <2>1. Call(b.call) \in Blocks
    BY <1>3 DEF Contents, ContentTypes, Call, Blocks
  <2>2. QED
    BY <1>3, <2>1 DEF BlockOfContent
<1>4. CASE b.type = "tool_result"
  <2>1. Result(b.id, b.text) \in Blocks
    BY <1>4 DEF Contents, ContentTypes, Result, Blocks
  <2>2. QED
    BY <1>4, <2>1 DEF BlockOfContent
<1>5. CASE b.type \in {"image", "document"}
  <2>1. Media(b.type, b.source) \in Blocks
    BY <1>5 DEF Contents, ContentTypes, Media, Blocks
  <2>2. QED
    BY <1>5, <2>1 DEF BlockOfContent
<1>6. QED
  BY <1>1, <1>2, <1>3, <1>4, <1>5 DEF BlockOfContent

LEMMA TurnOfContentType ==
    ASSUME NEW m \in AnthropicMessages, m.role \in {"user", "assistant"}
    PROVE  TurnOfContent(m) \in Turns
<1>1. Each(BlockOfContent, m.content) \in Seq(Seq(Blocks))
  BY BlockOfContentType DEF Each, AnthropicMessages
<1>2. Gather(BlockOfContent, m.content) \in Seq(Blocks)
  BY <1>1, FlattenType DEF Gather
<1>3. QED
  BY <1>2 DEF TurnOfContent, Turns, Roles

LEMMA SystemTurnType ==
    ASSUME NEW texts \in Seq(Texts)
    PROVE  SystemTurn(texts) \in Seq(Turns)
<1>1. Each(TextBlock, texts) \in Seq(Seq(Blocks))
  BY TextBlockType DEF Each
<1>2. Gather(TextBlock, texts) \in Seq(Blocks)
  BY <1>1, FlattenType DEF Gather
<1>3. [role |-> "system", blocks |-> Gather(TextBlock, texts)] \in Turns
  BY <1>2 DEF Turns, Roles
<1>4. QED
  BY <1>3 DEF SystemTurn

LEMMA OpenAITurns ==
    ASSUME NEW c \in OpenAIBodies, Accepted(c)
    PROVE  /\ WithNamedCalls(Each(Decoded, c.messages)) \in Seq(Messages)
           /\ Each(TurnOfMessage, WithNamedCalls(Each(Decoded, c.messages))) \in Seq(Turns)
           /\ \A m \in ElementsIn(WithNamedCalls(Each(Decoded, c.messages))) :
                /\ m.role \in Roles /\ ~MalformedParts(m.parts)
                /\ m.role = "assistant" => \E calls \in Seq(ToolCalls) : m.calls = Those(Named, calls)
<1> DEFINE decoded == Each(Decoded, c.messages)
           messages == WithNamedCalls(decoded)
<1>1. c.messages \in Seq(Messages) /\ ~IsAnthropic(c)
  BY DEF OpenAIBodies, IsAnthropic
<1>2. decoded \in Seq(Messages) /\ Len(decoded) = Len(c.messages)
  BY <1>1, DecodedType DEF Each
<1>3. messages \in Seq(Messages) /\ Len(messages) = Len(decoded)
  BY <1>2, WithNamedCallsType
<1>4. \A i \in 1..Len(decoded) :
        /\ decoded[i] = Decoded(c.messages[i])
        /\ messages[i].role = decoded[i].role
        /\ messages[i].parts = decoded[i].parts
        /\ messages[i].role = "assistant" =>
             \E calls \in Seq(ToolCalls) : messages[i].calls = Those(Named, calls)
  <2>1. \A i \in 1..Len(decoded) : decoded[i] \in Messages /\ decoded[i] = Decoded(c.messages[i])
    BY <1>2 DEF Each
  <2> HIDE DEF decoded
  <2>2. \A i \in 1..Len(decoded) :
          messages[i] = IF decoded[i].role = "assistant"
                        THEN [decoded[i] EXCEPT !.calls = Those(Named, @)]
                        ELSE decoded[i]
    BY <1>2 DEF WithNamedCalls, Each
  <2> HIDE DEF messages
  <2>3. QED
    BY <2>1, <2>2 DEF Messages
<1>5. \A i \in 1..Len(decoded) : decoded[i].parts = c.messages[i].parts
  <2> HIDE DEF decoded, messages
  <2>1. \A i \in 1..Len(decoded) : decoded[i] = Decoded(c.messages[i]) /\ c.messages[i] \in Messages
    BY <1>1, <1>2, <1>4
  <2>2. QED
    BY <2>1, DecodedType
<1>6. \A i \in 1..Len(decoded) : decoded[i].role \in Roles /\ ~MalformedParts(c.messages[i].parts)
  <2>1. (\A i \in DOMAIN c.messages : ~MalformedParts(c.messages[i].parts)) /\ ValidChat(decoded)
    BY <1>1 DEF Accepted
  <2> HIDE DEF decoded
  <2>2. \A i \in 1..Len(decoded) : Acceptable(decoded[i])
    BY <1>2, <2>1 DEF ValidChat
  <2>3. \A m : Acceptable(m) => m.role \in Roles
    BY DEF Acceptable, Roles
  <2>4. DOMAIN c.messages = 1..Len(decoded)
    BY <1>1, <1>2
  <2>5. QED
    BY <2>1, <2>2, <2>3, <2>4
<1> HIDE DEF decoded, messages
<1>7. \A i \in 1..Len(messages) : TurnOfMessage(messages[i]) \in Turns
  BY <1>2, <1>3, <1>4, <1>5, <1>6, TurnOfMessageType
<1>8. Each(TurnOfMessage, messages) \in Seq(Turns)
  BY <1>3, <1>7 DEF Each
<1>9. \A m \in ElementsIn(messages) :
        /\ m.role \in Roles /\ ~MalformedParts(m.parts)
        /\ m.role = "assistant" => \E calls \in Seq(ToolCalls) : m.calls = Those(Named, calls)
  <2>1. \A m \in ElementsIn(messages) : \E i \in 1..Len(decoded) : m = messages[i]
    BY <1>3 DEF ElementsIn
  <2>2. QED
    BY <1>4, <1>5, <1>6, <2>1
<1>10. QED
  BY <1>3, <1>8, <1>9 DEF messages, decoded

LEMMA AnthropicTurns ==
    ASSUME NEW c \in AnthropicBodies, Accepted(c)
    PROVE  /\ SystemTurn(c.system) \o Each(TurnOfContent, c.messages) \in Seq(Turns)
           /\ Each(TurnOfContent, c.messages) \in Seq(Turns)
<1>1. /\ c.messages \in Seq(AnthropicMessages)
      /\ c.system \in Seq(Texts)
      /\ IsAnthropic(c)
  BY DEF AnthropicBodies, IsAnthropic
<1>2. \A i \in 1..Len(c.messages) : c.messages[i].role \in {"user", "assistant"}
  <2>1. KnownRoles(c.messages)
    BY <1>1 DEF Accepted
  <2>2. QED
    BY <1>1, <2>1 DEF KnownRoles
<1>3. \A i \in 1..Len(c.messages) : TurnOfContent(c.messages[i]) \in Turns
  <2>1. \A i \in 1..Len(c.messages) : c.messages[i] \in AnthropicMessages
    BY <1>1
  <2>2. QED
    BY <1>2, <2>1, TurnOfContentType
<1>4. Each(TurnOfContent, c.messages) \in Seq(Turns)
  BY <1>1, <1>3 DEF Each
<1>5. QED
  BY <1>1, <1>4, SystemTurnType

Bodies == OpenAIBodies \cup AnthropicBodies

\* What the canonical form of a request is, field by field.
LEMMA CanonicalIs ==
    ASSUME NEW c \in Bodies, Accepted(c)
    PROVE  /\ Canonical(c) \in CanonicalRequests
           /\ Canonical(c).protocol = c.protocol
           /\ Canonical(c).model = c.model
           /\ Canonical(c).stream = c.stream
           /\ Canonical(c).tools = c.tools
           /\ Canonical(c).choice = c.choice
           /\ Canonical(c).session = IF c.header # "" THEN c.header ELSE c.session
           /\ Canonical(c).hasTools = (c.tools # <<>>)
           /\ c \in OpenAIBodies =>
                /\ Canonical(c).hasReasoning = FALSE
                /\ Canonical(c).turns =
                     Each(TurnOfMessage, WithNamedCalls(Each(Decoded, c.messages)))
           /\ c \in AnthropicBodies =>
                /\ Canonical(c).hasReasoning = (c.thinking # "disabled")
                /\ Canonical(c).turns = SystemTurn(c.system) \o Each(TurnOfContent, c.messages)
<1> DEFINE session == IF c.header # "" THEN c.header ELSE c.session
<1>1. <<>> \in Seq(Words)
  OBVIOUS
<1>2. CASE c \in OpenAIBodies
  <2> DEFINE turned == Each(TurnOfMessage, WithNamedCalls(Each(Decoded, c.messages)))
  <2>1. turned \in Seq(Turns)
    BY <1>2, OpenAITurns
  <2>2. Canonical(c) = [protocol |-> "openai", model |-> c.model, stream |-> c.stream,
                        session |-> session, tools |-> c.tools, choice |-> c.choice,
                        hasTools |-> c.tools # <<>>, hasReasoning |-> FALSE, tags |-> <<>>,
                        turns |-> turned]
    BY <1>2 DEF Canonical, CanonicalizeOpenAIRequest, OpenAIBodies, IsAnthropic
  <2> HIDE DEF turned
  <2>3. /\ c.protocol = "openai" /\ c \notin AnthropicBodies
        /\ c.model \in Words /\ c.stream \in BOOLEAN /\ session \in Words
        /\ c.tools \in Seq(Words) /\ c.choice \in Words
    BY <1>2 DEF OpenAIBodies, AnthropicBodies
  <2> HIDE DEF session
  <2>4. Canonical(c) \in CanonicalRequests
    BY <1>1, <2>1, <2>2, <2>3 DEF CanonicalRequests
  <2>5. /\ Canonical(c).protocol = c.protocol
        /\ Canonical(c).model = c.model
        /\ Canonical(c).stream = c.stream
        /\ Canonical(c).tools = c.tools
        /\ Canonical(c).choice = c.choice
        /\ Canonical(c).session = session
        /\ Canonical(c).turns = turned
    BY <2>2, <2>3
  <2>6. Canonical(c).hasTools = (c.tools # <<>>)
    BY <2>2
  <2>7. Canonical(c).hasReasoning = FALSE
    BY <2>2
  <2>8. QED
    BY <2>3, <2>4, <2>5, <2>6, <2>7 DEF turned, session
<1>3. CASE c \in AnthropicBodies
  <2> DEFINE turned == SystemTurn(c.system) \o Each(TurnOfContent, c.messages)
  <2>1. turned \in Seq(Turns)
    BY <1>3, AnthropicTurns
  <2>2. Canonical(c) = [protocol |-> "anthropic", model |-> c.model, stream |-> c.stream,
                        session |-> session, tools |-> c.tools, choice |-> c.choice,
                        hasTools |-> c.tools # <<>>, hasReasoning |-> c.thinking # "disabled",
                        tags |-> <<>>, turns |-> turned]
    BY <1>3 DEF Canonical, CanonicalizeAnthropicRequest, AnthropicBodies, IsAnthropic
  <2> HIDE DEF turned
  <2>3. /\ c.protocol = "anthropic" /\ c \notin OpenAIBodies
        /\ c.model \in Words /\ c.stream \in BOOLEAN /\ session \in Words
        /\ c.tools \in Seq(Words) /\ c.choice \in Words
    BY <1>3 DEF OpenAIBodies, AnthropicBodies
  <2> HIDE DEF session
  <2>4. Canonical(c) \in CanonicalRequests
    BY <1>1, <2>1, <2>2, <2>3 DEF CanonicalRequests
  <2>5. /\ Canonical(c).protocol = c.protocol
        /\ Canonical(c).model = c.model
        /\ Canonical(c).stream = c.stream
        /\ Canonical(c).tools = c.tools
        /\ Canonical(c).choice = c.choice
        /\ Canonical(c).session = session
        /\ Canonical(c).turns = turned
    BY <2>2, <2>3
  <2>6. Canonical(c).hasTools = (c.tools # <<>>)
    BY <2>2
  <2>7. Canonical(c).hasReasoning = (c.thinking # "disabled")
    BY <2>2
  <2>8. QED
    BY <2>3, <2>4, <2>5, <2>6, <2>7 DEF turned, session
<1>4. QED
  BY <1>2, <1>3 DEF Bodies

-----------------------------------------------------------------------------
(***************************************************************************)
(* The loop over the blocks of a turn of the user or the system.           *)
(***************************************************************************)
Reads(f, turn, N) ==
    f = [n \in 0..N |-> IF n = 0 THEN [out |-> <<>>, text |-> <<>>]
                        ELSE ReadBlock(f[n - 1], turn.blocks[n], turn.role)]

LEMMA ReadsExists ==
    ASSUME NEW turn, NEW N \in Nat
    PROVE  \E f : Reads(f, turn, N)
<1> DEFINE Good == {n \in Nat : \E f : Reads(f, turn, n)}
<1>1. 0 \in Good
  <2>1. Reads([n \in 0..0 |-> [out |-> <<>>, text |-> <<>>]], turn, 0)
    BY DEF Reads
  <2>2. QED
    BY <2>1
<1>2. ASSUME NEW n \in Nat, n \in Good
      PROVE  n + 1 \in Good
  <2>1. PICK f : Reads(f, turn, n)
    BY <1>2
  <2> DEFINE last == ReadBlock(f[n], turn.blocks[n + 1], turn.role)
             g == [m \in 0..(n + 1) |-> IF m = n + 1 THEN last ELSE f[m]]
             h == [m \in 0..(n + 1) |->
                     IF m = 0 THEN [out |-> <<>>, text |-> <<>>]
                     ELSE ReadBlock(g[m - 1], turn.blocks[m], turn.role)]
  <2> HIDE DEF last
  <2>2. g[n + 1] = last /\ \A m \in 0..n : g[m] = f[m]
    OBVIOUS
  <2> HIDE DEF g
  <2>3. ASSUME NEW m \in 0..(n + 1)
        PROVE  g[m] = h[m]
    <3>1. CASE m = n + 1
      <4>1. g[m - 1] = f[n]
        BY <3>1, <2>2
      <4>2. QED
        BY <3>1, <4>1, <2>2 DEF last
    <3>2. CASE m # n + 1
      <4>1. m \in 0..n /\ (m # 0 => m - 1 \in 0..n)
        BY <3>2
      <4>2. f[m] = IF m = 0 THEN [out |-> <<>>, text |-> <<>>]
                   ELSE ReadBlock(f[m - 1], turn.blocks[m], turn.role)
        BY <4>1, <2>1 DEF Reads
      <4>3. QED
        BY <4>1, <4>2, <2>2
    <3>3. QED
      BY <3>1, <3>2
  <2>4. g = h
    BY <2>3 DEF g
  <2>5. Reads(g, turn, n + 1)
    BY <2>4 DEF Reads
  <2>6. QED
    BY <2>5
<1> HIDE DEF Good
<1>3. N \in Good
  BY <1>1, <1>2, InductionOnSets
<1>4. QED
  BY <1>3 DEF Good

LEMMA UserLoop ==
    ASSUME NEW turn, Len(turn.blocks) \in Nat
    PROVE  \E f : /\ f[0] = [out |-> <<>>, text |-> <<>>]
                  /\ \A n \in 1..Len(turn.blocks) :
                       f[n] = ReadBlock(f[n - 1], turn.blocks[n], turn.role)
                  /\ ProjectUserLikeTurn(turn) = Flushed(f[Len(turn.blocks)], turn.role)
<1> DEFINE f == CHOOSE f : Reads(f, turn, Len(turn.blocks))
<1>1. Reads(f, turn, Len(turn.blocks))
  BY ReadsExists
<1>2. ProjectUserLikeTurn(turn) = Flushed(f[Len(turn.blocks)], turn.role)
  BY DEF ProjectUserLikeTurn, Reads
<1> HIDE DEF f
<1>3. f[0] = [out |-> <<>>, text |-> <<>>]
  BY <1>1 DEF Reads
<1>4. \A n \in 1..Len(turn.blocks) : f[n] = ReadBlock(f[n - 1], turn.blocks[n], turn.role)
  BY <1>1 DEF Reads
<1>5. QED
  BY <1>2, <1>3, <1>4

LEMMA WordsInUse ==
    /\ {"", "[thinking]", "[/thinking]", "[document]"} \subseteq Words
    /\ Roles \subseteq Words
  BY WordsAssumption

LEMMA NoElements == \A A : <<>> \in Seq(A)
  OBVIOUS

LEMMA InlineTextType ==
    ASSUME NEW b \in Blocks
    PROVE  InlineText(b) \in Texts /\ AssistantText(b) \in Texts
<1>1. /\ "[thinking]" \in Words /\ "[/thinking]" \in Words /\ "[document]" \in Words
      /\ <<>> \in Seq(Words)
  BY WordsInUse, NoElements
<1>2. b.type \in {"text", "reasoning", "tool_call", "tool_result", "image", "document"}
  BY DEF Blocks
<1>3. CASE b.type = "text"
  BY <1>3 DEF Blocks, InlineText, AssistantText, Texts
<1>4. CASE b.type = "reasoning"
  <2>1. b.text \in Seq(Words)
    BY <1>4 DEF Blocks, Texts
  <2>2. <<"[thinking]">> \o b.text \o <<"[/thinking]">> \in Seq(Words)
    BY <1>1, <2>1
  <2>3. QED
    BY <1>4, <2>2 DEF InlineText, AssistantText, Texts
<1>5. CASE b.type = "document"
  <2>1. b.source.data \in Words
    BY <1>5 DEF Blocks, Sources
  <2>2. DocumentText(b.source) \in Words
    BY <1>1, <2>1 DEF DocumentText
  <2>3. <<DocumentText(b.source)>> \in Seq(Words)
    BY <2>2
  <2>4. QED
    BY <1>1, <1>5, <2>3 DEF InlineText, AssistantText, Texts
<1>6. CASE b.type = "tool_result"
  <2>1. b.text \in Seq(Words)
    BY <1>6 DEF Blocks, Texts
  <2>2. QED
    BY <1>1, <1>6, <2>1 DEF InlineText, AssistantText, Texts
<1>7. CASE b.type \in {"tool_call", "image"}
  BY <1>1, <1>7 DEF InlineText, AssistantText, Texts
<1>8. QED
  BY <1>2, <1>3, <1>4, <1>5, <1>6, <1>7

LEMMA MessageType ==
    ASSUME NEW role \in Roles, NEW text \in Texts, NEW calls \in Seq(ToolCalls), NEW id \in Words
    PROVE  Message(role, text, calls, id) \in Messages
<1>1. <<>> \in Seq(Parts) /\ role \in Words
  BY WordsInUse, NoElements
<1>2. QED
  BY <1>1 DEF Message, Messages

LEMMA ResultMessageType ==
    ASSUME NEW b \in Blocks, IsResult(b)
    PROVE  ResultMessage(b) \in Messages
<1>1. b.id \in Words /\ b.text \in Texts
  BY DEF Blocks, IsResult
<1>2. <<>> \in Seq(ToolCalls) /\ "tool" \in Roles
  BY DEF Roles
<1>3. QED
  BY <1>1, <1>2, MessageType DEF ResultMessage

Progress == [out : Seq(Messages), text : Texts]

LEMMA FlushedType ==
    ASSUME NEW acc \in Progress, NEW role \in Roles
    PROVE  Flushed(acc, role) \in Seq(Messages)
<1> DEFINE m == Message(role, acc.text, <<>>, "")
<1>1. <<>> \in Seq(ToolCalls) /\ "" \in Words
  BY WordsInUse, NoElements
<1>2. m \in Messages
  BY <1>1, MessageType DEF Progress
<1>3. acc.out \in Seq(Messages)
  BY DEF Progress
<1>4. Flushed(acc, role) = IF acc.text = <<>> THEN acc.out ELSE Append(acc.out, m)
  BY DEF Flushed
<1> HIDE DEF m
<1>5. QED
  BY <1>2, <1>3, <1>4

LEMMA ReadBlockType ==
    ASSUME NEW acc \in Progress, NEW b \in Blocks, NEW role \in Roles
    PROVE  ReadBlock(acc, b, role) \in Progress
<1>1. CASE IsResult(b)
  <2>1. Append(Flushed(acc, role), ResultMessage(b)) \in Seq(Messages) /\ <<>> \in Seq(Words)
    BY <1>1, FlushedType, ResultMessageType
  <2>2. QED
    BY <1>1, <2>1 DEF ReadBlock, Progress, Texts
<1>2. CASE ~IsResult(b)
  <2>1. acc.text \in Seq(Words) /\ acc.out \in Seq(Messages) /\ InlineText(b) \in Seq(Words)
    BY InlineTextType DEF Progress, Texts
  <2>2. acc.text \o InlineText(b) \in Seq(Words)
    BY <2>1
  <2>3. QED
    BY <1>2, <2>1, <2>2 DEF ReadBlock, Progress, Texts
<1>3. QED
  BY <1>1, <1>2

LEMMA UserLikeType ==
    ASSUME NEW turn \in Turns
    PROVE  ProjectUserLikeTurn(turn) \in Seq(Messages)
<1> DEFINE blocks == turn.blocks
           N == Len(blocks)
<1>1. blocks \in Seq(Blocks) /\ turn.role \in Roles /\ N \in Nat
  BY DEF Turns
<1>2. PICK f : /\ f[0] = [out |-> <<>>, text |-> <<>>]
               /\ \A n \in 1..N : f[n] = ReadBlock(f[n - 1], blocks[n], turn.role)
               /\ ProjectUserLikeTurn(turn) = Flushed(f[N], turn.role)
  BY <1>1, UserLoop
<1> DEFINE Good == {n \in Nat : n <= N => f[n] \in Progress}
<1>3. 0 \in Good
  <2>1. <<>> \in Seq(Messages) /\ <<>> \in Texts
    BY NoElements DEF Texts
  <2>2. [out |-> <<>>, text |-> <<>>] \in Progress
    BY <2>1 DEF Progress
  <2>3. QED
    BY <1>2, <2>2
<1>4. ASSUME NEW n \in Nat, n \in Good
      PROVE  n + 1 \in Good
  <2> SUFFICES ASSUME n + 1 <= N
               PROVE  f[n + 1] \in Progress
    OBVIOUS
  <2>1. f[n + 1] = ReadBlock(f[n], blocks[n + 1], turn.role) /\ blocks[n + 1] \in Blocks
    BY <1>1, <1>2
  <2>2. f[n] \in Progress
    BY <1>1, <1>4
  <2>3. QED
    BY <1>1, <2>1, <2>2, ReadBlockType
<1> HIDE DEF Good
<1>5. N \in Good
  BY <1>1, <1>3, <1>4, InductionOnSets
<1>6. f[N] \in Progress
  BY <1>1, <1>5 DEF Good
<1>7. QED
  BY <1>1, <1>2, <1>6, FlushedType

-----------------------------------------------------------------------------
(***************************************************************************)
(* The elements that pass a test, given as the set of those that do.       *)
(***************************************************************************)
Chosen(s, T) == FlattenSeq([i \in 1..Len(s) |-> IF s[i] \in T THEN <<s[i]>> ELSE <<>>])

LEMMA ChosenType ==
    ASSUME NEW A, NEW s \in Seq(A), NEW T
    PROVE  /\ Chosen(s, T) \in Seq(A \cap T)
           /\ ElementsIn(Chosen(s, T)) = ElementsIn(s) \cap T
<1> DEFINE ss == [i \in 1..Len(s) |-> IF s[i] \in T THEN <<s[i]>> ELSE <<>>]
<1>1. Len(s) \in Nat /\ DOMAIN s = 1..Len(s) /\ \A i \in 1..Len(s) : s[i] \in A
  OBVIOUS
<1>2. \A i \in 1..Len(s) : ss[i] \in Seq(A \cap T)
  <2> SUFFICES ASSUME NEW i \in 1..Len(s)
               PROVE  ss[i] \in Seq(A \cap T)
    OBVIOUS
  <2>1. CASE s[i] \in T
    <3>1. <<s[i]>> \in Seq(A \cap T)
      BY <1>1, <2>1
    <3>2. QED
      BY <2>1, <3>1
  <2>2. CASE s[i] \notin T
    BY <2>2, NoElements
  <2>3. QED
    BY <2>1, <2>2
<1>3. ss \in Seq(Seq(A \cap T)) /\ DOMAIN ss = 1..Len(s)
  BY <1>1, <1>2
<1>4. \A i \in 1..Len(s) : ElementsIn(ss[i]) = {s[i]} \cap T
  <2> SUFFICES ASSUME NEW i \in 1..Len(s)
               PROVE  ElementsIn(ss[i]) = {s[i]} \cap T
    OBVIOUS
  <2>1. CASE s[i] \in T
    <3>1. ss[i] = <<s[i]>> /\ DOMAIN <<s[i]>> = {1}
      BY <2>1
    <3>2. QED
      BY <2>1, <3>1 DEF ElementsIn
  <2>2. CASE s[i] \notin T
    <3>1. ss[i] = <<>> /\ DOMAIN <<>> = {}
      BY <2>2
    <3>2. QED
      BY <2>2, <3>1 DEF ElementsIn
  <2>3. QED
    BY <2>1, <2>2
<1> HIDE DEF ss
<1>5. UNION {ElementsIn(ss[i]) : i \in DOMAIN ss} = ElementsIn(s) \cap T
  <2>1. ASSUME NEW x \in UNION {ElementsIn(ss[i]) : i \in DOMAIN ss}
        PROVE  x \in ElementsIn(s) \cap T
    <3>1. PICK i \in 1..Len(s) : x \in ElementsIn(ss[i])
      BY <1>3
    <3>2. QED
      BY <3>1, <1>1, <1>4 DEF ElementsIn
  <2>2. ASSUME NEW x \in ElementsIn(s) \cap T
        PROVE  x \in UNION {ElementsIn(ss[i]) : i \in DOMAIN ss}
    <3>1. PICK i \in 1..Len(s) : x = s[i]
      BY <1>1 DEF ElementsIn
    <3>2. QED
      BY <3>1, <1>3, <1>4
  <2>3. QED
    BY <2>1, <2>2
<1>6. QED
  BY <1>3, <1>5, FlattenType, FlattenElements DEF Chosen, ss

LEMMA CallsChosen ==
    ASSUME NEW blocks \in Seq(Blocks)
    PROVE  Those(IsCall, blocks) = Chosen(blocks, {b \in Blocks : IsCall(b)})
<1> DEFINE T == {b \in Blocks : IsCall(b)}
           F(b) == IF IsCall(b) THEN <<b>> ELSE <<>>
<1>1. [i \in 1..Len(blocks) |-> F(blocks[i])]
        = [i \in 1..Len(blocks) |-> IF blocks[i] \in T THEN <<blocks[i]>> ELSE <<>>]
  OBVIOUS
<1>2. QED
  BY <1>1 DEF Those, Gather, Each, Chosen

LEMMA ResultsChosen ==
    ASSUME NEW blocks \in Seq(Blocks)
    PROVE  Those(IsResult, blocks) = Chosen(blocks, {b \in Blocks : IsResult(b)})
<1> DEFINE T == {b \in Blocks : IsResult(b)}
           F(b) == IF IsResult(b) THEN <<b>> ELSE <<>>
<1>1. [i \in 1..Len(blocks) |-> F(blocks[i])]
        = [i \in 1..Len(blocks) |-> IF blocks[i] \in T THEN <<blocks[i]>> ELSE <<>>]
  OBVIOUS
<1>2. QED
  BY <1>1 DEF Those, Gather, Each, Chosen

LEMMA AssistantType ==
    ASSUME NEW turn \in Turns
    PROVE  /\ Gather(AssistantText, turn.blocks) \in Texts
           /\ Each(LAMBDA b : b.call, Those(IsCall, turn.blocks)) \in Seq(ToolCalls)
           /\ ProjectAssistantTurn(turn) \in Seq(Messages)
<1> DEFINE text == Gather(AssistantText, turn.blocks)
           chosen == Those(IsCall, turn.blocks)
           calls == [i \in 1..Len(chosen) |-> chosen[i].call]
<1>1. turn.blocks \in Seq(Blocks)
  BY DEF Turns
<1>2. text \in Texts
  <2>1. \A b \in Blocks : AssistantText(b) \in Seq(Words)
    BY InlineTextType DEF Texts
  <2>2. Each(AssistantText, turn.blocks) \in Seq(Seq(Words))
    BY <1>1, <2>1 DEF Each
  <2>3. QED
    BY <2>2, FlattenType DEF Gather, Texts
<1>3. chosen \in Seq({b \in Blocks : IsCall(b)})
  <2>1. chosen \in Seq(Blocks \cap {b \in Blocks : IsCall(b)})
    <3> DEFINE T == {b \in Blocks : IsCall(b)}
    <3>1. chosen = Chosen(turn.blocks, T)
      BY <1>1, CallsChosen
    <3> HIDE DEF T, chosen
    <3>2. chosen \in Seq(Blocks \cap T)
      BY <1>1, <3>1, ChosenType
    <3>3. QED
      BY <3>2 DEF T
  <2>2. Blocks \cap {b \in Blocks : IsCall(b)} = {b \in Blocks : IsCall(b)}
    OBVIOUS
  <2>3. QED
    BY <2>1, <2>2
<1> HIDE DEF text, chosen
<1>4. calls \in Seq(ToolCalls)
  <2>1. \A b \in Blocks : IsCall(b) => b.call \in ToolCalls
    BY DEF Blocks, IsCall
  <2>2. QED
    BY <1>3, <2>1
<1>5. Each(LAMBDA b : b.call, chosen) = calls
  BY DEF Each
<1> HIDE DEF calls
<1>6. Message("assistant", text, calls, "") \in Messages
  <2>1. "assistant" \in Roles /\ "" \in Words
    BY WordsInUse DEF Roles
  <2>2. QED
    BY <1>2, <1>4, <2>1, MessageType
<1>7. ProjectAssistantTurn(turn) =
        IF text = <<>> /\ calls = <<>> THEN <<>> ELSE <<Message("assistant", text, calls, "")>>
  BY <1>5 DEF ProjectAssistantTurn, text, chosen
<1>8. ProjectAssistantTurn(turn) \in Seq(Messages)
  <2> DEFINE m == Message("assistant", text, calls, "")
  <2>1. /\ m \in Messages
        /\ ProjectAssistantTurn(turn) = IF text = <<>> /\ calls = <<>> THEN <<>> ELSE <<m>>
    BY <1>6, <1>7
  <2> HIDE DEF m
  <2>2. <<m>> \in Seq(Messages) /\ <<>> \in Seq(Messages)
    BY <2>1, NoElements
  <2>3. QED
    BY <2>1, <2>2
<1>9. QED
  BY <1>2, <1>4, <1>5, <1>8 DEF text, chosen

LEMMA ToolTurnType ==
    ASSUME NEW turn \in Turns
    PROVE  Each(ResultMessage, Those(IsResult, turn.blocks)) \in Seq(Messages)
<1> DEFINE chosen == Those(IsResult, turn.blocks)
<1>1. turn.blocks \in Seq(Blocks)
  BY DEF Turns
<1>2. chosen \in Seq(Blocks \cap {b \in Blocks : IsResult(b)})
  <2> DEFINE T == {b \in Blocks : IsResult(b)}
  <2>1. chosen = Chosen(turn.blocks, T)
    BY <1>1, ResultsChosen
  <2> HIDE DEF T, chosen
  <2>2. chosen \in Seq(Blocks \cap T)
    BY <1>1, <2>1, ChosenType
  <2>3. QED
    BY <2>2 DEF T
<1> HIDE DEF chosen
<1>3. \A i \in 1..Len(chosen) : ResultMessage(chosen[i]) \in Messages
  BY <1>2, ResultMessageType
<1>4. [i \in 1..Len(chosen) |-> ResultMessage(chosen[i])] \in Seq(Messages)
  BY <1>2, <1>3
<1>5. QED
  BY <1>4 DEF Each, chosen

LEMMA ProjectTurnType ==
    ASSUME NEW turn \in Turns
    PROVE  ProjectTurn(turn) \in Seq(Messages)
<1>1. turn.role \in Roles
  BY DEF Turns
<1>2. QED
  BY <1>1, UserLikeType, AssistantType, ToolTurnType DEF ProjectTurn, Roles

LEMMA ProjectTurnsType ==
    ASSUME NEW ts \in Seq(Turns)
    PROVE  ProjectTurns(ts) \in Seq(Messages)
<1>1. Each(ProjectTurn, ts) \in Seq(Seq(Messages))
  BY ProjectTurnType DEF Each
<1>2. QED
  BY <1>1, FlattenType DEF ProjectTurns, Gather

-----------------------------------------------------------------------------
(***************************************************************************)
(* Replay bodies are requests again.                                       *)
(***************************************************************************)
LEMMA OpenAIReplayType ==
    ASSUME NEW r \in CanonicalRequests, NEW again \in BOOLEAN
    PROVE  OpenAIReplay(r, again) \in OpenAIBodies
<1>1. /\ r.model \in Words /\ r.stream \in BOOLEAN /\ r.session \in Words
      /\ r.tools \in Seq(Words) /\ r.choice \in Words /\ r.turns \in Seq(Turns)
  BY DEF CanonicalRequests
<1>2. "" \in Words /\ <<>> \in Seq(Words) /\ NoChoice \in Words
  BY WordsInUse, NoElements DEF NoChoice
<1>3. ProjectTurns(r.turns) \in Seq(Messages)
  BY <1>1, ProjectTurnsType
<1>4. QED
  BY <1>1, <1>2, <1>3 DEF OpenAIReplay, OpenAIBodies

LEMMA ContentOfTurnType ==
    ASSUME NEW t \in Turns
    PROVE  ContentOfTurn(t) \in AnthropicMessages
<1>1. \A b \in Blocks : ContentOfBlock(b) \in Contents
  <2> SUFFICES ASSUME NEW b \in Blocks
               PROVE  ContentOfBlock(b) \in Contents
    OBVIOUS
  <2>1. CASE b.type = "reasoning"
    BY <2>1 DEF ContentOfBlock, Blocks, Contents
  <2>2. CASE b.type = "tool_call"
    BY <2>2 DEF ContentOfBlock, Blocks, Contents
  <2>3. CASE b.type \notin {"reasoning", "tool_call"}
    <3>1. ContentOfBlock(b) = b
      BY <2>3 DEF ContentOfBlock
    <3>2. b \in Contents
      BY <2>3 DEF Blocks, Contents
    <3>3. QED
      BY <3>1, <3>2
  <2>4. QED
    BY <2>1, <2>2, <2>3
<1>2. t.blocks \in Seq(Blocks) /\ t.role \in Words
  BY WordsInUse DEF Turns
<1>3. Each(ContentOfBlock, t.blocks) \in Seq(Contents)
  BY <1>1, <1>2 DEF Each
<1>4. QED
  BY <1>2, <1>3 DEF ContentOfTurn, AnthropicMessages

\* The turns of which a replay makes messages, and those of which it makes the system text.
SpeakingTurns == {t \in Turns : t.role \in {"user", "assistant"} /\ t.blocks # <<>>}
SystemTurns == {t \in Turns : t.role = "system"}

PlainText(b) == IF b.type = "text" THEN b.text ELSE <<>>

LEMMA AnthropicReplayIs ==
    ASSUME NEW r, r.turns \in Seq(Turns), NEW again
    PROVE  AnthropicReplay(r, again) =
             [protocol |-> "anthropic", header |-> "", historical |-> again,
              model |-> r.model, stream |-> r.stream, session |-> r.session,
              system |-> <<FlattenSeq([i \in 1..Len(Chosen(r.turns, SystemTurns)) |->
                             Gather(PlainText, Chosen(r.turns, SystemTurns)[i].blocks)])>>,
              tools |-> IF r.hasTools THEN r.tools ELSE <<>>,
              choice |-> NoChoice,
              thinking |-> IF r.hasReasoning THEN "default" ELSE "disabled",
              messages |-> Each(ContentOfTurn, Chosen(r.turns, SpeakingTurns))]
<1> DEFINE Speaks(t) == t.role \in {"user", "assistant"} /\ t.blocks # <<>>
           IsSystem(t) == t.role = "system"
           F(t) == IF Speaks(t) THEN <<t>> ELSE <<>>
           G(t) == IF IsSystem(t) THEN <<t>> ELSE <<>>
           ts == r.turns
<1>1. [i \in 1..Len(ts) |-> F(ts[i])]
        = [i \in 1..Len(ts) |-> IF ts[i] \in SpeakingTurns THEN <<ts[i]>> ELSE <<>>]
  BY DEF SpeakingTurns
<1>2. [i \in 1..Len(ts) |-> G(ts[i])]
        = [i \in 1..Len(ts) |-> IF ts[i] \in SystemTurns THEN <<ts[i]>> ELSE <<>>]
  BY DEF SystemTurns
<1>3. /\ Those(Speaks, ts) = FlattenSeq([i \in 1..Len(ts) |-> F(ts[i])])
      /\ Those(IsSystem, ts) = FlattenSeq([i \in 1..Len(ts) |-> G(ts[i])])
  BY DEF Those, Gather, Each
<1>4. Those(Speaks, ts) = Chosen(ts, SpeakingTurns) /\ Those(IsSystem, ts) = Chosen(ts, SystemTurns)
  BY <1>1, <1>2, <1>3 DEF Chosen
<1>5. QED
  BY <1>4 DEF AnthropicReplay, Gather, Each, PlainText

LEMMA AnthropicReplayType ==
    ASSUME NEW r \in CanonicalRequests, NEW again \in BOOLEAN
    PROVE  AnthropicReplay(r, again) \in AnthropicBodies
<1> DEFINE systems == Chosen(r.turns, SystemTurns)
           speaking == Chosen(r.turns, SpeakingTurns)
           texts == [i \in 1..Len(systems) |-> Gather(PlainText, systems[i].blocks)]
           blank == ""
           messages == [i \in 1..Len(speaking) |-> ContentOfTurn(speaking[i])]
<1>1. /\ r.model \in Words /\ r.stream \in BOOLEAN /\ r.session \in Words
      /\ r.tools \in Seq(Words) /\ r.turns \in Seq(Turns)
  BY DEF CanonicalRequests
<1>2. blank \in Words /\ <<>> \in Seq(Words) /\ NoChoice \in Words
  BY WordsInUse, NoElements DEF NoChoice
<1>3. systems \in Seq(Turns \cap SystemTurns) /\ speaking \in Seq(Turns \cap SpeakingTurns)
  BY <1>1, ChosenType
<1>4. AnthropicReplay(r, again) =
        [protocol |-> "anthropic", header |-> "", historical |-> again,
         model |-> r.model, stream |-> r.stream, session |-> r.session,
         system |-> <<FlattenSeq(texts)>>,
         tools |-> IF r.hasTools THEN r.tools ELSE <<>>,
         choice |-> NoChoice,
         thinking |-> IF r.hasReasoning THEN "default" ELSE "disabled",
         messages |-> messages]
  BY <1>1, AnthropicReplayIs DEF Each
<1> HIDE DEF systems, speaking
<1>5. messages \in Seq(AnthropicMessages)
  <2>1. \A i \in 1..Len(speaking) : ContentOfTurn(speaking[i]) \in AnthropicMessages
    BY <1>3, ContentOfTurnType
  <2>2. QED
    BY <1>3, <2>1
<1>6. FlattenSeq(texts) \in Texts
  <2>1. \A t \in Turns : Gather(PlainText, t.blocks) \in Seq(Words)
    <3> SUFFICES ASSUME NEW t \in Turns
                 PROVE  Gather(PlainText, t.blocks) \in Seq(Words)
      OBVIOUS
    <3>1. \A b \in Blocks : PlainText(b) \in Seq(Words)
      BY <1>2 DEF Blocks, PlainText, Texts
    <3>2. t.blocks \in Seq(Blocks)
      BY DEF Turns
    <3>3. Each(PlainText, t.blocks) \in Seq(Seq(Words))
      BY <3>1, <3>2 DEF Each
    <3>4. QED
      BY <3>3, FlattenType DEF Gather
  <2>2. \A i \in 1..Len(systems) : systems[i] \in Turns
    BY <1>3
  <2>3. texts \in Seq(Seq(Words))
    BY <1>3, <2>1, <2>2
  <2>4. QED
    BY <2>3, FlattenType DEF Texts
<1> HIDE DEF texts, messages
<1>7. <<FlattenSeq(texts)>> \in Seq(Texts)
  BY <1>6
<1>8. /\ (IF r.hasTools THEN r.tools ELSE <<>>) \in Seq(Words)
      /\ (IF r.hasReasoning THEN "default" ELSE "disabled") \in {"default", "disabled"}
  BY <1>1, <1>2
<1> DEFINE tools == IF r.hasTools THEN r.tools ELSE <<>>
           thinking == IF r.hasReasoning THEN "default" ELSE "disabled"
           system == <<FlattenSeq(texts)>>
<1>9. AnthropicReplay(r, again) =
        [protocol |-> "anthropic", header |-> blank, historical |-> again,
         model |-> r.model, stream |-> r.stream, session |-> r.session,
         system |-> system, tools |-> tools, choice |-> NoChoice, thinking |-> thinking,
         messages |-> messages]
  BY <1>4
<1>10. tools \in Seq(Words) /\ thinking \in {"default", "disabled"} /\ system \in Seq(Texts)
  BY <1>7, <1>8
<1> HIDE DEF tools, thinking, system, blank
<1>11. QED
  BY <1>1, <1>2, <1>5, <1>9, <1>10, SMTT(60) DEF AnthropicBodies
\* A request to the handlers whose session ids are those in use.
Enterable(c) ==
    /\ c \in Bodies
    /\ c.historical \in BOOLEAN
    /\ c.header \in Sids \cup {NoSession}
    /\ c.session \in Sids \cup {NoSession}

LEMMA ReplayIsEnterable ==
    ASSUME NEW r \in CanonicalRequests, r.session \in Sids \cup {NoSession},
           NEW again \in BOOLEAN
    PROVE  Enterable(ReplayBody(r, again))
<1>1. ReplayBody(r, again) \in Bodies
  BY OpenAIReplayType, AnthropicReplayType DEF ReplayBody, Bodies
<1>2. /\ ReplayBody(r, again).header = ""
      /\ ReplayBody(r, again).session = r.session
      /\ ReplayBody(r, again).historical = again
  BY DEF ReplayBody, OpenAIReplay, AnthropicReplay
<1>3. QED
  BY <1>1, <1>2, PathAssumption DEF Enterable

LEMMA ClientRequestIsEnterable ==
    ASSUME NEW c \in ClientRequests
    PROVE  Enterable(c)
<1>1. c \in Bodies /\ c.header \in Sids \cup {NoSession} /\ c.session \in Sids \cup {NoSession}
  BY PathAssumption DEF Bodies
<1>2. c.historical \in BOOLEAN
  BY <1>1 DEF Bodies, OpenAIBodies, AnthropicBodies
<1>3. QED
  BY <1>1, <1>2 DEF Enterable

LEMMA SessionOf ==
    ASSUME NEW c, Enterable(c), Accepted(c)
    PROVE  /\ RequestSessionID(c) \in Sids \cup {NoSession}
           /\ Canonical(c).session \in Sids \cup {NoSession}
  BY CanonicalIs, PathAssumption DEF Enterable, RequestSessionID

-----------------------------------------------------------------------------
(***************************************************************************)
(* What the policies make of a request is a request.                       *)
(***************************************************************************)
LEMMA TakeType ==
    ASSUME NEW e, Actions(e), NEW a, Actions(a)
    PROVE  Actions(Take(e, a))
<1> DEFINE t == Take(e, a)
<1>1. /\ DOMAIN t = DOMAIN e \cup DOMAIN a
      /\ \A x \in DOMAIN t :
           t[x] = CASE x = "add_tags" -> Tags(e) \o Tags(a)
                    [] x # "add_tags" /\ x \in DOMAIN e -> e[x]
                    [] OTHER -> a[x]
  BY DEF Take
<1> HIDE DEF t
<1>2. Tags(e) \in Seq(Words) /\ Tags(a) \in Seq(Words)
  BY NoElements DEF Actions, Tags
<1>3. Tags(e) \o Tags(a) \in Seq(Words)
  BY <1>2
<1>4. \A x \in DOMAIN t \ {"add_tags"} : t[x] = IF x \in DOMAIN e THEN e[x] ELSE a[x]
  BY <1>1
<1>5. "add_tags" \in DOMAIN t => t["add_tags"] \in Seq(Words)
  BY <1>1, <1>3
<1>6. Actions(t)
  BY <1>1, <1>4, <1>5 DEF Actions
<1>7. QED
  BY <1>6 DEF t

LEMMA EffectiveActionsType ==
    ASSUME NEW ordered, Len(ordered) \in Nat, NEW attrs,
           \A i \in 1..Len(ordered) : Actions(ordered[i].actions)
    PROVE  Actions(EffectiveActions(ordered, attrs))
<1> DEFINE N == Len(ordered)
           f == CHOOSE f : Loop(f, ordered, attrs, N)
           Good == {n \in Nat : n <= N => Actions(f[n])}
<1>1. Loop(f, ordered, attrs, N)
  BY LoopExists
<1>2. EffectiveActions(ordered, attrs) = f[N]
  BY DEF EffectiveActions, Loop
<1> HIDE DEF f
<1>3. /\ f[0] = NoActions
      /\ \A n \in 1..N : f[n] = IF RuleMatches(ordered[n].match, attrs)
                                 THEN Take(f[n - 1], ordered[n].actions)
                                 ELSE f[n - 1]
  BY <1>1 DEF Loop
<1>4. 0 \in Good
  BY <1>3 DEF NoActions, Actions
<1>5. ASSUME NEW n \in Nat, n \in Good
      PROVE  n + 1 \in Good
  <2> SUFFICES ASSUME n + 1 <= N
               PROVE  Actions(f[n + 1])
    OBVIOUS
  <2>1. Actions(f[n])
    BY <1>5
  <2>2. n + 1 \in 1..N /\ (n + 1) - 1 = n
    OBVIOUS
  <2>3. f[n + 1] = f[n] \/ f[n + 1] = Take(f[n], ordered[n + 1].actions)
    BY <1>3, <2>2
  <2>4. QED
    BY <2>1, <2>2, <2>3, TakeType
<1> HIDE DEF Good
<1>6. N \in Good
  BY <1>4, <1>5, InductionOnSets
<1>7. QED
  BY <1>2, <1>6 DEF Good

LEMMA ApplyActionsIs ==
    ASSUME NEW r \in CanonicalRequests, NEW a, Actions(a)
    PROVE  LET p == ApplyActions(r, a)
               denied == "allow_tools" \in DOMAIN a /\ ~a["allow_tools"]
           IN  /\ p \in CanonicalRequests
               /\ p.protocol = r.protocol
               /\ p.session = r.session
               /\ p.turns = r.turns
               /\ p.stream = r.stream
               /\ p.model = IF "rewrite_model" \in DOMAIN a THEN a["rewrite_model"] ELSE r.model
               /\ p.hasReasoning =
                    IF "set_reasoning" \in DOMAIN a THEN a["set_reasoning"] ELSE r.hasReasoning
               /\ p.tools = IF denied THEN <<>> ELSE r.tools
               /\ p.choice = IF denied THEN "" ELSE r.choice
               /\ p.hasTools = IF "allow_tools" \in DOMAIN a THEN a["allow_tools"] ELSE r.hasTools
<1> DEFINE denied == "allow_tools" \in DOMAIN a /\ ~a["allow_tools"]
           model == IF "rewrite_model" \in DOMAIN a THEN a["rewrite_model"] ELSE r.model
           reasons == IF "set_reasoning" \in DOMAIN a THEN a["set_reasoning"] ELSE r.hasReasoning
           has == IF "allow_tools" \in DOMAIN a THEN a["allow_tools"] ELSE r.hasTools
           tools == IF denied THEN <<>> ELSE r.tools
           choice == IF denied THEN "" ELSE r.choice
           tags == r.tags \o Tags(a)
<1>1. /\ r.protocol \in {"openai", "anthropic"} /\ r.model \in Words /\ r.stream \in BOOLEAN
      /\ r.session \in Words /\ r.tools \in Seq(Words) /\ r.choice \in Words
      /\ r.hasTools \in BOOLEAN /\ r.hasReasoning \in BOOLEAN /\ r.tags \in Seq(Words)
      /\ r.turns \in Seq(Turns)
  BY DEF CanonicalRequests
<1>2. ApplyActions(r, a) =
        [protocol |-> r.protocol, model |-> model, stream |-> r.stream, session |-> r.session,
         tools |-> tools, choice |-> choice, hasTools |-> has, hasReasoning |-> reasons,
         tags |-> tags, turns |-> r.turns]
  <2>1. r = [protocol |-> r.protocol, model |-> r.model, stream |-> r.stream,
             session |-> r.session, tools |-> r.tools, choice |-> r.choice,
             hasTools |-> r.hasTools, hasReasoning |-> r.hasReasoning, tags |-> r.tags,
             turns |-> r.turns]
    BY DEF CanonicalRequests
  <2>2. ApplyActions(r, a) =
          [r EXCEPT !.model = model, !.hasReasoning = reasons, !.hasTools = has,
                    !.tools = tools, !.choice = choice, !.tags = tags]
    BY DEF ApplyActions
  <2> HIDE DEF model, reasons, has, tools, choice, tags
  <2>3. QED
    BY <2>1, <2>2
<1>3. model \in Words
  BY <1>1 DEF Actions
<1>4. reasons \in BOOLEAN /\ has \in BOOLEAN
  BY <1>1 DEF Actions
<1>5. tools \in Seq(Words) /\ choice \in Words
  BY <1>1, WordsInUse, NoElements
<1>6. tags \in Seq(Words)
  <2>1. Tags(a) \in Seq(Words)
    BY NoElements DEF Actions, Tags
  <2>2. QED
    BY <1>1, <2>1
<1> HIDE DEF model, reasons, has, tools, choice, tags
<1>7. ApplyActions(r, a) \in CanonicalRequests
  BY <1>1, <1>2, <1>3, <1>4, <1>5, <1>6 DEF CanonicalRequests
<1>8. /\ ApplyActions(r, a).protocol = r.protocol
      /\ ApplyActions(r, a).session = r.session
      /\ ApplyActions(r, a).turns = r.turns
      /\ ApplyActions(r, a).stream = r.stream
      /\ ApplyActions(r, a).model = model
      /\ ApplyActions(r, a).tools = tools
      /\ ApplyActions(r, a).choice = choice
  BY <1>2
<1>9. ApplyActions(r, a).hasReasoning = reasons
  BY <1>2
<1>10. ApplyActions(r, a).hasTools = has
  BY <1>2
<1>11. QED
  BY <1>7, <1>8, <1>9, <1>10 DEF model, reasons, has, tools, choice

LEMMA EnabledRules ==
    ASSUME NEW R, Rows(R), \A r \in R : Actions(r.actions)
    PROVE  LET enabled == {r \in R : r.enabled}
           IN  /\ Rows(enabled)
               /\ Len(InOrder(enabled)) \in Nat
               /\ \A i \in 1..Len(InOrder(enabled)) : Actions(InOrder(enabled)[i].actions)
<1> DEFINE enabled == {r \in R : r.enabled}
<1>1. Rows(enabled)
  BY FS_Subset DEF Rows
<1> HIDE DEF enabled
<1>2. InOrder(enabled) \in Seq(enabled)
  BY <1>1, InOrderReturnsAll
<1>3. \A r \in enabled : Actions(r.actions)
  BY DEF enabled
<1>4. /\ Len(InOrder(enabled)) \in Nat
      /\ \A i \in 1..Len(InOrder(enabled)) : Actions(InOrder(enabled)[i].actions)
  BY <1>2, <1>3
<1>5. QED
  BY <1>1, <1>4 DEF enabled

-----------------------------------------------------------------------------
(***************************************************************************)
(* What the store adds in front of a request's turns.                      *)
(***************************************************************************)
LEMMA BuiltIs ==
    ASSUME turns \in [Sids -> Seq(Turns)], NEW s \in Sids \cup {NoSession},
           NEW incoming \in Seq(Turns)
    PROVE  /\ Built(s, incoming) \in Seq(Turns)
           /\ \E before \in Seq(Turns) : Built(s, incoming) = before \o incoming
           /\ ElementsIn(Built(s, incoming)) \subseteq
                ElementsIn(incoming) \cup (IF s \in Sids THEN ElementsIn(turns[s]) ELSE {})
<1>1. CASE Built(s, incoming) = incoming
  <2>1. <<>> \in Seq(Turns) /\ <<>> \o incoming = incoming
    OBVIOUS
  <2>2. QED
    BY <1>1, <2>1
<1>2. CASE s \in Sids /\ Built(s, incoming) = turns[s] \o incoming
  <2>1. turns[s] \in Seq(Turns)
    BY <1>2
  <2>2. ElementsIn(turns[s] \o incoming) \subseteq ElementsIn(incoming) \cup ElementsIn(turns[s])
    BY <2>1 DEF ElementsIn
  <2>3. turns[s] \o incoming \in Seq(Turns)
    BY <2>1
  <2>4. QED
    BY <1>2, <2>1, <2>2, <2>3
<1>3. QED
  BY <1>1, <1>2 DEF Built, Merge

-----------------------------------------------------------------------------
(***************************************************************************)
(* Type correctness.  EXCEPT gives a value at an index of the function     *)
(* only, so what TypeOK says of sent and used needs their domains too.     *)
(***************************************************************************)
StoreTypes ==
    /\ live \subseteq Sids
    /\ turns \in [Sids -> Seq(Turns)]

RuleTypes ==
    /\ Rows(rules)
    /\ nextRule \in Nat \ {0}
    /\ \A r \in rules : r.id \in 1..(nextRule - 1) /\ Actions(r.actions)

States == {"idle", "received", "judged", "built", "sent", "refused", "done"}
MaybeRequests == CanonicalRequests \cup {Nothing}

\* What there is of a request by the state it is in.
StageTypes(state, a, b, c, d) ==
    /\ state \in {"received", "judged", "built", "sent", "done"} => a # Nothing
    /\ state \in {"judged", "built", "sent", "done"} => b # Nothing
    /\ state \in {"built", "sent", "done"} => c # Nothing
    /\ state \in {"sent", "done"} <=> d # Nothing
    /\ \A request \in {a, b, c} : request # Nothing => request.session \in Sids \cup {NoSession}

RequestTypes ==
    /\ pc \in [Reqs -> States]
    /\ historical \subseteq Reqs
    /\ records \subseteq {q \in Reqs : pc[q] = "done"}
    /\ origin \in [Reqs -> records \cup {Nothing}]
    /\ sid \in [Reqs -> Sids \cup {NoSession}]
    /\ pre \in [Reqs -> MaybeRequests]
    /\ post \in [Reqs -> MaybeRequests]
    /\ merged \in [Reqs -> MaybeRequests]
    /\ DOMAIN sent = Reqs
    /\ DOMAIN used = Reqs
    /\ \A q \in Reqs : StageTypes(pc[q], pre[q], post[q], merged[q], sent[q])

PathTypes == StoreTypes /\ RuleTypes /\ RequestTypes

LEMMA PathTypesGive == PathTypes => TypeOK
<1> SUFFICES ASSUME PathTypes PROVE TypeOK
  OBVIOUS
<1>1. {pre, post, merged} \subseteq [Reqs -> CanonicalRequests \cup {Nothing}]
  BY DEF PathTypes, RequestTypes, MaybeRequests
<1>2. pc \in [Reqs -> {"idle", "received", "judged", "built", "sent", "refused", "done"}]
  BY DEF PathTypes, RequestTypes, States
<1>3. QED
  BY <1>1, <1>2 DEF PathTypes, StoreTypes, RuleTypes, RequestTypes, StageTypes, TypeOK

LEMMA RequestsAreSomething ==
    /\ \A r \in CanonicalRequests : r # Nothing
    /\ \A r, images, key : BuildCanonical(r, images, key) # Nothing
<1>1. \A r \in CanonicalRequests : r.protocol \in {"openai", "anthropic"}
  BY DEF CanonicalRequests
<1>2. Nothing.protocol = "none"
  BY DEF Nothing
<1>3. "protocol" \in DOMAIN Nothing
  BY DEF Nothing
<1>4. ASSUME NEW r, NEW images, NEW key
      PROVE  "protocol" \notin DOMAIN BuildCanonical(r, images, key)
  BY DEF BuildCanonical
<1>5. QED
  BY <1>1, <1>2, <1>3, <1>4

LEMMA DropTypes ==
    ASSUME StoreTypes, NEW S, Drop(S)
    PROVE  StoreTypes'
<1>1. <<>> \in Seq(Turns)
  BY NoElements
<1>2. QED
  BY <1>1 DEF StoreTypes, Drop

LEMMA StoreKeepsTypes ==
    ASSUME StoreTypes, NEW s \in Sids, NEW ts \in Seq(Turns), Store(s, ts)
    PROVE  StoreTypes'
<1>1. <<>> \in Seq(Turns)
  BY NoElements
<1>2. PICK victim \in Victims(s) :
        /\ live' = (live \ (StaleSessions \cup victim)) \cup {s}
        /\ turns' = [r \in Sids |-> CASE r = s -> ts
                                      [] r # s /\ r \in StaleSessions \cup victim -> <<>>
                                      [] OTHER -> turns[r]]
  BY DEF Store
<1>3. live' \subseteq Sids
  BY <1>2 DEF StoreTypes
<1>4. turns' \in [Sids -> Seq(Turns)]
  <2> DEFINE F(r) == CASE r = s -> ts
                       [] r # s /\ r \in StaleSessions \cup victim -> <<>>
                       [] OTHER -> turns[r]
  <2>1. \A r \in Sids : F(r) \in Seq(Turns)
    BY <1>1 DEF StoreTypes
  <2> HIDE DEF F
  <2>2. turns' = [r \in Sids |-> F(r)]
    BY <1>2 DEF F
  <2>3. QED
    BY <2>1, <2>2
<1>5. QED
  BY <1>3, <1>4 DEF StoreTypes

LEMMA InitTypes == Init => PathTypes
<1> SUFFICES ASSUME Init PROVE PathTypes
  OBVIOUS
<1>1. StoreTypes
  <2>1. <<>> \in Seq(Turns)
    BY NoElements
  <2>2. QED
    BY <2>1 DEF Init, SessionInit, StoreTypes
<1>2. RuleTypes
  <2>1. /\ Rows(rules) /\ (\A r \in rules : r.id \in 1..Cardinality(rules))
        /\ \A r \in rules : Actions(r.actions)
    BY PathAssumption DEF Init
  <2>2. Cardinality(rules) \in Nat
    BY <2>1, FS_CardinalityType DEF Rows
  <2>3. nextRule \in Nat \ {0} /\ nextRule - 1 = Cardinality(rules)
    BY <2>2 DEF Init
  <2>4. QED
    BY <2>1, <2>3 DEF RuleTypes
<1>3. RequestTypes
  <2>1. \A q \in Reqs : /\ pc[q] = "idle" /\ pre[q] = Nothing /\ post[q] = Nothing
                        /\ merged[q] = Nothing /\ sent[q] = Nothing
    BY DEF Init
  <2>2. \A q \in Reqs : StageTypes(pc[q], pre[q], post[q], merged[q], sent[q])
    BY <2>1 DEF StageTypes
  <2>3. QED
    BY <2>2 DEF Init, RequestTypes, States, MaybeRequests
<1>4. QED
  BY <1>1, <1>2, <1>3 DEF PathTypes

LEMMA EnterTypes ==
    ASSUME RequestTypes, NEW q \in Reqs, NEW c, Enterable(c),
           NEW from \in records \cup {Nothing}, Enter(q, c, from)
    PROVE  RequestTypes'
<1>1. pc[q] = "idle" /\ sent[q] = Nothing /\ q \notin records
  BY DEF Enter, RequestTypes, StageTypes
<1>2. CASE ~(Accepted(c) /\ WithinVisionLimits(Canonical(c).turns))
  <2>1. /\ pc' = [pc EXCEPT ![q] = "refused"]
        /\ UNCHANGED <<historical, records, origin, sid, pre, post, merged, sent, used>>
    BY <1>2 DEF Enter, requestVars
  <2>2. \A p \in Reqs : StageTypes(pc'[p], pre[p], post[p], merged[p], sent[p])
    BY <1>1, <2>1 DEF RequestTypes, StageTypes
  <2>3. QED
    BY <1>1, <2>1, <2>2 DEF RequestTypes, States
<1>3. CASE Accepted(c) /\ WithinVisionLimits(Canonical(c).turns)
  <2>1. /\ pc' = [pc EXCEPT ![q] = "received"]
        /\ origin' = [origin EXCEPT ![q] = from]
        /\ historical' \subseteq historical \cup {q}
        /\ sid' = [sid EXCEPT ![q] = RequestSessionID(c)]
        /\ pre' = [pre EXCEPT ![q] = Canonical(c)]
        /\ UNCHANGED <<records, post, merged, sent, used>>
    BY <1>3 DEF Enter
  <2>2. /\ Canonical(c) \in CanonicalRequests /\ Canonical(c) # Nothing
        /\ Canonical(c).session \in Sids \cup {NoSession}
        /\ RequestSessionID(c) \in Sids \cup {NoSession}
    BY <1>3, CanonicalIs, SessionOf, RequestsAreSomething DEF Enterable
  <2>3. pre' \in [Reqs -> MaybeRequests]
    BY <2>1, <2>2 DEF RequestTypes, MaybeRequests
  <2>4. \A p \in Reqs : StageTypes(pc'[p], pre'[p], post[p], merged[p], sent[p])
    <3>1. \A p \in Reqs \ {q} : pc'[p] = pc[p] /\ pre'[p] = pre[p]
      BY <2>1 DEF RequestTypes
    <3>2. pc'[q] = "received" /\ pre'[q] = Canonical(c)
      BY <2>1 DEF RequestTypes
    <3>3. QED
      BY <1>1, <2>2, <3>1, <3>2 DEF RequestTypes, StageTypes
  <2>5. records' \subseteq {p \in Reqs : pc'[p] = "done"}
    BY <1>1, <2>1 DEF RequestTypes
  <2>6. QED
    BY <1>1, <2>1, <2>2, <2>3, <2>4, <2>5 DEF RequestTypes, States
<1>4. QED
  BY <1>2, <1>3

\* The actions that the policies give a request that enters with body r.
Effective(R, r) == EffectiveActions(InOrder({x \in R : x.enabled}), Attributes(r))

LEMMA EffectiveType ==
    ASSUME NEW R, Rows(R), \A r \in R : Actions(r.actions), NEW r
    PROVE  Actions(Effective(R, r))
  BY EnabledRules, EffectiveActionsType DEF Effective

LEMMA EvaluateIs ==
    ASSUME NEW q, EvaluateCanonicalRequest(q)
    PROVE  /\ pc[q] = "received"
           /\ \/ /\ q \in historical
                 /\ pc' = [pc EXCEPT ![q] = "judged"]
                 /\ post' = [post EXCEPT ![q] = pre[q]]
                 /\ used' = used
              \/ /\ q \notin historical
                 /\ pc' = [pc EXCEPT ![q] = "judged"]
                 /\ post' = [post EXCEPT ![q] = ApplyActions(pre[q], Effective(rules, pre[q]))]
                 /\ used' = [used EXCEPT ![q] = rules]
              \/ /\ pc' = [pc EXCEPT ![q] = "refused"]
                 /\ UNCHANGED <<post, used>>
           /\ UNCHANGED <<now, storeVars, ruleVars, requestVars, merged, sent, records, edits>>
  BY DEF EvaluateCanonicalRequest, Effective, GetEnabledPolicies, Refuse

LEMMA EvaluateTypes ==
    ASSUME RequestTypes, RuleTypes, NEW q \in Reqs, EvaluateCanonicalRequest(q)
    PROVE  RequestTypes'
<1>1. /\ pc[q] = "received" /\ sent[q] = Nothing /\ q \notin records
      /\ pre[q] \in CanonicalRequests /\ pre[q].session \in Sids \cup {NoSession}
  BY EvaluateIs DEF RequestTypes, StageTypes, MaybeRequests
<1>2. UNCHANGED <<historical, records, origin, sid, pre, merged, sent>>
  BY EvaluateIs DEF requestVars
<1>3. \A p \in Reqs \ {q} : pc'[p] = pc[p] /\ post'[p] = post[p]
  BY EvaluateIs DEF RequestTypes
<1>4. DOMAIN used' = Reqs
  BY EvaluateIs DEF RequestTypes
<1>5. CASE pc' = [pc EXCEPT ![q] = "refused"] /\ post' = post
  <2>1. \A p \in Reqs : StageTypes(pc'[p], pre[p], post[p], merged[p], sent[p])
    BY <1>1, <1>3, <1>5 DEF RequestTypes, StageTypes
  <2>2. QED
    BY <1>1, <1>2, <1>4, <1>5, <2>1 DEF RequestTypes, States
<1>6. ASSUME NEW p \in CanonicalRequests, p.session = pre[q].session,
             pc' = [pc EXCEPT ![q] = "judged"], post' = [post EXCEPT ![q] = p]
      PROVE  RequestTypes'
  <2>1. pc'[q] = "judged" /\ post'[q] = p /\ p # Nothing
    BY <1>6, RequestsAreSomething DEF RequestTypes
  <2>2. \A x \in Reqs : StageTypes(pc'[x], pre[x], post'[x], merged[x], sent[x])
    BY <1>1, <1>3, <1>6, <2>1 DEF RequestTypes, StageTypes
  <2>3. post' \in [Reqs -> MaybeRequests]
    BY <1>6 DEF RequestTypes, MaybeRequests
  <2>4. QED
    BY <1>1, <1>2, <1>4, <1>6, <2>2, <2>3 DEF RequestTypes, States
<1>7. /\ ApplyActions(pre[q], Effective(rules, pre[q])) \in CanonicalRequests
      /\ ApplyActions(pre[q], Effective(rules, pre[q])).session = pre[q].session
  BY <1>1, EffectiveType, ApplyActionsIs DEF RuleTypes
<1>8. QED
  BY <1>1, <1>5, <1>6, <1>7, EvaluateIs

LEMMA WithTurns ==
    ASSUME NEW p \in CanonicalRequests, NEW session, NEW turned
    PROVE  [p EXCEPT !.session = session, !.turns = turned]
             = [protocol |-> p.protocol, model |-> p.model, stream |-> p.stream,
                session |-> session, tools |-> p.tools, choice |-> p.choice,
                hasTools |-> p.hasTools, hasReasoning |-> p.hasReasoning,
                tags |-> p.tags, turns |-> turned]
<1>1. p = [protocol |-> p.protocol, model |-> p.model, stream |-> p.stream,
           session |-> p.session, tools |-> p.tools, choice |-> p.choice,
           hasTools |-> p.hasTools, hasReasoning |-> p.hasReasoning, tags |-> p.tags,
           turns |-> p.turns]
  BY DEF CanonicalRequests
<1> DEFINE x == [p EXCEPT !.session = session, !.turns = turned]
<1>2. x = [p EXCEPT !.session = session, !.turns = turned]
  OBVIOUS
<1> HIDE DEF x
<1>3. x = [protocol |-> p.protocol, model |-> p.model, stream |-> p.stream,
           session |-> session, tools |-> p.tools, choice |-> p.choice,
           hasTools |-> p.hasTools, hasReasoning |-> p.hasReasoning,
           tags |-> p.tags, turns |-> turned]
  BY <1>1, <1>2
<1>4. QED
  BY <1>3 DEF x

LEMMA BuildIs ==
    ASSUME StoreTypes, RequestTypes, NEW q \in Reqs, Build(q)
    PROVE  LET p == post[q]
               turned == Built(sid[q], p.turns)
               request == [protocol |-> p.protocol, model |-> p.model, stream |-> p.stream,
                           session |-> IF sid[q] = NoSession THEN p.session ELSE sid[q],
                           tools |-> p.tools, choice |-> p.choice, hasTools |-> p.hasTools,
                           hasReasoning |-> p.hasReasoning, tags |-> p.tags, turns |-> turned]
           IN  /\ pc[q] = "judged"
               /\ p \in CanonicalRequests
               /\ request \in CanonicalRequests
               /\ request.session \in Sids \cup {NoSession}
               /\ \/ /\ pc' = [pc EXCEPT ![q] = "built"]
                     /\ merged' = [merged EXCEPT ![q] = request]
                  \/ /\ pc' = [pc EXCEPT ![q] = "refused"]
                     /\ merged' = merged
               /\ storeVars' = storeVars \/ Drop(StaleSessions)
               /\ UNCHANGED <<now, ruleVars, requestVars, post, sent, used, records, edits>>
<1> DEFINE p == post[q]
           turned == Built(sid[q], p.turns)
           session == IF sid[q] = NoSession THEN p.session ELSE sid[q]
           request == [protocol |-> p.protocol, model |-> p.model, stream |-> p.stream,
                       session |-> session, tools |-> p.tools, choice |-> p.choice,
                       hasTools |-> p.hasTools, hasReasoning |-> p.hasReasoning,
                       tags |-> p.tags, turns |-> turned]
<1>1. pc[q] = "judged"
  BY DEF Build
<1>2. /\ p \in CanonicalRequests /\ p.session \in Sids \cup {NoSession}
      /\ sid[q] \in Sids \cup {NoSession}
  BY <1>1 DEF RequestTypes, StageTypes, MaybeRequests
<1>3. turned \in Seq(Turns)
  <2>1. p.turns \in Seq(Turns)
    BY <1>2 DEF CanonicalRequests
  <2>2. QED
    BY <1>2, <2>1, BuiltIs DEF StoreTypes
<1>4. session \in Sids \cup {NoSession} /\ session \in Words
  BY <1>2, WordsInUse, PathAssumption
<1>5. [p EXCEPT !.session = IF sid[q] = NoSession THEN @ ELSE sid[q],
                !.turns = Built(sid[q], @)] = request
  <2>1. [p EXCEPT !.session = IF sid[q] = NoSession THEN @ ELSE sid[q],
                  !.turns = Built(sid[q], @)]
          = [p EXCEPT !.session = session, !.turns = turned]
    OBVIOUS
  <2> HIDE DEF p, session, turned
  <2>2. QED
    BY <1>2, <2>1, WithTurns
<1>6. request \in CanonicalRequests
  <2> HIDE DEF p, turned, session
  <2>1. /\ p.protocol \in {"openai", "anthropic"} /\ p.model \in Words
        /\ p.stream \in BOOLEAN /\ p.tools \in Seq(Words) /\ p.choice \in Words
        /\ p.hasTools \in BOOLEAN /\ p.hasReasoning \in BOOLEAN /\ p.tags \in Seq(Words)
    BY <1>2 DEF CanonicalRequests
  <2>2. session \in Words
    BY <1>4
  <2>3. QED
    BY <1>3, <2>1, <2>2 DEF CanonicalRequests
<1>7. /\ \/ /\ pc' = [pc EXCEPT ![q] = "built"]
            /\ merged' = [merged EXCEPT ![q] = request]
         \/ /\ pc' = [pc EXCEPT ![q] = "refused"]
            /\ merged' = merged
      /\ BuildCanonicalRequest(sid[q])
      /\ UNCHANGED <<now, ruleVars, requestVars, post, sent, used, records, edits>>
  BY <1>5 DEF Build, Refuse
<1>8. storeVars' = storeVars \/ Drop(StaleSessions)
  BY <1>7 DEF BuildCanonicalRequest, SweepExpired
<1>9. request.session = session
  OBVIOUS
<1>10. QED
  BY <1>1, <1>2, <1>4, <1>6, <1>7, <1>8, <1>9

LEMMA BuildTypes ==
    ASSUME StoreTypes, RequestTypes, NEW q \in Reqs, Build(q)
    PROVE  StoreTypes' /\ RequestTypes'
<1>1. PICK request \in CanonicalRequests :
        /\ request.session \in Sids \cup {NoSession}
        /\ \/ /\ pc' = [pc EXCEPT ![q] = "built"]
              /\ merged' = [merged EXCEPT ![q] = request]
           \/ /\ pc' = [pc EXCEPT ![q] = "refused"]
              /\ merged' = merged
  BY BuildIs
<1>2. /\ pc[q] = "judged" /\ post[q] \in CanonicalRequests
      /\ storeVars' = storeVars \/ Drop(StaleSessions)
      /\ UNCHANGED <<historical, records, origin, sid, pre, post, sent, used>>
  BY BuildIs DEF requestVars
<1>3. StoreTypes'
  <2>1. CASE storeVars' = storeVars
    BY <2>1 DEF storeVars, StoreTypes
  <2>2. CASE Drop(StaleSessions)
    BY <2>2, DropTypes
  <2>3. QED
    BY <1>2, <2>1, <2>2
<1>4. \A p \in Reqs \ {q} : pc'[p] = pc[p] /\ merged'[p] = merged[p]
  BY <1>1 DEF RequestTypes
<1>5. q \notin records /\ request # Nothing
  BY <1>2, RequestsAreSomething DEF RequestTypes
<1>6. StageTypes(pc'[q], pre[q], post[q], merged'[q], sent[q])
  BY <1>1, <1>2, <1>5 DEF RequestTypes, StageTypes
<1>7. \A p \in Reqs : StageTypes(pc'[p], pre[p], post[p], merged'[p], sent[p])
  BY <1>4, <1>6 DEF RequestTypes
<1>8. merged' \in [Reqs -> MaybeRequests] /\ pc' \in [Reqs -> States]
  BY <1>1 DEF RequestTypes, MaybeRequests, States
<1>9. RequestTypes'
  BY <1>2, <1>4, <1>5, <1>7, <1>8 DEF RequestTypes
<1>10. QED
  BY <1>3, <1>9

LEMMA ForwardTypes ==
    ASSUME RequestTypes, NEW q \in Reqs, Forward(q)
    PROVE  RequestTypes'
<1>1. pc[q] = "built" /\ q \notin records
  BY DEF Forward, RequestTypes
<1>2. UNCHANGED <<historical, records, origin, sid, pre, post, merged, used>>
  BY DEF Forward, requestVars
<1>3. \/ pc' = [pc EXCEPT ![q] = "refused"] /\ sent' = sent
      \/ \E body : body # Nothing /\ pc' = [pc EXCEPT ![q] = "sent"] /\ sent' = [sent EXCEPT ![q] = body]
  BY RequestsAreSomething DEF Forward, Refuse
<1>4. \A p \in Reqs \ {q} : pc'[p] = pc[p] /\ sent'[p] = sent[p]
  BY <1>3 DEF RequestTypes
<1>5. StageTypes(pc'[q], pre[q], post[q], merged[q], sent'[q])
  BY <1>1, <1>3 DEF RequestTypes, StageTypes
<1>6. \A p \in Reqs : StageTypes(pc'[p], pre[p], post[p], merged[p], sent'[p])
  BY <1>4, <1>5 DEF RequestTypes
<1>7. pc' \in [Reqs -> States] /\ DOMAIN sent' = Reqs
  BY <1>3 DEF RequestTypes, States
<1>8. QED
  BY <1>1, <1>2, <1>4, <1>6, <1>7 DEF RequestTypes

LEMMA AnswerType ==
    ASSUME NEW q \in Reqs
    PROVE  /\ TurnOfMessage(Message("assistant", Answer(q), <<>>, "")) \in Turns
           /\ TurnOfMessage(Message("assistant", Answer(q), <<>>, "")).blocks = <<Text(<<q>>)>>
<1> DEFINE m == Message("assistant", Answer(q), <<>>, "")
<1>1. q \in Words
  BY PathAssumption
<1>2. Answer(q) \in Texts
  BY <1>1 DEF Answer, Texts
<1>3. "assistant" \in Roles /\ "" \in Words
  BY WordsInUse DEF Roles
<1>4. m \in Messages
  BY <1>2, <1>3, MessageType, NoElements
<1>5. m.role = "assistant" /\ m.parts = <<>> /\ m.text = <<q>> /\ m.calls = <<>>
  BY DEF Message, Answer
<1> HIDE DEF m
<1>6. ~MalformedParts(m.parts)
  BY <1>5 DEF MalformedParts
<1>7. TurnOfMessage(m) \in Turns
  BY <1>3, <1>4, <1>5, <1>6, TurnOfMessageType
<1>8. TurnOfMessage(m).blocks = <<Text(<<q>>)>>
  <2>1. TurnOfMessage(m).blocks = TextBlock(m.text) \o Each(Call, m.calls)
    BY <1>5 DEF TurnOfMessage
  <2>2. Each(Call, m.calls) = <<>>
    BY <1>5 DEF Each
  <2>3. TextBlock(m.text) = <<Text(<<q>>)>>
    BY <1>5 DEF TextBlock
  <2>4. QED
    BY <2>1, <2>2, <2>3
<1>9. QED
  BY <1>7, <1>8 DEF m

LEMMA FinishTypes ==
    ASSUME StoreTypes, RequestTypes, NEW q \in Reqs, Finish(q)
    PROVE  StoreTypes' /\ RequestTypes'
<1>1. /\ pc[q] = "sent" /\ pc' = [pc EXCEPT ![q] = "done"]
      /\ UNCHANGED <<historical, origin, sid, pre, post, merged, sent, used>>
      /\ records \subseteq records' /\ records' \subseteq records \cup {q}
  BY DEF Finish, requestVars
<1>2. merged[q] \in CanonicalRequests /\ sid[q] \in Sids \cup {NoSession}
  BY <1>1 DEF RequestTypes, StageTypes, MaybeRequests
<1>3. Append(merged[q].turns, TurnOfMessage(Message("assistant", Answer(q), <<>>, ""))) \in Seq(Turns)
  <2> DEFINE t == TurnOfMessage(Message("assistant", Answer(q), <<>>, ""))
  <2>1. t \in Turns
    BY AnswerType
  <2> HIDE DEF t
  <2>2. merged[q].turns \in Seq(Turns)
    BY <1>2 DEF CanonicalRequests
  <2>3. Append(merged[q].turns, t) \in Seq(Turns)
    BY <2>1, <2>2
  <2>4. QED
    BY <2>3 DEF t
<1>4. StoreTypes'
  <2> DEFINE ts == Append(merged[q].turns, TurnOfMessage(Message("assistant", Answer(q), <<>>, "")))
  <2>1. UNCHANGED storeVars \/ SaveCanonicalResponse(sid[q], ts)
    BY DEF Finish
  <2>2. ts \in Seq(Turns)
    BY <1>3
  <2> HIDE DEF ts
  <2>3. UNCHANGED storeVars \/ (sid[q] \in Sids /\ Store(sid[q], ts))
    BY <1>2, <2>1 DEF SaveCanonicalResponse
  <2>4. CASE UNCHANGED storeVars
    BY <2>4 DEF storeVars, StoreTypes
  <2>5. QED
    BY <2>2, <2>3, <2>4, StoreKeepsTypes
<1>5. \A p \in Reqs : StageTypes(pc'[p], pre[p], post[p], merged[p], sent[p])
  BY <1>1 DEF RequestTypes, StageTypes
<1>6. records' \subseteq {p \in Reqs : pc'[p] = "done"} /\ origin \in [Reqs -> records' \cup {Nothing}]
  BY <1>1 DEF RequestTypes
<1>7. RequestTypes'
  BY <1>1, <1>5, <1>6 DEF RequestTypes, States
<1>8. QED
  BY <1>4, <1>7

LEMMA EditTypes ==
    ASSUME RuleTypes, EditPolicies
    PROVE  RuleTypes'
<1>1. \A p \in Policies : p.priority \in Int /\ Actions(p.actions)
  BY PathAssumption
<1>2. ASSUME NEW p, NEW id
      PROVE  /\ WithId(p, id).id = id /\ WithId(p, id).priority = p.priority
             /\ WithId(p, id).actions = p.actions
  BY DEF WithId
<1>3. /\ IsFiniteSet(rules) /\ nextRule \in Nat \ {0}
      /\ \A r \in rules : r.id \in 1..(nextRule - 1) /\ r.priority \in Int /\ Actions(r.actions)
      /\ \A r, s \in rules : r.id = s.id => r = s
  BY DEF RuleTypes, Rows
<1>4. ASSUME NEW p \in Policies, CreatePolicy(p)
      PROVE  RuleTypes'
  <2> DEFINE new == WithId(p, nextRule)
  <2>1. rules' = rules \cup {new} /\ nextRule' = nextRule + 1
    BY <1>4 DEF CreatePolicy
  <2>2. new.id = nextRule /\ new.priority \in Int /\ Actions(new.actions)
    BY <1>1, <1>2
  <2> HIDE DEF new
  <2>3. IsFiniteSet(rules')
    BY <1>3, <2>1, FS_AddElement
  <2>4. \A r \in rules' : r.id \in 1..(nextRule' - 1) /\ r.priority \in Int /\ Actions(r.actions)
    BY <1>3, <2>1, <2>2
  <2>5. \A r, s \in rules' : r.id = s.id => r = s
    BY <1>3, <2>1, <2>2
  <2>6. QED
    BY <1>3, <2>1, <2>3, <2>4, <2>5 DEF RuleTypes, Rows
<1>5. ASSUME NEW id \in 1..(nextRule - 1), NEW p \in Policies, UpdatePolicy(id, p)
      PROVE  RuleTypes'
  <2> DEFINE new == WithId(p, id)
             f == [r \in rules |-> IF r.id = id THEN new ELSE r]
  <2>1. rules' = {f[r] : r \in rules} /\ nextRule' = nextRule
    BY <1>5 DEF UpdatePolicy
  <2>2. new.id = id /\ new.priority \in Int /\ Actions(new.actions)
    BY <1>1, <1>2
  <2>3. \A r \in rules : f[r] = IF r.id = id THEN new ELSE r
    OBVIOUS
  <2>9. f = [r \in rules |-> f[r]]
    OBVIOUS
  <2> HIDE DEF new, f
  <2>4. IsFiniteSet(rules')
    <3>1. f \in Surjection(rules, rules')
      BY <2>1, <2>9 DEF Surjection
    <3>2. QED
      BY <1>3, <3>1, FS_Surjection
  <2>5. \A r \in rules : f[r].id = r.id /\ f[r].priority \in Int /\ Actions(f[r].actions)
    BY <1>3, <2>2, <2>3
  <2>6. \A r \in rules' : r.id \in 1..(nextRule' - 1) /\ r.priority \in Int /\ Actions(r.actions)
    BY <1>3, <2>1, <2>5
  <2>7. \A r, s \in rules' : r.id = s.id => r = s
    <3> SUFFICES ASSUME NEW r \in rules, NEW s \in rules, f[r].id = f[s].id
                 PROVE  f[r] = f[s]
      BY <2>1
    <3>1. r.id = s.id
      BY <2>5
    <3>2. QED
      BY <1>3, <3>1
  <2>8. QED
    BY <1>3, <2>1, <2>4, <2>6, <2>7 DEF RuleTypes, Rows
<1>6. ASSUME NEW id, DeletePolicy(id)
      PROVE  RuleTypes'
  <2>1. rules' \subseteq rules /\ nextRule' = nextRule
    BY <1>6 DEF DeletePolicy
  <2>2. IsFiniteSet(rules')
    BY <1>3, <2>1, FS_Subset
  <2>3. QED
    BY <1>3, <2>1, <2>2 DEF RuleTypes, Rows
<1>7. QED
  BY <1>4, <1>5, <1>6 DEF EditPolicies

LEMMA RecordIsEnterable ==
    ASSUME RequestTypes, NEW q, NEW r \in Reqs, NEW mode, ReplayRecord(q, r, mode)
    PROVE  Enterable(ReplayBody(ReplayRequest(r, mode), mode = "historical"))
<1>1. pc[r] = "done"
  BY DEF ReplayRecord, RequestTypes
<1>2. ReplayRequest(r, mode) \in {pre[r], post[r]}
  BY DEF ReplayRequest
<1>3. /\ ReplayRequest(r, mode) \in CanonicalRequests
      /\ ReplayRequest(r, mode).session \in Sids \cup {NoSession}
  BY <1>1, <1>2 DEF RequestTypes, StageTypes, MaybeRequests
<1>4. (mode = "historical") \in BOOLEAN
  OBVIOUS
<1>5. QED
  BY <1>3, <1>4, ReplayIsEnterable

LEMMA StepTypes ==
    ASSUME PathTypes, [Next]_vars
    PROVE  PathTypes'
<1> USE DEF PathTypes
<1>1. ASSUME UNCHANGED <<rules, nextRule>>
      PROVE  RuleTypes'
  BY <1>1 DEF RuleTypes
<1>2. ASSUME UNCHANGED storeVars
      PROVE  StoreTypes'
  BY <1>2 DEF StoreTypes, storeVars
<1>3. ASSUME NEW q \in Reqs, NEW c, Enterable(c), NEW from \in records \cup {Nothing},
             Enter(q, c, from)
      PROVE  PathTypes'
  <2>1. UNCHANGED storeVars /\ UNCHANGED <<rules, nextRule>>
    BY <1>3 DEF Enter, ruleVars
  <2>2. QED
    BY <1>1, <1>2, <1>3, <2>1, EnterTypes
<1>4. ASSUME NEW q \in Reqs, Receive(q)
      PROVE  PathTypes'
  BY <1>3, <1>4, ClientRequestIsEnterable DEF Receive
<1>5. ASSUME NEW q \in Reqs, NEW r \in Reqs, NEW mode, ReplayRecord(q, r, mode)
      PROVE  PathTypes'
  <2>1. r \in records /\ Enter(q, ReplayBody(ReplayRequest(r, mode), mode = "historical"), r)
    BY <1>5 DEF ReplayRecord
  <2>2. Enterable(ReplayBody(ReplayRequest(r, mode), mode = "historical"))
    BY <1>5, RecordIsEnterable
  <2>3. QED
    BY <1>3, <2>1, <2>2
<1>6. ASSUME NEW q \in Reqs, EvaluateCanonicalRequest(q)
      PROVE  PathTypes'
  <2>1. UNCHANGED storeVars /\ UNCHANGED <<rules, nextRule>>
    BY <1>6, EvaluateIs DEF ruleVars
  <2>2. QED
    BY <1>1, <1>2, <1>6, <2>1, EvaluateTypes
<1>7. ASSUME NEW q \in Reqs, Build(q)
      PROVE  PathTypes'
  <2>1. UNCHANGED <<rules, nextRule>>
    BY <1>7 DEF Build, ruleVars
  <2>2. QED
    BY <1>1, <1>7, <2>1, BuildTypes
<1>8. ASSUME NEW q \in Reqs, Forward(q)
      PROVE  PathTypes'
  <2>1. UNCHANGED storeVars /\ UNCHANGED <<rules, nextRule>>
    BY <1>8 DEF Forward, ruleVars
  <2>2. QED
    BY <1>1, <1>2, <1>8, <2>1, ForwardTypes
<1>9. ASSUME NEW q \in Reqs, Finish(q)
      PROVE  PathTypes'
  <2>1. UNCHANGED <<rules, nextRule>>
    BY <1>9 DEF Finish, ruleVars
  <2>2. QED
    BY <1>1, <1>9, <2>1, FinishTypes
<1>10. ASSUME EditPolicies
       PROVE  PathTypes'
  <2>1. /\ UNCHANGED storeVars
        /\ UNCHANGED <<pc, historical, records, origin, sid, pre, post, merged, sent, used>>
    BY <1>10 DEF EditPolicies, requestVars
  <2>2. RequestTypes'
    BY <2>1 DEF RequestTypes
  <2>3. QED
    BY <1>2, <1>10, <2>1, <2>2, EditTypes
<1>11. ASSUME UNCHANGED vars
       PROVE  PathTypes'
  <2>1. /\ UNCHANGED storeVars /\ UNCHANGED <<rules, nextRule>>
        /\ UNCHANGED <<pc, historical, records, origin, sid, pre, post, merged, sent, used>>
    BY <1>11 DEF vars, requestVars, ruleVars
  <2>2. RequestTypes'
    BY <2>1 DEF RequestTypes
  <2>3. QED
    BY <1>1, <1>2, <2>1, <2>2
<1>12. QED
  BY <1>4, <1>5, <1>6, <1>7, <1>8, <1>9, <1>10, <1>11 DEF Next

LEMMA TypesHold == Spec => []PathTypes
<1>1. Init => PathTypes
  BY InitTypes
<1>2. PathTypes /\ [Next]_vars => PathTypes'
  BY StepTypes
<1>3. QED
  BY <1>1, <1>2, PTL DEF Spec

(***************************************************************************)
(* Every request, record, conversation and rule is what its type says: the *)
(* canonical form of whatever a client may send, what policies make of it, *)
(* what the store adds, and the bodies of replays.                         *)
(***************************************************************************)
THEOREM RequestPathTypes == Spec => []TypeOK
  BY TypesHold, PathTypesGive, PTL

-----------------------------------------------------------------------------
(***************************************************************************)
(* How what is kept of a request hangs together: the request as the        *)
(* policies left it is the one that came with the rules of one moment      *)
(* applied, the merged one adds turns in front and keeps the rest, the     *)
(* body is built from that one, and a replay is the canonical form of its  *)
(* record's body.                                                          *)
(***************************************************************************)
Judged(q) ==
    IF q \in historical
    THEN post[q] = pre[q]
    ELSE /\ Rows(used[q])
         /\ \A r \in used[q] : Actions(r.actions)
         /\ post[q] = ApplyActions(pre[q], Effective(used[q], pre[q]))

Extended(p, m) ==
    /\ m.model = p.model
    /\ m.tools = p.tools
    /\ m.choice = p.choice
    /\ m.hasReasoning = p.hasReasoning
    /\ \E before \in Seq(Turns) : m.turns = before \o p.turns

AsBuilt(m) == BuildCanonical(m, MediaOf(m.turns), ResolveChatModel(m.model))

Replayed(q) ==
    LET recorded == IF q \in historical THEN post[origin[q]] ELSE pre[origin[q]]
        body == ReplayBody(recorded, q \in historical)
    IN  Accepted(body) /\ pre[q] = Canonical(body)

Flow(q) ==
    /\ pc[q] = "idle" => q \notin historical /\ origin[q] = Nothing
    /\ origin[q] # Nothing => Replayed(q)
    /\ pc[q] \in {"judged", "built", "sent", "done"} => Judged(q)
    /\ pc[q] \in {"built", "sent", "done"} => Extended(post[q], merged[q])
    /\ pc[q] \in {"sent", "done"} => sent[q] = AsBuilt(merged[q])

FlowInv == \A q \in Reqs : Flow(q)

\* What a step of q leaves of another request.
Same(p) ==
    /\ pc'[p] = pc[p] /\ origin'[p] = origin[p] /\ (p \in historical' <=> p \in historical)
    /\ pre'[p] = pre[p] /\ post'[p] = post[p] /\ merged'[p] = merged[p]
    /\ sent'[p] = sent[p] /\ used'[p] = used[p]

LEMMA OriginIsDone ==
    ASSUME RequestTypes, NEW q \in Reqs, origin[q] # Nothing
    PROVE  origin[q] \in records /\ origin[q] \in Reqs /\ pc[origin[q]] = "done"
  BY DEF RequestTypes

LEMMA OthersFlow ==
    ASSUME RequestTypes, NEW q \in Reqs, pc[q] # "done", \A p \in Reqs \ {q} : Same(p),
           NEW p \in Reqs \ {q}, Flow(p)
    PROVE  Flow(p)'
<1>1. Same(p)
  OBVIOUS
<1>2. origin[p] # Nothing => Replayed(p)'
  <2> SUFFICES ASSUME origin[p] # Nothing
               PROVE  Replayed(p)'
    OBVIOUS
  <2>1. origin[p] \in Reqs \ {q}
    BY OriginIsDone
  <2>2. Same(origin[p]) /\ Replayed(p)
    BY <2>1 DEF Flow
  <2>3. QED
    BY <1>1, <2>2 DEF Same, Replayed
<1>3. Judged(p)' <=> Judged(p)
  BY <1>1 DEF Same, Judged
<1>4. QED
  BY <1>1, <1>2, <1>3 DEF Same, Flow

LEMMA EnterFlow ==
    ASSUME RequestTypes, FlowInv, NEW q \in Reqs, NEW c, NEW from, Enter(q, c, from),
           from # Nothing =>
             /\ from \in records
             /\ c = ReplayBody(IF c.historical THEN post[from] ELSE pre[from], c.historical),
           c.historical \in BOOLEAN
    PROVE  FlowInv'
<1>1. pc[q] = "idle" /\ q \notin historical /\ origin[q] = Nothing
  BY DEF Enter, FlowInv, Flow
<1>2. UNCHANGED <<post, merged, sent, used>>
  BY DEF Enter
<1>3. \A p \in Reqs \ {q} : Same(p)
  BY DEF Enter, Same, RequestTypes, requestVars
<1>4. \A p \in Reqs \ {q} : Flow(p)'
  BY <1>1, <1>3, OthersFlow DEF FlowInv
<1>5. CASE ~(Accepted(c) /\ WithinVisionLimits(Canonical(c).turns))
  <2>1. pc'[q] = "refused" /\ origin'[q] = Nothing
    BY <1>1, <1>5 DEF Enter, RequestTypes, requestVars
  <2>2. Flow(q)'
    BY <2>1 DEF Flow
  <2>3. QED
    BY <1>4, <2>2 DEF FlowInv
<1>6. CASE Accepted(c) /\ WithinVisionLimits(Canonical(c).turns)
  <2>1. /\ pc'[q] = "received" /\ origin'[q] = from /\ pre'[q] = Canonical(c)
        /\ (q \in historical') = c.historical
    <3>1. pc'[q] = "received" /\ origin'[q] = from /\ pre'[q] = Canonical(c)
      BY <1>6 DEF Enter, RequestTypes
    <3>2. historical' = IF c.historical THEN historical \cup {q} ELSE historical
      BY <1>6 DEF Enter
    <3>3. (q \in historical') = c.historical
      BY <1>1, <3>2
    <3>4. QED
      BY <3>1, <3>3
  <2>2. ASSUME from # Nothing
        PROVE  Replayed(q)'
    <3>1. from \in Reqs \ {q}
      BY <1>1, <2>2 DEF RequestTypes
    <3>2. pre'[from] = pre[from] /\ post'[from] = post[from]
      BY <1>3, <3>1 DEF Same
    <3>3. c = ReplayBody(IF q \in historical' THEN post'[from] ELSE pre'[from], q \in historical')
      BY <2>1, <2>2, <3>2
    <3>4. QED
      BY <1>6, <2>1, <3>3 DEF Replayed
  <2>3. Flow(q)'
    BY <2>1, <2>2 DEF Flow
  <2>4. QED
    BY <1>4, <2>3 DEF FlowInv
<1>7. QED
  BY <1>5, <1>6

LEMMA EvaluateFlow ==
    ASSUME RequestTypes, RuleTypes, FlowInv, NEW q \in Reqs, EvaluateCanonicalRequest(q)
    PROVE  FlowInv'
<1>1. pc[q] = "received" /\ UNCHANGED <<historical, origin, pre, merged, sent>>
  BY EvaluateIs DEF requestVars
<1>2. \A p \in Reqs \ {q} : Same(p)
  BY <1>1, EvaluateIs DEF Same, RequestTypes
<1>3. \A p \in Reqs \ {q} : Flow(p)'
  BY <1>1, <1>2, OthersFlow DEF FlowInv
<1>4. pc'[q] = "refused" \/ (pc'[q] = "judged" /\ Judged(q)')
  <2>1. \/ /\ q \in historical
           /\ pc' = [pc EXCEPT ![q] = "judged"]
           /\ post' = [post EXCEPT ![q] = pre[q]]
        \/ /\ q \notin historical
           /\ pc' = [pc EXCEPT ![q] = "judged"]
           /\ post' = [post EXCEPT ![q] = ApplyActions(pre[q], Effective(rules, pre[q]))]
           /\ used' = [used EXCEPT ![q] = rules]
        \/ /\ pc' = [pc EXCEPT ![q] = "refused"]
    BY EvaluateIs
  <2>2. CASE q \in historical /\ pc' = [pc EXCEPT ![q] = "judged"] /\ post' = [post EXCEPT ![q] = pre[q]]
    BY <1>1, <2>2 DEF RequestTypes, Judged
  <2>3. CASE /\ q \notin historical
             /\ pc' = [pc EXCEPT ![q] = "judged"]
             /\ post' = [post EXCEPT ![q] = ApplyActions(pre[q], Effective(rules, pre[q]))]
             /\ used' = [used EXCEPT ![q] = rules]
    <3>1. /\ pc'[q] = "judged" /\ used'[q] = rules /\ q \notin historical'
          /\ post'[q] = ApplyActions(pre'[q], Effective(used'[q], pre'[q]))
      BY <1>1, <2>3 DEF RequestTypes
    <3>2. Rows(rules) /\ \A r \in rules : Actions(r.actions)
      BY DEF RuleTypes
    <3>3. QED
      BY <3>1, <3>2 DEF Judged
  <2>4. CASE pc' = [pc EXCEPT ![q] = "refused"]
    BY <2>4 DEF RequestTypes
  <2>5. QED
    BY <2>1, <2>2, <2>3, <2>4
<1>5. origin[q] # Nothing => Replayed(q)'
  <2> SUFFICES ASSUME origin[q] # Nothing
               PROVE  Replayed(q)'
    OBVIOUS
  <2>1. origin[q] \in Reqs \ {q}
    BY <1>1, OriginIsDone
  <2>2. Same(origin[q]) /\ Replayed(q)
    BY <1>2, <2>1 DEF FlowInv, Flow
  <2>3. QED
    BY <1>1, <2>2 DEF Same, Replayed
<1>6. Flow(q)'
  BY <1>1, <1>4, <1>5 DEF Flow
<1>7. QED
  BY <1>3, <1>6 DEF FlowInv

\* From Build on a step of q changes neither what came nor what the policies made of it.
LEMMA LaterFlow ==
    ASSUME RequestTypes, FlowInv, NEW q \in Reqs, pc[q] \in {"judged", "built", "sent"},
           UNCHANGED <<historical, origin, pre, post, used>>
    PROVE  /\ Judged(q)'
           /\ origin[q] # Nothing => Replayed(q)'
<1>1. Judged(q) /\ (origin[q] # Nothing => Replayed(q))
  BY DEF FlowInv, Flow
<1>2. Judged(q)'
  BY <1>1 DEF Judged
<1>3. origin[q] # Nothing => Replayed(q)'
  BY <1>1 DEF Replayed
<1>4. QED
  BY <1>2, <1>3

LEMMA BuildFlow ==
    ASSUME StoreTypes, RequestTypes, FlowInv, NEW q \in Reqs, Build(q)
    PROVE  FlowInv'
<1>1. /\ pc[q] = "judged" /\ post[q] \in CanonicalRequests
      /\ UNCHANGED <<historical, origin, pre, post, sent, used>>
  BY BuildIs DEF requestVars
<1>2. PICK request :
        /\ Extended(post[q], request)
        /\ \/ /\ pc' = [pc EXCEPT ![q] = "built"]
              /\ merged' = [merged EXCEPT ![q] = request]
           \/ /\ pc' = [pc EXCEPT ![q] = "refused"]
              /\ merged' = merged
  <2> DEFINE p == post[q]
             turned == Built(sid[q], p.turns)
             request == [protocol |-> p.protocol, model |-> p.model, stream |-> p.stream,
                         session |-> IF sid[q] = NoSession THEN p.session ELSE sid[q],
                         tools |-> p.tools, choice |-> p.choice, hasTools |-> p.hasTools,
                         hasReasoning |-> p.hasReasoning, tags |-> p.tags, turns |-> turned]
  <2>1. \/ pc' = [pc EXCEPT ![q] = "built"] /\ merged' = [merged EXCEPT ![q] = request]
        \/ pc' = [pc EXCEPT ![q] = "refused"] /\ merged' = merged
    BY BuildIs
  <2>2. p.turns \in Seq(Turns) /\ sid[q] \in Sids \cup {NoSession}
    BY <1>1 DEF RequestTypes, CanonicalRequests
  <2>3. \E before \in Seq(Turns) : turned = before \o p.turns
    BY <2>2, BuiltIs DEF StoreTypes
  <2> HIDE DEF p, turned
  <2>4. /\ request.model = p.model /\ request.tools = p.tools /\ request.choice = p.choice
        /\ request.turns = turned
    OBVIOUS
  <2>5. request.hasReasoning = p.hasReasoning
    OBVIOUS
  <2> HIDE DEF request
  <2>6. Extended(p, request)
    BY <2>3, <2>4, <2>5 DEF Extended
  <2>7. QED
    BY <2>1, <2>6 DEF p
<1>3. \A p \in Reqs \ {q} : Same(p)
  BY <1>1, <1>2 DEF Same, RequestTypes
<1>4. \A p \in Reqs \ {q} : Flow(p)'
  BY <1>1, <1>3, OthersFlow DEF FlowInv
<1>5. pc'[q] = "refused" \/ (pc'[q] = "built" /\ Extended(post'[q], merged'[q]))
  BY <1>1, <1>2 DEF RequestTypes
<1>6. Flow(q)'
  BY <1>1, <1>5, LaterFlow DEF Flow
<1>7. QED
  BY <1>4, <1>6 DEF FlowInv

LEMMA ForwardFlow ==
    ASSUME RequestTypes, FlowInv, NEW q \in Reqs, Forward(q)
    PROVE  FlowInv'
<1>1. pc[q] = "built" /\ UNCHANGED <<historical, origin, pre, post, merged, used>>
  BY DEF Forward, requestVars
<1>2. \/ pc' = [pc EXCEPT ![q] = "refused"] /\ sent' = sent
      \/ pc' = [pc EXCEPT ![q] = "sent"] /\ sent' = [sent EXCEPT ![q] = AsBuilt(merged[q])]
  BY DEF Forward, Refuse, AsBuilt
<1>3. \A p \in Reqs \ {q} : Same(p)
  BY <1>1, <1>2 DEF Same, RequestTypes
<1>4. \A p \in Reqs \ {q} : Flow(p)'
  BY <1>1, <1>3, OthersFlow DEF FlowInv
<1>5. pc'[q] = "refused" \/ (pc'[q] = "sent" /\ sent'[q] = AsBuilt(merged[q]))
  BY <1>2 DEF RequestTypes
<1>6. Extended(post[q], merged[q])
  BY <1>1 DEF FlowInv, Flow
<1>7. Flow(q)'
  BY <1>1, <1>5, <1>6, LaterFlow DEF Flow
<1>8. QED
  BY <1>4, <1>7 DEF FlowInv

LEMMA FinishFlow ==
    ASSUME RequestTypes, FlowInv, NEW q \in Reqs, Finish(q)
    PROVE  FlowInv'
<1>1. /\ pc[q] = "sent" /\ pc' = [pc EXCEPT ![q] = "done"]
      /\ UNCHANGED <<historical, origin, pre, post, merged, sent, used>>
  BY DEF Finish, requestVars
<1>2. \A p \in Reqs \ {q} : Same(p)
  BY <1>1 DEF Same, RequestTypes
<1>3. \A p \in Reqs \ {q} : Flow(p)'
  BY <1>1, <1>2, OthersFlow DEF FlowInv
<1>4. pc'[q] = "done" /\ Extended(post[q], merged[q]) /\ sent[q] = AsBuilt(merged[q])
  BY <1>1 DEF RequestTypes, FlowInv, Flow
<1>5. Flow(q)'
  BY <1>1, <1>4, LaterFlow DEF Flow
<1>6. QED
  BY <1>3, <1>5 DEF FlowInv

LEMMA StillFlow ==
    ASSUME FlowInv, UNCHANGED <<pc, historical, origin, pre, post, merged, sent, used>>
    PROVE  FlowInv'
<1> SUFFICES ASSUME NEW q \in Reqs
             PROVE  Flow(q)'
  BY DEF FlowInv
<1>1. Flow(q)
  BY DEF FlowInv
<1>2. (Judged(q) => Judged(q)') /\ (Replayed(q) => Replayed(q)')
  BY DEF Judged, Replayed
<1>3. QED
  BY <1>1, <1>2 DEF Flow

LEMMA StepFlow ==
    ASSUME PathTypes, FlowInv, [Next]_vars
    PROVE  FlowInv'
<1> USE DEF PathTypes
<1>1. ASSUME NEW q \in Reqs, Receive(q)
      PROVE  FlowInv'
  <2>1. PICK c \in ClientRequests : Enter(q, c, Nothing)
    BY <1>1 DEF Receive
  <2>2. c.historical \in BOOLEAN
    BY ClientRequestIsEnterable DEF Enterable
  <2>3. QED
    BY <2>1, <2>2, EnterFlow
<1>2. ASSUME NEW q \in Reqs, NEW r \in Reqs, NEW mode, ReplayRecord(q, r, mode)
      PROVE  FlowInv'
  <2> DEFINE c == ReplayBody(ReplayRequest(r, mode), mode = "historical")
  <2>1. r \in records /\ Enter(q, c, r)
    BY <1>2 DEF ReplayRecord
  <2>2. c.historical = (mode = "historical")
    BY DEF ReplayBody, OpenAIReplay, AnthropicReplay
  <2>3. c = ReplayBody(IF c.historical THEN post[r] ELSE pre[r], c.historical)
    BY <2>2 DEF ReplayRequest
  <2> HIDE DEF c
  <2>4. c.historical \in BOOLEAN
    BY <2>2
  <2>5. QED
    BY <2>1, <2>3, <2>4, EnterFlow
<1>3. ASSUME NEW q \in Reqs, EvaluateCanonicalRequest(q)
      PROVE  FlowInv'
  BY <1>3, EvaluateFlow
<1>4. ASSUME NEW q \in Reqs, Build(q)
      PROVE  FlowInv'
  BY <1>4, BuildFlow
<1>5. ASSUME NEW q \in Reqs, Forward(q)
      PROVE  FlowInv'
  BY <1>5, ForwardFlow
<1>6. ASSUME NEW q \in Reqs, Finish(q)
      PROVE  FlowInv'
  BY <1>6, FinishFlow
<1>7. ASSUME EditPolicies
      PROVE  FlowInv'
  BY <1>7, StillFlow DEF EditPolicies, requestVars
<1>8. ASSUME UNCHANGED vars
      PROVE  FlowInv'
  BY <1>8, StillFlow DEF vars, requestVars
<1>9. QED
  BY <1>1, <1>2, <1>3, <1>4, <1>5, <1>6, <1>7, <1>8 DEF Next

LEMMA FlowHolds == Spec => []FlowInv
<1>1. Init => FlowInv
  BY DEF Init, FlowInv, Flow
<1>2. PathTypes /\ FlowInv /\ [Next]_vars => FlowInv'
  BY StepFlow
<1>3. QED
  BY <1>1, <1>2, TypesHold, PTL DEF Spec

-----------------------------------------------------------------------------
\* The rule that Deciders names is the first of the loop that decides the category.
LEMMA DecidedIs ==
    ASSUME NEW q, Rows(used[q]), NEW a, a # "add_tags", NEW otherwise
    PROVE  LET effective == Effective(used[q], pre[q])
           IN  Decided(q, a, otherwise) =
                 IF a \in DOMAIN effective THEN effective[a] ELSE otherwise
<1> DEFINE attrs == Attributes(pre[q])
           E == {r \in used[q] : r.enabled}
           ordered == InOrder(E)
           N == Cardinality(E)
           says == {r \in E : Says(r, attrs, a)}
           at == {i \in 1..N : Says(ordered[i], attrs, a)}
           effective == EffectiveActions(ordered, attrs)
<1>1. Rows(E)
  BY FS_Subset DEF Rows
<1>2. Effective(used[q], pre[q]) = effective
  BY DEF Effective
<1>3. Deciders(q, a) = {r \in says : \A s \in says : r.priority < s.priority
                                       \/ (r.priority = s.priority /\ r.id <= s.id)}
  BY DEF Deciders, Says
<1>4. \A r \in E : r.id \in Nat /\ r.priority \in Int
  BY <1>1 DEF Rows
<1> HIDE DEF attrs, E
<1>5. /\ N \in Nat /\ Len(ordered) = N /\ ordered \in [1..N -> E]
      /\ \A i, j \in 1..N : i < j => Precedes(ordered[i], ordered[j])
      /\ \A r \in E : \E i \in 1..N : ordered[i] = r
  <2>1. /\ N \in Nat /\ Len(ordered) = N /\ ordered \in [1..N -> E]
        /\ Sorted(ordered)
        /\ \A r \in E : \E i \in 1..N : ordered[i] = r
    BY <1>1, InOrderReturnsAll
  <2> HIDE DEF N, ordered
  <2>2. DOMAIN ordered = 1..N
    BY <2>1
  <2>3. \A i, j \in 1..N : i < j => Precedes(ordered[i], ordered[j])
    BY <2>1, <2>2 DEF Sorted
  <2>4. QED
    BY <2>1, <2>3
<1> HIDE DEF N
<1>6. /\ a \in DOMAIN effective <=> at # {}
      /\ \A i \in at : (\A j \in at : i <= j) => effective[a] = ordered[i].actions[a]
  <2>1. Len(ordered) \in Nat /\ Len(ordered) = N
    BY <1>5
  <2> HIDE DEF ordered
  <2>2. QED
    BY <2>1, FirstRuleHasIt
<1> HIDE DEF ordered, effective
<1>7. /\ \A i \in at : ordered[i] \in says
      /\ \A r \in says : \E i \in at : ordered[i] = r
  BY <1>5
<1>8. CASE at = {}
  <2>1. Deciders(q, a) = {}
    BY <1>3, <1>7, <1>8
  <2>2. QED
    BY <1>2, <1>6, <1>8, <2>1 DEF Decided
<1>9. CASE at # {}
  <2>1. PICK i \in at : \A j \in at : i <= j
    <3>1. at \subseteq Nat
      BY <1>5
    <3>2. QED
      BY <1>9, <3>1, Least
  <2> DEFINE r == ordered[i]
  <2>2. r \in says /\ effective[a] = r.actions[a] /\ a \in DOMAIN effective
    BY <1>6, <1>7, <2>1
  <2>3. \A s \in says : s = r \/ Precedes(r, s)
    <3> SUFFICES ASSUME NEW s \in says
                 PROVE  s = r \/ Precedes(r, s)
      OBVIOUS
    <3>1. PICK j \in at : ordered[j] = s
      BY <1>7
    <3>2. i <= j /\ i \in 1..N /\ j \in 1..N
      BY <2>1
    <3>3. i = j \/ i < j
      BY <1>5, <3>2
    <3>4. QED
      BY <1>5, <3>1, <3>2, <3>3
  <2> HIDE DEF r, at
  <2>4. \A s \in says : s.id \in Nat /\ s.priority \in Int
    BY <1>4
  <2> HIDE DEF says
  <2>5. Deciders(q, a) = {r}
    <3>1. r \in Deciders(q, a)
      BY <1>3, <2>2, <2>3, <2>4 DEF Precedes
    <3>2. ASSUME NEW s \in Deciders(q, a)
          PROVE  s = r
      BY <1>3, <2>2, <2>3, <2>4, <3>2 DEF Precedes
    <3>3. QED
      BY <3>1, <3>2
  <2>6. (CHOOSE x \in Deciders(q, a) : TRUE) = r
    BY <2>5
  <2>7. Decided(q, a, otherwise) = r.actions[a]
    BY <2>5, <2>6 DEF Decided
  <2>8. QED
    BY <1>2, <2>2, <2>7
<1>10. QED
  BY <1>8, <1>9

LEMMA FlowGivesFirstRule == PathTypes /\ FlowInv => FirstRuleDecides
<1> SUFFICES ASSUME PathTypes, FlowInv, NEW q \in Reqs \ historical, pc[q] = "sent"
             PROVE  /\ sent[q].key = ResolveChatModel(Decided(q, "rewrite_model", pre[q].model))
                    /\ sent[q].reasoning = Decided(q, "set_reasoning", pre[q].hasReasoning)
                    /\ IF Decided(q, "allow_tools", TRUE)
                       THEN sent[q].tools = pre[q].tools /\ sent[q].choice = pre[q].choice
                       ELSE sent[q].tools = <<>> /\ sent[q].choice = NoChoice
  BY DEF FirstRuleDecides
<1> DEFINE e == Effective(used[q], pre[q])
           denied == "allow_tools" \in DOMAIN e /\ ~e["allow_tools"]
<1>1. Judged(q) /\ Extended(post[q], merged[q]) /\ sent[q] = AsBuilt(merged[q])
  BY DEF FlowInv, Flow
<1>2. Rows(used[q]) /\ Actions(e) /\ post[q] = ApplyActions(pre[q], e)
  BY <1>1, EffectiveType DEF Judged
<1>3. pre[q] \in CanonicalRequests
  BY DEF PathTypes, RequestTypes, StageTypes, MaybeRequests
<1>4. /\ Decided(q, "rewrite_model", pre[q].model) =
           IF "rewrite_model" \in DOMAIN e THEN e["rewrite_model"] ELSE pre[q].model
      /\ Decided(q, "set_reasoning", pre[q].hasReasoning) =
           IF "set_reasoning" \in DOMAIN e THEN e["set_reasoning"] ELSE pre[q].hasReasoning
      /\ Decided(q, "allow_tools", TRUE) =
           IF "allow_tools" \in DOMAIN e THEN e["allow_tools"] ELSE TRUE
  BY <1>2, DecidedIs
<1> HIDE DEF e
<1>5. /\ post[q].model = IF "rewrite_model" \in DOMAIN e THEN e["rewrite_model"] ELSE pre[q].model
      /\ post[q].hasReasoning =
           IF "set_reasoning" \in DOMAIN e THEN e["set_reasoning"] ELSE pre[q].hasReasoning
      /\ post[q].tools = IF denied THEN <<>> ELSE pre[q].tools
      /\ post[q].choice = IF denied THEN "" ELSE pre[q].choice
  <2> DEFINE p == ApplyActions(pre[q], e)
  <2>1. p.model = IF "rewrite_model" \in DOMAIN e THEN e["rewrite_model"] ELSE pre[q].model
    BY <1>2, <1>3, ApplyActionsIs
  <2>2. p.hasReasoning =
          IF "set_reasoning" \in DOMAIN e THEN e["set_reasoning"] ELSE pre[q].hasReasoning
    BY <1>2, <1>3, ApplyActionsIs, Zenon
  <2>3. p.tools = IF denied THEN <<>> ELSE pre[q].tools
    BY <1>2, <1>3, ApplyActionsIs
  <2>4. p.choice = IF denied THEN "" ELSE pre[q].choice
    BY <1>2, <1>3, ApplyActionsIs
  <2> HIDE DEF p, denied
  <2>5. post[q] = p
    BY <1>2 DEF p
  <2>6. QED
    BY <2>1, <2>2, <2>3, <2>4, <2>5
<1>6. /\ sent[q].key = ResolveChatModel(merged[q].model)
      /\ sent[q].reasoning = merged[q].hasReasoning
      /\ sent[q].tools = merged[q].tools
      /\ sent[q].choice = merged[q].choice
  BY <1>1 DEF AsBuilt, BuildCanonical
<1>7. /\ merged[q].model = post[q].model /\ merged[q].hasReasoning = post[q].hasReasoning
      /\ merged[q].tools = post[q].tools /\ merged[q].choice = post[q].choice
  BY <1>1 DEF Extended
<1>8. sent[q].key = ResolveChatModel(Decided(q, "rewrite_model", pre[q].model))
  BY <1>4, <1>5, <1>6, <1>7
<1>9. sent[q].reasoning = Decided(q, "set_reasoning", pre[q].hasReasoning)
  <2> DEFINE reasons == IF "set_reasoning" \in DOMAIN e THEN e["set_reasoning"]
                        ELSE pre[q].hasReasoning
  <2>1. Decided(q, "set_reasoning", pre[q].hasReasoning) = reasons
    BY <1>4
  <2>2. post[q].hasReasoning = reasons
    BY <1>5
  <2> HIDE DEF reasons
  <2>3. QED
    BY <1>6, <1>7, <2>1, <2>2
<1>10. IF Decided(q, "allow_tools", TRUE)
       THEN sent[q].tools = pre[q].tools /\ sent[q].choice = pre[q].choice
       ELSE sent[q].tools = <<>> /\ sent[q].choice = NoChoice
  <2>1. CASE denied
    <3>1. ~Decided(q, "allow_tools", TRUE)
      BY <1>4, <2>1
    <3>2. QED
      BY <1>5, <1>6, <1>7, <2>1, <3>1 DEF NoChoice
  <2>2. CASE ~denied
    <3>1. Decided(q, "allow_tools", TRUE)
      BY <1>4, <2>2
    <3>2. QED
      BY <1>5, <1>6, <1>7, <2>2, <3>1
  <2>3. QED
    BY <2>1, <2>2
<1>11. QED
  BY <1>8, <1>9, <1>10

(***************************************************************************)
(* What goes upstream is decided, category by category, by the first       *)
(* enabled rule that matches the request as it came, of the rules that     *)
(* were in the table at one moment: whatever the table holds, in whatever  *)
(* order SQLite keeps its rows, and however the administrator edits it     *)
(* while the request is under way.                                         *)
(***************************************************************************)
THEOREM FirstRuleDecidesAlways == Spec => []FirstRuleDecides
  BY TypesHold, FlowHolds, FlowGivesFirstRule, PTL

-----------------------------------------------------------------------------
(***************************************************************************)
(* Images.  The limits are tested where a request enters, on its own turns *)
(* alone; what is sent has the stored ones too.  So all that is stored or  *)
(* under way must be allowed.                                              *)
(***************************************************************************)
BlocksIn(ts) == UNION {ElementsIn(t.blocks) : t \in ElementsIn(ts)}

LEMMA MediaChosen ==
    ASSUME NEW blocks \in Seq(Blocks)
    PROVE  Those(IsMedia, blocks) = Chosen(blocks, {b \in Blocks : IsMedia(b)})
<1> DEFINE T == {b \in Blocks : IsMedia(b)}
           F(b) == IF IsMedia(b) THEN <<b>> ELSE <<>>
<1>1. [i \in 1..Len(blocks) |-> F(blocks[i])]
        = [i \in 1..Len(blocks) |-> IF blocks[i] \in T THEN <<blocks[i]>> ELSE <<>>]
  OBVIOUS
<1>2. QED
  BY <1>1 DEF Those, Gather, Each, Chosen

SourcesOf(t) == Each(LAMBDA b : b.source, Those(IsMedia, t.blocks))

LEMMA SourcesOfTurn ==
    ASSUME NEW t \in Turns
    PROVE  /\ SourcesOf(t) \in Seq(Sources)
           /\ ElementsIn(SourcesOf(t)) = {b.source : b \in {x \in ElementsIn(t.blocks) : IsMedia(x)}}
<1> DEFINE T == {b \in Blocks : IsMedia(b)}
           chosen == Those(IsMedia, t.blocks)
<1>1. t.blocks \in Seq(Blocks)
  BY DEF Turns
<1>2. chosen = Chosen(t.blocks, T)
  BY <1>1, MediaChosen
<1>3. \A b \in T : b.source \in Sources
  BY DEF Blocks, IsMedia
<1>4. ElementsIn(t.blocks) \cap T = {x \in ElementsIn(t.blocks) : IsMedia(x)}
  BY <1>1 DEF ElementsIn
<1>5. SourcesOf(t) = [i \in 1..Len(chosen) |-> chosen[i].source]
  BY DEF SourcesOf, Each
<1> HIDE DEF T, chosen
<1>6. chosen \in Seq(Blocks \cap T) /\ ElementsIn(chosen) = ElementsIn(t.blocks) \cap T
  BY <1>1, <1>2, ChosenType
<1>7. Len(chosen) \in Nat /\ DOMAIN chosen = 1..Len(chosen) /\ \A i \in 1..Len(chosen) : chosen[i] \in T
  BY <1>6
<1>8. SourcesOf(t) \in Seq(Sources)
  BY <1>3, <1>5, <1>7
<1>9. ElementsIn(SourcesOf(t)) = {b.source : b \in ElementsIn(chosen)}
  BY <1>5, <1>7 DEF ElementsIn
<1>10. QED
  BY <1>4, <1>6, <1>8, <1>9

LEMMA MediaOfIs ==
    ASSUME NEW ts \in Seq(Turns)
    PROVE  /\ MediaOf(ts) \in Seq(Sources)
           /\ ElementsIn(MediaOf(ts)) = {b.source : b \in {x \in BlocksIn(ts) : IsMedia(x)}}
<1> DEFINE ss == [i \in 1..Len(ts) |-> SourcesOf(ts[i])]
<1>1. MediaOf(ts) = FlattenSeq(ss)
  BY DEF MediaOf, Gather, Each, SourcesOf
<1>2. Len(ts) \in Nat /\ DOMAIN ts = 1..Len(ts) /\ \A i \in 1..Len(ts) : ts[i] \in Turns
  OBVIOUS
<1>3. ss \in Seq(Seq(Sources)) /\ DOMAIN ss = 1..Len(ts)
  BY <1>2, SourcesOfTurn
<1>4. \A i \in 1..Len(ts) : ss[i] = SourcesOf(ts[i])
  OBVIOUS
<1> HIDE DEF ss
<1>5. MediaOf(ts) \in Seq(Sources)
  BY <1>1, <1>3, FlattenType
<1>6. ElementsIn(MediaOf(ts)) = UNION {ElementsIn(ss[i]) : i \in 1..Len(ts)}
  BY <1>1, <1>3, FlattenElements
<1>7. ASSUME NEW x \in ElementsIn(MediaOf(ts))
      PROVE  x \in {b.source : b \in {y \in BlocksIn(ts) : IsMedia(y)}}
  <2>1. PICK i \in 1..Len(ts) : x \in ElementsIn(SourcesOf(ts[i]))
    BY <1>4, <1>6
  <2>2. PICK b \in ElementsIn(ts[i].blocks) : IsMedia(b) /\ x = b.source
    BY <1>2, <2>1, SourcesOfTurn
  <2>3. ts[i] \in ElementsIn(ts)
    BY <1>2 DEF ElementsIn
  <2>4. b \in BlocksIn(ts)
    BY <2>2, <2>3 DEF BlocksIn
  <2>5. QED
    BY <2>2, <2>4
<1>8. ASSUME NEW b \in BlocksIn(ts), IsMedia(b)
      PROVE  b.source \in ElementsIn(MediaOf(ts))
  <2>1. PICK i \in 1..Len(ts) : b \in ElementsIn(ts[i].blocks)
    BY <1>2 DEF BlocksIn, ElementsIn
  <2>2. b.source \in ElementsIn(SourcesOf(ts[i]))
    BY <1>2, <1>8, <2>1, SourcesOfTurn
  <2>3. QED
    BY <1>4, <1>6, <2>2
<1>9. QED
  BY <1>5, <1>7, <1>8

-----------------------------------------------------------------------------
(***************************************************************************)
(* What is true of the turns of each request as it enters, and of the      *)
(* answers, is true of all turns that are stored or under way.             *)
(***************************************************************************)
TurnsWithin(G) ==
    /\ \A s \in Sids : ElementsIn(turns[s]) \subseteq G
    /\ \A q \in Reqs : \A request \in {pre[q], post[q], merged[q]} :
         request # Nothing => ElementsIn(request.turns) \subseteq G

AnswerTurn(q) == TurnOfMessage(Message("assistant", Answer(q), <<>>, ""))

LEMMA NoTurns == ElementsIn(<<>>) = {}
  BY DEF ElementsIn

LEMMA AnswerTurnIs ==
    ASSUME NEW q \in Reqs
    PROVE  /\ AnswerTurn(q) \in Turns
           /\ AnswerTurn(q).role = "assistant"
           /\ AnswerTurn(q).blocks = <<Text(<<q>>)>>
<1>1. AnswerTurn(q).role = "assistant"
  BY DEF AnswerTurn, TurnOfMessage, Message
<1>2. QED
  BY <1>1, AnswerType DEF AnswerTurn

LEMMA FinishIs ==
    ASSUME NEW q \in Reqs, Finish(q)
    PROVE  /\ pc[q] = "sent"
           /\ pc' = [pc EXCEPT ![q] = "done"]
           /\ \/ UNCHANGED storeVars
              \/ SaveCanonicalResponse(sid[q], Append(merged[q].turns, AnswerTurn(q)))
           /\ UNCHANGED <<now, ruleVars, requestVars, post, merged, sent, used, edits>>
  BY DEF Finish, AnswerTurn

LEMMA Entered ==
    ASSUME RequestTypes, NEW q \in Reqs, NEW c, NEW from, Enter(q, c, from), NEW p \in Reqs
    PROVE  /\ pc'[p] = "idle" => pc[p] = "idle" /\ pre'[p] = pre[p]
           /\ \/ pre'[p] = pre[p]
              \/ /\ pc[p] = "idle" /\ pre'[p] = Canonical(c)
                 /\ Accepted(c) /\ WithinVisionLimits(Canonical(c).turns)
<1>1. CASE ~(Accepted(c) /\ WithinVisionLimits(Canonical(c).turns))
  BY <1>1 DEF Enter, requestVars, RequestTypes
<1>2. CASE Accepted(c) /\ WithinVisionLimits(Canonical(c).turns)
  <2>1. pc[q] = "idle" /\ pc' = [pc EXCEPT ![q] = "received"] /\ pre' = [pre EXCEPT ![q] = Canonical(c)]
    BY <1>2 DEF Enter
  <2>2. QED
    BY <1>2, <2>1 DEF RequestTypes
<1>3. QED
  BY <1>1, <1>2

\* Where requests come from.
LEMMA NewRequests ==
    ASSUME PathTypes, [Next]_vars, NEW p \in Reqs
    PROVE  /\ pc'[p] = "idle" => pc[p] = "idle" /\ pre'[p] = pre[p]
           /\ \/ pre'[p] = pre[p]
              \/ \E c : /\ pc[p] = "idle" /\ pre'[p] = Canonical(c)
                        /\ Enterable(c) /\ Accepted(c)
                        /\ WithinVisionLimits(Canonical(c).turns)
<1> DEFINE Fine == /\ pc'[p] = "idle" => pc[p] = "idle" /\ pre'[p] = pre[p]
                   /\ \/ pre'[p] = pre[p]
                      \/ \E c : /\ pc[p] = "idle" /\ pre'[p] = Canonical(c)
                                /\ Enterable(c) /\ Accepted(c)
                                /\ WithinVisionLimits(Canonical(c).turns)
<1> SUFFICES Fine
  OBVIOUS
<1> USE DEF PathTypes
<1>1. ASSUME NEW q \in Reqs, NEW c, NEW from, Enterable(c), Enter(q, c, from)
      PROVE  Fine
  BY <1>1, Entered
<1>2. ASSUME NEW q \in Reqs, NEW state \in States \ {"idle"},
             pc' = [pc EXCEPT ![q] = state] \/ pc' = pc, pre' = pre
      PROVE  Fine
  BY <1>2 DEF RequestTypes
<1> HIDE DEF Fine
<1>3. ASSUME NEW q \in Reqs, Receive(q)
      PROVE  Fine
  BY <1>1, <1>3, ClientRequestIsEnterable DEF Receive
<1>4. ASSUME NEW q \in Reqs, NEW r \in Reqs, NEW mode, ReplayRecord(q, r, mode)
      PROVE  Fine
  BY <1>1, <1>4, RecordIsEnterable DEF ReplayRecord
<1>5. ASSUME NEW q \in Reqs, EvaluateCanonicalRequest(q)
      PROVE  Fine
  <2>1. pre' = pre /\ \E state \in {"judged", "refused"} : pc' = [pc EXCEPT ![q] = state]
    BY <1>5 DEF EvaluateCanonicalRequest, requestVars, Refuse
  <2>2. QED
    BY <1>2, <2>1 DEF States
<1>6. ASSUME NEW q \in Reqs, Build(q)
      PROVE  Fine
  <2>1. pre' = pre /\ \E state \in {"built", "refused"} : pc' = [pc EXCEPT ![q] = state]
    BY <1>6 DEF Build, requestVars, Refuse
  <2>2. QED
    BY <1>2, <2>1 DEF States
<1>7. ASSUME NEW q \in Reqs, Forward(q)
      PROVE  Fine
  <2>1. pre' = pre /\ \E state \in {"sent", "refused"} : pc' = [pc EXCEPT ![q] = state]
    BY <1>7 DEF Forward, requestVars, Refuse
  <2>2. QED
    BY <1>2, <2>1 DEF States
<1>8. ASSUME NEW q \in Reqs, Finish(q)
      PROVE  Fine
  <2>1. pre' = pre /\ pc' = [pc EXCEPT ![q] = "done"]
    BY <1>8, FinishIs DEF requestVars
  <2>2. QED
    BY <1>2, <2>1 DEF States
<1>9. ASSUME pc' = pc, pre' = pre
      PROVE  Fine
  BY <1>9 DEF Fine
<1>10. ASSUME EditPolicies \/ UNCHANGED vars
       PROVE  Fine
  BY <1>9, <1>10 DEF EditPolicies, vars, requestVars
<1>11. QED
  BY <1>3, <1>4, <1>5, <1>6, <1>7, <1>8, <1>10 DEF Next

LEMMA EvaluateWithin ==
    ASSUME NEW G, RequestTypes, RuleTypes, TurnsWithin(G), NEW q \in Reqs, EvaluateCanonicalRequest(q)
    PROVE  TurnsWithin(G)'
<1>1. turns' = turns /\ UNCHANGED <<pre, merged>>
  BY EvaluateIs DEF requestVars, storeVars
<1>2. pre[q] \in CanonicalRequests /\ ElementsIn(pre[q].turns) \subseteq G
  <2>1. pre[q] # Nothing /\ pre[q] \in CanonicalRequests
    BY EvaluateIs DEF RequestTypes, StageTypes, MaybeRequests
  <2>2. QED
    BY <2>1 DEF TurnsWithin
<1>3. ApplyActions(pre[q], Effective(rules, pre[q])).turns = pre[q].turns
  BY <1>2, EffectiveType, ApplyActionsIs DEF RuleTypes
<1>4. \A p \in Reqs : post'[p] = post[p] \/ (p = q /\ post'[p].turns = pre[q].turns)
  BY <1>3, EvaluateIs DEF RequestTypes
<1>5. QED
  BY <1>1, <1>2, <1>4 DEF TurnsWithin

LEMMA BuildWithin ==
    ASSUME NEW G, StoreTypes, RequestTypes, TurnsWithin(G), NEW q \in Reqs, Build(q)
    PROVE  TurnsWithin(G)'
<1> DEFINE built == Built(sid[q], post[q].turns)
<1>1. /\ pc[q] = "judged" /\ post[q] \in CanonicalRequests
      /\ UNCHANGED <<pre, post>>
      /\ storeVars' = storeVars \/ Drop(StaleSessions)
  BY BuildIs DEF requestVars
<1>2. post[q] # Nothing /\ post[q].turns \in Seq(Turns) /\ sid[q] \in Sids \cup {NoSession}
  BY <1>1, RequestsAreSomething DEF CanonicalRequests, RequestTypes
<1>3. ElementsIn(built) \subseteq
        ElementsIn(post[q].turns) \cup (IF sid[q] \in Sids THEN ElementsIn(turns[sid[q]]) ELSE {})
  BY <1>2, BuiltIs DEF StoreTypes
<1> HIDE DEF built
<1>4. ElementsIn(built) \subseteq G
  <2>1. ElementsIn(post[q].turns) \subseteq G
    BY <1>2 DEF TurnsWithin
  <2>2. sid[q] \in Sids => ElementsIn(turns[sid[q]]) \subseteq G
    BY DEF TurnsWithin
  <2>3. QED
    BY <1>3, <2>1, <2>2
<1>5. merged' = merged \/ \E request : request.turns = built /\ merged' = [merged EXCEPT ![q] = request]
  BY BuildIs DEF built
<1>6. \A p \in Reqs : merged'[p] = merged[p] \/ merged'[p].turns = built
  BY <1>5 DEF RequestTypes
<1>7. \A s \in Sids : turns'[s] = <<>> \/ turns'[s] = turns[s]
  BY <1>1 DEF Drop, storeVars
<1>8. QED
  BY <1>1, <1>4, <1>6, <1>7, NoTurns DEF TurnsWithin

LEMMA FinishWithin ==
    ASSUME NEW G, StoreTypes, RequestTypes, TurnsWithin(G), NEW q \in Reqs, Finish(q),
           AnswerTurn(q) \in G
    PROVE  TurnsWithin(G)'
<1> DEFINE ts == Append(merged[q].turns, AnswerTurn(q))
<1>1. UNCHANGED <<pre, post, merged>>
  BY FinishIs DEF requestVars
<1>2. merged[q] # Nothing /\ merged[q].turns \in Seq(Turns)
  BY FinishIs DEF RequestTypes, StageTypes, MaybeRequests, CanonicalRequests
<1>3. AnswerTurn(q) \in Turns
  BY AnswerTurnIs
<1>4. UNCHANGED storeVars \/ SaveCanonicalResponse(sid[q], ts)
  BY FinishIs
<1>5. ElementsIn(ts) = ElementsIn(merged[q].turns) \cup {AnswerTurn(q)}
  <2>1. /\ DOMAIN ts = DOMAIN merged[q].turns \cup {Len(merged[q].turns) + 1}
        /\ ts[Len(merged[q].turns) + 1] = AnswerTurn(q)
        /\ \A i \in DOMAIN merged[q].turns : ts[i] = merged[q].turns[i]
    BY <1>2, <1>3
  <2>2. QED
    BY <2>1 DEF ElementsIn
<1> HIDE DEF ts
<1>6. ElementsIn(ts) \subseteq G
  BY <1>2, <1>5 DEF TurnsWithin
<1>7. \A s \in Sids : turns'[s] \in {<<>>, turns[s], ts}
  <2>1. CASE UNCHANGED storeVars
    BY <2>1 DEF storeVars
  <2>2. CASE SaveCanonicalResponse(sid[q], ts)
    <3>1. UNCHANGED storeVars \/ Store(sid[q], ts)
      BY <2>2 DEF SaveCanonicalResponse
    <3>2. QED
      BY <2>1, <3>1 DEF Store
  <2>3. QED
    BY <1>4, <2>1, <2>2
<1>8. QED
  BY <1>1, <1>6, <1>7, NoTurns DEF TurnsWithin

LEMMA StepWithin ==
    ASSUME NEW G, PathTypes, TurnsWithin(G), [Next]_vars,
           \A q \in Reqs : AnswerTurn(q) \in G,
           \A q \in Reqs : pre'[q] = pre[q] \/ ElementsIn(pre'[q].turns) \subseteq G
    PROVE  TurnsWithin(G)'
<1> USE DEF PathTypes
<1>1. ASSUME UNCHANGED <<turns, post, merged>>
      PROVE  TurnsWithin(G)'
  BY <1>1 DEF TurnsWithin
<1>2. ASSUME NEW q \in Reqs, NEW c, NEW from, Enter(q, c, from)
      PROVE  TurnsWithin(G)'
  BY <1>1, <1>2 DEF Enter, storeVars
<1>3. ASSUME NEW q \in Reqs, Receive(q)
      PROVE  TurnsWithin(G)'
  BY <1>2, <1>3 DEF Receive
<1>4. ASSUME NEW q \in Reqs, NEW r \in Reqs, NEW mode, ReplayRecord(q, r, mode)
      PROVE  TurnsWithin(G)'
  BY <1>2, <1>4 DEF ReplayRecord
<1>5. ASSUME NEW q \in Reqs, EvaluateCanonicalRequest(q)
      PROVE  TurnsWithin(G)'
  BY <1>5, EvaluateWithin
<1>6. ASSUME NEW q \in Reqs, Build(q)
      PROVE  TurnsWithin(G)'
  BY <1>6, BuildWithin
<1>7. ASSUME NEW q \in Reqs, Finish(q)
      PROVE  TurnsWithin(G)'
  BY <1>7, FinishWithin
<1>8. ASSUME NEW q \in Reqs, Forward(q)
      PROVE  TurnsWithin(G)'
  BY <1>1, <1>8 DEF Forward, storeVars
<1>9. ASSUME EditPolicies
      PROVE  TurnsWithin(G)'
  BY <1>1, <1>9 DEF EditPolicies, storeVars
<1>10. ASSUME UNCHANGED vars
       PROVE  TurnsWithin(G)'
  BY <1>1, <1>10 DEF vars, storeVars
<1>11. QED
  BY <1>3, <1>4, <1>5, <1>6, <1>7, <1>8, <1>9, <1>10 DEF Next

-----------------------------------------------------------------------------
(***************************************************************************)
(* Turns as they are made: the images have passed the limits, and a turn   *)
(* of a tool has nothing but its result.                                   *)
(***************************************************************************)
ProperTurn(t) ==
    /\ \A b \in ElementsIn(t.blocks) : IsMedia(b) => AllowedSource(b.source)
    /\ t.role = "tool" => \A b \in ElementsIn(t.blocks) : IsResult(b)

ProperTurns == {t \in Turns : ProperTurn(t)}

LEMMA AnswerIsProper ==
    ASSUME NEW q \in Reqs
    PROVE  AnswerTurn(q) \in ProperTurns
<1>1. AnswerTurn(q) \in Turns /\ AnswerTurn(q).blocks = <<Text(<<q>>)>>
  BY AnswerTurnIs
<1>2. AnswerTurn(q).role = "assistant"
  BY AnswerTurnIs
<1>3. ~IsMedia(Text(<<q>>))
  BY DEF IsMedia, Text
<1>4. ElementsIn(<<Text(<<q>>)>>) = {Text(<<q>>)}
  BY DEF ElementsIn
<1>5. QED
  BY <1>1, <1>2, <1>3, <1>4 DEF ProperTurns, ProperTurn

\* Results alone in a tool's turn, by the conversions.
LEMMA ToolTurns ==
    ASSUME NEW c \in Bodies, Accepted(c), NEW t \in ElementsIn(Canonical(c).turns), t.role = "tool"
    PROVE  \A b \in ElementsIn(t.blocks) : IsResult(b)
<1>1. CASE c \in OpenAIBodies
  <2> DEFINE messages == WithNamedCalls(Each(Decoded, c.messages))
  <2>1. Canonical(c).turns = Each(TurnOfMessage, messages)
    BY <1>1, CanonicalIs
  <2> HIDE DEF messages
  <2>2. PICK m : t = TurnOfMessage(m)
    BY <2>1 DEF ElementsIn, Each
  <2>3. m.role = "tool"
    BY <2>2 DEF TurnOfMessage
  <2>4. t.blocks = <<Result(m.id, m.text)>>
    BY <2>2, <2>3 DEF TurnOfMessage
  <2>5. IsResult(Result(m.id, m.text))
    BY DEF IsResult, Result
  <2>6. QED
    BY <2>4, <2>5 DEF ElementsIn
<1>2. CASE c \in AnthropicBodies
  <2> DEFINE spoken == Each(TurnOfContent, c.messages)
             system == SystemTurn(c.system)
  <2>1. Canonical(c).turns = system \o spoken
    BY <1>2, CanonicalIs
  <2>2. system \in Seq(Turns) /\ spoken \in Seq(Turns)
    BY <1>2, AnthropicTurns, SystemTurnType DEF AnthropicBodies
  <2>3. \A x \in ElementsIn(spoken) : x.role # "tool"
    <3>1. c.messages \in Seq(AnthropicMessages) /\ IsAnthropic(c)
      BY <1>2 DEF AnthropicBodies, IsAnthropic
    <3>2. KnownRoles(c.messages)
      BY <3>1 DEF Accepted
    <3>3. \A i \in 1..Len(c.messages) : c.messages[i].role \in {"user", "assistant"}
      BY <3>1, <3>2 DEF KnownRoles
    <3>4. \A i \in 1..Len(c.messages) : spoken[i].role = c.messages[i].role
      BY DEF Each, TurnOfContent
    <3>5. DOMAIN spoken = 1..Len(c.messages)
      BY DEF Each
    <3>6. QED
      BY <3>3, <3>4, <3>5 DEF ElementsIn
  <2>4. \A x \in ElementsIn(system) : x.role # "tool"
    BY DEF ElementsIn, SystemTurn
  <2> HIDE DEF spoken, system
  <2>5. ElementsIn(system \o spoken) \subseteq ElementsIn(system) \cup ElementsIn(spoken)
    BY <2>2 DEF ElementsIn
  <2>6. QED
    BY <2>1, <2>3, <2>4, <2>5
<1>3. QED
  BY <1>1, <1>2 DEF Bodies

LEMMA MediaAllowed ==
    ASSUME NEW ts \in Seq(Turns)
    PROVE  (\A i \in DOMAIN MediaOf(ts) : AllowedSource(MediaOf(ts)[i]))
             <=> \A t \in ElementsIn(ts) : \A b \in ElementsIn(t.blocks) :
                   IsMedia(b) => AllowedSource(b.source)
<1>1. (\A i \in DOMAIN MediaOf(ts) : AllowedSource(MediaOf(ts)[i]))
        <=> \A x \in ElementsIn(MediaOf(ts)) : AllowedSource(x)
  BY DEF ElementsIn
<1>2. ElementsIn(MediaOf(ts)) = {b.source : b \in {x \in BlocksIn(ts) : IsMedia(x)}}
  BY MediaOfIs
<1>3. QED
  BY <1>1, <1>2 DEF BlocksIn

LEMMA RequestsAreProper ==
    ASSUME NEW c, Enterable(c), Accepted(c), WithinVisionLimits(Canonical(c).turns)
    PROVE  ElementsIn(Canonical(c).turns) \subseteq ProperTurns
<1>1. c \in Bodies /\ Canonical(c).turns \in Seq(Turns)
  BY CanonicalIs DEF Enterable, CanonicalRequests
<1>2. \A t \in ElementsIn(Canonical(c).turns) : \A b \in ElementsIn(t.blocks) :
        IsMedia(b) => AllowedSource(b.source)
  BY <1>1, MediaAllowed DEF WithinVisionLimits
<1>3. ElementsIn(Canonical(c).turns) \subseteq Turns
  BY <1>1 DEF ElementsIn
<1>4. QED
  BY <1>1, <1>2, <1>3, ToolTurns DEF ProperTurns, ProperTurn

TurnsInv == TurnsWithin(ProperTurns)

LEMMA TurnsHold == Spec => []TurnsInv
<1>1. Init => TurnsInv
  BY NoTurns DEF Init, SessionInit, TurnsInv, TurnsWithin
<1>2. PathTypes /\ TurnsInv /\ [Next]_vars => TurnsInv'
  <2> SUFFICES ASSUME PathTypes, TurnsInv, [Next]_vars
               PROVE  TurnsInv'
    OBVIOUS
  <2>1. \A q \in Reqs : AnswerTurn(q) \in ProperTurns
    BY AnswerIsProper
  <2>2. \A q \in Reqs : pre'[q] = pre[q] \/ ElementsIn(pre'[q].turns) \subseteq ProperTurns
    BY NewRequests, RequestsAreProper
  <2>3. QED
    BY <2>1, <2>2, StepWithin DEF TurnsInv
<1>3. QED
  BY <1>1, <1>2, TypesHold, PTL DEF Spec

LEMMA AllowedWhenSent == PathTypes /\ FlowInv /\ TurnsInv => SentImagesAreAllowed
<1> SUFFICES ASSUME PathTypes, FlowInv, TurnsInv, NEW q \in Reqs, sent[q] # Nothing
             PROVE  \A i \in DOMAIN sent[q].images : AllowedSource(sent[q].images[i])
  BY DEF SentImagesAreAllowed
<1>1. pc[q] \in {"sent", "done"} /\ merged[q] # Nothing /\ merged[q] \in CanonicalRequests
  BY DEF PathTypes, RequestTypes, StageTypes, MaybeRequests
<1>2. sent[q].images = MediaOf(merged[q].turns)
  <2>1. sent[q] = AsBuilt(merged[q])
    BY <1>1 DEF FlowInv, Flow
  <2>2. AsBuilt(merged[q]).images = MediaOf(merged[q].turns)
    BY DEF AsBuilt, BuildCanonical
  <2>3. QED
    BY <2>1, <2>2
<1>3. ElementsIn(merged[q].turns) \subseteq ProperTurns /\ merged[q].turns \in Seq(Turns)
  BY <1>1 DEF TurnsInv, TurnsWithin, CanonicalRequests
<1>4. QED
  BY <1>2, <1>3, MediaAllowed DEF ProperTurns, ProperTurn

(***************************************************************************)
(* No image of a type or size that is not allowed goes upstream, in        *)
(* conversations of any length: the limits see a request's own images      *)
(* only, and what the store adds in front was seen when it came.           *)
(***************************************************************************)
THEOREM SentImagesAreAllowedAlways == Spec => []SentImagesAreAllowed
  BY TypesHold, FlowHolds, TurnsHold, AllowedWhenSent, PTL

-----------------------------------------------------------------------------
(***************************************************************************)
(* Conversions joined: Cat(f, s) is what Gather returns, for a function.   *)
(***************************************************************************)
Cat(f, s) == FlattenSeq([i \in 1..Len(s) |-> f[s[i]]])

LEMMA CatType ==
    ASSUME NEW A, NEW B, NEW f \in [A -> Seq(B)], NEW s \in Seq(A)
    PROVE  /\ Cat(f, s) \in Seq(B)
           /\ [i \in 1..Len(s) |-> f[s[i]]] \in Seq(Seq(B))
<1>1. [i \in 1..Len(s) |-> f[s[i]]] \in Seq(Seq(B))
  OBVIOUS
<1>2. QED
  BY <1>1, FlattenType DEF Cat

LEMMA CatEmpty ==
    ASSUME NEW f
    PROVE  Cat(f, <<>>) = <<>>
<1>1. [i \in 1..Len(<<>>) |-> f[<<>>[i]]] = <<>>
  OBVIOUS
<1>2. QED
  BY <1>1, FlattenEmpty DEF Cat

LEMMA CatAppend ==
    ASSUME NEW A, NEW B, NEW f \in [A -> Seq(B)], NEW s \in Seq(A), NEW x \in A
    PROVE  Cat(f, Append(s, x)) = Cat(f, s) \o f[x]
<1> DEFINE t == Append(s, x)
           ss == [i \in 1..Len(s) |-> f[s[i]]]
<1>1. ss \in Seq(Seq(B)) /\ f[x] \in Seq(B)
  BY CatType
<1>2. [i \in 1..Len(t) |-> f[t[i]]] = Append(ss, f[x])
  <2>1. Len(t) = Len(s) + 1 /\ t[Len(s) + 1] = x /\ (\A i \in 1..Len(s) : t[i] = s[i]) /\ Len(s) \in Nat
    OBVIOUS
  <2> HIDE DEF t
  <2>2. Append(ss, f[x]) = [i \in 1..(Len(s) + 1) |-> IF i = Len(s) + 1 THEN f[x] ELSE ss[i]]
    BY <1>1, <2>1
  <2>3. \A i \in 1..(Len(s) + 1) : f[t[i]] = IF i = Len(s) + 1 THEN f[x] ELSE ss[i]
    BY <2>1
  <2>4. QED
    BY <2>1, <2>2, <2>3
<1> HIDE DEF t, ss
<1>3. Cat(f, t) = FlattenSeq(Append(ss, f[x])) /\ Cat(f, s) = FlattenSeq(ss)
  BY <1>2 DEF Cat, ss
<1>4. QED
  BY <1>1, <1>3, FlattenAppend DEF t

LEMMA CatOne ==
    ASSUME NEW A, NEW B, NEW f \in [A -> Seq(B)], NEW x \in A
    PROVE  Cat(f, <<x>>) = f[x]
<1>1. <<>> \in Seq(A) /\ Append(<<>>, x) = <<x>> /\ <<>> \o f[x] = f[x]
  OBVIOUS
<1>2. Cat(f, Append(<<>>, x)) = Cat(f, <<>>) \o f[x]
  BY <1>1, CatAppend
<1>3. QED
  BY <1>1, <1>2, CatEmpty

LEMMA CatJoin ==
    ASSUME NEW A, NEW B, NEW f \in [A -> Seq(B)], NEW s \in Seq(A), NEW t \in Seq(A)
    PROVE  Cat(f, s \o t) = Cat(f, s) \o Cat(f, t)
<1> DEFINE Good == {u \in Seq(A) : Cat(f, s \o u) = Cat(f, s) \o Cat(f, u)}
<1>1. <<>> \in Good
  <2>1. s \o <<>> = s /\ <<>> \in Seq(A) /\ Cat(f, s) \in Seq(B)
    BY CatType
  <2>2. Cat(f, s) \o <<>> = Cat(f, s)
    BY <2>1
  <2>3. QED
    BY <2>1, <2>2, CatEmpty
<1>2. ASSUME NEW u \in Seq(A), NEW x \in A, u \in Good
      PROVE  Append(u, x) \in Good
  <2>1. s \o Append(u, x) = Append(s \o u, x) /\ s \o u \in Seq(A) /\ Append(u, x) \in Seq(A)
    OBVIOUS
  <2>2. Cat(f, s \o Append(u, x)) = Cat(f, s \o u) \o f[x]
    BY <2>1, CatAppend
  <2>3. Cat(f, Append(u, x)) = Cat(f, u) \o f[x]
    BY CatAppend
  <2>4. Cat(f, s) \in Seq(B) /\ Cat(f, u) \in Seq(B) /\ f[x] \in Seq(B)
    BY CatType
  <2>5. Cat(f, s \o u) = Cat(f, s) \o Cat(f, u)
    BY <1>2
  <2>6. (Cat(f, s) \o Cat(f, u)) \o f[x] = Cat(f, s) \o (Cat(f, u) \o f[x])
    BY <2>4, ConcatAssociative
  <2>7. QED
    BY <2>1, <2>2, <2>3, <2>5, <2>6
<1> HIDE DEF Good
<1>3. Seq(A) \subseteq Good
  BY <1>1, <1>2, InductionOnSeqs
<1>4. QED
  BY <1>3 DEF Good

CatLaws(A, B) ==
    \A f \in [A -> Seq(B)] :
      /\ \A s \in Seq(A) : Cat(f, s) \in Seq(B)
      /\ \A s \in Seq(A), x \in A : Cat(f, Append(s, x)) = Cat(f, s) \o f[x]
      /\ \A s, t \in Seq(A) : Cat(f, s \o t) = Cat(f, s) \o Cat(f, t)

LEMMA CatRules ==
    ASSUME NEW A, NEW B
    PROVE  CatLaws(A, B)
<1> SUFFICES ASSUME NEW f \in [A -> Seq(B)]
             PROVE  /\ \A s \in Seq(A) : Cat(f, s) \in Seq(B)
                    /\ \A s \in Seq(A), x \in A : Cat(f, Append(s, x)) = Cat(f, s) \o f[x]
                    /\ \A s, t \in Seq(A) : Cat(f, s \o t) = Cat(f, s) \o Cat(f, t)
  BY DEF CatLaws
<1>1. \A s \in Seq(A) : Cat(f, s) \in Seq(B)
  BY CatType
<1>2. \A s \in Seq(A), x \in A : Cat(f, Append(s, x)) = Cat(f, s) \o f[x]
  BY CatAppend
<1>3. \A s, t \in Seq(A) : Cat(f, s \o t) = Cat(f, s) \o Cat(f, t)
  BY CatJoin
<1>4. QED
  BY <1>1, <1>2, <1>3

\* h is f after g.
Composed(f, g, h, A, B, C) ==
    /\ g \in [A -> Seq(B)] /\ f \in [B -> Seq(C)] /\ h \in [A -> Seq(C)]
    /\ \A x \in A : Cat(f, g[x]) = h[x]

LEMMA CatOfCat ==
    ASSUME NEW A, NEW B, NEW C, NEW f, NEW g, NEW h, Composed(f, g, h, A, B, C), NEW s \in Seq(A)
    PROVE  Cat(f, Cat(g, s)) = Cat(h, s)
<1>1. CatLaws(A, B)
  BY CatRules
<1>2. CatLaws(A, C)
  BY CatRules
<1>3. CatLaws(B, C)
  BY CatRules
<1>8. /\ g \in [A -> Seq(B)] /\ f \in [B -> Seq(C)] /\ h \in [A -> Seq(C)]
      /\ \A x \in A : Cat(f, g[x]) = h[x]
  BY DEF Composed
<1> DEFINE Good == {u \in Seq(A) : Cat(f, Cat(g, u)) = Cat(h, u)}
<1>4. <<>> \in Good
  BY CatEmpty
<1>5. ASSUME NEW u \in Seq(A), NEW x \in A, u \in Good
      PROVE  Append(u, x) \in Good
  <2>1. g[x] \in Seq(B) /\ Cat(g, u) \in Seq(B) /\ Cat(g, Append(u, x)) = Cat(g, u) \o g[x]
    BY <1>1, <1>8 DEF CatLaws
  <2>2. Cat(h, Append(u, x)) = Cat(h, u) \o h[x]
    BY <1>2, <1>8 DEF CatLaws
  <2>3. Cat(f, Cat(g, u) \o g[x]) = Cat(f, Cat(g, u)) \o Cat(f, g[x])
    BY <1>3, <1>8, <2>1 DEF CatLaws
  <2>4. Cat(f, Cat(g, u)) = Cat(h, u) /\ Cat(f, g[x]) = h[x]
    BY <1>5, <1>8
  <2> HIDE DEF Good
  <2>5. Cat(f, Cat(g, Append(u, x))) = Cat(h, Append(u, x))
    BY <2>1, <2>2, <2>3, <2>4
  <2>6. Append(u, x) \in Seq(A)
    OBVIOUS
  <2>7. QED
    BY <2>5, <2>6 DEF Good
<1> HIDE DEF Good
<1>6. Seq(A) \subseteq Good
  BY <1>4, <1>5, InductionOnSeqs
<1>7. QED
  BY <1>6 DEF Good

SinglesLaw(A, B) ==
    \A h \in [A -> B], s \in Seq(A) :
      Cat([x \in A |-> <<h[x]>>], s) = [i \in 1..Len(s) |-> h[s[i]]]

LEMMA CatSingles ==
    ASSUME NEW A, NEW B
    PROVE  SinglesLaw(A, B)
<1> SUFFICES ASSUME NEW h \in [A -> B], NEW s \in Seq(A)
             PROVE  Cat([x \in A |-> <<h[x]>>], s) = [i \in 1..Len(s) |-> h[s[i]]]
  BY DEF SinglesLaw
<1> DEFINE f == [x \in A |-> <<h[x]>>]
           Good == {u \in Seq(A) : Cat(f, u) = [i \in 1..Len(u) |-> h[u[i]]]}
<1>1. f \in [A -> Seq(B)] /\ \A x \in A : f[x] = <<h[x]>>
  OBVIOUS
<1> HIDE DEF f
<1>2. <<>> \in Good
  <2>1. [i \in 1..Len(<<>>) |-> h[<<>>[i]]] = <<>> /\ <<>> \in Seq(A)
    OBVIOUS
  <2>2. QED
    BY <2>1, CatEmpty
<1>3. ASSUME NEW u \in Seq(A), NEW x \in A, u \in Good
      PROVE  Append(u, x) \in Good
  <2> DEFINE v == Append(u, x)
             hu == [i \in 1..Len(u) |-> h[u[i]]]
  <2>1. Len(v) = Len(u) + 1 /\ v[Len(u) + 1] = x /\ (\A i \in 1..Len(u) : v[i] = u[i])
        /\ Len(u) \in Nat /\ v \in Seq(A)
    OBVIOUS
  <2>2. hu \in Seq(B) /\ h[x] \in B
    OBVIOUS
  <2>3. Cat(f, v) = hu \o <<h[x]>>
    <3>1. CatLaws(A, B)
      BY CatRules
    <3>2. Cat(f, Append(u, x)) = Cat(f, u) \o f[x]
      BY <1>1, <3>1 DEF CatLaws
    <3>3. QED
      BY <1>1, <1>3, <3>2
  <2> HIDE DEF v
  <2>4. hu \o <<h[x]>> = [i \in 1..(Len(u) + 1) |-> IF i = Len(u) + 1 THEN h[x] ELSE hu[i]]
    BY <2>2
  <2>5. [i \in 1..Len(v) |-> h[v[i]]]
          = [i \in 1..(Len(u) + 1) |-> IF i = Len(u) + 1 THEN h[x] ELSE hu[i]]
    BY <2>1
  <2>6. v \in Good
    BY <2>1, <2>3, <2>4, <2>5
  <2>7. QED
    BY <2>6 DEF v
<1> HIDE DEF Good
<1>4. s \in Good
  BY <1>2, <1>3, InductionOnSeqs
<1>5. QED
  BY <1>4 DEF Good, f

LEMMA CatNone ==
    ASSUME NEW A, NEW s \in Seq(A)
    PROVE  Cat([x \in A |-> <<>>], s) = <<>>
<1> DEFINE f == [x \in A |-> <<>>]
           Good == {u \in Seq(A) : Cat(f, u) = <<>>}
<1>1. f \in [A -> Seq({})] /\ \A x \in A : f[x] = <<>>
  OBVIOUS
<1> HIDE DEF f
<1>2. <<>> \in Good
  BY CatEmpty
<1>3. ASSUME NEW u \in Seq(A), NEW x \in A, u \in Good
      PROVE  Append(u, x) \in Good
  <2>1. Append(u, x) \in Seq(A) /\ <<>> \o <<>> = <<>>
    OBVIOUS
  <2>2. Cat(f, Append(u, x)) = Cat(f, u) \o f[x]
    <3>1. CatLaws(A, {})
      BY CatRules
    <3>2. QED
      BY <1>1, <3>1 DEF CatLaws
  <2>3. QED
    BY <1>1, <1>3, <2>1, <2>2
<1> HIDE DEF Good
<1>4. s \in Good
  BY <1>2, <1>3, InductionOnSeqs
<1>5. QED
  BY <1>4 DEF Good, f

\* Who said what, in which calls, with which results: of messages and of blocks.
Utterances == Words \X Words

WordsOf == [m \in Messages |-> SaidBy(m.role, m.text)]
CallsOf == [m \in Messages |-> m.calls]
ResultsOf == [m \in Messages |-> IF m.role = "tool" THEN <<m.id>> ELSE <<>>]

WordsIn(role) == [b \in Blocks |-> SaidBy(SpeakerOf(b, role), AssistantText(b))]
ResultsIn == [b \in Blocks |-> IF IsResult(b) THEN <<b.id>> ELSE <<>>]

LEMMA SaidByType ==
    ASSUME NEW role \in Words, NEW text \in Texts
    PROVE  /\ SaidBy(role, text) \in Seq(Utterances)
           /\ SaidBy(role, text) = Cat([w \in Words |-> <<<<role, w>>>>], text)
<1> DEFINE h == [w \in Words |-> <<role, w>>]
<1>1. h \in [Words -> Utterances] /\ \A w \in Words : h[w] = <<role, w>>
  BY DEF Utterances
<1>2. text \in Seq(Words)
  BY DEF Texts
<1>3. SaidBy(role, text) = [i \in 1..Len(text) |-> <<role, text[i]>>]
  BY DEF SaidBy, Each
<1> HIDE DEF h
<1>4. SaidBy(role, text) = [i \in 1..Len(text) |-> h[text[i]]]
  BY <1>1, <1>2, <1>3
<1>5. [w \in Words |-> <<h[w]>>] = [w \in Words |-> <<<<role, w>>>>]
  BY <1>1
<1>6. SaidBy(role, text) \in Seq(Utterances)
  BY <1>1, <1>2, <1>4
<1>7. Cat([w \in Words |-> <<h[w]>>], text) = [i \in 1..Len(text) |-> h[text[i]]]
  <2>1. SinglesLaw(Words, Utterances)
    BY CatSingles
  <2>2. QED
    BY <1>1, <1>2, <2>1 DEF SinglesLaw
<1>8. QED
  BY <1>4, <1>5, <1>6, <1>7

LEMMA SaidByJoin ==
    ASSUME NEW role \in Words, NEW s \in Texts, NEW t \in Texts
    PROVE  /\ SaidBy(role, s \o t) = SaidBy(role, s) \o SaidBy(role, t)
           /\ SaidBy(role, <<>>) = <<>>
<1> DEFINE f == [w \in Words |-> <<<<role, w>>>>]
<1>1. f \in [Words -> Seq(Utterances)]
  BY DEF Utterances
<1>2. s \in Seq(Words) /\ t \in Seq(Words) /\ s \o t \in Seq(Words) /\ <<>> \in Seq(Words)
  BY DEF Texts
<1>3. \A u \in Seq(Words) : SaidBy(role, u) = Cat(f, u)
  BY SaidByType DEF Texts
<1> HIDE DEF f
<1>4. Cat(f, s \o t) = Cat(f, s) \o Cat(f, t)
  <2>1. CatLaws(Words, Utterances)
    BY CatRules
  <2>2. QED
    BY <1>1, <1>2, <2>1 DEF CatLaws
<1>5. Cat(f, <<>>) = <<>>
  BY CatEmpty
<1>6. QED
  BY <1>2, <1>3, <1>4, <1>5

LEMMA MessageIs ==
    ASSUME NEW role, NEW text, NEW calls, NEW id
    PROVE  /\ Message(role, text, calls, id).role = role
           /\ Message(role, text, calls, id).text = text
           /\ Message(role, text, calls, id).calls = calls
           /\ Message(role, text, calls, id).id = id
  BY DEF Message

LEMMA ConversationTypes ==
    /\ WordsOf \in [Messages -> Seq(Utterances)]
    /\ CallsOf \in [Messages -> Seq(ToolCalls)]
    /\ ResultsOf \in [Messages -> Seq(Words)]
    /\ \A role \in Roles : WordsIn(role) \in [Blocks -> Seq(Utterances)]
    /\ ResultsIn \in [Blocks -> Seq(Words)]
<1>1. \A m \in Messages : m.role \in Words /\ m.text \in Texts /\ m.calls \in Seq(ToolCalls)
                          /\ m.id \in Words
  BY DEF Messages
<1>2. WordsOf \in [Messages -> Seq(Utterances)]
  BY <1>1, SaidByType DEF WordsOf
<1>3. CallsOf \in [Messages -> Seq(ToolCalls)]
  BY <1>1 DEF CallsOf
<1>4. ResultsOf \in [Messages -> Seq(Words)]
  <2>1. \A m \in Messages : <<m.id>> \in Seq(Words)
    BY <1>1
  <2>2. QED
    BY <2>1, NoElements DEF ResultsOf
<1>5. ASSUME NEW role \in Roles
      PROVE  WordsIn(role) \in [Blocks -> Seq(Utterances)]
  <2>1. \A b \in Blocks : SpeakerOf(b, role) \in Words
    BY WordsInUse DEF SpeakerOf, Roles
  <2>2. QED
    BY <2>1, SaidByType, InlineTextType DEF WordsIn
<1>6. ResultsIn \in [Blocks -> Seq(Words)]
  <2>1. \A b \in Blocks : IsResult(b) => b.id \in Words
    BY DEF Blocks, IsResult
  <2>2. \A b \in Blocks : IsResult(b) => <<b.id>> \in Seq(Words)
    BY <2>1
  <2>3. QED
    BY <2>2, NoElements DEF ResultsIn
<1>7. QED
  BY <1>2, <1>3, <1>4, <1>5, <1>6

-----------------------------------------------------------------------------
(***************************************************************************)
(* A turn of the user or the system: at each block, the messages so far    *)
(* and the text that waits say what the blocks so far do.                  *)
(***************************************************************************)
LEMMA AppendSays ==
    ASSUME NEW out \in Seq(Messages), NEW m \in Messages
    PROVE  /\ Cat(WordsOf, Append(out, m)) = Cat(WordsOf, out) \o WordsOf[m]
           /\ Cat(CallsOf, Append(out, m)) = Cat(CallsOf, out) \o CallsOf[m]
           /\ Cat(ResultsOf, Append(out, m)) = Cat(ResultsOf, out) \o ResultsOf[m]
<1>1. WordsOf \in [Messages -> Seq(Utterances)] /\ CatLaws(Messages, Utterances)
  BY ConversationTypes, CatRules
<1>2. CallsOf \in [Messages -> Seq(ToolCalls)] /\ CatLaws(Messages, ToolCalls)
  BY ConversationTypes, CatRules
<1>3. ResultsOf \in [Messages -> Seq(Words)] /\ CatLaws(Messages, Words)
  BY ConversationTypes, CatRules
<1>4. Cat(WordsOf, Append(out, m)) = Cat(WordsOf, out) \o WordsOf[m]
  BY <1>1 DEF CatLaws
<1>5. Cat(CallsOf, Append(out, m)) = Cat(CallsOf, out) \o CallsOf[m]
  BY <1>2 DEF CatLaws
<1>6. Cat(ResultsOf, Append(out, m)) = Cat(ResultsOf, out) \o ResultsOf[m]
  BY <1>3 DEF CatLaws
<1>7. QED
  BY <1>4, <1>5, <1>6

LEMMA FlushedSays ==
    ASSUME NEW acc \in Progress, NEW role \in {"system", "user"}
    PROVE  /\ Cat(WordsOf, Flushed(acc, role)) = Cat(WordsOf, acc.out) \o SaidBy(role, acc.text)
           /\ Cat(CallsOf, Flushed(acc, role)) = Cat(CallsOf, acc.out)
           /\ Cat(ResultsOf, Flushed(acc, role)) = Cat(ResultsOf, acc.out)
<1> DEFINE blank == ""
           m == Message(role, acc.text, <<>>, blank)
<1>1. acc.out \in Seq(Messages) /\ acc.text \in Texts /\ role \in Roles /\ role \in Words
  BY WordsInUse DEF Progress, Roles
<1>2. m \in Messages
  BY <1>1, WordsInUse, NoElements, MessageType
<1>3. Flushed(acc, role) = IF acc.text = <<>> THEN acc.out ELSE Append(acc.out, m)
  BY DEF Flushed
<1> HIDE DEF blank
<1>4. m.role = role /\ m.text = acc.text /\ m.calls = <<>>
  BY MessageIs
<1> HIDE DEF m
<1>5. /\ CatLaws(Messages, Utterances) /\ CatLaws(Messages, ToolCalls) /\ CatLaws(Messages, Words)
  BY CatRules
<1>6. /\ WordsOf \in [Messages -> Seq(Utterances)] /\ CallsOf \in [Messages -> Seq(ToolCalls)]
      /\ ResultsOf \in [Messages -> Seq(Words)]
  BY ConversationTypes
<1>7. /\ Cat(WordsOf, acc.out) \in Seq(Utterances) /\ Cat(CallsOf, acc.out) \in Seq(ToolCalls)
      /\ Cat(ResultsOf, acc.out) \in Seq(Words)
  BY <1>1, <1>5, <1>6 DEF CatLaws
<1>8. CASE acc.text = <<>>
  <2>1. SaidBy(role, acc.text) = <<>>
    BY <1>1, <1>8, SaidByJoin
  <2>2. QED
    BY <1>3, <1>7, <1>8, <2>1
<1>9. CASE acc.text # <<>>
  <2>1. /\ Cat(WordsOf, Append(acc.out, m)) = Cat(WordsOf, acc.out) \o WordsOf[m]
        /\ Cat(CallsOf, Append(acc.out, m)) = Cat(CallsOf, acc.out) \o CallsOf[m]
        /\ Cat(ResultsOf, Append(acc.out, m)) = Cat(ResultsOf, acc.out) \o ResultsOf[m]
    BY <1>1, <1>2, AppendSays
  <2>2. WordsOf[m] = SaidBy(role, acc.text) /\ CallsOf[m] = <<>> /\ ResultsOf[m] = <<>>
    BY <1>2, <1>4 DEF WordsOf, CallsOf, ResultsOf
  <2>3. QED
    BY <1>3, <1>7, <1>9, <2>1, <2>2
<1>10. QED
  BY <1>8, <1>9

LEMMA ResultSays ==
    ASSUME NEW b \in Blocks, IsResult(b)
    PROVE  /\ WordsOf[ResultMessage(b)] = SaidBy("tool", b.text)
           /\ CallsOf[ResultMessage(b)] = <<>>
           /\ ResultsOf[ResultMessage(b)] = <<b.id>>
           /\ \A role \in Roles \ {"assistant"} : WordsIn(role)[b] = SaidBy("tool", b.text)
           /\ ResultsIn[b] = <<b.id>>
<1>1. ResultMessage(b) \in Messages
  BY ResultMessageType
<1>2. /\ ResultMessage(b).role = "tool" /\ ResultMessage(b).text = b.text
      /\ ResultMessage(b).calls = <<>> /\ ResultMessage(b).id = b.id
  BY MessageIs DEF ResultMessage
<1>3. AssistantText(b) = b.text /\ \A role : role # "assistant" => SpeakerOf(b, role) = "tool"
  BY DEF AssistantText, IsResult, SpeakerOf
<1>4. QED
  BY <1>1, <1>2, <1>3 DEF WordsOf, CallsOf, ResultsOf, WordsIn, ResultsIn

LEMMA InlineSays ==
    ASSUME NEW b \in Blocks, ~IsResult(b), NEW role
    PROVE  /\ WordsIn(role)[b] = SaidBy(role, InlineText(b))
           /\ ResultsIn[b] = <<>>
<1>1. AssistantText(b) = InlineText(b) /\ SpeakerOf(b, role) = role
  BY DEF AssistantText, IsResult, SpeakerOf
<1>2. QED
  BY <1>1 DEF WordsIn, ResultsIn

LEMMA OneMessage ==
    ASSUME NEW m \in Messages
    PROVE  /\ Cat(WordsOf, <<m>>) = WordsOf[m]
           /\ Cat(CallsOf, <<m>>) = CallsOf[m]
           /\ Cat(ResultsOf, <<m>>) = ResultsOf[m]
<1>1. Cat(WordsOf, <<m>>) = WordsOf[m]
  <2>1. WordsOf \in [Messages -> Seq(Utterances)]
    BY ConversationTypes
  <2>2. QED
    BY <2>1, CatOne
<1>2. Cat(CallsOf, <<m>>) = CallsOf[m]
  <2>1. CallsOf \in [Messages -> Seq(ToolCalls)]
    BY ConversationTypes
  <2>2. QED
    BY <2>1, CatOne
<1>3. Cat(ResultsOf, <<m>>) = ResultsOf[m]
  <2>1. ResultsOf \in [Messages -> Seq(Words)]
    BY ConversationTypes
  <2>2. QED
    BY <2>1, CatOne
<1>4. QED
  BY <1>1, <1>2, <1>3

\* acc is where the loop is after it has read the blocks.
Follows(acc, role, blocks) ==
    /\ acc \in Progress
    /\ Cat(WordsOf, acc.out) \o SaidBy(role, acc.text) = Cat(WordsIn(role), blocks)
    /\ Cat(CallsOf, acc.out) = <<>>
    /\ Cat(ResultsOf, acc.out) = Cat(ResultsIn, blocks)

LEMMA ReadSays ==
    ASSUME NEW role \in {"system", "user"}, NEW blocks \in Seq(Blocks), NEW b \in Blocks,
           NEW acc, Follows(acc, role, blocks)
    PROVE  Follows(ReadBlock(acc, b, role), role, Append(blocks, b))
<1> DEFINE next == ReadBlock(acc, b, role)
<1>1. acc \in Progress /\ role \in Roles /\ role \in Words /\ role # "assistant" /\ next \in Progress
  BY WordsInUse, ReadBlockType DEF Follows, Roles
<1>2. /\ acc.out \in Seq(Messages) /\ acc.text \in Texts
  BY <1>1 DEF Progress
<1>3. /\ CatLaws(Messages, Utterances) /\ CatLaws(Messages, ToolCalls) /\ CatLaws(Messages, Words)
      /\ CatLaws(Blocks, Utterances) /\ CatLaws(Blocks, Words)
  BY CatRules
<1>4. /\ WordsOf \in [Messages -> Seq(Utterances)] /\ CallsOf \in [Messages -> Seq(ToolCalls)]
      /\ ResultsOf \in [Messages -> Seq(Words)]
      /\ WordsIn(role) \in [Blocks -> Seq(Utterances)] /\ ResultsIn \in [Blocks -> Seq(Words)]
  BY <1>1, ConversationTypes
<1>5. /\ Cat(WordsIn(role), Append(blocks, b)) = Cat(WordsIn(role), blocks) \o WordsIn(role)[b]
      /\ Cat(ResultsIn, Append(blocks, b)) = Cat(ResultsIn, blocks) \o ResultsIn[b]
      /\ Cat(WordsIn(role), blocks) \in Seq(Utterances)
      /\ Cat(ResultsIn, blocks) \in Seq(Words)
  BY <1>3, <1>4 DEF CatLaws
<1>6. CASE IsResult(b)
  <2> DEFINE flushed == Flushed(acc, role)
  <2>1. next.out = Append(flushed, ResultMessage(b)) /\ next.text = <<>>
    BY <1>6 DEF ReadBlock
  <2>2. flushed \in Seq(Messages) /\ ResultMessage(b) \in Messages
    BY <1>1, <1>6, FlushedType, ResultMessageType
  <2>3. /\ Cat(WordsOf, flushed) = Cat(WordsIn(role), blocks)
        /\ Cat(CallsOf, flushed) = <<>>
        /\ Cat(ResultsOf, flushed) = Cat(ResultsIn, blocks)
    BY <1>1, FlushedSays DEF Follows
  <2> HIDE DEF next, flushed
  <2>4. /\ Cat(WordsOf, next.out) = Cat(WordsOf, flushed) \o WordsOf[ResultMessage(b)]
        /\ Cat(CallsOf, next.out) = Cat(CallsOf, flushed) \o CallsOf[ResultMessage(b)]
        /\ Cat(ResultsOf, next.out) = Cat(ResultsOf, flushed) \o ResultsOf[ResultMessage(b)]
    BY <2>1, <2>2, AppendSays
  <2>5. /\ WordsOf[ResultMessage(b)] = WordsIn(role)[b]
        /\ CallsOf[ResultMessage(b)] = <<>>
        /\ ResultsOf[ResultMessage(b)] = ResultsIn[b]
    BY <1>1, <1>6, ResultSays
  <2>6. WordsIn(role)[b] \in Seq(Utterances) /\ SaidBy(role, next.text) = <<>>
    BY <1>1, <1>2, <1>4, <2>1, SaidByJoin
  <2>7. Cat(WordsOf, next.out) \o SaidBy(role, next.text) = Cat(WordsIn(role), Append(blocks, b))
    BY <1>5, <2>3, <2>4, <2>5, <2>6
  <2>8. Cat(CallsOf, next.out) = <<>> /\ Cat(ResultsOf, next.out) = Cat(ResultsIn, Append(blocks, b))
    BY <1>5, <2>3, <2>4, <2>5
  <2>9. QED
    BY <1>1, <2>7, <2>8 DEF Follows, next
<1>7. CASE ~IsResult(b)
  <2>1. next.out = acc.out /\ next.text = acc.text \o InlineText(b)
    BY <1>7 DEF ReadBlock
  <2>2. /\ WordsIn(role)[b] = SaidBy(role, InlineText(b)) /\ ResultsIn[b] = <<>>
        /\ InlineText(b) \in Texts
    BY <1>7, InlineSays, InlineTextType
  <2> HIDE DEF next
  <2>3. SaidBy(role, next.text) = SaidBy(role, acc.text) \o SaidBy(role, InlineText(b))
    BY <1>1, <1>2, <2>1, <2>2, SaidByJoin
  <2>4. /\ Cat(WordsOf, acc.out) \in Seq(Utterances) /\ SaidBy(role, acc.text) \in Seq(Utterances)
        /\ SaidBy(role, InlineText(b)) \in Seq(Utterances)
    BY <1>1, <1>2, <1>3, <1>4, <2>2, SaidByType DEF CatLaws
  <2>5. Cat(WordsOf, next.out) \o SaidBy(role, next.text)
          = (Cat(WordsOf, acc.out) \o SaidBy(role, acc.text)) \o SaidBy(role, InlineText(b))
    BY <2>1, <2>3, <2>4, ConcatAssociative
  <2>6. Cat(WordsOf, next.out) \o SaidBy(role, next.text) = Cat(WordsIn(role), Append(blocks, b))
    BY <1>5, <2>2, <2>5 DEF Follows
  <2>7. Cat(CallsOf, next.out) = <<>> /\ Cat(ResultsOf, next.out) = Cat(ResultsIn, Append(blocks, b))
    BY <1>5, <2>1, <2>2 DEF Follows
  <2>8. QED
    BY <1>1, <2>6, <2>7 DEF Follows, next
<1>8. QED
  BY <1>6, <1>7

LEMMA UserTurnSays ==
    ASSUME NEW t \in Turns, t.role \in {"system", "user"}
    PROVE  /\ Cat(WordsOf, ProjectTurn(t)) = Cat(WordsIn(t.role), t.blocks)
           /\ Cat(CallsOf, ProjectTurn(t)) = <<>>
           /\ Cat(ResultsOf, ProjectTurn(t)) = Cat(ResultsIn, t.blocks)
<1> DEFINE blocks == t.blocks
           N == Len(blocks)
<1>1. blocks \in Seq(Blocks) /\ N \in Nat
  BY DEF Turns
<1>2. PICK f : /\ f[0] = [out |-> <<>>, text |-> <<>>]
               /\ \A n \in 1..N : f[n] = ReadBlock(f[n - 1], blocks[n], t.role)
               /\ ProjectUserLikeTurn(t) = Flushed(f[N], t.role)
  BY <1>1, UserLoop
<1> DEFINE Good == {n \in Nat : n <= N => Follows(f[n], t.role, SubSeq(blocks, 1, n))}
<1>3. 0 \in Good
  <2>1. <<>> \in Seq(Messages) /\ <<>> \in Texts /\ SubSeq(blocks, 1, 0) = <<>>
    BY <1>1 DEF Texts
  <2>2. f[0] \in Progress /\ f[0].out = <<>> /\ f[0].text = <<>>
    BY <1>2, <2>1 DEF Progress
  <2>3. SaidBy(t.role, <<>>) = <<>> /\ <<>> \o <<>> = <<>>
    BY DEF SaidBy, Each
  <2>4. Follows(f[0], t.role, <<>>)
    BY <2>2, <2>3, CatEmpty DEF Follows
  <2>5. QED
    BY <2>1, <2>4
<1>4. ASSUME NEW n \in Nat, n \in Good
      PROVE  n + 1 \in Good
  <2> SUFFICES ASSUME n + 1 <= N
               PROVE  Follows(f[n + 1], t.role, SubSeq(blocks, 1, n + 1))
    OBVIOUS
  <2>1. f[n + 1] = ReadBlock(f[n], blocks[n + 1], t.role) /\ blocks[n + 1] \in Blocks
    BY <1>1, <1>2
  <2>2. Follows(f[n], t.role, SubSeq(blocks, 1, n))
    BY <1>1, <1>4
  <2>3. SubSeq(blocks, 1, n + 1) = Append(SubSeq(blocks, 1, n), blocks[n + 1])
        /\ SubSeq(blocks, 1, n) \in Seq(Blocks)
    BY <1>1
  <2>4. QED
    BY <2>1, <2>2, <2>3, ReadSays
<1> HIDE DEF Good
<1>5. N \in Good
  BY <1>1, <1>3, <1>4, InductionOnSets
<1>6. Follows(f[N], t.role, blocks)
  <2>1. SubSeq(blocks, 1, N) = blocks
    BY <1>1
  <2>2. Follows(f[N], t.role, SubSeq(blocks, 1, N))
    BY <1>1, <1>5 DEF Good
  <2> HIDE DEF N
  <2>3. QED
    BY <2>1, <2>2
<1>7. ProjectTurn(t) = Flushed(f[N], t.role)
  BY <1>2 DEF ProjectTurn
<1>8. f[N] \in Progress
  BY <1>6 DEF Follows
<1>9. QED
  BY <1>6, <1>7, <1>8, FlushedSays DEF Follows

-----------------------------------------------------------------------------
(***************************************************************************)
(* The other turns, and what a turn says block by block.                   *)
(***************************************************************************)
LEMMA ChosenAll ==
    ASSUME NEW T, NEW s \in Seq(T)
    PROVE  Chosen(s, T) = s
<1> DEFINE h == [x \in T |-> x]
           f == [x \in T |-> <<h[x]>>]
<1>1. Chosen(s, T) = Cat(f, s)
  <2>1. \A i \in 1..Len(s) : s[i] \in T /\ f[s[i]] = <<s[i]>>
    OBVIOUS
  <2> HIDE DEF f
  <2>2. QED
    BY <2>1 DEF Chosen, Cat
<1>2. h \in [T -> T] /\ \A x \in T : h[x] = x
  OBVIOUS
<1> HIDE DEF h
<1>3. Cat(f, s) = [i \in 1..Len(s) |-> h[s[i]]]
  <2>1. SinglesLaw(T, T)
    BY CatSingles
  <2>2. QED
    BY <1>2, <2>1 DEF SinglesLaw
<1>4. QED
  BY <1>1, <1>2, <1>3

ResultBlocks == {b \in Blocks : IsResult(b)}

\* The results of a turn, one after the other.
LEMMA IdsOfResults ==
    ASSUME NEW blocks \in Seq(Blocks)
    PROVE  Each(LAMBDA b : b.id, Those(IsResult, blocks)) = Cat(ResultsIn, blocks)
<1> DEFINE select == [b \in Blocks |-> IF b \in ResultBlocks THEN <<b>> ELSE <<>>]
           ident == [b \in ResultBlocks |-> b.id]
           idents == [b \in ResultBlocks |-> <<ident[b]>>]
           chosen == Those(IsResult, blocks)
<1>1. \A b \in ResultBlocks : b \in Blocks /\ IsResult(b) /\ b.id \in Words
  BY DEF ResultBlocks, Blocks, IsResult
<1>2. /\ select \in [Blocks -> Seq(ResultBlocks)]
      /\ \A b \in Blocks : select[b] = IF b \in ResultBlocks THEN <<b>> ELSE <<>>
  <2>1. \A b \in ResultBlocks : <<b>> \in Seq(ResultBlocks)
    OBVIOUS
  <2>2. QED
    BY <2>1, NoElements
<1>3. ident \in [ResultBlocks -> Words] /\ \A b \in ResultBlocks : ident[b] = b.id
  BY <1>1
<1>4. chosen = Chosen(blocks, ResultBlocks)
  BY ResultsChosen DEF ResultBlocks
<1>5. Chosen(blocks, ResultBlocks) = Cat(select, blocks) /\ Cat(select, blocks) \in Seq(ResultBlocks)
  <2>1. \A i \in 1..Len(blocks) : blocks[i] \in Blocks
    OBVIOUS
  <2> HIDE DEF select
  <2>2. Chosen(blocks, ResultBlocks) = Cat(select, blocks)
    BY <1>2, <2>1 DEF Chosen, Cat
  <2>3. Cat(select, blocks) \in Seq(ResultBlocks)
    BY <1>2, CatRules DEF CatLaws
  <2>4. QED
    BY <2>2, <2>3
<1>6. Each(LAMBDA b : b.id, chosen) = [i \in 1..Len(chosen) |-> chosen[i].id]
  BY DEF Each
<1> HIDE DEF chosen, select, ident
<1>7. \A i \in 1..Len(chosen) : chosen[i].id = ident[chosen[i]]
  BY <1>3, <1>4, <1>5
<1>8. Each(LAMBDA b : b.id, chosen) = Cat(idents, chosen)
  <2>1. SinglesLaw(ResultBlocks, Words)
    BY CatSingles
  <2>2. chosen \in Seq(ResultBlocks)
    BY <1>4, <1>5
  <2>3. Cat(idents, chosen) = [i \in 1..Len(chosen) |-> ident[chosen[i]]]
    BY <1>3, <2>1, <2>2 DEF SinglesLaw
  <2>4. QED
    BY <1>6, <1>7, <2>3
<1>9. idents \in [ResultBlocks -> Seq(Words)] /\ \A b \in ResultBlocks : idents[b] = <<b.id>>
  BY <1>3
<1> HIDE DEF idents
<1>10. \A b \in Blocks : Cat(idents, select[b]) = ResultsIn[b]
  <2> SUFFICES ASSUME NEW b \in Blocks
               PROVE  Cat(idents, select[b]) = ResultsIn[b]
    OBVIOUS
  <2>1. CASE IsResult(b)
    <3>1. b \in ResultBlocks /\ select[b] = <<b>> /\ ResultsIn[b] = <<b.id>>
      BY <1>2, <2>1 DEF ResultBlocks, ResultsIn
    <3>2. Cat(idents, <<b>>) = idents[b]
      BY <1>9, <3>1, CatOne
    <3>3. QED
      BY <1>9, <3>1, <3>2
  <2>2. CASE ~IsResult(b)
    BY <1>2, <2>2, CatEmpty DEF ResultBlocks, ResultsIn
  <2>3. QED
    BY <2>1, <2>2
<1>11. Composed(idents, select, ResultsIn, Blocks, ResultBlocks, Words)
  <2>1. ResultsIn \in [Blocks -> Seq(Words)]
    BY ConversationTypes
  <2>2. QED
    BY <1>2, <1>9, <1>10, <2>1 DEF Composed
<1>12. Cat(idents, Cat(select, blocks)) = Cat(ResultsIn, blocks)
  BY <1>11, CatOfCat
<1>13. QED
  BY <1>4, <1>5, <1>8, <1>12 DEF chosen

LEMMA TurnIs ==
    ASSUME NEW t \in Turns
    PROVE  /\ WordsOfTurn(t) = Cat(WordsIn(t.role), t.blocks)
           /\ t.role # "assistant" => CallsOfTurn(t) = <<>> /\ ResultsOfTurn(t) = Cat(ResultsIn, t.blocks)
<1>1. t.blocks \in Seq(Blocks)
  BY DEF Turns
<1>2. WordsOfTurn(t) = Cat(WordsIn(t.role), t.blocks)
  <2> DEFINE f == WordsIn(t.role)
             F(b) == SaidBy(SpeakerOf(b, t.role), AssistantText(b))
  <2>1. \A b \in Blocks : f[b] = F(b)
    BY DEF WordsIn
  <2>2. \A i \in 1..Len(t.blocks) : t.blocks[i] \in Blocks
    BY <1>1
  <2> HIDE DEF f
  <2>3. [i \in 1..Len(t.blocks) |-> F(t.blocks[i])] = [i \in 1..Len(t.blocks) |-> f[t.blocks[i]]]
    BY <2>1, <2>2
  <2>4. WordsOfTurn(t) = FlattenSeq([i \in 1..Len(t.blocks) |-> F(t.blocks[i])])
    BY DEF WordsOfTurn, Gather, Each
  <2>5. QED
    BY <2>3, <2>4 DEF Cat, f
<1>3. t.role # "assistant" => CallsOfTurn(t) = <<>>
  BY DEF CallsOfTurn
<1>4. t.role # "assistant" => ResultsOfTurn(t) = Cat(ResultsIn, t.blocks)
  BY <1>1, IdsOfResults DEF ResultsOfTurn
<1>5. QED
  BY <1>2, <1>3, <1>4

LEMMA AssistantTurnSays ==
    ASSUME NEW t \in Turns, t.role = "assistant"
    PROVE  /\ Cat(WordsOf, ProjectTurn(t)) = WordsOfTurn(t)
           /\ Cat(CallsOf, ProjectTurn(t)) = CallsOfTurn(t)
           /\ Cat(ResultsOf, ProjectTurn(t)) = ResultsOfTurn(t)
<1> DEFINE text == Gather(AssistantText, t.blocks)
           calls == Each(LAMBDA b : b.call, Those(IsCall, t.blocks))
           blank == ""
           m == Message("assistant", text, calls, blank)
<1>1. text \in Texts /\ calls \in Seq(ToolCalls) /\ t.blocks \in Seq(Blocks)
  BY AssistantType DEF Turns
<1>2. ProjectTurn(t) = IF text = <<>> /\ calls = <<>> THEN <<>> ELSE <<m>>
  BY DEF ProjectTurn, ProjectAssistantTurn
<1>3. CallsOfTurn(t) = calls /\ ResultsOfTurn(t) = <<>>
  BY DEF CallsOfTurn, ResultsOfTurn
<1>4. blank \in Words /\ "assistant" \in Roles /\ "assistant" \in Words
  BY WordsInUse DEF Roles
<1> HIDE DEF blank, calls
<1>5. text = Cat([b \in Blocks |-> AssistantText(b)], t.blocks)
  <2> DEFINE f == [b \in Blocks |-> AssistantText(b)]
  <2>1. [i \in 1..Len(t.blocks) |-> AssistantText(t.blocks[i])] = [i \in 1..Len(t.blocks) |-> f[t.blocks[i]]]
    BY <1>1
  <2> HIDE DEF f
  <2>2. text = Cat(f, t.blocks)
    BY <2>1 DEF Gather, Each, Cat
  <2>3. QED
    BY <2>2 DEF f
<1> HIDE DEF text
<1>6. SaidBy("assistant", text) = WordsOfTurn(t)
  <2> DEFINE f == [w \in Words |-> <<<<"assistant", w>>>>]
             g == [b \in Blocks |-> AssistantText(b)]
  <2>1. f \in [Words -> Seq(Utterances)]
    BY <1>4 DEF Utterances
  <2>2. g \in [Blocks -> Seq(Words)] /\ \A b \in Blocks : g[b] = AssistantText(b)
    BY InlineTextType DEF Texts
  <2> HIDE DEF f, g
  <2>3. \A b \in Blocks : Cat(f, g[b]) = WordsIn("assistant")[b]
    <3> SUFFICES ASSUME NEW b \in Blocks
                 PROVE  Cat(f, g[b]) = WordsIn("assistant")[b]
      OBVIOUS
    <3>1. SpeakerOf(b, "assistant") = "assistant"
      BY DEF SpeakerOf
    <3>2. AssistantText(b) \in Texts
      BY InlineTextType
    <3>3. SaidBy("assistant", AssistantText(b)) = Cat(f, AssistantText(b))
      BY <1>4, <3>2, SaidByType DEF f
    <3>4. QED
      BY <2>2, <3>1, <3>3 DEF WordsIn
  <2>4. Composed(f, g, WordsIn("assistant"), Blocks, Words, Utterances)
    <3>1. WordsIn("assistant") \in [Blocks -> Seq(Utterances)]
      BY <1>4, ConversationTypes
    <3>2. QED
      BY <2>1, <2>2, <2>3, <3>1 DEF Composed
  <2>5. Cat(f, Cat(g, t.blocks)) = Cat(WordsIn("assistant"), t.blocks)
    BY <1>1, <2>4, CatOfCat
  <2>6. SaidBy("assistant", text) = Cat(f, text)
    BY <1>1, <1>4, SaidByType DEF f
  <2>7. WordsOfTurn(t) = Cat(WordsIn("assistant"), t.blocks)
    BY TurnIs
  <2>8. QED
    BY <1>5, <2>5, <2>6, <2>7 DEF g
<1>7. m \in Messages /\ m.role = "assistant" /\ m.text = text /\ m.calls = calls
  BY <1>1, <1>4, MessageType, MessageIs
<1> HIDE DEF m
<1>8. CASE text = <<>> /\ calls = <<>>
  <2>1. SaidBy("assistant", text) = <<>>
    BY <1>8 DEF SaidBy, Each
  <2>2. QED
    BY <1>2, <1>3, <1>6, <1>8, <2>1, CatEmpty
<1>9. CASE ~(text = <<>> /\ calls = <<>>)
  <2>1. ProjectTurn(t) = <<m>>
    BY <1>2, <1>9
  <2>2. Cat(WordsOf, <<m>>) = WordsOf[m]
    BY <1>7, OneMessage
  <2>3. Cat(CallsOf, <<m>>) = CallsOf[m]
    BY <1>7, OneMessage
  <2>4. Cat(ResultsOf, <<m>>) = ResultsOf[m]
    BY <1>7, OneMessage
  <2>5. WordsOf[m] = SaidBy("assistant", text) /\ CallsOf[m] = calls /\ ResultsOf[m] = <<>>
    BY <1>7 DEF WordsOf, CallsOf, ResultsOf
  <2>6. QED
    BY <1>3, <1>6, <2>1, <2>2, <2>3, <2>4, <2>5
<1>10. QED
  BY <1>8, <1>9

LEMMA ToolTurnSays ==
    ASSUME NEW t \in ProperTurns, t.role = "tool"
    PROVE  /\ Cat(WordsOf, ProjectTurn(t)) = WordsOfTurn(t)
           /\ Cat(CallsOf, ProjectTurn(t)) = CallsOfTurn(t)
           /\ Cat(ResultsOf, ProjectTurn(t)) = ResultsOfTurn(t)
<1> DEFINE blocks == t.blocks
           message == [b \in ResultBlocks |-> ResultMessage(b)]
           messages == [b \in ResultBlocks |-> <<message[b]>>]
           said == [b \in ResultBlocks |-> WordsIn("tool")[b]]
           none == [b \in ResultBlocks |-> <<>>]
           answered == [b \in ResultBlocks |-> ResultsIn[b]]
<1>1. t \in Turns /\ blocks \in Seq(Blocks) /\ "tool" \in Roles
  BY DEF ProperTurns, Turns, Roles
<1>2. blocks \in Seq(ResultBlocks)
  <2>1. \A i \in 1..Len(blocks) : blocks[i] \in ResultBlocks
    BY <1>1 DEF ProperTurns, ProperTurn, ElementsIn, ResultBlocks
  <2>2. QED
    BY <1>1, <2>1
<1> HIDE DEF blocks
<1>3. Those(IsResult, blocks) = blocks
  <2>1. Those(IsResult, blocks) = Chosen(blocks, ResultBlocks)
    BY <1>1, ResultsChosen DEF ResultBlocks
  <2>2. QED
    BY <1>2, <2>1, ChosenAll
<1>4. \A b \in ResultBlocks : b \in Blocks /\ IsResult(b) /\ ResultMessage(b) \in Messages
  BY ResultMessageType DEF ResultBlocks
<1>5. message \in [ResultBlocks -> Messages] /\ \A b \in ResultBlocks : message[b] = ResultMessage(b)
  BY <1>4
<1> HIDE DEF message
<1>6. messages \in [ResultBlocks -> Seq(Messages)] /\ \A b \in ResultBlocks : messages[b] = <<message[b]>>
  BY <1>5
<1>7. ProjectTurn(t) = Cat(messages, blocks)
  <2>1. ProjectTurn(t) = [i \in 1..Len(blocks) |-> ResultMessage(blocks[i])]
    BY <1>3 DEF ProjectTurn, Each, blocks
  <2>2. \A i \in 1..Len(blocks) : ResultMessage(blocks[i]) = message[blocks[i]]
    BY <1>2, <1>5
  <2>3. SinglesLaw(ResultBlocks, Messages)
    BY CatSingles
  <2>4. Cat(messages, blocks) = [i \in 1..Len(blocks) |-> message[blocks[i]]]
    BY <1>2, <1>5, <2>3 DEF SinglesLaw
  <2>5. QED
    BY <2>1, <2>2, <2>4
<1> HIDE DEF messages
<1>8. /\ WordsOf \in [Messages -> Seq(Utterances)] /\ CallsOf \in [Messages -> Seq(ToolCalls)]
      /\ ResultsOf \in [Messages -> Seq(Words)]
      /\ WordsIn("tool") \in [Blocks -> Seq(Utterances)] /\ ResultsIn \in [Blocks -> Seq(Words)]
  BY <1>1, ConversationTypes
<1>9. \A b \in ResultBlocks :
        /\ Cat(WordsOf, messages[b]) = WordsIn("tool")[b]
        /\ Cat(CallsOf, messages[b]) = <<>>
        /\ Cat(ResultsOf, messages[b]) = ResultsIn[b]
  <2> SUFFICES ASSUME NEW b \in ResultBlocks
               PROVE  /\ Cat(WordsOf, messages[b]) = WordsIn("tool")[b]
                      /\ Cat(CallsOf, messages[b]) = <<>>
                      /\ Cat(ResultsOf, messages[b]) = ResultsIn[b]
    OBVIOUS
  <2> DEFINE m == ResultMessage(b)
  <2>1. m \in Messages /\ messages[b] = <<m>>
    BY <1>4, <1>5, <1>6
  <2>2. /\ WordsOf[m] = WordsIn("tool")[b] /\ CallsOf[m] = <<>> /\ ResultsOf[m] = ResultsIn[b]
    BY <1>1, <1>4, ResultSays
  <2> HIDE DEF m
  <2>3. Cat(WordsOf, <<m>>) = WordsOf[m]
    BY <2>1, OneMessage
  <2>4. Cat(CallsOf, <<m>>) = CallsOf[m]
    BY <2>1, OneMessage
  <2>5. Cat(ResultsOf, <<m>>) = ResultsOf[m]
    BY <2>1, OneMessage
  <2>6. QED
    BY <2>1, <2>2, <2>3, <2>4, <2>5
<1>10. Cat(WordsOf, Cat(messages, blocks)) = WordsOfTurn(t)
  <2>1. said \in [ResultBlocks -> Seq(Utterances)] /\ \A b \in ResultBlocks : said[b] = WordsIn("tool")[b]
    BY <1>4, <1>8
  <2> HIDE DEF said
  <2>2. Composed(WordsOf, messages, said, ResultBlocks, Messages, Utterances)
    BY <1>6, <1>8, <1>9, <2>1 DEF Composed
  <2>3. Cat(WordsOf, Cat(messages, blocks)) = Cat(said, blocks)
    BY <1>2, <2>2, CatOfCat
  <2>4. \A i \in 1..Len(blocks) : said[blocks[i]] = WordsIn("tool")[blocks[i]]
    BY <1>2, <2>1
  <2>5. Cat(said, blocks) = Cat(WordsIn("tool"), blocks)
    BY <2>4 DEF Cat
  <2>6. QED
    BY <1>1, <2>3, <2>5, TurnIs DEF blocks
<1>11. Cat(CallsOf, Cat(messages, blocks)) = CallsOfTurn(t)
  <2>1. none \in [ResultBlocks -> Seq(ToolCalls)] /\ \A b \in ResultBlocks : none[b] = <<>>
    BY NoElements
  <2>2. Cat(none, blocks) = <<>>
    BY <1>2, CatNone
  <2> HIDE DEF none
  <2>3. Composed(CallsOf, messages, none, ResultBlocks, Messages, ToolCalls)
    BY <1>6, <1>8, <1>9, <2>1 DEF Composed
  <2>4. Cat(CallsOf, Cat(messages, blocks)) = Cat(none, blocks)
    BY <1>2, <2>3, CatOfCat
  <2>5. QED
    BY <1>1, <2>2, <2>4, TurnIs
<1>12. Cat(ResultsOf, Cat(messages, blocks)) = ResultsOfTurn(t)
  <2>1. answered \in [ResultBlocks -> Seq(Words)] /\ \A b \in ResultBlocks : answered[b] = ResultsIn[b]
    BY <1>4, <1>8
  <2> HIDE DEF answered
  <2>2. Composed(ResultsOf, messages, answered, ResultBlocks, Messages, Words)
    BY <1>6, <1>8, <1>9, <2>1 DEF Composed
  <2>3. Cat(ResultsOf, Cat(messages, blocks)) = Cat(answered, blocks)
    BY <1>2, <2>2, CatOfCat
  <2>4. \A i \in 1..Len(blocks) : answered[blocks[i]] = ResultsIn[blocks[i]]
    BY <1>2, <2>1
  <2>5. Cat(answered, blocks) = Cat(ResultsIn, blocks)
    BY <2>4 DEF Cat
  <2>6. QED
    BY <1>1, <2>3, <2>5, TurnIs DEF blocks
<1>13. QED
  BY <1>7, <1>10, <1>11, <1>12

LEMMA TurnSays ==
    ASSUME NEW t \in ProperTurns
    PROVE  /\ Cat(WordsOf, ProjectTurn(t)) = WordsOfTurn(t)
           /\ Cat(CallsOf, ProjectTurn(t)) = CallsOfTurn(t)
           /\ Cat(ResultsOf, ProjectTurn(t)) = ResultsOfTurn(t)
<1>1. t \in Turns /\ t.role \in Roles
  BY DEF ProperTurns, Turns
<1>2. CASE t.role \in {"system", "user"}
  BY <1>1, <1>2, UserTurnSays, TurnIs
<1>3. QED
  BY <1>1, <1>2, AssistantTurnSays, ToolTurnSays DEF Roles

-----------------------------------------------------------------------------
(***************************************************************************)
(* Nothing of a conversation is lost, doubled or moved on its way to the   *)
(* body.                                                                   *)
(***************************************************************************)
LEMMA ConversationSays ==
    ASSUME NEW ts \in Seq(ProperTurns)
    PROVE  /\ Gather(WordsOfMessage, ProjectTurns(ts)) = Gather(WordsOfTurn, ts)
           /\ Gather(CallsOfMessage, ProjectTurns(ts)) = Gather(CallsOfTurn, ts)
           /\ Gather(ResultsOfMessage, ProjectTurns(ts)) = Gather(ResultsOfTurn, ts)
<1> DEFINE project == [t \in ProperTurns |-> ProjectTurn(t)]
           words == [t \in ProperTurns |-> WordsOfTurn(t)]
           calls == [t \in ProperTurns |-> CallsOfTurn(t)]
           results == [t \in ProperTurns |-> ResultsOfTurn(t)]
           body == ProjectTurns(ts)
<1>1. \A t \in ProperTurns : t \in Turns /\ ProjectTurn(t) \in Seq(Messages)
  BY ProjectTurnType DEF ProperTurns
<1>2. project \in [ProperTurns -> Seq(Messages)] /\ \A t \in ProperTurns : project[t] = ProjectTurn(t)
  BY <1>1
<1>3. \A i \in 1..Len(ts) : ts[i] \in ProperTurns
  OBVIOUS
<1>4. body = Cat(project, ts) /\ body \in Seq(Messages)
  <2>1. CatLaws(ProperTurns, Messages)
    BY CatRules
  <2>2. \A i \in 1..Len(ts) : project[ts[i]] = ProjectTurn(ts[i])
    BY <1>3
  <2> HIDE DEF project
  <2>3. body = Cat(project, ts)
    BY <2>2 DEF ProjectTurns, Gather, Each, Cat
  <2>4. QED
    BY <1>2, <2>1, <2>3 DEF CatLaws
<1>5. /\ WordsOf \in [Messages -> Seq(Utterances)] /\ CallsOf \in [Messages -> Seq(ToolCalls)]
      /\ ResultsOf \in [Messages -> Seq(Words)]
  BY ConversationTypes
<1> HIDE DEF project, body
<1>6. \A i \in 1..Len(body) : body[i] \in Messages
  BY <1>4
<1>7. Gather(WordsOfMessage, body) = Gather(WordsOfTurn, ts)
  <2>1. \A m \in Messages : WordsOf[m] = WordsOfMessage(m)
    BY DEF WordsOf, WordsOfMessage
  <2>2. Gather(WordsOfMessage, body) = Cat(WordsOf, body)
    BY <1>6, <2>1 DEF Gather, Each, Cat
  <2>3. \A t \in ProperTurns : words[t] = WordsOfTurn(t)
    OBVIOUS
  <2>4. words \in [ProperTurns -> Seq(Utterances)]
    <3>1. \A t \in ProperTurns : Cat(WordsOf, ProjectTurn(t)) \in Seq(Utterances)
      BY <1>1, <1>5, CatType
    <3>2. QED
      BY <3>1, TurnSays
  <2> HIDE DEF words
  <2>5. Gather(WordsOfTurn, ts) = Cat(words, ts)
    BY <1>3, <2>3 DEF Gather, Each, Cat
  <2>6. Composed(WordsOf, project, words, ProperTurns, Messages, Utterances)
    <3>1. \A t \in ProperTurns : Cat(WordsOf, project[t]) = words[t]
      BY <1>2, <2>3, TurnSays
    <3>2. QED
      BY <1>2, <1>5, <2>4, <3>1 DEF Composed
  <2>7. Cat(WordsOf, Cat(project, ts)) = Cat(words, ts)
    BY <2>6, CatOfCat
  <2>8. QED
    BY <1>4, <2>2, <2>5, <2>7
<1>8. Gather(CallsOfMessage, body) = Gather(CallsOfTurn, ts)
  <2>1. \A m \in Messages : CallsOf[m] = CallsOfMessage(m)
    BY DEF CallsOf, CallsOfMessage
  <2>2. Gather(CallsOfMessage, body) = Cat(CallsOf, body)
    BY <1>6, <2>1 DEF Gather, Each, Cat
  <2>3. \A t \in ProperTurns : calls[t] = CallsOfTurn(t)
    OBVIOUS
  <2>4. calls \in [ProperTurns -> Seq(ToolCalls)]
    <3>1. \A t \in ProperTurns : Cat(CallsOf, ProjectTurn(t)) \in Seq(ToolCalls)
      BY <1>1, <1>5, CatType
    <3>2. QED
      BY <3>1, TurnSays
  <2> HIDE DEF calls
  <2>5. Gather(CallsOfTurn, ts) = Cat(calls, ts)
    BY <1>3, <2>3 DEF Gather, Each, Cat
  <2>6. Composed(CallsOf, project, calls, ProperTurns, Messages, ToolCalls)
    <3>1. \A t \in ProperTurns : Cat(CallsOf, project[t]) = calls[t]
      BY <1>2, <2>3, TurnSays
    <3>2. QED
      BY <1>2, <1>5, <2>4, <3>1 DEF Composed
  <2>7. Cat(CallsOf, Cat(project, ts)) = Cat(calls, ts)
    BY <2>6, CatOfCat
  <2>8. QED
    BY <1>4, <2>2, <2>5, <2>7
<1>9. Gather(ResultsOfMessage, body) = Gather(ResultsOfTurn, ts)
  <2>1. \A m \in Messages : ResultsOf[m] = ResultsOfMessage(m)
    BY DEF ResultsOf, ResultsOfMessage
  <2>2. Gather(ResultsOfMessage, body) = Cat(ResultsOf, body)
    BY <1>6, <2>1 DEF Gather, Each, Cat
  <2>3. \A t \in ProperTurns : results[t] = ResultsOfTurn(t)
    OBVIOUS
  <2>4. results \in [ProperTurns -> Seq(Words)]
    <3>1. \A t \in ProperTurns : Cat(ResultsOf, ProjectTurn(t)) \in Seq(Words)
      BY <1>1, <1>5, CatType
    <3>2. QED
      BY <3>1, TurnSays
  <2> HIDE DEF results
  <2>5. Gather(ResultsOfTurn, ts) = Cat(results, ts)
    BY <1>3, <2>3 DEF Gather, Each, Cat
  <2>6. Composed(ResultsOf, project, results, ProperTurns, Messages, Words)
    <3>1. \A t \in ProperTurns : Cat(ResultsOf, project[t]) = results[t]
      BY <1>2, <2>3, TurnSays
    <3>2. QED
      BY <1>2, <1>5, <2>4, <3>1 DEF Composed
  <2>7. Cat(ResultsOf, Cat(project, ts)) = Cat(results, ts)
    BY <2>6, CatOfCat
  <2>8. QED
    BY <1>4, <2>2, <2>5, <2>7
<1>10. QED
  BY <1>7, <1>8, <1>9 DEF body

LEMMA SuffixOfJoin ==
    ASSUME NEW A, NEW s \in Seq(A), NEW t \in Seq(A)
    PROVE  IsSuffix(t, s \o t)
<1> DEFINE u == s \o t
<1>1. /\ Len(s) \in Nat /\ Len(t) \in Nat /\ u \in Seq(A) /\ Len(u) = Len(s) + Len(t)
      /\ \A i \in 1..Len(t) : u[Len(s) + i] = t[i]
  OBVIOUS
<1> HIDE DEF u
<1>2. Reverse(t) = [i \in 1..Len(t) |-> t[(Len(t) - i) + 1]]
  BY DEF Reverse
<1>3. Reverse(u) = [i \in 1..Len(u) |-> u[(Len(u) - i) + 1]]
  BY DEF Reverse
<1>4. Reverse(t) \in Seq(A) /\ Len(Reverse(t)) = Len(t)
  BY <1>1, <1>2
<1>5. Reverse(u) \in Seq(A) /\ Len(Reverse(u)) = Len(u)
  BY <1>1, <1>3
<1>6. \A i \in 1..Len(t) : Reverse(u)[i] = Reverse(t)[i]
  <2> SUFFICES ASSUME NEW i \in 1..Len(t)
               PROVE  Reverse(u)[i] = Reverse(t)[i]
    OBVIOUS
  <2>1. (Len(t) - i) + 1 \in 1..Len(t) /\ i \in 1..Len(u)
    BY <1>1
  <2>2. (Len(u) - i) + 1 = Len(s) + ((Len(t) - i) + 1)
    BY <1>1
  <2>3. QED
    BY <1>1, <1>2, <1>3, <2>1, <2>2
<1> DEFINE ru == Reverse(u)
           rt == Reverse(t)
<1>7. /\ rt \in Seq(A) /\ Len(rt) = Len(t) /\ ru \in Seq(A) /\ Len(ru) = Len(u)
      /\ \A i \in 1..Len(t) : ru[i] = rt[i]
  BY <1>4, <1>5, <1>6
<1> HIDE DEF ru, rt
<1>8. SubSeq(rt, 1, Len(rt)) = SubSeq(ru, 1, Len(rt)) /\ Len(rt) <= Len(ru)
  BY <1>1, <1>7
<1>9. QED
  BY <1>8 DEF IsSuffix, IsPrefix, ru, rt, u

LEMMA GreatestExists ==
    ASSUME NEW n \in Nat, NEW I \in SUBSET (1..n), I # {}
    PROVE  \E x \in I : \A y \in I : x >= y
<1> DEFINE Good == {k \in Nat : \A J \in SUBSET (1..k) : J # {} => \E x \in J : \A y \in J : x >= y}
<1>1. 0 \in Good
  <2>1. 1..0 = {}
    OBVIOUS
  <2>2. QED
    BY <2>1
<1>2. ASSUME NEW k \in Nat, k \in Good
      PROVE  k + 1 \in Good
  <2> SUFFICES ASSUME NEW J \in SUBSET (1..(k + 1)), J # {}
               PROVE  \E x \in J : \A y \in J : x >= y
    OBVIOUS
  <2>1. CASE k + 1 \in J
    BY <2>1
  <2>2. CASE k + 1 \notin J
    <3>1. J \in SUBSET (1..k)
      BY <2>2
    <3>2. QED
      BY <1>2, <3>1
  <2>3. QED
    BY <2>1, <2>2
<1> HIDE DEF Good
<1>3. n \in Good
  BY <1>1, <1>2, InductionOnSets
<1>4. QED
  BY <1>3 DEF Good

\* The images are given to the last message of the user.
LEMMA ImagesGoToLastOfUser ==
    ASSUME NEW body, Len(body) \in Nat, DOMAIN body = 1..Len(body)
    PROVE  IsLastOfUser(SelectLastInSeq(body, LAMBDA m : m.role = "user"), body)
<1> DEFINE I == {i \in 1..Len(body) : body[i].role = "user"}
           at == SelectLastInSeq(body, LAMBDA m : m.role = "user")
<1>1. at = IF I # {} THEN Max(I) ELSE 0
  BY DEF SelectLastInSeq
<1>2. I \in SUBSET (1..Len(body))
  OBVIOUS
<1>3. I = {i \in DOMAIN body : body[i].role = "user"}
  OBVIOUS
<1> HIDE DEF I, at
<1>4. CASE I = {}
  BY <1>1, <1>3, <1>4 DEF IsLastOfUser, at
<1>5. CASE I # {}
  <2>1. Max(I) \in I /\ \A y \in I : Max(I) >= y
    BY <1>2, <1>5, GreatestExists DEF Max
  <2>2. \A y \in I : y <= Max(I)
    BY <2>1, <1>2
  <2>3. QED
    BY <1>1, <1>3, <1>5, <2>1, <2>2 DEF IsLastOfUser, at
<1>6. QED
  BY <1>4, <1>5

LEMMA EverythingWhenSent == PathTypes /\ FlowInv /\ TurnsInv => EverythingIsSent
<1> SUFFICES ASSUME PathTypes, FlowInv, TurnsInv, NEW q \in Reqs, sent[q] # Nothing
             PROVE  LET conversation == merged[q].turns
                        body == sent[q].messages
                    IN  /\ IsSuffix(pre[q].turns, conversation)
                        /\ Gather(WordsOfMessage, body) = Gather(WordsOfTurn, conversation)
                        /\ Gather(CallsOfMessage, body) = Gather(CallsOfTurn, conversation)
                        /\ Gather(ResultsOfMessage, body) = Gather(ResultsOfTurn, conversation)
                        /\ sent[q].images = MediaOf(conversation)
                        /\ sent[q].images # <<>> => IsLastOfUser(sent[q].imagesAt, body)
  BY DEF EverythingIsSent
<1>1. /\ pc[q] \in {"sent", "done"}
      /\ pre[q] \in CanonicalRequests /\ post[q] \in CanonicalRequests
      /\ merged[q] # Nothing /\ merged[q] \in CanonicalRequests
  BY DEF PathTypes, RequestTypes, StageTypes, MaybeRequests
<1>2. sent[q] = AsBuilt(merged[q])
  BY <1>1 DEF FlowInv, Flow
<1>3. /\ sent[q].messages = ProjectTurns(merged[q].turns)
      /\ sent[q].images = MediaOf(merged[q].turns)
  <2>1. /\ AsBuilt(merged[q]).messages = ProjectTurns(merged[q].turns)
        /\ AsBuilt(merged[q]).images = MediaOf(merged[q].turns)
    BY DEF AsBuilt, BuildCanonical
  <2>2. QED
    BY <1>2, <2>1
<1>4. post[q].turns = pre[q].turns
  <2>1. Judged(q)
    BY <1>1 DEF FlowInv, Flow
  <2>2. CASE q \in historical
    BY <2>1, <2>2 DEF Judged
  <2>3. CASE q \notin historical
    <3>1. /\ Rows(used[q]) /\ \A r \in used[q] : Actions(r.actions)
          /\ post[q] = ApplyActions(pre[q], Effective(used[q], pre[q]))
      BY <2>1, <2>3 DEF Judged
    <3>2. ApplyActions(pre[q], Effective(used[q], pre[q])).turns = pre[q].turns
      BY <1>1, <3>1, EffectiveType, ApplyActionsIs
    <3>3. QED
      BY <3>1, <3>2
  <2>4. QED
    BY <2>2, <2>3
<1>5. IsSuffix(pre[q].turns, merged[q].turns)
  <2>1. PICK before \in Seq(Turns) : merged[q].turns = before \o post[q].turns
    BY <1>1 DEF FlowInv, Flow, Extended
  <2>2. pre[q].turns \in Seq(Turns)
    BY <1>1 DEF CanonicalRequests
  <2>3. QED
    BY <1>4, <2>1, <2>2, SuffixOfJoin
<1>6. merged[q].turns \in Seq(ProperTurns)
  <2>1. ElementsIn(merged[q].turns) \subseteq ProperTurns
    BY <1>1 DEF TurnsInv, TurnsWithin
  <2>2. merged[q].turns \in Seq(Turns)
    BY <1>1 DEF CanonicalRequests
  <2>3. QED
    BY <2>1, <2>2 DEF ElementsIn
<1>7. ASSUME sent[q].images # <<>>
      PROVE  IsLastOfUser(sent[q].imagesAt, sent[q].messages)
  <2> DEFINE body == ProjectTurns(merged[q].turns)
             media == MediaOf(merged[q].turns)
             at == SelectLastInSeq(body, LAMBDA m : m.role = "user")
  <2>1. body \in Seq(Messages)
    BY <1>1, ProjectTurnsType DEF CanonicalRequests
  <2>2. AsBuilt(merged[q]).imagesAt = IF media = <<>> THEN 0 ELSE at
    BY DEF AsBuilt, BuildCanonical
  <2> HIDE DEF body, at, media
  <2>3. IsLastOfUser(at, body)
    BY <2>1, ImagesGoToLastOfUser DEF at
  <2>4. QED
    BY <1>2, <1>3, <1>7, <2>2, <2>3 DEF body, media
<1>8. QED
  BY <1>3, <1>5, <1>6, <1>7, ConversationSays

(***************************************************************************)
(* The upstream is sent all that the conversation says, once and in order, *)
(* for conversations of any length with blocks in any order: what a turn   *)
(* of the user has around its tool results becomes messages around theirs, *)
(* and nothing is collected that is not sent.                              *)
(***************************************************************************)
THEOREM EverythingIsSentAlways == Spec => []EverythingIsSent
  BY TypesHold, FlowHolds, TurnsHold, EverythingWhenSent, PTL

-----------------------------------------------------------------------------
(***************************************************************************)
(* Calls without a name.  /v1/chat/completions removes them before its     *)
(* turns are made; so there are none in what is stored or under way, as    *)
(* long as no request has come by /v1/messages.                            *)
(***************************************************************************)
NamedCallSet == {c \in ToolCalls : Named(c)}

NamedTurns == {t \in Turns : \A b \in ElementsIn(t.blocks) : IsCall(b) => Named(b.call)}

LEMMA NamedChosen ==
    ASSUME NEW calls \in Seq(ToolCalls)
    PROVE  Those(Named, calls) = Chosen(calls, NamedCallSet)
<1> DEFINE F(c) == IF Named(c) THEN <<c>> ELSE <<>>
<1>1. [i \in 1..Len(calls) |-> F(calls[i])]
        = [i \in 1..Len(calls) |-> IF calls[i] \in NamedCallSet THEN <<calls[i]>> ELSE <<>>]
  BY DEF NamedCallSet
<1>2. QED
  BY <1>1 DEF Those, Gather, Each, Chosen

LEMMA NamedStay ==
    ASSUME NEW calls \in Seq(ToolCalls), ElementsIn(calls) \subseteq NamedCallSet
    PROVE  Those(Named, calls) = calls
<1>1. calls \in Seq(NamedCallSet)
  BY DEF ElementsIn
<1>2. QED
  BY <1>1, NamedChosen, ChosenAll

LEMMA UnnamedGo ==
    ASSUME NEW calls \in Seq(ToolCalls)
    PROVE  \A i \in 1..Len(Those(Named, calls)) : Named(Those(Named, calls)[i])
<1>1. Chosen(calls, NamedCallSet) \in Seq(ToolCalls \cap NamedCallSet)
  BY ChosenType
<1> DEFINE chosen == Those(Named, calls)
<1>2. chosen \in Seq(ToolCalls \cap NamedCallSet)
  BY <1>1, NamedChosen
<1> HIDE DEF chosen
<1>3. \A i \in 1..Len(chosen) : chosen[i] \in NamedCallSet
  BY <1>2
<1>4. QED
  BY <1>3 DEF NamedCallSet, chosen

LEMMA TurnOfNamed ==
    ASSUME NEW m \in Messages, m.role \in Roles, ~MalformedParts(m.parts),
           m.role = "assistant" => \A i \in 1..Len(m.calls) : Named(m.calls[i])
    PROVE  TurnOfMessage(m) \in NamedTurns
<1> DEFINE blocks == TurnOfMessage(m).blocks
<1>1. TurnOfMessage(m) \in Turns /\ blocks \in Seq(Blocks)
  BY TurnOfMessageType DEF Turns
<1>2. /\ m.text \in Texts /\ m.parts \in Seq(Parts) /\ m.calls \in Seq(ToolCalls)
  BY DEF Messages
<1>3. \A b \in ElementsIn(TextBlock(m.text)) : ~IsCall(b)
  <2>1. ~IsCall(Text(m.text))
    BY DEF IsCall, Text
  <2>2. \A b \in ElementsIn(TextBlock(m.text)) : b = Text(m.text)
    BY DEF TextBlock, ElementsIn
  <2>3. QED
    BY <2>1, <2>2
<1>4. CASE m.role \in {"system", "user"}
  <2>1. blocks = Gather(PartBlock, m.parts) \/ blocks = TextBlock(m.text)
    BY <1>4 DEF TurnOfMessage
  <2>2. \A b \in ElementsIn(Gather(PartBlock, m.parts)) : ~IsCall(b)
    <3> DEFINE parts == Gather(PartBlock, m.parts)
    <3>1. parts \in Seq(Silent)
      BY <1>2, PartBlocks
    <3> HIDE DEF parts
    <3>2. \A b \in ElementsIn(parts) : ~IsCall(b)
      BY <3>1 DEF ElementsIn, Silent
    <3>3. QED
      BY <3>2 DEF parts
  <2> HIDE DEF blocks
  <2>3. \A b \in ElementsIn(blocks) : ~IsCall(b)
    BY <1>3, <2>1, <2>2
  <2>4. QED
    BY <1>1, <2>3 DEF NamedTurns, blocks
<1>5. CASE m.role = "assistant"
  <2> DEFINE text == TextBlock(m.text)
             called == Each(Call, m.calls)
  <2>1. blocks = text \o called
    BY <1>5 DEF TurnOfMessage
  <2>2. text \in Seq(Blocks) /\ called \in Seq(Blocks)
    BY <1>2, TextBlockType, CallBlocks
  <2>3. \A b \in ElementsIn(called) : \E i \in 1..Len(m.calls) : b = Call(m.calls[i])
    BY <1>2 DEF Each, ElementsIn
  <2>4. \A c : Call(c).call = c
    BY DEF Call
  <2>5. \A b \in ElementsIn(called) : Named(b.call)
    BY <1>5, <2>3, <2>4
  <2> HIDE DEF blocks, called
  <2>6. \A b \in ElementsIn(text) : ~IsCall(b)
    BY <1>3
  <2> HIDE DEF text
  <2>7. ElementsIn(text \o called) \subseteq ElementsIn(text) \cup ElementsIn(called)
    BY <2>2 DEF ElementsIn
  <2>8. \A b \in ElementsIn(blocks) : IsCall(b) => Named(b.call)
    BY <2>1, <2>5, <2>6, <2>7
  <2>9. QED
    BY <1>1, <2>8 DEF NamedTurns, blocks
<1>6. CASE m.role = "tool"
  <2>1. blocks = <<Result(m.id, m.text)>>
    BY <1>6 DEF TurnOfMessage
  <2>2. ~IsCall(Result(m.id, m.text))
    BY DEF IsCall, Result
  <2> HIDE DEF blocks
  <2>3. \A b \in ElementsIn(blocks) : ~IsCall(b)
    BY <2>1, <2>2 DEF ElementsIn
  <2>4. QED
    BY <1>1, <2>3 DEF NamedTurns, blocks
<1>7. QED
  BY <1>4, <1>5, <1>6 DEF Roles

LEMMA OpenAIIsNamed ==
    ASSUME NEW c \in Bodies, Accepted(c), Canonical(c).protocol = "openai"
    PROVE  ElementsIn(Canonical(c).turns) \subseteq NamedTurns
<1> DEFINE messages == WithNamedCalls(Each(Decoded, c.messages))
<1>1. c \in OpenAIBodies
  <2>1. c.protocol = "openai"
    BY CanonicalIs
  <2>2. QED
    BY <2>1 DEF Bodies, AnthropicBodies
<1>2. Canonical(c).turns = Each(TurnOfMessage, messages)
  BY <1>1, CanonicalIs
<1>3. /\ messages \in Seq(Messages)
      /\ \A m \in ElementsIn(messages) :
           /\ m.role \in Roles /\ ~MalformedParts(m.parts)
           /\ m.role = "assistant" => \E calls \in Seq(ToolCalls) : m.calls = Those(Named, calls)
  BY <1>1, OpenAITurns
<1> HIDE DEF messages
<1>4. \A m \in ElementsIn(messages) : TurnOfMessage(m) \in NamedTurns
  <2> SUFFICES ASSUME NEW m \in ElementsIn(messages)
               PROVE  TurnOfMessage(m) \in NamedTurns
    OBVIOUS
  <2>1. m \in Messages /\ m.role \in Roles /\ ~MalformedParts(m.parts)
    BY <1>3 DEF ElementsIn
  <2>2. m.role = "assistant" => \A i \in 1..Len(m.calls) : Named(m.calls[i])
    BY <1>3, UnnamedGo
  <2>3. QED
    BY <2>1, <2>2, TurnOfNamed
<1>5. \A t \in ElementsIn(Each(TurnOfMessage, messages)) :
        \E m \in ElementsIn(messages) : t = TurnOfMessage(m)
  BY <1>3 DEF Each, ElementsIn
<1>6. QED
  BY <1>2, <1>4, <1>5

OpenAIAlone == \A r \in Reqs : pre[r] # Nothing => pre[r].protocol = "openai"

NamedInv ==
    /\ \A q \in Reqs : pc[q] = "idle" => pre[q] = Nothing
    /\ OpenAIAlone => TurnsWithin(NamedTurns)

LEMMA AnswerIsNamed ==
    ASSUME NEW q \in Reqs
    PROVE  AnswerTurn(q) \in NamedTurns
<1>1. AnswerTurn(q) \in Turns /\ AnswerTurn(q).blocks = <<Text(<<q>>)>>
  BY AnswerTurnIs
<1>2. ~IsCall(Text(<<q>>))
  BY DEF IsCall, Text
<1>3. ElementsIn(<<Text(<<q>>)>>) = {Text(<<q>>)}
  BY DEF ElementsIn
<1>4. QED
  BY <1>1, <1>2, <1>3 DEF NamedTurns

LEMMA StepNamed ==
    ASSUME PathTypes, NamedInv, [Next]_vars
    PROVE  NamedInv'
<1>1. ASSUME NEW q \in Reqs, pc'[q] = "idle"
      PROVE  pre'[q] = Nothing
  <2>1. pc[q] = "idle" /\ pre'[q] = pre[q]
    BY <1>1, NewRequests
  <2>2. QED
    BY <2>1 DEF NamedInv
<1>2. ASSUME OpenAIAlone'
      PROVE  TurnsWithin(NamedTurns)'
  <2>1. \A q \in Reqs : pre'[q] # Nothing => pre'[q].protocol = "openai"
    BY <1>2 DEF OpenAIAlone
  <2>2. OpenAIAlone
    <3> SUFFICES ASSUME NEW q \in Reqs, pre[q] # Nothing
                 PROVE  pre[q].protocol = "openai"
      BY DEF OpenAIAlone
    <3>1. pc[q] # "idle"
      BY DEF NamedInv
    <3>2. pre'[q] = pre[q]
      BY <3>1, NewRequests
    <3>3. QED
      BY <2>1, <3>2
  <2>3. TurnsWithin(NamedTurns)
    BY <2>2 DEF NamedInv
  <2>4. ASSUME NEW q \in Reqs, pre'[q] # pre[q]
        PROVE  ElementsIn(pre'[q].turns) \subseteq NamedTurns
    <3>1. PICK c : /\ pre'[q] = Canonical(c) /\ Enterable(c) /\ Accepted(c)
      BY <2>4, NewRequests
    <3>2. c \in Bodies /\ Canonical(c) # Nothing
      BY <3>1, CanonicalIs, RequestsAreSomething DEF Enterable
    <3>3. Canonical(c).protocol = "openai"
      BY <2>1, <3>1, <3>2
    <3>4. ElementsIn(Canonical(c).turns) \subseteq NamedTurns
      BY <3>1, <3>2, <3>3, OpenAIIsNamed
    <3>5. QED
      BY <3>1, <3>4
  <2>5. \A q \in Reqs : AnswerTurn(q) \in NamedTurns
    BY AnswerIsNamed
  <2>6. QED
    BY <2>3, <2>4, <2>5, StepWithin
<1>3. QED
  BY <1>1, <1>2 DEF NamedInv

LEMMA NamedHold == Spec => []NamedInv
<1>1. Init => NamedInv
  BY NoTurns DEF Init, SessionInit, NamedInv, TurnsWithin
<1>2. PathTypes /\ NamedInv /\ [Next]_vars => NamedInv'
  BY StepNamed
<1>3. QED
  BY <1>1, <1>2, TypesHold, PTL DEF Spec

\* A part of a sequence of sequences is in their concatenation.
LEMMA ElementsOfCat ==
    ASSUME NEW A, NEW B, NEW f \in [A -> Seq(B)], NEW s \in Seq(A), NEW x \in ElementsIn(s)
    PROVE  ElementsIn(f[x]) \subseteq ElementsIn(Cat(f, s))
<1> DEFINE ss == [i \in 1..Len(s) |-> f[s[i]]]
<1>1. ss \in Seq(Seq(B)) /\ DOMAIN ss = 1..Len(s)
  BY CatType
<1>2. PICK i \in 1..Len(s) : x = s[i]
  <2>1. DOMAIN s = 1..Len(s)
    OBVIOUS
  <2>2. QED
    BY <2>1 DEF ElementsIn
<1>3. ss[i] = f[x]
  BY <1>2
<1> HIDE DEF ss
<1>4. ElementsIn(FlattenSeq(ss)) = UNION {ElementsIn(ss[j]) : j \in DOMAIN ss}
  BY <1>1, FlattenElements
<1>5. ElementsIn(ss[i]) \subseteq ElementsIn(FlattenSeq(ss))
  BY <1>1, <1>2, <1>4
<1>6. QED
  BY <1>3, <1>5 DEF Cat, ss

LEMMA CallsOfTurnNamed ==
    ASSUME NEW t \in NamedTurns
    PROVE  CallsOfTurn(t) \in Seq(NamedCallSet)
<1> DEFINE chosen == Those(IsCall, t.blocks)
           T == {b \in Blocks : IsCall(b)}
<1>1. t \in Turns /\ t.blocks \in Seq(Blocks)
  BY DEF NamedTurns, Turns
<1>2. chosen = Chosen(t.blocks, T)
  BY <1>1, CallsChosen
<1>3. \A b \in ElementsIn(t.blocks) \cap T : b.call \in NamedCallSet
  <2>1. \A b \in T : b.call \in ToolCalls /\ IsCall(b)
    BY DEF Blocks, IsCall
  <2>2. QED
    BY <2>1 DEF NamedTurns, NamedCallSet
<1>4. Each(LAMBDA b : b.call, chosen) = [i \in 1..Len(chosen) |-> chosen[i].call]
  BY DEF Each
<1> HIDE DEF chosen, T
<1>5. chosen \in Seq(Blocks \cap T) /\ ElementsIn(chosen) = ElementsIn(t.blocks) \cap T
  BY <1>1, <1>2, ChosenType
<1>6. \A i \in 1..Len(chosen) : chosen[i].call \in NamedCallSet
  BY <1>3, <1>5 DEF ElementsIn
<1>7. [i \in 1..Len(chosen) |-> chosen[i].call] \in Seq(NamedCallSet)
  BY <1>5, <1>6
<1>8. QED
  BY <1>4, <1>7 DEF CallsOfTurn, chosen

LEMMA NamedAlready ==
    ASSUME NEW body \in Seq(Messages),
           \A i \in 1..Len(body) : body[i].role = "assistant" =>
             ElementsIn(body[i].calls) \subseteq NamedCallSet
    PROVE  WithNamedCalls(body) = body
<1> DEFINE Strip(m) == IF m.role = "assistant" THEN [m EXCEPT !.calls = Those(Named, @)] ELSE m
<1>1. ASSUME NEW i \in 1..Len(body), body[i].role = "assistant"
      PROVE  [body[i] EXCEPT !.calls = Those(Named, @)] = body[i]
  <2> DEFINE m == body[i]
             named == Those(Named, m.calls)
  <2>1. m \in Messages
    OBVIOUS
  <2>2. m.calls \in Seq(ToolCalls)
    BY <2>1 DEF Messages
  <2>3. ElementsIn(m.calls) \subseteq NamedCallSet
    BY <1>1
  <2>4. named = m.calls
    BY <2>2, <2>3, NamedStay
  <2>5. [m EXCEPT !.calls = Those(Named, @)] = [m EXCEPT !.calls = named]
    OBVIOUS
  <2> HIDE DEF m, named
  <2>6. [m EXCEPT !.calls = named] = m
    BY <2>1, <2>4 DEF Messages
  <2>7. QED
    BY <2>5, <2>6 DEF m
<1>2. \A i \in 1..Len(body) : Strip(body[i]) = body[i]
  BY <1>1
<1>3. WithNamedCalls(body) = [i \in 1..Len(body) |-> Strip(body[i])]
  BY DEF WithNamedCalls, Each
<1> HIDE DEF Strip
<1>4. [i \in 1..Len(body) |-> Strip(body[i])] = [i \in 1..Len(body) |-> body[i]]
  BY <1>2
<1>5. body = [i \in 1..Len(body) |-> body[i]]
  OBVIOUS
<1>6. QED
  BY <1>3, <1>4, <1>5

LEMMA NamedWhenSent == PathTypes /\ FlowInv /\ TurnsInv /\ NamedInv => UnnamedCallsStayOut
<1> SUFFICES ASSUME PathTypes, FlowInv, TurnsInv, NamedInv, NEW q \in Reqs, sent[q] # Nothing, OpenAIAlone
             PROVE  WithNamedCalls(sent[q].messages) = sent[q].messages
  BY DEF UnnamedCallsStayOut, OpenAIAlone
<1> DEFINE ts == merged[q].turns
           body == ProjectTurns(ts)
<1>1. /\ pc[q] \in {"sent", "done"} /\ merged[q] # Nothing /\ merged[q] \in CanonicalRequests
  BY DEF PathTypes, RequestTypes, StageTypes, MaybeRequests
<1>2. sent[q].messages = body
  <2>1. sent[q] = AsBuilt(merged[q])
    BY <1>1 DEF FlowInv, Flow
  <2>2. AsBuilt(merged[q]).messages = body
    BY DEF AsBuilt, BuildCanonical
  <2>3. QED
    BY <2>1, <2>2
<1>3. /\ ts \in Seq(Turns) /\ ElementsIn(ts) \subseteq ProperTurns /\ ElementsIn(ts) \subseteq NamedTurns
  BY <1>1 DEF TurnsInv, NamedInv, TurnsWithin, CanonicalRequests
<1>4. body \in Seq(Messages)
  BY <1>3, ProjectTurnsType
<1> HIDE DEF ts
<1>5. ts \in Seq(ProperTurns) /\ \A i \in 1..Len(ts) : ts[i] \in NamedTurns
  BY <1>3 DEF ElementsIn
<1>6. Cat(CallsOf, body) \in Seq(NamedCallSet)
  <2>1. \A i \in 1..Len(ts) : CallsOfTurn(ts[i]) \in Seq(NamedCallSet)
    BY <1>5, CallsOfTurnNamed
  <2>2. Gather(CallsOfTurn, ts) \in Seq(NamedCallSet)
    <3>1. [i \in 1..Len(ts) |-> CallsOfTurn(ts[i])] \in Seq(Seq(NamedCallSet))
      BY <1>5, <2>1
    <3>2. QED
      BY <3>1, FlattenType DEF Gather, Each
  <2>3. Gather(CallsOfMessage, body) = Gather(CallsOfTurn, ts)
    BY <1>5, ConversationSays
  <2>4. \A i \in 1..Len(body) : CallsOf[body[i]] = CallsOfMessage(body[i])
    BY <1>4 DEF CallsOf, CallsOfMessage
  <2> HIDE DEF body
  <2>5. Gather(CallsOfMessage, body) = Cat(CallsOf, body)
    BY <2>4 DEF Gather, Each, Cat
  <2>6. QED
    BY <2>2, <2>3, <2>5
<1> HIDE DEF body
<1>7. ASSUME NEW i \in 1..Len(body)
      PROVE  ElementsIn(body[i].calls) \subseteq NamedCallSet
  <2>1. body[i] \in Messages /\ body[i] \in ElementsIn(body)
    BY <1>4 DEF ElementsIn
  <2>2. CallsOf[body[i]] = body[i].calls
    BY <2>1 DEF CallsOf
  <2>3. ElementsIn(CallsOf[body[i]]) \subseteq ElementsIn(Cat(CallsOf, body))
    BY <1>4, <2>1, ConversationTypes, ElementsOfCat
  <2>4. ElementsIn(Cat(CallsOf, body)) \subseteq NamedCallSet
    BY <1>6 DEF ElementsIn
  <2>5. QED
    BY <2>2, <2>3, <2>4
<1>8. QED
  BY <1>2, <1>4, <1>7, NamedAlready

(***************************************************************************)
(* A conversation that /v1/messages was never used in has no call without  *)
(* a name in what goes upstream, replays of recorded requests included.    *)
(***************************************************************************)
THEOREM UnnamedCallsStayOutAlways == Spec => []UnnamedCallsStayOut
  BY TypesHold, FlowHolds, TurnsHold, NamedHold, NamedWhenSent, PTL

-----------------------------------------------------------------------------
(***************************************************************************)
(* A request that came in is the canonical form of one that was accepted;  *)
(* so a recorded one is too, but for what the policies decide.             *)
(***************************************************************************)
FromBody(x) ==
    \E c \in Bodies :
        /\ Accepted(c)
        /\ x.protocol = Canonical(c).protocol
        /\ x.turns = Canonical(c).turns

OriginInv ==
    \A q \in Reqs : pre[q] # Nothing =>
        /\ FromBody(pre[q])
        /\ pre[q].hasTools = (pre[q].tools # <<>>)

LEMMA OriginsHold == Spec => []OriginInv
<1>1. Init => OriginInv
  BY DEF Init, OriginInv
<1>2. PathTypes /\ OriginInv /\ [Next]_vars => OriginInv'
  <2> SUFFICES ASSUME PathTypes, OriginInv, [Next]_vars, NEW q \in Reqs, pre'[q] # Nothing
               PROVE  FromBody(pre'[q]) /\ pre'[q].hasTools = (pre'[q].tools # <<>>)
    BY DEF OriginInv, FromBody
  <2>1. CASE pre'[q] = pre[q]
    BY <2>1 DEF OriginInv
  <2>2. CASE pre'[q] # pre[q]
    <3>1. PICK c : pre'[q] = Canonical(c) /\ Enterable(c) /\ Accepted(c)
      BY <2>2, NewRequests
    <3>2. c \in Bodies
      BY <3>1 DEF Enterable
    <3>3. FromBody(pre'[q])
      BY <3>1, <3>2 DEF FromBody
    <3>4. pre'[q].hasTools = (c.tools # <<>>) /\ pre'[q].tools = c.tools
      BY <3>1, <3>2, CanonicalIs
    <3>5. pre'[q].hasTools = (pre'[q].tools # <<>>)
      BY <3>4
    <3>6. QED
      BY <3>3, <3>5
  <2>3. QED
    BY <2>1, <2>2
<1>3. QED
  BY <1>1, <1>2, TypesHold, PTL DEF Spec

\* What a record has of a request, as it came or as the policies left it.
LEMMA RecordedIs ==
    ASSUME PathTypes, FlowInv, OriginInv, NEW r \in Reqs, pc[r] = "done",
           NEW x, x \in {pre[r], post[r]}
    PROVE  /\ x \in CanonicalRequests
           /\ FromBody(x)
           /\ ~x.hasTools => x.tools = <<>>
<1>1. /\ pre[r] \in CanonicalRequests /\ post[r] \in CanonicalRequests
      /\ pre[r] # Nothing /\ Judged(r)
  BY DEF PathTypes, RequestTypes, StageTypes, MaybeRequests, FlowInv, Flow
<1>2. /\ FromBody(pre[r])
      /\ ~pre[r].hasTools => pre[r].tools = <<>>
  BY <1>1 DEF OriginInv
<1>3. CASE r \in historical \/ x = pre[r]
  BY <1>1, <1>2, <1>3 DEF Judged
<1>4. CASE r \notin historical /\ x = post[r]
  <2> DEFINE a == Effective(used[r], pre[r])
  <2>1. Actions(a) /\ x = ApplyActions(pre[r], a)
    BY <1>1, <1>4, EffectiveType DEF Judged
  <2> HIDE DEF a
  <2>2. /\ x.protocol = pre[r].protocol /\ x.turns = pre[r].turns
    BY <1>1, <2>1, ApplyActionsIs
  <2>3. ~x.hasTools => x.tools = <<>>
    <3>1. x.tools = IF "allow_tools" \in DOMAIN a /\ ~a["allow_tools"] THEN <<>> ELSE pre[r].tools
      BY <1>1, <2>1, ApplyActionsIs
    <3>2. x.hasTools = IF "allow_tools" \in DOMAIN a THEN a["allow_tools"] ELSE pre[r].hasTools
      BY <1>1, <2>1, ApplyActionsIs
    <3>3. QED
      BY <1>2, <3>1, <3>2
  <2>4. QED
    BY <1>1, <1>2, <1>4, <2>2, <2>3 DEF FromBody
<1>5. QED
  BY <1>3, <1>4

-----------------------------------------------------------------------------
(***************************************************************************)
(* Projection, images and choices of joined conversations.                 *)
(***************************************************************************)
LEMMA ChosenJoins ==
    ASSUME NEW A, NEW T, NEW s \in Seq(A), NEW t \in Seq(A)
    PROVE  Chosen(s \o t, T) = Chosen(s, T) \o Chosen(t, T)
<1> DEFINE f == [x \in A |-> IF x \in T THEN <<x>> ELSE <<>>]
<1>1. f \in [A -> Seq(A)]
  BY NoElements
<1>2. \A u \in Seq(A) : Chosen(u, T) = Cat(f, u)
  <2>1. \A u \in Seq(A) : \A i \in 1..Len(u) : f[u[i]] = IF u[i] \in T THEN <<u[i]>> ELSE <<>>
    OBVIOUS
  <2> HIDE DEF f
  <2>2. QED
    BY <2>1 DEF Chosen, Cat
<1>3. s \o t \in Seq(A)
  OBVIOUS
<1> HIDE DEF f
<1>4. CatLaws(A, A)
  BY CatRules
<1>5. Cat(f, s \o t) = Cat(f, s) \o Cat(f, t)
  BY <1>1, <1>4 DEF CatLaws
<1>6. QED
  BY <1>2, <1>3, <1>5

LEMMA ChosenNone ==
    ASSUME NEW A, NEW T, A \cap T = {}, NEW s \in Seq(A)
    PROVE  Chosen(s, T) = <<>>
<1>1. Chosen(s, T) \in Seq(A \cap T)
  BY ChosenType
<1>2. QED
  BY <1>1

Projections == [t \in Turns |-> ProjectTurn(t)]
SourcesIn == [t \in Turns |-> SourcesOf(t)]

LEMMA TurnByTurn ==
    /\ Projections \in [Turns -> Seq(Messages)]
    /\ SourcesIn \in [Turns -> Seq(Sources)]
    /\ \A ts \in Seq(Turns) : ProjectTurns(ts) = Cat(Projections, ts) /\ MediaOf(ts) = Cat(SourcesIn, ts)
<1>1. Projections \in [Turns -> Seq(Messages)]
  BY ProjectTurnType DEF Projections
<1>2. SourcesIn \in [Turns -> Seq(Sources)]
  BY SourcesOfTurn DEF SourcesIn
<1>3. ASSUME NEW ts \in Seq(Turns)
      PROVE  ProjectTurns(ts) = Cat(Projections, ts) /\ MediaOf(ts) = Cat(SourcesIn, ts)
  <2>1. \A i \in 1..Len(ts) : /\ Projections[ts[i]] = ProjectTurn(ts[i])
                              /\ SourcesIn[ts[i]] = SourcesOf(ts[i])
    BY DEF Projections, SourcesIn
  <2>2. ProjectTurns(ts) = Cat(Projections, ts)
    BY <2>1 DEF ProjectTurns, Gather, Each, Cat
  <2>3. MediaOf(ts) = FlattenSeq([i \in 1..Len(ts) |-> SourcesOf(ts[i])])
    BY DEF MediaOf, Gather, Each, SourcesOf
  <2>4. QED
    BY <2>1, <2>2, <2>3 DEF Cat
<1>4. QED
  BY <1>1, <1>2, <1>3

LEMMA TurnsJoin ==
    ASSUME NEW s \in Seq(Turns), NEW t \in Seq(Turns)
    PROVE  /\ ProjectTurns(s \o t) = ProjectTurns(s) \o ProjectTurns(t)
           /\ MediaOf(s \o t) = MediaOf(s) \o MediaOf(t)
<1>1. s \o t \in Seq(Turns)
  OBVIOUS
<1>2. /\ Cat(Projections, s \o t) = Cat(Projections, s) \o Cat(Projections, t)
      /\ Cat(SourcesIn, s \o t) = Cat(SourcesIn, s) \o Cat(SourcesIn, t)
  <2>1. CatLaws(Turns, Messages) /\ CatLaws(Turns, Sources)
    BY CatRules
  <2>2. QED
    BY <2>1, TurnByTurn DEF CatLaws
<1>3. QED
  BY <1>1, <1>2, TurnByTurn

LEMMA TurnAlone ==
    ASSUME NEW t \in Turns
    PROVE  ProjectTurns(<<t>>) = ProjectTurn(t) /\ MediaOf(<<t>>) = SourcesOf(t)
<1>1. <<t>> \in Seq(Turns)
  OBVIOUS
<1>2. Cat(Projections, <<t>>) = Projections[t]
  BY TurnByTurn, CatOne
<1>3. Cat(SourcesIn, <<t>>) = SourcesIn[t]
  BY TurnByTurn, CatOne
<1>4. QED
  BY <1>1, <1>2, <1>3, TurnByTurn DEF Projections, SourcesIn

LEMMA TurnsNone == ProjectTurns(<<>>) = <<>> /\ MediaOf(<<>>) = <<>>
<1>1. <<>> \in Seq(Turns)
  OBVIOUS
<1>2. QED
  BY <1>1, TurnByTurn, CatEmpty

-----------------------------------------------------------------------------
(***************************************************************************)
(* /v1/chat/completions: the messages that a projection makes are the ones *)
(* that the canonical form of their replay projects to.                    *)
(***************************************************************************)
PlainMessage(m) ==
    /\ m.parts = <<>>
    /\ m.role \in {"system", "user"} => m.text # <<>> /\ m.calls = <<>> /\ m.id = ""
    /\ m.role = "assistant" =>
         /\ m.text # <<>> \/ m.calls # <<>>
         /\ m.calls \in Seq(NamedCallSet) /\ m.id = ""
    /\ m.role = "tool" => m.calls = <<>>

PlainMessages == {m \in Messages : m.role \in Roles /\ PlainMessage(m)}

LEMMA PlainResult ==
    ASSUME NEW b \in Blocks, IsResult(b)
    PROVE  ResultMessage(b) \in PlainMessages
<1>1. ResultMessage(b) \in Messages
  BY ResultMessageType
<1>2. /\ ResultMessage(b).role = "tool" /\ ResultMessage(b).parts = <<>>
      /\ ResultMessage(b).calls = <<>>
  BY DEF ResultMessage, Message
<1>3. QED
  BY <1>1, <1>2 DEF PlainMessages, PlainMessage, Roles

LEMMA PlainFlushed ==
    ASSUME NEW acc \in Progress, acc.out \in Seq(PlainMessages), NEW role \in {"system", "user"}
    PROVE  Flushed(acc, role) \in Seq(PlainMessages)
<1> DEFINE blank == ""
           m == Message(role, acc.text, <<>>, blank)
<1>1. blank \in Words /\ <<>> \in Seq(ToolCalls) /\ acc.text \in Texts /\ role \in Roles
  BY WordsInUse, NoElements DEF Progress, Roles
<1>2. Flushed(acc, role) = IF acc.text = <<>> THEN acc.out ELSE Append(acc.out, m)
  BY DEF Flushed
<1>3. /\ m.role = role /\ m.parts = <<>> /\ m.text = acc.text /\ m.calls = <<>> /\ m.id = blank
  BY DEF Message
<1>4. m \in Messages
  <2> HIDE DEF blank
  <2>1. QED
    BY <1>1, MessageType
<1> HIDE DEF m
<1>5. acc.text # <<>> => m \in PlainMessages
  <2>1. acc.text # <<>> => PlainMessage(m)
    BY <1>3 DEF PlainMessage
  <2>2. QED
    BY <1>1, <1>3, <1>4, <2>1 DEF PlainMessages
<1>6. QED
  BY <1>2, <1>5

LEMMA PlainUserTurn ==
    ASSUME NEW t \in Turns, t.role \in {"system", "user"}
    PROVE  ProjectTurn(t) \in Seq(PlainMessages)
<1> DEFINE blocks == t.blocks
           N == Len(blocks)
           Plain(acc) == acc \in Progress /\ acc.out \in Seq(PlainMessages)
<1>1. blocks \in Seq(Blocks) /\ N \in Nat /\ t.role \in Roles
  BY DEF Turns
<1>2. PICK f : /\ f[0] = [out |-> <<>>, text |-> <<>>]
               /\ \A n \in 1..N : f[n] = ReadBlock(f[n - 1], blocks[n], t.role)
               /\ ProjectUserLikeTurn(t) = Flushed(f[N], t.role)
  BY <1>1, UserLoop
<1> DEFINE Good == {n \in Nat : n <= N => Plain(f[n])}
<1>3. 0 \in Good
  <2>1. <<>> \in Seq(Messages) /\ <<>> \in Texts /\ <<>> \in Seq(PlainMessages)
    BY NoElements DEF Texts
  <2>2. [out |-> <<>>, text |-> <<>>] \in Progress /\ [out |-> <<>>, text |-> <<>>].out = <<>>
    BY <2>1 DEF Progress
  <2>3. Plain(f[0])
    BY <1>2, <2>1, <2>2
  <2>4. QED
    BY <2>3
<1>4. ASSUME NEW n \in Nat, n \in Good
      PROVE  n + 1 \in Good
  <2> SUFFICES ASSUME n + 1 <= N
               PROVE  Plain(f[n + 1])
    OBVIOUS
  <2> DEFINE acc == f[n]
             b == blocks[n + 1]
  <2>1. f[n + 1] = ReadBlock(acc, b, t.role) /\ b \in Blocks
    BY <1>1, <1>2
  <2>2. acc \in Progress /\ acc.out \in Seq(PlainMessages)
    BY <1>1, <1>4
  <2> HIDE DEF acc, b
  <2>3. ReadBlock(acc, b, t.role) \in Progress
    BY <1>1, <2>1, <2>2, ReadBlockType
  <2>4. CASE IsResult(b)
    <3>1. ReadBlock(acc, b, t.role).out = Append(Flushed(acc, t.role), ResultMessage(b))
      BY <2>4 DEF ReadBlock
    <3>2. Flushed(acc, t.role) \in Seq(PlainMessages) /\ ResultMessage(b) \in PlainMessages
      BY <2>1, <2>2, <2>4, PlainFlushed, PlainResult
    <3>3. QED
      BY <2>1, <2>3, <3>1, <3>2
  <2>5. CASE ~IsResult(b)
    <3>1. ReadBlock(acc, b, t.role).out = acc.out
      BY <2>5 DEF ReadBlock
    <3>2. QED
      BY <2>1, <2>2, <2>3, <3>1
  <2>6. QED
    BY <2>4, <2>5
<1> HIDE DEF Good
<1>5. N \in Good
  BY <1>1, <1>3, <1>4, InductionOnSets
<1>6. f[N] \in Progress /\ f[N].out \in Seq(PlainMessages)
  BY <1>1, <1>5 DEF Good
<1>7. ProjectTurn(t) = Flushed(f[N], t.role)
  BY <1>2 DEF ProjectTurn
<1>8. QED
  BY <1>6, <1>7, PlainFlushed

LEMMA PlainAssistantTurn ==
    ASSUME NEW t \in NamedTurns, t.role = "assistant"
    PROVE  ProjectTurn(t) \in Seq(PlainMessages)
<1> DEFINE text == Gather(AssistantText, t.blocks)
           calls == Each(LAMBDA b : b.call, Those(IsCall, t.blocks))
           blank == ""
           m == Message("assistant", text, calls, blank)
<1>1. t \in Turns /\ text \in Texts /\ calls \in Seq(ToolCalls)
  BY AssistantType DEF NamedTurns
<1>2. calls \in Seq(NamedCallSet)
  <2>1. CallsOfTurn(t) = calls
    BY DEF CallsOfTurn
  <2>2. QED
    BY <2>1, CallsOfTurnNamed
<1>3. ProjectTurn(t) = IF text = <<>> /\ calls = <<>> THEN <<>> ELSE <<m>>
  BY DEF ProjectTurn, ProjectAssistantTurn
<1> HIDE DEF text, calls
<1>4. /\ m.role = "assistant" /\ m.parts = <<>> /\ m.text = text /\ m.calls = calls
      /\ m.id = blank
  BY DEF Message
<1>5. "assistant" \in Roles /\ blank \in Words
  BY WordsInUse DEF Roles
<1>6. m \in Messages
  <2> HIDE DEF blank
  <2>1. QED
    BY <1>1, <1>5, MessageType
<1> HIDE DEF m
<1>7. text # <<>> \/ calls # <<>> => PlainMessage(m)
  BY <1>2, <1>4 DEF PlainMessage
<1>8. text # <<>> \/ calls # <<>> => m \in PlainMessages
  BY <1>4, <1>5, <1>6, <1>7 DEF PlainMessages
<1>9. <<>> \in Seq(PlainMessages)
  OBVIOUS
<1>10. QED
  BY <1>3, <1>8, <1>9

LEMMA PlainToolTurn ==
    ASSUME NEW t \in Turns, t.role = "tool"
    PROVE  ProjectTurn(t) \in Seq(PlainMessages)
<1> DEFINE results == Those(IsResult, t.blocks)
<1>1. t.blocks \in Seq(Blocks)
  BY DEF Turns
<1>2. results = Chosen(t.blocks, {b \in Blocks : IsResult(b)})
  BY <1>1, ResultsChosen
<1>3. ProjectTurn(t) = [i \in 1..Len(results) |-> ResultMessage(results[i])]
  BY DEF ProjectTurn, Each
<1> HIDE DEF results
<1>4. results \in Seq(Blocks \cap {b \in Blocks : IsResult(b)})
  BY <1>1, <1>2, ChosenType
<1>5. \A i \in 1..Len(results) : ResultMessage(results[i]) \in PlainMessages
  BY <1>4, PlainResult
<1>6. QED
  BY <1>3, <1>4, <1>5

LEMMA PlainTurns ==
    ASSUME NEW ts \in Seq(NamedTurns)
    PROVE  ProjectTurns(ts) \in Seq(PlainMessages)
<1>1. \A t \in NamedTurns : ProjectTurn(t) \in Seq(PlainMessages)
  <2> SUFFICES ASSUME NEW t \in NamedTurns
               PROVE  ProjectTurn(t) \in Seq(PlainMessages)
    OBVIOUS
  <2>1. t \in Turns /\ t.role \in Roles
    BY DEF NamedTurns, Turns
  <2>2. QED
    BY <2>1, PlainUserTurn, PlainAssistantTurn, PlainToolTurn DEF Roles
<1>2. Each(ProjectTurn, ts) \in Seq(Seq(PlainMessages))
  BY <1>1 DEF Each
<1>3. QED
  BY <1>2, FlattenType DEF ProjectTurns, Gather

LEMMA MessageAgain ==
    ASSUME NEW m \in PlainMessages
    PROVE  m = Message(m.role, m.text, m.calls, m.id)
<1>1. m \in Messages /\ m.parts = <<>>
  BY DEF PlainMessages, PlainMessage
<1>2. QED
  BY <1>1 DEF Messages, Message

LEMMA UserAgain ==
    ASSUME NEW m \in PlainMessages, m.role \in {"system", "user"}
    PROVE  ProjectTurn(TurnOfMessage(m)) = <<m>>
<1> DEFINE t == TurnOfMessage(m)
<1>1. m.text # <<>> /\ m.calls = <<>> /\ m.id = "" /\ m.parts = <<>> /\ m.text \in Texts
  BY DEF PlainMessages, PlainMessage, Messages
<1>2. t.role = m.role /\ t.blocks = <<Text(m.text)>>
  BY <1>1 DEF TurnOfMessage, TextBlock
<1> HIDE DEF t
<1>3. Len(t.blocks) = 1 /\ t.blocks[1] = Text(m.text)
  BY <1>2
<1> DEFINE N == Len(t.blocks)
<1>4. PICK f : /\ f[0] = [out |-> <<>>, text |-> <<>>]
               /\ \A n \in 1..N : f[n] = ReadBlock(f[n - 1], t.blocks[n], t.role)
               /\ ProjectUserLikeTurn(t) = Flushed(f[N], t.role)
  <2>1. N \in Nat
    BY <1>3
  <2>2. QED
    BY <2>1, UserLoop
<1> HIDE DEF N
<1>5. N = 1 /\ f[1] = ReadBlock(f[0], Text(m.text), m.role)
  BY <1>2, <1>3, <1>4 DEF N
<1>6. ~IsResult(Text(m.text)) /\ InlineText(Text(m.text)) = m.text
  BY DEF IsResult, InlineText, Text
<1>7. f[0].out = <<>> /\ f[0].text = <<>>
  BY <1>4
<1>8. f[1] = [out |-> <<>>, text |-> <<>> \o m.text]
  BY <1>5, <1>6, <1>7 DEF ReadBlock
<1>9. <<>> \o m.text = m.text /\ m.text # <<>>
  <2>1. m.text \in Seq(Words)
    BY <1>1 DEF Texts
  <2>2. <<>> \o m.text = m.text
    BY <2>1
  <2>3. QED
    BY <1>1, <2>2
<1>10. Flushed(f[1], t.role) = Append(<<>>, Message(m.role, m.text, <<>>, ""))
  <2> DEFINE last == Message(m.role, m.text, <<>>, "")
             acc == f[1]
  <2>1. acc.text = m.text /\ acc.out = <<>>
    BY <1>8, <1>9
  <2> HIDE DEF acc
  <2>2. Flushed(acc, m.role) = Append(<<>>, last)
    <3>1. Message(m.role, acc.text, <<>>, "") = last
      BY <2>1
    <3> HIDE DEF last
    <3>2. QED
      BY <1>9, <2>1, <3>1, Zenon DEF Flushed
  <2>3. QED
    BY <1>2, <2>2 DEF acc
<1>11. Message(m.role, m.text, <<>>, "") = m
  BY <1>1, MessageAgain
<1>12. Append(<<>>, m) = <<m>>
  OBVIOUS
<1>13. ProjectTurn(t) = ProjectUserLikeTurn(t)
  BY <1>2 DEF ProjectTurn
<1>14. QED
  BY <1>4, <1>5, <1>10, <1>11, <1>12, <1>13 DEF t

\* The calls of a message, and the blocks they become.
LEMMA CallsAgain ==
    ASSUME NEW calls \in Seq(ToolCalls)
    PROVE  /\ Gather(AssistantText, Each(Call, calls)) = <<>>
           /\ Chosen(Each(Call, calls), {b \in Blocks : IsCall(b)}) = Each(Call, calls)
           /\ Each(LAMBDA b : b.call, Each(Call, calls)) = calls
<1> DEFINE blocks == Each(Call, calls)
           T == {b \in Blocks : IsCall(b)}
<1>1. Len(blocks) = Len(calls) /\ \A i \in 1..Len(calls) : blocks[i] = Call(calls[i])
  BY DEF Each
<1>2. \A c \in ToolCalls : Call(c) \in T /\ AssistantText(Call(c)) = <<>> /\ Call(c).call = c
  BY DEF Call, Blocks, IsCall, AssistantText, InlineText
<1>3. blocks \in Seq(T)
  BY <1>2 DEF Each
<1> HIDE DEF blocks
<1>4. Gather(AssistantText, blocks) = <<>>
  <2> DEFINE none == [b \in T |-> <<>>]
  <2>1. \A i \in 1..Len(blocks) : blocks[i] \in T
    BY <1>3
  <2>2. \A i \in 1..Len(blocks) : AssistantText(blocks[i]) = none[blocks[i]]
    BY <1>1, <1>2, <2>1
  <2>3. Cat(none, blocks) = <<>>
    BY <1>3, CatNone
  <2> HIDE DEF none
  <2>4. Gather(AssistantText, blocks) = Cat(none, blocks)
    BY <2>2 DEF Gather, Each, Cat
  <2>5. QED
    BY <2>3, <2>4
<1>5. Chosen(blocks, T) = blocks
  BY <1>3, ChosenAll
<1>6. Each(LAMBDA b : b.call, blocks) = calls
  <2>1. Each(LAMBDA b : b.call, blocks) = [i \in 1..Len(blocks) |-> blocks[i].call]
    BY DEF Each
  <2>2. \A i \in 1..Len(calls) : blocks[i].call = calls[i]
    BY <1>1, <1>2
  <2>3. calls = [i \in 1..Len(calls) |-> calls[i]]
    OBVIOUS
  <2>4. QED
    BY <1>1, <2>1, <2>2, <2>3
<1>7. QED
  BY <1>4, <1>5, <1>6 DEF blocks, T

LEMMA AssistantAgain ==
    ASSUME NEW m \in PlainMessages, m.role = "assistant"
    PROVE  ProjectTurn(TurnOfMessage(m)) = <<m>>
<1> DEFINE t == TurnOfMessage(m)
           T == {b \in Blocks : IsCall(b)}
           texts == TextBlock(m.text)
           called == Each(Call, m.calls)
<1>1. /\ m.text # <<>> \/ m.calls # <<>>
      /\ m.id = "" /\ m.text \in Texts /\ m.calls \in Seq(ToolCalls)
  BY DEF PlainMessages, PlainMessage, Messages
<1>2. t.role = "assistant" /\ t.blocks = texts \o called
  BY DEF TurnOfMessage
<1>3. texts \in Seq(Blocks) /\ called \in Seq(Blocks)
  BY <1>1, TextBlockType, CallBlocks
<1>4. /\ Gather(AssistantText, called) = <<>>
      /\ Chosen(called, T) = called
      /\ Each(LAMBDA b : b.call, called) = m.calls
  BY <1>1, CallsAgain
<1>5. ~IsCall(Text(m.text)) /\ AssistantText(Text(m.text)) = m.text /\ Text(m.text) \in Blocks
  BY <1>1 DEF IsCall, AssistantText, InlineText, Text, Blocks
<1> DEFINE spoken == [b \in Blocks |-> AssistantText(b)]
<1>6. spoken \in [Blocks -> Seq(Words)] /\ \A b \in Blocks : spoken[b] = AssistantText(b)
  BY InlineTextType DEF Texts
<1>7. \A s \in Seq(Blocks) : Gather(AssistantText, s) = Cat(spoken, s)
  <2>1. \A s \in Seq(Blocks) : \A i \in 1..Len(s) : spoken[s[i]] = AssistantText(s[i])
    BY <1>6
  <2> HIDE DEF spoken
  <2>2. QED
    BY <2>1 DEF Gather, Each, Cat
<1> HIDE DEF spoken, T, called
<1>8. Cat(spoken, texts) = m.text /\ Chosen(texts, T) = <<>>
  <2>1. CASE m.text = <<>>
    <3>1. texts = <<>>
      BY <2>1 DEF TextBlock
    <3>2. Chosen(<<>>, T) = <<>>
      <4>1. <<>> \in Seq({}) /\ {} \cap T = {}
        OBVIOUS
      <4>2. QED
        BY <4>1, ChosenNone
    <3>3. QED
      BY <2>1, <3>1, <3>2, CatEmpty
  <2>2. CASE m.text # <<>>
    <3>1. texts = <<Text(m.text)>>
      BY <2>2 DEF TextBlock
    <3>2. Cat(spoken, <<Text(m.text)>>) = m.text
      BY <1>5, <1>6, CatOne
    <3>3. Chosen(<<Text(m.text)>>, T) = <<>>
      <4>1. {Text(m.text)} \cap T = {} /\ <<Text(m.text)>> \in Seq({Text(m.text)})
        BY <1>5 DEF T
      <4>2. QED
        BY <4>1, ChosenNone
    <3>4. QED
      BY <3>1, <3>2, <3>3
  <2>3. QED
    BY <2>1, <2>2
<1> HIDE DEF texts, t
<1>9. Gather(AssistantText, t.blocks) = m.text
  <2>1. CatLaws(Blocks, Words)
    BY CatRules
  <2>2. Cat(spoken, texts \o called) = Cat(spoken, texts) \o Cat(spoken, called)
    BY <1>3, <1>6, <2>1 DEF CatLaws
  <2>3. Cat(spoken, called) = <<>> /\ texts \o called \in Seq(Blocks)
    BY <1>3, <1>4, <1>7
  <2>4. m.text \o <<>> = m.text
    <3>1. m.text \in Seq(Words)
      BY <1>1 DEF Texts
    <3>2. QED
      BY <3>1
  <2>5. QED
    BY <1>2, <1>7, <1>8, <2>2, <2>3, <2>4
<1>10. Those(IsCall, t.blocks) = called
  <2>1. t.blocks \in Seq(Blocks)
    BY <1>2, <1>3
  <2>2. Those(IsCall, t.blocks) = Chosen(t.blocks, T)
    BY <2>1, CallsChosen DEF T
  <2>3. Chosen(t.blocks, T) = Chosen(texts, T) \o Chosen(called, T)
    BY <1>2, <1>3, ChosenJoins
  <2>4. <<>> \o called = called
    BY <1>3
  <2>5. QED
    BY <1>4, <1>8, <2>2, <2>3, <2>4
<1>11. ProjectTurn(t) = <<Message("assistant", m.text, m.calls, "")>>
  <2>1. ProjectTurn(t) = ProjectAssistantTurn(t)
    BY <1>2 DEF ProjectTurn
  <2>2. Each(LAMBDA b : b.call, Those(IsCall, t.blocks)) = m.calls
    BY <1>4, <1>10
  <2>3. QED
    BY <1>1, <1>9, <2>1, <2>2 DEF ProjectAssistantTurn
<1>12. Message("assistant", m.text, m.calls, "") = m
  BY <1>1, MessageAgain
<1>13. QED
  BY <1>11, <1>12 DEF t

LEMMA ResultAgain ==
    ASSUME NEW m \in PlainMessages, m.role = "tool"
    PROVE  ProjectTurn(TurnOfMessage(m)) = <<m>>
<1> DEFINE t == TurnOfMessage(m)
           b == Result(m.id, m.text)
           R == {x \in Blocks : IsResult(x)}
<1>1. m.calls = <<>> /\ m.text \in Texts /\ m.id \in Words
  BY DEF PlainMessages, PlainMessage, Messages
<1>2. t.role = "tool" /\ t.blocks = <<b>>
  BY DEF TurnOfMessage
<1>3. b \in R /\ ResultMessage(b) = Message("tool", m.text, <<>>, m.id)
  BY <1>1 DEF Result, IsResult, Blocks, ResultMessage
<1> HIDE DEF t, b, R
<1>4. Those(IsResult, t.blocks) = <<b>>
  <2>1. <<b>> \in Seq(R) /\ <<b>> \in Seq(Blocks)
    BY <1>3 DEF R
  <2>2. Those(IsResult, <<b>>) = Chosen(<<b>>, R)
    BY <2>1, ResultsChosen DEF R
  <2>3. Chosen(<<b>>, R) = <<b>>
    BY <2>1, ChosenAll
  <2>4. QED
    BY <1>2, <2>2, <2>3
<1>5. Each(ResultMessage, <<b>>) = <<ResultMessage(b)>>
  BY DEF Each
<1>6. ProjectTurn(t) = <<ResultMessage(b)>>
  BY <1>2, <1>4, <1>5 DEF ProjectTurn
<1>7. ResultMessage(b) = m
  BY <1>1, <1>3, MessageAgain
<1>8. QED
  BY <1>6, <1>7 DEF t

\* Messages whose calls have names are left as they are.
LEMMA MessagesAgain ==
    ASSUME NEW ms \in Seq(PlainMessages)
    PROVE  /\ WithNamedCalls(Each(Decoded, ms)) = ms
           /\ ProjectTurns(Each(TurnOfMessage, ms)) = ms
<1>1. \A i \in 1..Len(ms) : /\ ms[i] \in Messages /\ ms[i] \in PlainMessages
                            /\ ms[i].parts = <<>>
                            /\ ms[i].role = "assistant" => ms[i].calls \in Seq(NamedCallSet)
  <2>1. \A m \in PlainMessages : /\ m \in Messages /\ m.parts = <<>>
                                 /\ m.role = "assistant" => m.calls \in Seq(NamedCallSet)
    BY DEF PlainMessages, PlainMessage
  <2>2. \A i \in 1..Len(ms) : ms[i] \in PlainMessages
    OBVIOUS
  <2>3. QED
    BY <2>1, <2>2
<1>2. ms = [i \in 1..Len(ms) |-> ms[i]] /\ ms \in Seq(Messages)
  BY <1>1
<1>3. Each(Decoded, ms) = ms
  <2>1. [i \in 1..Len(ms) |-> Decoded(ms[i])] = [i \in 1..Len(ms) |-> ms[i]]
    BY <1>1 DEF Decoded
  <2>2. QED
    BY <1>2, <2>1 DEF Each
<1>4. WithNamedCalls(ms) = ms
  <2>1. \A i \in 1..Len(ms) : ms[i].role = "assistant" => ElementsIn(ms[i].calls) \subseteq NamedCallSet
    BY <1>1 DEF ElementsIn
  <2>2. QED
    BY <1>2, <2>1, NamedAlready
<1>5. \A m \in PlainMessages : ProjectTurn(TurnOfMessage(m)) = <<m>>
  <2> SUFFICES ASSUME NEW m \in PlainMessages
               PROVE  ProjectTurn(TurnOfMessage(m)) = <<m>>
    OBVIOUS
  <2>1. m.role \in {"system", "user"} \/ m.role = "assistant" \/ m.role = "tool"
    BY DEF PlainMessages, Roles
  <2>2. QED
    BY <2>1, UserAgain, AssistantAgain, ResultAgain
<1> DEFINE again == Each(TurnOfMessage, ms)
           self == [m \in PlainMessages |-> m]
           single == [m \in PlainMessages |-> <<self[m]>>]
<1>6. Len(again) = Len(ms) /\ \A i \in 1..Len(ms) : again[i] = TurnOfMessage(ms[i])
  BY <1>2 DEF Each
<1> HIDE DEF again
<1>7. \A i \in 1..Len(ms) : ProjectTurn(again[i]) = single[ms[i]]
  BY <1>1, <1>5, <1>6
<1>8. Cat(single, ms) = ms
  <2>1. self \in [PlainMessages -> PlainMessages] /\ \A m \in PlainMessages : self[m] = m
    OBVIOUS
  <2>2. \A i \in 1..Len(ms) : self[ms[i]] = ms[i]
    BY <1>1
  <2> HIDE DEF self
  <2>3. SinglesLaw(PlainMessages, PlainMessages)
    BY CatSingles
  <2>4. Cat(single, ms) = [i \in 1..Len(ms) |-> self[ms[i]]]
    BY <2>1, <2>3 DEF SinglesLaw
  <2>5. QED
    BY <1>2, <2>2, <2>4
<1> HIDE DEF single
<1>9. ProjectTurns(again) = Cat(single, ms)
  <2>1. [i \in 1..Len(again) |-> ProjectTurn(again[i])] = [i \in 1..Len(ms) |-> single[ms[i]]]
    BY <1>6, <1>7
  <2>2. QED
    BY <2>1 DEF ProjectTurns, Gather, Each, Cat
<1>10. QED
  BY <1>3, <1>4, <1>8, <1>9 DEF again

LEMMA OpenAIAgain ==
    ASSUME NEW x \in CanonicalRequests, FromBody(x), x.protocol = "openai", NEW again \in BOOLEAN,
           Accepted(OpenAIReplay(x, again))
    PROVE  ProjectTurns(Canonical(OpenAIReplay(x, again)).turns) = ProjectTurns(x.turns)
<1> DEFINE body == OpenAIReplay(x, again)
           ms == ProjectTurns(x.turns)
<1>1. PICK c \in Bodies : /\ Accepted(c) /\ Canonical(c).protocol = "openai"
                          /\ x.turns = Canonical(c).turns
  BY DEF FromBody
<1>2. ElementsIn(x.turns) \subseteq NamedTurns /\ x.turns \in Seq(Turns)
  BY <1>1, OpenAIIsNamed DEF CanonicalRequests
<1>3. x.turns \in Seq(NamedTurns)
  BY <1>2 DEF ElementsIn
<1>4. ms \in Seq(PlainMessages)
  BY <1>3, PlainTurns
<1>5. body \in OpenAIBodies /\ body.messages = ms
  BY OpenAIReplayType DEF OpenAIReplay
<1>6. Canonical(body).turns = Each(TurnOfMessage, WithNamedCalls(Each(Decoded, ms)))
  BY <1>5, CanonicalIs DEF Bodies
<1>7. QED
  BY <1>4, <1>6, MessagesAgain

-----------------------------------------------------------------------------
(***************************************************************************)
(* /v1/messages: the blocks of a turn come back as they are.               *)
(***************************************************************************)
LEMMA BlocksAgain ==
    ASSUME NEW t \in Turns
    PROVE  TurnOfContent(ContentOfTurn(t)) = t
<1> DEFINE content == Each(ContentOfBlock, t.blocks)
           self == [b \in Blocks |-> b]
           single == [b \in Blocks |-> <<self[b]>>]
<1>1. t.blocks \in Seq(Blocks) /\ t = [role |-> t.role, blocks |-> t.blocks]
  BY DEF Turns
<1>2. ASSUME NEW b \in Blocks
      PROVE  BlockOfContent(ContentOfBlock(b)) = <<b>>
  <2>1. CASE b.type = "text"
    BY <2>1 DEF Blocks, ContentOfBlock, BlockOfContent, Text
  <2>2. CASE b.type = "reasoning"
    BY <2>2 DEF Blocks, ContentOfBlock, BlockOfContent, Reasoning
  <2>3. CASE b.type = "tool_call"
    BY <2>3 DEF Blocks, ContentOfBlock, BlockOfContent, Call
  <2>4. CASE b.type = "tool_result"
    BY <2>4 DEF Blocks, ContentOfBlock, BlockOfContent, Result
  <2>5. CASE b.type \in {"image", "document"}
    BY <2>5 DEF Blocks, ContentOfBlock, BlockOfContent, Media
  <2>6. QED
    BY <2>1, <2>2, <2>3, <2>4, <2>5 DEF Blocks
<1>3. Len(content) = Len(t.blocks) /\ \A i \in 1..Len(t.blocks) : content[i] = ContentOfBlock(t.blocks[i])
  BY <1>1 DEF Each
<1> HIDE DEF content
<1>4. \A i \in 1..Len(t.blocks) : BlockOfContent(content[i]) = single[t.blocks[i]]
  BY <1>1, <1>2, <1>3
<1>5. Cat(single, t.blocks) = t.blocks
  <2>1. self \in [Blocks -> Blocks] /\ \A b \in Blocks : self[b] = b
    OBVIOUS
  <2>2. \A i \in 1..Len(t.blocks) : self[t.blocks[i]] = t.blocks[i]
    BY <1>1
  <2> HIDE DEF self
  <2>3. SinglesLaw(Blocks, Blocks)
    BY CatSingles
  <2>4. Cat(single, t.blocks) = [i \in 1..Len(t.blocks) |-> self[t.blocks[i]]]
    BY <1>1, <2>1, <2>3 DEF SinglesLaw
  <2>5. t.blocks = [i \in 1..Len(t.blocks) |-> t.blocks[i]]
    BY <1>1
  <2>6. QED
    BY <2>2, <2>4, <2>5
<1> HIDE DEF single
<1>6. Gather(BlockOfContent, content) = Cat(single, t.blocks)
  <2>1. [i \in 1..Len(content) |-> BlockOfContent(content[i])]
          = [i \in 1..Len(t.blocks) |-> single[t.blocks[i]]]
    BY <1>3, <1>4
  <2>2. QED
    BY <2>1 DEF Gather, Each, Cat
<1>7. ContentOfTurn(t).role = t.role /\ ContentOfTurn(t).content = content
  BY DEF ContentOfTurn, content
<1>8. QED
  BY <1>1, <1>5, <1>6, <1>7 DEF TurnOfContent

\* The turns of a conversation on /v1/messages but for the system's.
SpokenTurns == {t \in Turns : t.role \in {"user", "assistant"}}

\* A turn without blocks, which a replay leaves out, says nothing.
LEMMA EmptyTurn ==
    ASSUME NEW t \in SpokenTurns, t.blocks = <<>>
    PROVE  ProjectTurn(t) = <<>> /\ SourcesOf(t) = <<>>
<1>1. t.blocks \in Seq({}) /\ t.blocks \in Seq(Blocks) /\ Len(t.blocks) = 0
  OBVIOUS
<1>2. \A T : Chosen(t.blocks, T) = <<>>
  <2>1. \A T : {} \cap T = {}
    OBVIOUS
  <2>2. QED
    BY <1>1, <2>1, ChosenNone
<1>3. Those(IsMedia, t.blocks) = <<>> /\ Those(IsCall, t.blocks) = <<>>
  BY <1>1, <1>2, MediaChosen, CallsChosen
<1>4. SourcesOf(t) = <<>>
  <2>1. SourcesOf(t) = [i \in 1..Len(<<>>) |-> <<>>[i].source]
    BY <1>3 DEF SourcesOf, Each
  <2>2. QED
    BY <2>1
<1>5. CASE t.role = "user"
  <2>1. PICK f : /\ f[0] = [out |-> <<>>, text |-> <<>>]
                 /\ ProjectUserLikeTurn(t) = Flushed(f[Len(t.blocks)], t.role)
    BY <1>1, UserLoop
  <2> DEFINE acc == f[0]
  <2>2. ProjectUserLikeTurn(t) = Flushed(acc, t.role)
    BY <1>1, <2>1
  <2>3. acc.text = <<>> /\ acc.out = <<>>
    BY <2>1
  <2> HIDE DEF acc
  <2>4. Flushed(acc, t.role) = <<>>
    BY <2>3, Zenon DEF Flushed
  <2>5. ProjectTurn(t) = ProjectUserLikeTurn(t)
    BY <1>5 DEF ProjectTurn
  <2>6. QED
    BY <1>4, <2>2, <2>4, <2>5
<1>6. CASE t.role = "assistant"
  <2> DEFINE calls == Each(LAMBDA b : b.call, Those(IsCall, t.blocks))
             text == Gather(AssistantText, t.blocks)
             none == [b \in {} |-> <<>>]
  <2>1. calls = <<>>
    <3>1. calls = [i \in 1..Len(<<>>) |-> <<>>[i].call]
      BY <1>3 DEF Each
    <3>2. QED
      BY <3>1
  <2>2. text = <<>>
    <3>1. [i \in 1..Len(<<>>) |-> AssistantText(<<>>[i])] = <<>>
      OBVIOUS
    <3>2. QED
      BY <3>1, FlattenEmpty DEF Gather, Each
  <2>3. ProjectTurn(t) = ProjectAssistantTurn(t)
    BY <1>6 DEF ProjectTurn
  <2> HIDE DEF calls, text
  <2>4. ProjectAssistantTurn(t) = IF text = <<>> /\ calls = <<>> THEN <<>>
                                  ELSE <<Message("assistant", text, calls, "")>>
    BY DEF ProjectAssistantTurn, calls, text
  <2>5. QED
    BY <1>4, <2>1, <2>2, <2>3, <2>4
<1>7. QED
  BY <1>5, <1>6 DEF SpokenTurns

LEMMA SpokenAgain ==
    ASSUME NEW spoken \in Seq(SpokenTurns)
    PROVE  /\ ProjectTurns(Chosen(spoken, SpeakingTurns)) = ProjectTurns(spoken)
           /\ MediaOf(Chosen(spoken, SpeakingTurns)) = MediaOf(spoken)
<1> DEFINE select == [t \in SpokenTurns |-> IF t \in SpeakingTurns THEN <<t>> ELSE <<>>]
           project == [t \in SpokenTurns |-> ProjectTurn(t)]
           sources == [t \in SpokenTurns |-> SourcesOf(t)]
           chosen == Chosen(spoken, SpeakingTurns)
<1>1. /\ \A i \in 1..Len(spoken) : spoken[i] \in SpokenTurns
      /\ SpokenTurns \subseteq Turns /\ spoken \in Seq(Turns)
  BY DEF SpokenTurns
<1>2. /\ \A t \in SpokenTurns : select[t] = IF t \in SpeakingTurns THEN <<t>> ELSE <<>>
      /\ select \in [SpokenTurns -> Seq(Turns)]
  BY <1>1
<1>3. /\ \A t \in SpokenTurns : project[t] = Projections[t] /\ sources[t] = SourcesIn[t]
      /\ project \in [SpokenTurns -> Seq(Messages)] /\ sources \in [SpokenTurns -> Seq(Sources)]
  <2>1. \A t \in SpokenTurns : project[t] = Projections[t] /\ sources[t] = SourcesIn[t]
    BY <1>1 DEF Projections, SourcesIn
  <2>2. \A t \in SpokenTurns : Projections[t] \in Seq(Messages) /\ SourcesIn[t] \in Seq(Sources)
    BY <1>1, TurnByTurn
  <2>3. DOMAIN project = SpokenTurns /\ DOMAIN sources = SpokenTurns
    OBVIOUS
  <2>4. QED
    BY <2>1, <2>2
<1> HIDE DEF select, project, sources
<1>4. chosen = Cat(select, spoken)
  BY <1>1, <1>2 DEF Chosen, Cat
<1>5. chosen \in Seq(Turns)
  <2>1. CatLaws(SpokenTurns, Turns)
    BY CatRules
  <2>2. QED
    BY <1>2, <1>4, <2>1 DEF CatLaws
<1> HIDE DEF chosen
<1>6. ASSUME NEW t \in SpokenTurns
      PROVE  Cat(Projections, select[t]) = project[t] /\ Cat(SourcesIn, select[t]) = sources[t]
  <2>1. CASE t \in SpeakingTurns
    <3>1. select[t] = <<t>> /\ t \in Turns
      BY <1>1, <1>2, <2>1
    <3>2. Cat(Projections, <<t>>) = Projections[t]
      BY <3>1, TurnByTurn, CatOne
    <3>3. Cat(SourcesIn, <<t>>) = SourcesIn[t]
      BY <3>1, TurnByTurn, CatOne
    <3>4. QED
      BY <1>3, <3>1, <3>2, <3>3
  <2>2. CASE t \notin SpeakingTurns
    <3>1. t.blocks = <<>> /\ select[t] = <<>>
      BY <1>2, <2>2 DEF SpokenTurns, SpeakingTurns
    <3>2. ProjectTurn(t) = <<>> /\ SourcesOf(t) = <<>>
      BY <3>1, EmptyTurn
    <3>3. QED
      BY <3>1, <3>2, CatEmpty DEF project, sources
  <2>3. QED
    BY <2>1, <2>2
<1>7. Cat(Projections, Cat(select, spoken)) = Cat(project, spoken)
  <2>1. \A t \in SpokenTurns : Cat(Projections, select[t]) = project[t]
    BY <1>6
  <2>2. Projections \in [Turns -> Seq(Messages)]
    BY TurnByTurn
  <2>3. Composed(Projections, select, project, SpokenTurns, Turns, Messages)
    BY <1>2, <1>3, <2>1, <2>2 DEF Composed
  <2>4. QED
    BY <1>1, <2>3, CatOfCat
<1>8. Cat(SourcesIn, Cat(select, spoken)) = Cat(sources, spoken)
  <2>1. \A t \in SpokenTurns : Cat(SourcesIn, select[t]) = sources[t]
    BY <1>6
  <2>2. SourcesIn \in [Turns -> Seq(Sources)]
    BY TurnByTurn
  <2>3. Composed(SourcesIn, select, sources, SpokenTurns, Turns, Sources)
    BY <1>2, <1>3, <2>1, <2>2 DEF Composed
  <2>4. QED
    BY <1>1, <2>3, CatOfCat
<1>9. Cat(project, spoken) = Cat(Projections, spoken) /\ Cat(sources, spoken) = Cat(SourcesIn, spoken)
  <2>1. \A i \in 1..Len(spoken) : /\ project[spoken[i]] = Projections[spoken[i]]
                                  /\ sources[spoken[i]] = SourcesIn[spoken[i]]
    BY <1>1, <1>3
  <2>2. QED
    BY <2>1 DEF Cat
<1>10. QED
  BY <1>1, <1>4, <1>5, <1>7, <1>8, <1>9, TurnByTurn DEF chosen

-----------------------------------------------------------------------------
(***************************************************************************)
(* The system's turn: its texts become one, which the projection would     *)
(* have made of them too.                                                  *)
(***************************************************************************)
SystemTexts == {s \in Texts : s # <<>>}
TextBlocks == [type : {"text"}, text : SystemTexts]
OfTheSystem(blocks) == [role |-> "system", blocks |-> blocks]

LEMMA TextBlocksAre ==
    /\ TextBlocks \subseteq Blocks
    /\ \A b \in TextBlocks : /\ b.text \in Seq(Words) /\ b.text # <<>>
                             /\ PlainText(b) = b.text /\ InlineText(b) = b.text
                             /\ ~IsResult(b) /\ ~IsMedia(b)
<1>1. ASSUME NEW b \in TextBlocks
      PROVE  b \in Blocks /\ b.type = "text" /\ b.text \in Seq(Words) /\ b.text # <<>>
  BY DEF TextBlocks, SystemTexts, Blocks, Texts
<1>2. QED
  BY <1>1 DEF PlainText, InlineText, IsResult, IsMedia

LEMMA SystemBlocks ==
    ASSUME NEW texts \in Seq(Texts)
    PROVE  Gather(TextBlock, texts) \in Seq(TextBlocks)
<1>1. \A s \in Texts : TextBlock(s) \in Seq(TextBlocks)
  <2> SUFFICES ASSUME NEW s \in Texts
               PROVE  TextBlock(s) \in Seq(TextBlocks)
    OBVIOUS
  <2>1. s # <<>> => Text(s) \in TextBlocks
    BY DEF TextBlocks, SystemTexts, Text
  <2>2. QED
    BY <2>1 DEF TextBlock
<1>2. Each(TextBlock, texts) \in Seq(Seq(TextBlocks))
  BY <1>1 DEF Each
<1>3. QED
  BY <1>2, FlattenType DEF Gather

LEMMA SystemProjects ==
    ASSUME NEW blocks \in Seq(TextBlocks), blocks # <<>>
    PROVE  /\ Gather(PlainText, blocks) \in Seq(Words) /\ Gather(PlainText, blocks) # <<>>
           /\ OfTheSystem(blocks) \in Turns
           /\ ProjectTurn(OfTheSystem(blocks))
                = <<Message("system", Gather(PlainText, blocks), <<>>, "")>>
           /\ SourcesOf(OfTheSystem(blocks)) = <<>>
<1> DEFINE t == OfTheSystem(blocks)
           N == Len(blocks)
           plain == [b \in TextBlocks |-> b.text]
           text == Gather(PlainText, blocks)
<1>1. N \in Nat /\ N > 0 /\ \A i \in 1..N : blocks[i] \in TextBlocks
  OBVIOUS
<1>2. plain \in [TextBlocks -> Seq(Words)] /\ \A b \in TextBlocks : plain[b] = b.text
  BY TextBlocksAre
<1> HIDE DEF plain
<1>3. CatLaws(TextBlocks, Words)
  BY CatRules
<1>4. text = Cat(plain, blocks)
  <2>1. \A i \in 1..N : PlainText(blocks[i]) = plain[blocks[i]]
    BY <1>1, <1>2, TextBlocksAre
  <2>2. QED
    BY <2>1 DEF Gather, Each, Cat
<1> HIDE DEF text
<1>5. \A n \in 0..(N - 1) : /\ SubSeq(blocks, 1, n) \in Seq(TextBlocks)
                            /\ SubSeq(blocks, 1, n + 1) = Append(SubSeq(blocks, 1, n), blocks[n + 1])
  BY <1>1
<1>6. \A n \in 0..(N - 1) : /\ Cat(plain, SubSeq(blocks, 1, n)) \in Seq(Words)
                            /\ Cat(plain, SubSeq(blocks, 1, n + 1))
                                 = Cat(plain, SubSeq(blocks, 1, n)) \o blocks[n + 1].text
  <2> SUFFICES ASSUME NEW n \in 0..(N - 1)
               PROVE  /\ Cat(plain, SubSeq(blocks, 1, n)) \in Seq(Words)
                      /\ Cat(plain, SubSeq(blocks, 1, n + 1))
                           = Cat(plain, SubSeq(blocks, 1, n)) \o blocks[n + 1].text
    OBVIOUS
  <2>1. n + 1 \in 1..N
    BY <1>1
  <2>2. blocks[n + 1] \in TextBlocks /\ plain[blocks[n + 1]] = blocks[n + 1].text
    BY <1>1, <1>2, <2>1
  <2>3. Cat(plain, SubSeq(blocks, 1, n)) \in Seq(Words)
    BY <1>2, <1>3, <1>5 DEF CatLaws
  <2>4. Cat(plain, Append(SubSeq(blocks, 1, n), blocks[n + 1]))
          = Cat(plain, SubSeq(blocks, 1, n)) \o plain[blocks[n + 1]]
    BY <1>2, <1>3, <1>5, <2>2 DEF CatLaws
  <2>5. QED
    BY <1>5, <2>2, <2>3, <2>4
<1>7. SubSeq(blocks, 1, N) = blocks /\ SubSeq(blocks, 1, 0) = <<>>
  BY <1>1
<1>8. text \in Seq(Words) /\ text # <<>>
  <2>1. N - 1 \in 0..(N - 1) /\ (N - 1) + 1 = N
    BY <1>1
  <2>2. text = Cat(plain, SubSeq(blocks, 1, N - 1)) \o blocks[N].text
    BY <1>4, <1>6, <1>7, <2>1
  <2>3. Cat(plain, SubSeq(blocks, 1, N - 1)) \in Seq(Words)
    BY <1>6, <2>1
  <2>4. blocks[N].text \in Seq(Words) /\ blocks[N].text # <<>>
    BY <1>1, TextBlocksAre
  <2> HIDE DEF N
  <2>5. QED
    BY <2>2, <2>3, <2>4
<1>9. /\ t \in Turns /\ t.role = "system" /\ t.blocks = blocks /\ blocks \in Seq(Blocks)
  <2>1. blocks \in Seq(Blocks)
    BY TextBlocksAre
  <2>2. QED
    BY <2>1 DEF OfTheSystem, Turns, Roles
<1> HIDE DEF t
<1>10. SourcesOf(t) = <<>>
  <2>1. TextBlocks \cap {b \in Blocks : IsMedia(b)} = {}
    BY TextBlocksAre
  <2>2. Those(IsMedia, t.blocks) = <<>>
    BY <1>9, <2>1, MediaChosen, ChosenNone
  <2>3. SourcesOf(t) = [i \in 1..Len(<<>>) |-> <<>>[i].source]
    BY <2>2 DEF SourcesOf, Each
  <2>4. QED
    BY <2>3
<1>11. PICK f : /\ f[0] = [out |-> <<>>, text |-> <<>>]
                /\ \A n \in 1..Len(t.blocks) : f[n] = ReadBlock(f[n - 1], t.blocks[n], t.role)
                /\ ProjectUserLikeTurn(t) = Flushed(f[Len(t.blocks)], t.role)
  BY <1>1, <1>9, UserLoop
<1>12. /\ \A n \in 1..N : f[n] = ReadBlock(f[n - 1], blocks[n], t.role)
       /\ ProjectTurn(t) = Flushed(f[N], "system")
  BY <1>9, <1>11 DEF ProjectTurn
<1> DEFINE Good == {n \in Nat : n <= N => f[n].out = <<>> /\ f[n].text = Cat(plain, SubSeq(blocks, 1, n))}
<1>13. 0 \in Good
  <2>1. f[0].out = <<>> /\ f[0].text = <<>>
    BY <1>11
  <2>2. Cat(plain, SubSeq(blocks, 1, 0)) = <<>>
    BY <1>7, CatEmpty
  <2>3. QED
    BY <2>1, <2>2
<1>14. ASSUME NEW n \in Nat, n \in Good
       PROVE  n + 1 \in Good
  <2> SUFFICES ASSUME n + 1 <= N
               PROVE  f[n + 1].out = <<>> /\ f[n + 1].text = Cat(plain, SubSeq(blocks, 1, n + 1))
    OBVIOUS
  <2>1. n \in 0..(N - 1) /\ n + 1 \in 1..N /\ (n + 1) - 1 = n
    BY <1>1
  <2> DEFINE before == f[n]
             after == f[n + 1]
             b == blocks[n + 1]
  <2>2. after = ReadBlock(before, b, t.role)
    BY <1>12, <2>1
  <2>3. ~IsResult(b) /\ InlineText(b) = b.text
    BY <1>1, <2>1, TextBlocksAre
  <2>5. before.out = <<>> /\ before.text = Cat(plain, SubSeq(blocks, 1, n))
    BY <1>1, <1>14, <2>1
  <2> HIDE DEF before, after, b
  <2>6. after.out = before.out /\ after.text = before.text \o b.text
    BY <2>2, <2>3 DEF ReadBlock
  <2>7. Cat(plain, SubSeq(blocks, 1, n + 1))
          = Cat(plain, SubSeq(blocks, 1, n)) \o blocks[n + 1].text
    BY <1>6, <2>1
  <2>8. after.text = Cat(plain, SubSeq(blocks, 1, n + 1))
    BY <2>5, <2>6, <2>7 DEF b
  <2>9. QED
    BY <2>5, <2>6, <2>8 DEF after
<1> HIDE DEF Good
<1>15. N \in Good
  BY <1>1, <1>13, <1>14, InductionOnSets
<1>16. f[N].out = <<>> /\ f[N].text = text
  <2>1. N \in Nat /\ N <= N
    BY <1>1
  <2> HIDE DEF N
  <2>2. f[N].out = <<>> /\ f[N].text = Cat(plain, SubSeq(blocks, 1, N))
    BY <1>15, <2>1 DEF Good
  <2>3. QED
    BY <1>4, <1>7, <2>2
<1> DEFINE acc == f[N]
           m == Message("system", text, <<>>, "")
<1>17. acc.out = <<>> /\ acc.text = text /\ Message("system", acc.text, <<>>, "") = m
  BY <1>16
<1> HIDE DEF acc, m
<1>18. Flushed(acc, "system") = Append(<<>>, m)
  BY <1>8, <1>17, Zenon DEF Flushed
<1>19. Append(<<>>, m) = <<m>>
  OBVIOUS
<1>20. QED
  BY <1>8, <1>9, <1>10, <1>12, <1>18, <1>19 DEF t, text, m, acc

\* The text that a replay makes of the system's turn.
TextsOf(ts) == FlattenSeq([i \in 1..Len(ts) |-> Gather(PlainText, ts[i].blocks)])

LEMMA FlattenOne ==
    ASSUME NEW A, NEW s \in Seq(A)
    PROVE  FlattenSeq([i \in 1..1 |-> s]) = s
<1>1. <<>> \in Seq(Seq(A)) /\ Append(<<>>, s) = [i \in 1..1 |-> s] /\ <<>> \o s = s
  OBVIOUS
<1>2. FlattenSeq(Append(<<>>, s)) = FlattenSeq(<<>>) \o s
  BY <1>1, FlattenAppend
<1>3. QED
  BY <1>1, <1>2, FlattenEmpty

LEMMA OneText ==
    ASSUME NEW s \in Texts
    PROVE  Gather(TextBlock, <<s>>) = TextBlock(s)
<1>1. TextBlock(s) \in Seq(Blocks)
  BY TextBlockType
<1>2. [i \in 1..Len(<<s>>) |-> TextBlock(<<s>>[i])] = [i \in 1..1 |-> TextBlock(s)]
  OBVIOUS
<1>3. QED
  BY <1>1, <1>2, FlattenOne DEF Gather, Each

LEMMA SystemAgain ==
    ASSUME NEW texts \in Seq(Texts)
    PROVE  /\ TextsOf(SystemTurn(texts)) \in Texts
           /\ ProjectTurns(SystemTurn(<<TextsOf(SystemTurn(texts))>>)) = ProjectTurns(SystemTurn(texts))
           /\ MediaOf(SystemTurn(<<TextsOf(SystemTurn(texts))>>)) = <<>>
           /\ MediaOf(SystemTurn(texts)) = <<>>
<1> DEFINE bs == Gather(TextBlock, texts)
           st == SystemTurn(texts)
           text == TextsOf(st)
<1>1. bs \in Seq(TextBlocks)
  BY SystemBlocks
<1>2. st = IF bs = <<>> THEN <<>> ELSE <<OfTheSystem(bs)>>
  BY DEF SystemTurn, OfTheSystem
<1> HIDE DEF bs, st
<1>3. ASSUME NEW s \in Texts
      PROVE  SystemTurn(<<s>>) = IF s = <<>> THEN <<>> ELSE <<OfTheSystem(<<Text(s)>>)>>
  <2>1. Gather(TextBlock, <<s>>) = IF s = <<>> THEN <<>> ELSE <<Text(s)>>
    BY OneText DEF TextBlock
  <2>2. <<Text(s)>> # <<>>
    OBVIOUS
  <2>3. QED
    BY <2>1, <2>2 DEF SystemTurn, OfTheSystem
<1>4. CASE bs = <<>>
  <2>1. st = <<>>
    BY <1>2, <1>4
  <2>2. text = <<>>
    <3>1. [i \in 1..Len(<<>>) |-> Gather(PlainText, <<>>[i].blocks)] = <<>>
      OBVIOUS
    <3>2. QED
      BY <2>1, <3>1, FlattenEmpty DEF TextsOf
  <2>3. text \in Texts
    BY <2>2, NoElements DEF Texts
  <2>4. SystemTurn(<<text>>) = <<>>
    BY <1>3, <2>2, <2>3
  <2>5. QED
    BY <2>1, <2>3, <2>4, TurnsNone DEF st
<1>5. CASE bs # <<>>
  <2> DEFINE said == Gather(PlainText, bs)
             b == Text(said)
  <2>1. /\ said \in Seq(Words) /\ said # <<>> /\ OfTheSystem(bs) \in Turns
        /\ ProjectTurn(OfTheSystem(bs)) = <<Message("system", said, <<>>, "")>>
        /\ SourcesOf(OfTheSystem(bs)) = <<>>
    BY <1>1, <1>5, SystemProjects
  <2>2. st = <<OfTheSystem(bs)>>
    BY <1>2, <1>5
  <2>3. text = said
    <3>1. [i \in 1..Len(st) |-> Gather(PlainText, st[i].blocks)] = [i \in 1..1 |-> said]
      BY <2>2 DEF OfTheSystem
    <3>2. QED
      BY <2>1, <3>1, FlattenOne DEF TextsOf
  <2> HIDE DEF said
  <2>4. said \in Texts
    BY <2>1 DEF Texts
  <2>5. SystemTurn(<<said>>) = <<OfTheSystem(<<b>>)>>
    BY <1>3, <2>1, <2>4
  <2>6. b \in TextBlocks /\ b.text = said
    BY <2>1, <2>4 DEF TextBlocks, SystemTexts, Text
  <2> HIDE DEF b
  <2>7. <<b>> \in Seq(TextBlocks) /\ <<b>> # <<>>
    BY <2>6
  <2>8. Gather(PlainText, <<b>>) = said
    <3>1. PlainText(b) = said
      BY <2>6, TextBlocksAre
    <3>2. [i \in 1..Len(<<b>>) |-> PlainText(<<b>>[i])] = [i \in 1..1 |-> said]
      BY <3>1
    <3>3. QED
      BY <2>1, <3>2, FlattenOne DEF Gather, Each
  <2>9. /\ OfTheSystem(<<b>>) \in Turns
        /\ ProjectTurn(OfTheSystem(<<b>>)) = <<Message("system", Gather(PlainText, <<b>>), <<>>, "")>>
        /\ SourcesOf(OfTheSystem(<<b>>)) = <<>>
    BY <2>7, SystemProjects
  <2>10. /\ ProjectTurns(SystemTurn(<<said>>)) = ProjectTurn(OfTheSystem(<<b>>))
         /\ MediaOf(SystemTurn(<<said>>)) = <<>>
    BY <2>5, <2>9, TurnAlone
  <2>11. ProjectTurns(st) = ProjectTurn(OfTheSystem(bs)) /\ MediaOf(st) = <<>>
    BY <2>1, <2>2, TurnAlone
  <2>12. ProjectTurns(SystemTurn(<<said>>)) = ProjectTurns(st)
    BY <2>1, <2>8, <2>9, <2>10, <2>11
  <2> HIDE DEF text
  <2>13. QED
    BY <2>3, <2>4, <2>10, <2>11, <2>12 DEF st, text
<1>6. QED
  BY <1>4, <1>5

-----------------------------------------------------------------------------
(***************************************************************************)
(* /v1/messages: what a replay asks of the upstream.                       *)
(***************************************************************************)
LEMMA SystemChosen ==
    ASSUME NEW texts \in Seq(Texts)
    PROVE  SystemTurn(texts) \in Seq(SystemTurns)
<1> DEFINE t == OfTheSystem(Gather(TextBlock, texts))
<1>1. SystemTurn(texts) \in {<<>>, <<t>>}
  BY DEF SystemTurn, OfTheSystem
<1>2. t \in SystemTurns
  <2>1. Gather(TextBlock, texts) \in Seq(Blocks)
    BY SystemBlocks, TextBlocksAre
  <2>2. QED
    BY <2>1 DEF SystemTurns, Turns, Roles, OfTheSystem
<1> HIDE DEF t
<1>3. <<>> \in Seq(SystemTurns) /\ <<t>> \in Seq(SystemTurns)
  BY <1>2
<1>4. QED
  BY <1>1, <1>3

\* What the turns of a request on /v1/messages are.
LEMMA AnthropicTurnsAre ==
    ASSUME NEW c \in AnthropicBodies, Accepted(c)
    PROVE  \E spoken \in Seq(SpokenTurns) :
             /\ Canonical(c).turns = SystemTurn(c.system) \o spoken
             /\ c.system \in Seq(Texts)
             /\ spoken = Each(TurnOfContent, c.messages)
<1> DEFINE spoken == Each(TurnOfContent, c.messages)
<1>1. /\ c.messages \in Seq(AnthropicMessages) /\ c.system \in Seq(Texts) /\ IsAnthropic(c)
  BY DEF AnthropicBodies, IsAnthropic
<1>2. KnownRoles(c.messages)
  BY <1>1 DEF Accepted
<1>3. Canonical(c).turns = SystemTurn(c.system) \o spoken
  BY CanonicalIs DEF Bodies
<1>4. spoken \in Seq(Turns)
  BY AnthropicTurns
<1>5. Len(spoken) = Len(c.messages) /\ \A i \in 1..Len(c.messages) : spoken[i] = TurnOfContent(c.messages[i])
  BY <1>1 DEF Each
<1> HIDE DEF spoken
<1>6. \A i \in 1..Len(spoken) : spoken[i] \in SpokenTurns
  <2> SUFFICES ASSUME NEW i \in 1..Len(spoken)
               PROVE  spoken[i] \in SpokenTurns
    OBVIOUS
  <2>1. c.messages[i].role \in {"user", "assistant"}
    BY <1>1, <1>2, <1>5 DEF KnownRoles
  <2>2. spoken[i].role = c.messages[i].role
    <3>1. \A m : TurnOfContent(m).role = m.role
      BY DEF TurnOfContent
    <3>2. QED
      BY <1>5, <3>1
  <2>3. spoken[i] \in Turns
    BY <1>4
  <2>4. QED
    BY <2>1, <2>2, <2>3 DEF SpokenTurns
<1>7. spoken \in Seq(SpokenTurns)
  BY <1>4, <1>6
<1>8. QED
  BY <1>1, <1>3, <1>7 DEF spoken

LEMMA AnthropicAgain ==
    ASSUME NEW x \in CanonicalRequests, FromBody(x), x.protocol = "anthropic", NEW again \in BOOLEAN,
           Accepted(AnthropicReplay(x, again))
    PROVE  LET new == Canonical(AnthropicReplay(x, again))
           IN  /\ ProjectTurns(new.turns) = ProjectTurns(x.turns)
               /\ MediaOf(new.turns) = MediaOf(x.turns)
<1> DEFINE body == AnthropicReplay(x, again)
           new == Canonical(body)
<1>1. PICK c \in Bodies : /\ Accepted(c) /\ Canonical(c).protocol = "anthropic"
                          /\ x.turns = Canonical(c).turns
  BY DEF FromBody
<1>2. c \in AnthropicBodies
  <2>1. c.protocol = "anthropic"
    BY <1>1, CanonicalIs
  <2>2. QED
    BY <2>1 DEF Bodies, OpenAIBodies
<1>3. PICK spoken \in Seq(SpokenTurns) : /\ x.turns = SystemTurn(c.system) \o spoken
                                         /\ c.system \in Seq(Texts)
  BY <1>1, <1>2, AnthropicTurnsAre
<1> DEFINE st == SystemTurn(c.system)
           speaking == Chosen(spoken, SpeakingTurns)
<1>4. /\ st \in Seq(SystemTurns) /\ st \in Seq(Turns) /\ spoken \in Seq(Turns)
      /\ spoken \in Seq(SpokenTurns) /\ x.turns \in Seq(Turns)
  <2>1. st \in Seq(SystemTurns) /\ st \in Seq(Turns)
    BY <1>3, SystemChosen, SystemTurnType
  <2> HIDE DEF st
  <2>2. spoken \in Seq(Turns)
    BY DEF SpokenTurns
  <2>3. x.turns \in Seq(Turns)
    BY DEF CanonicalRequests
  <2>4. QED
    BY <2>1, <2>2, <2>3
<1>5. Chosen(x.turns, SystemTurns) = st
  <2>1. SpokenTurns \cap SystemTurns = {}
    BY DEF SpokenTurns, SystemTurns
  <2>2. Chosen(spoken, SystemTurns) = <<>>
    BY <1>4, <2>1, ChosenNone
  <2>3. Chosen(st, SystemTurns) = st
    BY <1>4, ChosenAll
  <2> HIDE DEF st
  <2>4. Chosen(st \o spoken, SystemTurns) = Chosen(st, SystemTurns) \o Chosen(spoken, SystemTurns)
    BY <1>4, ChosenJoins
  <2>5. QED
    BY <1>3, <1>4, <2>2, <2>3, <2>4 DEF st
<1>6. Chosen(x.turns, SpeakingTurns) = speaking
  <2>1. SystemTurns \cap SpeakingTurns = {}
    BY DEF SpeakingTurns, SystemTurns
  <2>2. Chosen(st, SpeakingTurns) = <<>>
    BY <1>4, <2>1, ChosenNone
  <2>3. speaking \in Seq(Turns)
    <3>1. speaking \in Seq(Turns \cap SpeakingTurns)
      BY <1>4, ChosenType
    <3> HIDE DEF speaking
    <3>2. QED
      BY <3>1
  <2> HIDE DEF st, speaking
  <2>4. Chosen(st \o spoken, SpeakingTurns) = Chosen(st, SpeakingTurns) \o speaking
    BY <1>4, ChosenJoins DEF speaking
  <2>5. QED
    BY <1>3, <2>2, <2>3, <2>4 DEF st
<1>7. speaking \in Seq(SpeakingTurns) /\ speaking \in Seq(SpokenTurns) /\ speaking \in Seq(Turns)
  <2>1. speaking \in Seq(SpokenTurns \cap SpeakingTurns)
    BY <1>4, ChosenType
  <2>2. QED
    BY <2>1 DEF SpokenTurns
<1> HIDE DEF st, speaking
<1>8. body.system = <<TextsOf(st)>> /\ body.messages = Each(ContentOfTurn, speaking)
  <2>1. x.turns \in Seq(Turns)
    BY <1>4
  <2> DEFINE blank == ""
             system == <<TextsOf(st)>>
             tools == IF x.hasTools THEN x.tools ELSE <<>>
             thinking == IF x.hasReasoning THEN "default" ELSE "disabled"
             messages == Each(ContentOfTurn, speaking)
  <2>2. body = [protocol |-> "anthropic", header |-> blank, historical |-> again,
                model |-> x.model, stream |-> x.stream, session |-> x.session,
                system |-> system, tools |-> tools, choice |-> NoChoice,
                thinking |-> thinking, messages |-> messages]
    BY <2>1, <1>5, <1>6, AnthropicReplayIs, Zenon DEF TextsOf
  <2> HIDE DEF blank, system, tools, thinking, messages, body
  <2>3. body.system = system /\ body.messages = messages
    BY <2>2
  <2>4. QED
    BY <2>3 DEF system, messages
<1>9. body \in AnthropicBodies
  BY AnthropicReplayType
<1> HIDE DEF body
<1>10. Each(TurnOfContent, Each(ContentOfTurn, speaking)) = speaking
  <2> DEFINE contents == Each(ContentOfTurn, speaking)
  <2>1. Len(contents) = Len(speaking) /\ \A i \in 1..Len(speaking) : contents[i] = ContentOfTurn(speaking[i])
    BY <1>7 DEF Each
  <2>2. \A i \in 1..Len(speaking) : TurnOfContent(ContentOfTurn(speaking[i])) = speaking[i]
    BY <1>7, BlocksAgain
  <2> HIDE DEF contents
  <2>3. [i \in 1..Len(contents) |-> TurnOfContent(contents[i])] = [i \in 1..Len(speaking) |-> speaking[i]]
    BY <2>1, <2>2
  <2>4. speaking = [i \in 1..Len(speaking) |-> speaking[i]]
    BY <1>7
  <2>5. QED
    BY <2>3, <2>4 DEF Each, contents
<1>11. new.turns = SystemTurn(<<TextsOf(st)>>) \o speaking
  <2>1. body \in Bodies /\ Accepted(body)
    BY <1>9 DEF Bodies, body
  <2>2. new.turns = SystemTurn(body.system) \o Each(TurnOfContent, body.messages)
    BY <1>9, <2>1, CanonicalIs
  <2>3. QED
    BY <1>8, <1>10, <2>2
<1> HIDE DEF new
<1> DEFINE told == SystemTurn(<<TextsOf(st)>>)
<1>12. /\ TextsOf(st) \in Texts
       /\ ProjectTurns(told) = ProjectTurns(st)
       /\ MediaOf(told) = <<>> /\ MediaOf(st) = <<>>
  BY <1>3, SystemAgain DEF st
<1>13. told \in Seq(Turns)
  <2>1. <<TextsOf(st)>> \in Seq(Texts)
    BY <1>12
  <2>2. QED
    BY <2>1, SystemTurnType
<1> HIDE DEF told
<1>14. /\ ProjectTurns(speaking) = ProjectTurns(spoken)
       /\ MediaOf(speaking) = MediaOf(spoken)
  BY <1>4, SpokenAgain DEF speaking
<1>15. /\ ProjectTurns(told \o speaking) = ProjectTurns(told) \o ProjectTurns(speaking)
       /\ MediaOf(told \o speaking) = MediaOf(told) \o MediaOf(speaking)
  BY <1>7, <1>13, TurnsJoin
<1>16. /\ ProjectTurns(st \o spoken) = ProjectTurns(st) \o ProjectTurns(spoken)
       /\ MediaOf(st \o spoken) = MediaOf(st) \o MediaOf(spoken)
  BY <1>4, TurnsJoin
<1>17. ProjectTurns(new.turns) = ProjectTurns(x.turns)
  <2>1. new.turns = told \o speaking /\ x.turns = st \o spoken
    BY <1>3, <1>11 DEF told, st
  <2>2. QED
    BY <2>1, <1>12, <1>14, <1>15, <1>16
<1>18. MediaOf(new.turns) = MediaOf(x.turns)
  <2>1. new.turns = told \o speaking /\ x.turns = st \o spoken
    BY <1>3, <1>11 DEF told, st
  <2>2. QED
    BY <2>1, <1>12, <1>14, <1>15, <1>16
<1>19. QED
  BY <1>17, <1>18 DEF new, body

\* What a replay's canonical form says, whatever its protocol.
LEMMA BodyAgain ==
    ASSUME NEW x \in CanonicalRequests, FromBody(x), ~x.hasTools => x.tools = <<>>,
           NEW again \in BOOLEAN, Accepted(ReplayBody(x, again))
    PROVE  LET new == Canonical(ReplayBody(x, again))
           IN  /\ ProjectTurns(new.turns) = ProjectTurns(x.turns)
               /\ new.session = x.session
               /\ new.stream = x.stream
               /\ new.model = x.model
               /\ new.tools = x.tools
               /\ new.choice \in {x.choice, NoChoice}
               /\ new.protocol = x.protocol
               /\ x.protocol = "anthropic" =>
                    /\ new.hasReasoning = x.hasReasoning
                    /\ MediaOf(new.turns) = MediaOf(x.turns)
<1> DEFINE body == ReplayBody(x, again)
           new == Canonical(body)
<1>1. x.hasReasoning \in BOOLEAN /\ x.protocol \in {"openai", "anthropic"}
  BY DEF CanonicalRequests
<1>2. body \in Bodies
  BY OpenAIReplayType, AnthropicReplayType DEF ReplayBody, Bodies
<1>3. /\ body.protocol = x.protocol /\ body.header = "" /\ body.session = x.session
      /\ body.model = x.model /\ body.stream = x.stream
      /\ body.tools = IF x.hasTools THEN x.tools ELSE <<>>
      /\ body.choice \in {x.choice, NoChoice}
      /\ x.protocol = "anthropic" => body.thinking = IF x.hasReasoning THEN "default" ELSE "disabled"
  <2>1. CASE x.protocol = "anthropic"
    BY <2>1 DEF ReplayBody, AnthropicReplay
  <2>2. CASE x.protocol = "openai"
    BY <2>2 DEF ReplayBody, OpenAIReplay
  <2>3. QED
    BY <1>1, <2>1, <2>2
<1>4. body.tools = x.tools
  BY <1>3
<1>5. CASE x.protocol = "openai"
  <2>1. body = OpenAIReplay(x, again)
    BY <1>5 DEF ReplayBody
  <2>2. ProjectTurns(new.turns) = ProjectTurns(x.turns)
    BY <1>5, <2>1, OpenAIAgain
  <2> HIDE DEF body
  <2>3. /\ new.protocol = body.protocol /\ new.model = body.model /\ new.stream = body.stream
        /\ new.tools = body.tools /\ new.choice = body.choice
        /\ new.session = IF body.header # "" THEN body.header ELSE body.session
    BY <1>2, CanonicalIs DEF body
  <2> HIDE DEF new
  <2>4. QED
    BY <1>3, <1>4, <1>5, <2>2, <2>3 DEF new, body
<1>6. CASE x.protocol = "anthropic"
  <2>1. body = AnthropicReplay(x, again)
    BY <1>6 DEF ReplayBody
  <2>2. /\ ProjectTurns(new.turns) = ProjectTurns(x.turns)
        /\ MediaOf(new.turns) = MediaOf(x.turns)
    BY <1>6, <2>1, AnthropicAgain
  <2>3. body \in AnthropicBodies
    BY <2>1, AnthropicReplayType
  <2> HIDE DEF body
  <2>4. /\ new.protocol = body.protocol /\ new.model = body.model /\ new.stream = body.stream
        /\ new.tools = body.tools /\ new.choice = body.choice
        /\ new.session = IF body.header # "" THEN body.header ELSE body.session
        /\ new.hasReasoning = (body.thinking # "disabled")
    BY <1>2, <2>3, CanonicalIs DEF body
  <2> HIDE DEF new
  <2>5. new.hasReasoning = x.hasReasoning
    BY <1>1, <1>3, <1>6, <2>4
  <2>6. QED
    BY <1>3, <1>4, <1>6, <2>2, <2>4, <2>5 DEF new, body
<1>7. QED
  BY <1>1, <1>5, <1>6

LEMMA ReplayWhenEntered == PathTypes /\ FlowInv /\ OriginInv => ReplayIsFaithful
<1> SUFFICES ASSUME PathTypes, FlowInv, OriginInv, NEW q \in Reqs,
                    origin[q] # Nothing, pre[q] # Nothing
             PROVE  LET r == origin[q]
                        recorded == IF q \in historical THEN post[r] ELSE pre[r]
                    IN  /\ ProjectTurns(pre[q].turns) = ProjectTurns(recorded.turns)
                        /\ pre[q].session = recorded.session
                        /\ pre[q].stream = recorded.stream
                        /\ pre[q].model = recorded.model
                        /\ pre[q].tools = recorded.tools
                        /\ pre[q].choice \in {recorded.choice, NoChoice}
                        /\ pre[q].protocol = "anthropic" =>
                             /\ pre[q].hasReasoning = recorded.hasReasoning
                             /\ MediaOf(pre[q].turns) = MediaOf(recorded.turns)
                        /\ q \in historical /\ sent[q] # Nothing =>
                             sent[q].key = sent[r].key /\ sent[q].tools = sent[r].tools
  BY DEF ReplayIsFaithful
<1> DEFINE r == origin[q]
           recorded == IF q \in historical THEN post[r] ELSE pre[r]
           again == q \in historical
<1>1. r \in Reqs /\ pc[r] = "done"
  BY OriginIsDone DEF PathTypes
<1>2. recorded \in CanonicalRequests /\ FromBody(recorded) /\ (~recorded.hasTools => recorded.tools = <<>>)
  <2>1. recorded \in {pre[r], post[r]}
    OBVIOUS
  <2> HIDE DEF recorded, r
  <2>2. QED
    BY <1>1, <2>1, RecordedIs
<1>3. Accepted(ReplayBody(recorded, again)) /\ pre[q] = Canonical(ReplayBody(recorded, again))
  BY DEF FlowInv, Flow, Replayed
<1>4. q \in historical => recorded = post[r]
  OBVIOUS
<1>5. again \in BOOLEAN
  OBVIOUS
<1> HIDE DEF recorded, again
<1>6. /\ ProjectTurns(pre[q].turns) = ProjectTurns(recorded.turns)
      /\ pre[q].session = recorded.session
      /\ pre[q].stream = recorded.stream
      /\ pre[q].model = recorded.model
      /\ pre[q].tools = recorded.tools
      /\ pre[q].choice \in {recorded.choice, NoChoice}
      /\ pre[q].protocol = recorded.protocol
      /\ recorded.protocol = "anthropic" =>
           /\ pre[q].hasReasoning = recorded.hasReasoning
           /\ MediaOf(pre[q].turns) = MediaOf(recorded.turns)
  BY <1>2, <1>3, <1>5, BodyAgain
<1>7. ASSUME NEW p \in Reqs, pc[p] \in {"sent", "done"}
      PROVE  sent[p].key = ResolveChatModel(post[p].model) /\ sent[p].tools = post[p].tools
  <2>1. Extended(post[p], merged[p]) /\ sent[p] = AsBuilt(merged[p])
    BY <1>7 DEF FlowInv, Flow
  <2>2. /\ sent[p].key = ResolveChatModel(merged[p].model)
        /\ sent[p].tools = merged[p].tools
    BY <2>1 DEF AsBuilt, BuildCanonical
  <2>3. QED
    BY <2>1, <2>2 DEF Extended
<1>8. ASSUME q \in historical, sent[q] # Nothing
      PROVE  sent[q].key = sent[r].key /\ sent[q].tools = sent[r].tools
  <2>1. pc[q] \in {"sent", "done"}
    BY <1>8 DEF PathTypes, RequestTypes, StageTypes
  <2>2. post[q] = pre[q]
    BY <1>8, <2>1 DEF FlowInv, Flow, Judged
  <2>3. /\ sent[q].key = ResolveChatModel(post[q].model) /\ sent[q].tools = post[q].tools
        /\ sent[r].key = ResolveChatModel(post[r].model) /\ sent[r].tools = post[r].tools
    BY <1>1, <1>7, <2>1
  <2>4. pre[q].model = post[r].model /\ pre[q].tools = post[r].tools
    BY <1>4, <1>6, <1>8
  <2>5. QED
    BY <2>2, <2>3, <2>4
<1>9. QED
  BY <1>6, <1>8 DEF recorded, again

(***************************************************************************)
(* A replay asks for what the record says (handleAdminLogsReplay and the   *)
(* projections that make its body, read again by the handlers), whatever   *)
(* the recorded conversation was.                                          *)
(***************************************************************************)
THEOREM ReplayIsFaithfulAlways == Spec => []ReplayIsFaithful
  BY TypesHold, FlowHolds, OriginsHold, ReplayWhenEntered, PTL

=============================================================================
