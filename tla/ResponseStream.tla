---------------------------- MODULE ResponseStream ----------------------------
(***************************************************************************)
(* How the two streaming endpoints translate the upstream's events for     *)
(* their clients: streamChatResponse (internal/api/server.go), which       *)
(* collects the fragments of each tool call and emits it whole, and        *)
(* streamAnthropicResponse (internal/api/anthropic_handler.go), which      *)
(* passes the fragments on in content blocks.  This is the detail of the   *)
(* step ReadStream of ChatPipeline.                                        *)
(*                                                                         *)
(* The loops over a map or a list of fragments take one step for each      *)
(* element; nothing else runs on the state of a request.                   *)
(***************************************************************************)
EXTENDS UpstreamStream

VARIABLES
    endpoint,    \* "chat" or "messages"
    pc,          \* where the handler is
    pending,     \* pendingTCs of a chat stream
    blockIndex,  \* blockIndex + 1 of a messages stream, the number of blocks begun
    blockType,   \* blockType, "none" unless blockStarted
    hasToolUse,  \* hasToolUse
    out          \* what was written to the client

chatVars == <<pending>>
blockVars == <<blockIndex, blockType, hasToolUse>>
vars == <<streamVars, endpoint, pc, chatVars, blockVars, out>>

\* Positions of an event's text (in place of a fragment's number), and no position.
None == <<0, 0>>
Position == Nat \X Nat

Call == [head : Position, args : Seq(Position)]
NoCall == [head |-> None, args |-> <<None>>]

BlockTypes == {"thinking", "text", "tool_use"}

Chunk ==
    [kind : {"text"}, at : Nat]
    \cup [kind : {"call"}, call : Call]
    \cup [kind : {"start"}, index : Nat \ {0}, type : BlockTypes, head : Position]
    \cup [kind : {"delta"}, index : Nat, type : BlockTypes, at : Position]
    \cup [kind : {"stop"}, index : Nat \ {0}]
    \cup [kind : {"end"}, reason : {"stop", "end_turn", "tool_use"}]
    \cup [kind : {"error"}]

TypeOK ==
    /\ upstream \in Seq(Events)
    /\ next \in Nat \ {0}
    /\ endpoint \in {"chat", "messages"}
    /\ pc \in {"read", "flush", "fragments", "finish", "done", "failed"}
    /\ pending \in [Indexes -> Call]
    /\ blockIndex \in Nat
    /\ blockType \in BlockTypes \cup {"none"}
    /\ hasToolUse \in BOOLEAN
    /\ out \in Seq(Chunk)

Init ==
    /\ StreamInit
    /\ endpoint \in {"chat", "messages"}
    /\ pc = "read"
    /\ pending = [i \in Indexes |-> NoCall]
    /\ blockIndex = 0
    /\ blockType = "none"
    /\ hasToolUse = FALSE
    /\ out = <<>>

Write(chunks) == out' = out \o chunks

\* The event whose fragments are handled, and the one the loop is at.
Current == upstream[Len(upstream)]
Here == <<Len(upstream), next>>

-----------------------------------------------------------------------------
(***************************************************************************)
(* streamChatResponse.                                                     *)
(***************************************************************************)
ChatContentAtOnce(e) == \* mutant: text does not wait for the calls before it
    /\ endpoint = "chat" /\ pc = "read"
    /\ e.content
    /\ Receive(e)
    /\ next' = Len(e.calls) + 1
    /\ Write(<<[kind |-> "text", at |-> Len(upstream) + 1]>>)
    /\ UNCHANGED <<endpoint, pc, pending, blockVars>>

\* Text: pending calls first.  The event's tool calls are not looked at.
ChatContent(e) ==
    /\ endpoint = "chat" /\ pc = "read"
    /\ e.content
    /\ Receive(e)
    /\ next' = Len(e.calls) + 1
    /\ pc' = "flush"
    /\ UNCHANGED <<endpoint, pending, blockVars, out>>

\* No text: reasoning is not passed on, fragments are.
ChatFragments(e) ==
    /\ endpoint = "chat" /\ pc = "read"
    /\ ~e.content
    /\ Receive(e)
    /\ next' = 1
    /\ pc' = IF e.calls = <<>> THEN "read" ELSE "fragments"
    /\ UNCHANGED <<endpoint, pending, blockVars, out>>

\* emitPending, for one entry of the map, in any order.
EmitPending(i) ==
    /\ endpoint = "chat" /\ pc \in {"flush", "finish"}
    /\ pending[i] # NoCall
    /\ Write(<<[kind |-> "call", call |-> pending[i]]>>)
    /\ pending' = [pending EXCEPT ![i] = NoCall]
    /\ UNCHANGED <<streamVars, endpoint, pc, blockVars>>

NonePending == \A i \in Indexes : pending[i] = NoCall

\* The text, once the calls before it are out.
WriteContent ==
    /\ endpoint = "chat" /\ pc = "flush"
    /\ NonePending
    /\ Write(<<[kind |-> "text", at |-> Len(upstream)]>>)
    /\ pc' = "read"
    /\ UNCHANGED <<streamVars, endpoint, pending, blockVars>>

Part(f) == IF f.args THEN <<Here>> ELSE <<>>

\* The loop goes on to the next fragment, or to the next line.
Advance ==
    /\ next' = next + 1
    /\ pc' = IF next = Len(Current.calls) THEN "read" ELSE "fragments"
    /\ UNCHANGED <<upstream, endpoint>>

ChatFragmentOverwrites == \* mutant: a new call drops the one before it at its index
    LET f == Current.calls[next]
        i == f.index
    IN  /\ endpoint = "chat" /\ pc = "fragments"
        /\ IF ~f.head /\ pending[i] # NoCall
           THEN pending' = [pending EXCEPT ![i].args = @ \o Part(f)]
           ELSE pending' = [pending EXCEPT ![i] =
                              [head |-> IF f.head THEN Here ELSE None, args |-> Part(f)]]
        /\ UNCHANGED out
        /\ Advance
        /\ UNCHANGED blockVars

\* A fragment continues the pending call of its index, or begins one after emitting that.
ChatFragment ==
    LET f == Current.calls[next]
        i == f.index
    IN  /\ endpoint = "chat" /\ pc = "fragments"
        /\ IF ~f.head /\ pending[i] # NoCall
           THEN /\ pending' = [pending EXCEPT ![i].args = @ \o Part(f)]
                /\ UNCHANGED out
           ELSE /\ pending' = [pending EXCEPT ![i] =
                                 [head |-> IF f.head THEN Here ELSE None, args |-> Part(f)]]
                /\ Write(IF pending[i] = NoCall THEN <<>>
                         ELSE <<[kind |-> "call", call |-> pending[i]]>>)
        /\ Advance
        /\ UNCHANGED blockVars

\* [DONE], or the end of the stream without it.
ChatEnd ==
    /\ endpoint = "chat" /\ pc = "read"
    /\ pc' = "finish"
    /\ UNCHANGED <<streamVars, endpoint, pending, blockVars, out>>

ChatFinishDropsCalls == \* mutant: what is pending at the end is forgotten
    /\ endpoint = "chat" /\ pc = "finish"
    /\ Write(<<[kind |-> "end", reason |-> "stop"]>>)
    /\ pc' = "done"
    /\ UNCHANGED <<streamVars, endpoint, pending, blockVars>>

\* The rest of the calls is out; finish_reason is "stop" in any case.
ChatFinish ==
    /\ endpoint = "chat" /\ pc = "finish"
    /\ NonePending
    /\ Write(<<[kind |-> "end", reason |-> "stop"]>>)
    /\ pc' = "done"
    /\ UNCHANGED <<streamVars, endpoint, pending, blockVars>>

-----------------------------------------------------------------------------
(***************************************************************************)
(* streamAnthropicResponse.                                                *)
(***************************************************************************)
Stop == [kind |-> "stop", index |-> blockIndex]

CloseUnstarted == <<Stop>> \* mutant: no block need be open

CloseBlock == IF blockType = "none" THEN <<>> ELSE <<Stop>>

DeltaInAnyBlock(type) == \* mutant: any open block will do
    LET at == <<Len(upstream) + 1, 0>>
        opens == blockType = "none"
        index == IF opens THEN blockIndex + 1 ELSE blockIndex
    IN  /\ blockIndex' = index
        /\ blockType' = IF opens THEN type ELSE blockType
        /\ Write((IF opens THEN <<[kind |-> "start", index |-> index, type |-> type, head |-> None]>>
                           ELSE <<>>)
                 \o <<[kind |-> "delta", index |-> index, type |-> type, at |-> at]>>)

\* A delta of text or thinking, in a block of its type.
DeltaInBlock(type) ==
    LET at == <<Len(upstream) + 1, 0>>
        opens == blockType # type
        index == IF opens THEN blockIndex + 1 ELSE blockIndex
    IN  /\ blockIndex' = index
        /\ blockType' = type
        /\ Write((IF opens THEN CloseBlock \o <<[kind |-> "start", index |-> index, type |-> type, head |-> None]>>
                           ELSE <<>>)
                 \o <<[kind |-> "delta", index |-> index, type |-> type, at |-> at]>>)

\* Reasoning comes first: the event's text and tool calls are not looked at.
MessageText(e) ==
    /\ endpoint = "messages" /\ pc = "read"
    /\ e.reasoning \/ e.content
    /\ Receive(e)
    /\ next' = Len(e.calls) + 1
    /\ DeltaInBlock(IF e.reasoning THEN "thinking" ELSE "text")
    /\ UNCHANGED <<endpoint, pc, pending, hasToolUse>>

MessageFragments(e) ==
    /\ endpoint = "messages" /\ pc = "read"
    /\ ~e.reasoning /\ ~e.content
    /\ Receive(e)
    /\ next' = 1
    /\ pc' = IF e.calls = <<>> THEN "read" ELSE "fragments"
    /\ UNCHANGED <<endpoint, pending, blockVars, out>>

\* A head opens a block; arguments go to the last block that was opened, whatever it is.
MessageFragment ==
    LET f == Current.calls[next]
        index == IF f.head THEN blockIndex + 1 ELSE blockIndex
    IN  /\ endpoint = "messages" /\ pc = "fragments"
        /\ blockIndex' = index
        /\ blockType' = IF f.head THEN "tool_use" ELSE blockType
        /\ hasToolUse' = (hasToolUse \/ f.head)
        /\ Write((IF f.head THEN CloseBlock \o <<[kind |-> "start", index |-> index, type |-> "tool_use", head |-> Here]>>
                            ELSE <<>>)
                 \o (IF f.args THEN <<[kind |-> "delta", index |-> index, type |-> "tool_use", at |-> Here]>>
                               ELSE <<>>))
        /\ Advance
        /\ UNCHANGED pending

MessageEnd ==
    /\ endpoint = "messages" /\ pc = "read"
    /\ pc' = "done"
    /\ blockType' = "none"
    /\ Write(CloseBlock \o <<[kind |-> "end", reason |-> IF hasToolUse THEN "tool_use" ELSE "end_turn"]>>)
    /\ UNCHANGED <<streamVars, endpoint, pending, blockIndex, hasToolUse>>

(***************************************************************************)
(* Reading fails: a line that is no event, a status of 400 or more, the    *)
(* connection.  Writing fails only when the client has left, which nobody  *)
(* sees: that chat streams then stop at once is left out.                  *)
(***************************************************************************)
Fail ==
    /\ pc = "read"
    /\ pc' = "failed"
    /\ blockType' = "none"
    /\ Write(CloseBlock \o <<[kind |-> "error"]>>)
    /\ UNCHANGED <<streamVars, endpoint, pending, blockIndex, hasToolUse>>

-----------------------------------------------------------------------------
Next ==
    \/ \E e \in Events : \/ ChatContent(e)
                         \/ ChatFragments(e)
                         \/ MessageText(e)
                         \/ MessageFragments(e)
    \/ \E i \in Indexes : EmitPending(i)
    \/ WriteContent
    \/ ChatFragment
    \/ ChatEnd
    \/ ChatFinish
    \/ MessageFragment
    \/ MessageEnd
    \/ Fail

Spec == Init /\ [][Next]_vars

-----------------------------------------------------------------------------
ElementsOf(s) == {s[i] : i \in 1..Len(s)}

Written(kind) == {i \in 1..Len(out) : out[i].kind = kind}

AsMeant(c) == [head |-> c.head, args |-> ElementsOf(c.args)]

CallsWritten == {AsMeant(out[i].call) : i \in Written("call")}

\* Calls that are begun and not emitted.
CallsPending == {AsMeant(pending[i]) : i \in {i \in Indexes : pending[i] # NoCall}}

\* What a client of the messages stream puts together: a call for each tool_use block.
CallsInBlocks ==
    {[head |-> out[i].head,
      args |-> {out[j].at : j \in {j \in Written("delta") : out[j].index = out[i].index}}] :
        i \in {i \in Written("start") : out[i].type = "tool_use"}}

(***************************************************************************)
(* A chat client never gets half a call or a call twice, and gets all of   *)
(* them by the end: also when the upstream sends several at once, uses an  *)
(* index again, or goes on with text after a call.                         *)
(***************************************************************************)
CallsAreWhole ==
    endpoint = "chat" /\ Orderly =>
        /\ CallsWritten \cup CallsPending = CallsMeant
        /\ CallsWritten \cap CallsPending = {}
        /\ \A i, j \in Written("call") : out[i].call = out[j].call => i = j
        /\ pc = "done" => CallsPending = {}

(***************************************************************************)
(* Whatever the upstream sends, no part of the arguments is lost, doubled  *)
(* or moved before an earlier part of its call, and no call has parts of   *)
(* two indexes; only events that also have text lose their calls.          *)
(***************************************************************************)
EveryPartOnce ==
    LET calls == {out[i].call : i \in Written("call")} \cup ({pending[i] : i \in Indexes} \ {NoCall})
        read == {p \in Positions : FragmentAt(p).args /\ ~upstream[p[1]].content}
    IN  endpoint = "chat" =>
        /\ UNION {ElementsOf(c.args) : c \in calls} = read
        /\ \A c, d \in calls : ElementsOf(c.args) \cap ElementsOf(d.args) # {} => c = d
        /\ \A c \in calls : \A i, j \in 1..Len(c.args) :
             i < j => /\ Before(c.args[i], c.args[j])
                      /\ FragmentAt(c.args[i]).index = FragmentAt(c.args[j]).index

(***************************************************************************)
(* "When content arrives, flush any pending tool calls first": a chat      *)
(* client sees no call after a text that the upstream sent later.          *)
(***************************************************************************)
TextAfterItsCalls ==
    \A i \in Written("text"), j \in Written("call") :
        i < j => \A p \in ElementsOf(out[j].call.args) : out[i].at < p[1]

(***************************************************************************)
(* A messages stream is a list of blocks with consecutive numbers, each    *)
(* begun after the one before it was ended, and none left open when the    *)
(* stream ends, also by an error, which is the last thing sent.  A delta   *)
(* lies in the open block, and in one of its type if the upstream is       *)
(* orderly.                                                                *)
(***************************************************************************)
BlocksNest ==
    LET open(i) == Cardinality({j \in Written("start") : j < i})
        closed(i) == Cardinality({j \in Written("stop") : j < i})
        closing == pc \in {"done", "failed"}
    IN  endpoint = "messages" =>
        /\ \A i \in Written("start") : out[i].index = open(i) + 1 /\ closed(i) = open(i)
        /\ \A i \in Written("stop") : out[i].index = open(i) /\ closed(i) = open(i) - 1
        /\ closing => /\ closed(Len(out)) = open(Len(out))
                      /\ Written("end") \cup Written("error") = {Len(out)}
        /\ Orderly => \A i \in Written("delta") :
             /\ closed(i) = open(i) - 1
             /\ \E j \in Written("start") :
                  j < i /\ out[j].index = out[i].index /\ out[j].type = out[i].type

(***************************************************************************)
(* The two streams and the messages endpoint without streaming give a      *)
(* client the same calls: those that the chat stream emits and those that  *)
(* the blocks of the messages stream spell are those that                  *)
(* mergeToolCallDeltas finds, if calls come one after another under        *)
(* indexes of their own.  (Calls that the upstream sends in turns are      *)
(* mixed by the blocks, and the chat endpoint without streaming drops all  *)
(* of them; nothing is said of either.)                                    *)
(***************************************************************************)
EndpointsAgree ==
    pc = "done" /\ Sequential /\ Indexed =>
        IF endpoint = "chat" THEN CallsWritten = MergeToolCallDeltas
                             ELSE /\ CallsInBlocks = MergeToolCallDeltas
                                  /\ hasToolUse = (MergeToolCallDeltas # {})

=============================================================================
