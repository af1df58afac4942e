------------------------------- MODULE MessageIR -------------------------------
(***************************************************************************)
(* The provider-neutral form of a chat request (internal/proxy/            *)
(* message_ir.go): how a request of either protocol becomes turns of       *)
(* typed blocks, and how turns become the messages of the upstream's       *)
(* request (body.go), or of a replay (internal/api/admin_logs_view.go).    *)
(*                                                                         *)
(* A text is a sequence of pieces, so that concatenation can be told from  *)
(* loss, and the empty text is <<>>; the separators that the code puts     *)
(* between pieces are left out.  A call has an id and a name, its          *)
(* arguments go with it.  The source of an image or a document has a kind, *)
(* says whether its media type is allowed, and has a size, in units of     *)
(* 256 KB, and data, base64 or a URL, which is one piece where it becomes  *)
(* text.  Names of participants, schemas of tools, temperature and the     *)
(* fixed fields of the body are left out.                                  *)
(***************************************************************************)
EXTENDS Naturals, Sequences, SequencesExt

CONSTANT Words  \* the pieces of texts, and the strings that are names, ids and types

Roles == {"system", "user", "assistant", "tool"}

ASSUME WordsAssumption ==
    Roles \cup {"", "text", "[thinking]", "[/thinking]", "[document]"} \subseteq Words

\* What texts, calls and sources are in both protocols.
Texts == Seq(Words)
ToolCalls == [id : Words, name : Words]
Sources == [kind : Words, allowed : BOOLEAN, size : Nat, data : Words]

NoData == ""

Each(Op(_), s) == [i \in 1..Len(s) |-> Op(s[i])]
Gather(Op(_), s) == FlattenSeq(Each(Op, s))

\* The elements of s that pass the test, in their order.
Those(Test(_), s) == Gather(LAMBDA x : IF Test(x) THEN <<x>> ELSE <<>>, s)

\* Blocks of a canonical turn.
Text(s) == [type |-> "text", text |-> s]
Reasoning(s) == [type |-> "reasoning", text |-> s]
Call(c) == [type |-> "tool_call", call |-> c]
Result(id, s) == [type |-> "tool_result", id |-> id, text |-> s]
Media(kind, src) == [type |-> kind, source |-> src]

Blocks ==
    [type : {"text", "reasoning"}, text : Texts]
    \cup [type : {"tool_call"}, call : ToolCalls]
    \cup [type : {"tool_result"}, id : Words, text : Texts]
    \cup [type : {"image", "document"}, source : Sources]

Turns == [role : Roles, blocks : Seq(Blocks)]

CanonicalRequests ==
    [protocol : {"openai", "anthropic"},
     model : Words, stream : BOOLEAN, session : Words,
     tools : Seq(Words), choice : Words,
     hasTools : BOOLEAN, hasReasoning : BOOLEAN, tags : Seq(Words),
     turns : Seq(Turns)]

IsMedia(b) == b.type \in {"image", "document"}

\* A message in OpenAI's form; ToolCalls is an empty sequence where there are none.
Message(role, text, calls, id) ==
    [role |-> role, text |-> text, parts |-> <<>>, calls |-> calls, id |-> id]

NoChoice == ""

-----------------------------------------------------------------------------
(***************************************************************************)
(* Requests to /v1/chat/completions, with their headers X-Session-Id and   *)
(* X-Replay-Mode.                                                          *)
(***************************************************************************)
Parts ==
    [type : {"text"}, text : Texts]
    \cup [type : {"image_url"}, source : Sources]
    \cup [type : Words \ {"text", "image_url"}]

Messages ==
    [role : Words, text : Texts, parts : Seq(Parts), calls : Seq(ToolCalls), id : Words]

OpenAIBodies ==
    [protocol : {"openai"}, header : Words, historical : BOOLEAN,
     model : Words, stream : BOOLEAN, session : Words,
     tools : Seq(Words), choice : Words, messages : Seq(Messages)]

\* Message.UnmarshalJSON: content is a string or an array of parts.
MalformedParts(parts) ==
    \E i \in DOMAIN parts : parts[i].type \notin {"text", "image_url"}

PartText(p) == IF p.type = "text" THEN p.text ELSE <<>>

Decoded(m) == IF m.parts = <<>> THEN m ELSE [m EXCEPT !.text = Gather(PartText, m.parts)]

\* validateChatRequest: what it refuses, and the calls without a name that it removes.
Named(c) == c.name # ""

WithNamedCalls(messages) ==
    LET Strip(m) == IF m.role = "assistant"
                    THEN [m EXCEPT !.calls = Those(Named, @)]
                    ELSE m
    IN  Each(Strip, messages)

Acceptable(m) ==
    CASE m.role \in {"system", "user"} -> m.text # <<>> \/ m.parts # <<>>
      [] m.role = "assistant" -> m.text # <<>> \/ Those(Named, m.calls) # <<>>
      [] m.role = "tool" -> m.id # ""
      [] OTHER -> FALSE

ValidChat(messages) ==
    /\ messages # <<>>
    /\ \A i \in DOMAIN messages : Acceptable(messages[i])

\* A URL that is not empty, or base64 data, which may be.
Given(s) == s.kind = "base64" \/ (s.kind = "url" /\ s.data # NoData)

\* parseOpenAIImageURL: base64 data or http(s); the media type is looked at later.
ParsableURL(p) == p.type = "image_url" => Given(p.source)

ParsableImages(messages) ==
    \A i \in DOMAIN messages :
        messages[i].role \in {"system", "user"} =>
            \A j \in DOMAIN messages[i].parts : ParsableURL(messages[i].parts[j])

PartBlock(p) ==
    CASE p.type = "text" /\ p.text = <<>> -> <<>>
      [] p.type = "text" -> <<Text(p.text)>>
      [] OTHER -> <<Media("image", p.source)>>

TextBlock(s) == IF s = <<>> THEN <<>> ELSE <<Text(s)>>

\* The loop of CanonicalizeOpenAIRequest.
TurnOfMessage(m) ==
    [role |-> m.role,
     blocks |-> CASE m.role \in {"system", "user"} ->
                       IF m.parts # <<>> THEN Gather(PartBlock, m.parts) ELSE TextBlock(m.text)
                  [] m.role = "assistant" -> TextBlock(m.text) \o Each(Call, m.calls)
                  [] m.role = "tool" -> <<Result(m.id, m.text)>>]

CanonicalizeOpenAIRequest(c) ==
    [protocol |-> "openai",
     model |-> c.model, stream |-> c.stream, session |-> c.session,
     tools |-> c.tools, choice |-> c.choice,
     hasTools |-> c.tools # <<>>,
     hasReasoning |-> FALSE,  \* Reasoning is not read from the body
     tags |-> <<>>,
     turns |-> Each(TurnOfMessage, c.messages)]

-----------------------------------------------------------------------------
(***************************************************************************)
(* Requests to /v1/messages, with the same headers.                        *)
(***************************************************************************)
ContentTypes == {"text", "thinking", "tool_use", "tool_result", "image", "document"}

Contents ==
    [type : {"text", "thinking"}, text : Texts]
    \cup [type : {"tool_use"}, call : ToolCalls]
    \cup [type : {"tool_result"}, id : Words, text : Texts]
    \cup [type : {"image", "document"}, source : Sources]
    \cup [type : Words \ ContentTypes]

AnthropicMessages == [role : Words, content : Seq(Contents)]

AnthropicBodies ==
    [protocol : {"anthropic"}, header : Words, historical : BOOLEAN,
     model : Words, stream : BOOLEAN, session : Words, system : Seq(Texts),
     tools : Seq(Words), choice : Words, thinking : {"default", "disabled"},
     messages : Seq(AnthropicMessages)]

\* The block that canonicalizeAnthropicTurn makes of a content block, if it knows its type.
BlockOfContent(b) ==
    CASE b.type = "text" -> <<Text(b.text)>>
      [] b.type = "thinking" -> <<Reasoning(b.text)>>
      [] b.type = "tool_use" -> <<Call(b.call)>>
      [] b.type = "tool_result" -> <<Result(b.id, b.text)>>
      [] b.type \in {"image", "document"} -> <<Media(b.type, b.source)>>
      [] OTHER -> <<>>

TurnOfContent(m) == [role |-> m.role, blocks |-> Gather(BlockOfContent, m.content)]

\* canonicalSystemTurn: a turn of the texts that are not empty, or none.
SystemTurn(texts) ==
    LET blocks == Gather(TextBlock, texts)
    IN  IF blocks = <<>> THEN <<>> ELSE <<[role |-> "system", blocks |-> blocks]>>

KnownRoles(messages) ==
    \A i \in DOMAIN messages : messages[i].role \in {"user", "assistant"}

CanonicalizeAnthropicRequest(c) ==
    [protocol |-> "anthropic",
     model |-> c.model, stream |-> c.stream, session |-> c.session,
     tools |-> c.tools, choice |-> c.choice,
     hasTools |-> c.tools # <<>>,
     hasReasoning |-> c.thinking # "disabled",
     tags |-> <<>>,
     turns |-> SystemTurn(c.system) \o Each(TurnOfContent, c.messages)]

-----------------------------------------------------------------------------
(***************************************************************************)
(* ValidateVisionLimits: the number, media types and sizes of a request's  *)
(* images and documents; sources of other kinds than base64 and url, and   *)
(* empty URLs, are refused.                                                *)
(***************************************************************************)
MaxImages == 4
MaxImageSize == 20  \* 5 MB
MaxTotalSize == 40  \* 10 MB

MediaOf(turns) ==
    LET SourcesIn(t) == Each(LAMBDA b : b.source, Those(IsMedia, t.blocks))
    IN  Gather(SourcesIn, turns)

AllowedSource(s) ==
    /\ Given(s)
    /\ s.kind = "base64" => s.allowed /\ s.size <= MaxImageSize

NumberWithinLimits(turns) == \* mutant: sources are only counted
    Len(MediaOf(turns)) <= MaxImages

TotalSize(sources) ==
    FoldLeft(LAMBDA n, s : IF s.kind = "base64" THEN n + s.size ELSE n, 0, sources)

WithinVisionLimits(turns) ==
    LET sources == MediaOf(turns)
    IN  /\ Len(sources) <= MaxImages
        /\ \A i \in DOMAIN sources : AllowedSource(sources[i])
        /\ TotalSize(sources) <= MaxTotalSize

-----------------------------------------------------------------------------
(***************************************************************************)
(* Projection of turns to messages.                                        *)
(***************************************************************************)

\* mediaBlockToText: the data of a document, as a data URI and cut at 256 KB, if it has any.
DocumentText(s) == IF s.data = NoData THEN "[document]" ELSE s.data

\* What a block adds to the text of its message.
InlineText(b) ==
    CASE b.type = "text" -> b.text
      [] b.type = "reasoning" -> <<"[thinking]">> \o b.text \o <<"[/thinking]">>
      [] b.type = "document" -> <<DocumentText(b.source)>>
      [] OTHER -> <<>>

\* A tool result in a turn of the assistant is text as well.
AssistantText(b) == IF b.type = "tool_result" THEN b.text ELSE InlineText(b)

IsCall(b) == b.type = "tool_call"
IsResult(b) == b.type = "tool_result"

ResultMessage(b) == Message("tool", b.text, <<>>, b.id)

ProjectWithoutFlush(turn) == \* mutant: the text before a tool result is sent after it
    LET Step(acc, b) ==
            IF IsResult(b)
            THEN [acc EXCEPT !.out = Append(@, ResultMessage(b))]
            ELSE [acc EXCEPT !.text = @ \o InlineText(b)]
        end == FoldLeft(Step, [out |-> <<>>, text |-> <<>>], turn.blocks)
    IN  end.out \o (IF end.text = <<>> THEN <<>>
                    ELSE <<Message(turn.role, end.text, <<>>, "")>>)

\* flush: the text that was collected becomes a message, if there is any.
Flushed(acc, role) ==
    IF acc.text = <<>> THEN acc.out ELSE Append(acc.out, Message(role, acc.text, <<>>, ""))

ReadBlock(acc, b, role) ==
    IF IsResult(b)
    THEN [out |-> Append(Flushed(acc, role), ResultMessage(b)), text |-> <<>>]
    ELSE [out |-> acc.out, text |-> acc.text \o InlineText(b)]

\* projectCanonicalUserLikeTurn: text is collected until a tool result comes.
ProjectUserLikeTurn(turn) ==
    LET read[n \in 0..Len(turn.blocks)] ==
          IF n = 0 THEN [out |-> <<>>, text |-> <<>>]
          ELSE ReadBlock(read[n - 1], turn.blocks[n], turn.role)
    IN  Flushed(read[Len(turn.blocks)], turn.role)

ProjectAssistantTurn(turn) ==
    LET text == Gather(AssistantText, turn.blocks)
        calls == Each(LAMBDA b : b.call, Those(IsCall, turn.blocks))
    IN  IF text = <<>> /\ calls = <<>> THEN <<>>
        ELSE <<Message("assistant", text, calls, "")>>

ProjectTurn(turn) ==
    CASE turn.role \in {"system", "user"} -> ProjectUserLikeTurn(turn)
      [] turn.role = "assistant" -> ProjectAssistantTurn(turn)
      [] turn.role = "tool" -> Each(ResultMessage, Those(IsResult, turn.blocks))

ProjectTurns(turns) == Gather(ProjectTurn, turns)

(***************************************************************************)
(* BuildCanonical: the messages are projected from the turns again, and    *)
(* all images are given to the last message of the user, if there is one.  *)
(* A tool choice is sent even if there are no tools.                       *)
(***************************************************************************)
BuildCanonical(req, images, key) ==
    LET messages == ProjectTurns(req.turns)
    IN  [key |-> key,
         reasoning |-> req.hasReasoning,
         tools |-> req.tools,
         choice |-> req.choice,
         messages |-> messages,
         images |-> images,
         imagesAt |-> IF images = <<>> THEN 0
                      ELSE SelectLastInSeq(messages, LAMBDA m : m.role = "user")]

-----------------------------------------------------------------------------
(***************************************************************************)
(* The body of a replay: the recorded request in the form its client used, *)
(* as far as that form and the code can say it, with its headers.          *)
(***************************************************************************)

\* ProjectCanonicalToOpenAIRequest: parts, and with them images, are not in its JSON.
OpenAIReplay(req, historical) ==
    [protocol |-> "openai", header |-> "", historical |-> historical,
     model |-> req.model, stream |-> req.stream, session |-> req.session,
     tools |-> IF req.hasTools THEN req.tools ELSE <<>>,
     choice |-> IF req.hasTools THEN req.choice ELSE NoChoice,
     messages |-> ProjectTurns(req.turns)]

\* canonicalTurnToAnthropicBlocks.
ContentOfBlock(b) ==
    CASE b.type = "reasoning" -> [type |-> "thinking", text |-> b.text]
      [] b.type = "tool_call" -> [type |-> "tool_use", call |-> b.call]
      [] OTHER -> b

ContentOfTurn(t) == [role |-> t.role, content |-> Each(ContentOfBlock, t.blocks)]

\* marshalAnthropicReplayBodyFromCanonical: no tool choice, and one system text.
AnthropicReplay(req, historical) ==
    LET Speaks(t) == t.role \in {"user", "assistant"} /\ t.blocks # <<>>
        IsSystem(t) == t.role = "system"
        SystemText(t) == Gather(LAMBDA b : IF b.type = "text" THEN b.text ELSE <<>>, t.blocks)
    IN  [protocol |-> "anthropic", header |-> "", historical |-> historical,
         model |-> req.model, stream |-> req.stream, session |-> req.session,
         system |-> <<Gather(SystemText, Those(IsSystem, req.turns))>>,
         tools |-> IF req.hasTools THEN req.tools ELSE <<>>,
         choice |-> NoChoice,
         thinking |-> IF req.hasReasoning THEN "default" ELSE "disabled",
         messages |-> Each(ContentOfTurn, Those(Speaks, req.turns))]

ReplayBody(req, historical) ==
    IF req.protocol = "anthropic"
    THEN AnthropicReplay(req, historical)
    ELSE OpenAIReplay(req, historical)

=============================================================================
