------------------------------ MODULE RequestPath ------------------------------
(***************************************************************************)
(* What a chat request says on its way from the client to the upstream:    *)
(* decoding, validation, policies, the stored conversation, projection and *)
(* images, for both endpoints and for replays of recorded requests, while  *)
(* the administrator edits the policies.                                   *)
(*                                                                         *)
(* ChatPipeline has the same handlers with requests that are opaque and    *)
(* their answers in detail; here the request is in detail, and the steps   *)
(* after StreamChat are one.  Expiry and eviction are left to ChatPipeline *)
(* (TTL and MaxSessions are 0 in the runs of this module).                 *)
(***************************************************************************)
EXTENDS SessionStore, MessageIR, PolicyRules

CONSTANTS
    Reqs,            \* the chat requests of a behaviour
    ClientRequests,  \* what clients send: the body, X-Session-Id and X-Replay-Mode
    InitialRules,    \* tables of policies that earlier processes left
    Policies,        \* what the administrator may create, or put in place of a rule
    MaxEdits,        \* bound on the administrator's edits
    Aliases          \* DefaultAliases

\* A request that is not there yet.
Nothing == [protocol |-> "none"]

\* Actions of a rule, as their JSON says.
Actions(actions) ==
    /\ DOMAIN actions \subseteq {"rewrite_model", "set_reasoning", "allow_tools", "add_tags"}
    /\ "rewrite_model" \in DOMAIN actions => actions["rewrite_model"] \in Words
    /\ "set_reasoning" \in DOMAIN actions => actions["set_reasoning"] \in BOOLEAN
    /\ "allow_tools" \in DOMAIN actions => actions["allow_tools"] \in BOOLEAN
    /\ "add_tags" \in DOMAIN actions => actions["add_tags"] \in Seq(Words)

ASSUME PathAssumption ==
    /\ NoSession = ""
    /\ MaxEdits \in Nat
    /\ Sids \cup Reqs \subseteq Words
    /\ ClientRequests \subseteq OpenAIBodies \cup AnthropicBodies
    /\ \A c \in ClientRequests : {c.header, c.session} \subseteq Sids \cup {NoSession}
    /\ \A R \in InitialRules : Rows(R) /\ \A r \in R : r.id \in 1..Cardinality(R)
    /\ \A p \in Policies \cup UNION InitialRules : p.priority \in Int /\ Actions(p.actions)

VARIABLES
    pc,          \* pc[q]: where request q is
    origin,      \* origin[q]: the record that q replays, or Nothing
    historical,  \* requests with metadata replay_mode "historical"
    sid,         \* sid[q]: sessionID, the key into the store
    pre,         \* pre[q]: canonicalRequest
    post,        \* post[q]: policyResult.PostPolicyRequest
    merged,      \* merged[q]: sessionCanonicalRequest
    sent,        \* sent[q]: the body of remoteRequest
    used,        \* used[q]: the rules when q was evaluated (history)
    records,     \* requests with a canonical execution record
    edits        \* number of edits of the policies so far

requestVars == <<origin, historical, sid, pre>>
vars == <<now, storeVars, ruleVars, pc, requestVars, post, merged, sent, used, records, edits>>

TypeOK ==
    /\ live \subseteq Sids
    /\ turns \in [Sids -> Seq(Turns)]
    /\ pc \in [Reqs -> {"idle", "received", "judged", "built", "sent", "refused", "done"}]
    /\ historical \subseteq Reqs
    /\ records \subseteq {q \in Reqs : pc[q] = "done"}
    /\ origin \in [Reqs -> records \cup {Nothing}]
    /\ sid \in [Reqs -> Sids \cup {NoSession}]
    /\ Rows(rules)
    /\ nextRule \in Nat
    /\ \A r \in rules : r.id \in 1..(nextRule - 1) /\ Actions(r.actions)
    /\ {pre, post, merged} \subseteq [Reqs -> CanonicalRequests \cup {Nothing}]
    /\ \A q \in Reqs :
         /\ pc[q] \in {"received", "judged", "built", "sent", "done"} => pre[q] # Nothing
         /\ pc[q] \in {"judged", "built", "sent", "done"} => post[q] # Nothing
         /\ pc[q] \in {"built", "sent", "done"} => merged[q] # Nothing
         /\ pc[q] \in {"sent", "done"} <=> sent[q] # Nothing
         /\ \A request \in {pre[q], post[q], merged[q]} :
              request # Nothing => request.session \in Sids \cup {NoSession}

Init ==
    /\ now = 0
    /\ SessionInit
    /\ rules \in InitialRules
    /\ nextRule = Cardinality(rules) + 1
    /\ pc = [q \in Reqs |-> "idle"]
    /\ origin = [q \in Reqs |-> Nothing]
    /\ historical = {}
    /\ sid = [q \in Reqs |-> NoSession]
    /\ pre = [q \in Reqs |-> Nothing]
    /\ post = [q \in Reqs |-> Nothing]
    /\ merged = [q \in Reqs |-> Nothing]
    /\ sent = [q \in Reqs |-> Nothing]
    /\ used = [q \in Reqs |-> {}]
    /\ records = {}
    /\ edits = 0

-----------------------------------------------------------------------------
IsAnthropic(c) == c.protocol = "anthropic"

\* requestSessionID: the header goes first, and /v1/messages looks nowhere else.
RequestSessionID(c) ==
    CASE c.header # "" -> c.header
      [] IsAnthropic(c) -> NoSession
      [] OTHER -> c.session

(***************************************************************************)
(* A body of more than 1 MB, for /v1/messages 2 MB, is refused or cut off. *)
(* Its sources count, base64 being 4/3 of its data; texts are left out.    *)
(***************************************************************************)
BodyLimit(c) == IF IsAnthropic(c) THEN 8 ELSE 4

SourcesOfBody(c) ==
    LET IsSource(p) == p.type \in (IF IsAnthropic(c) THEN {"image", "document"} ELSE {"image_url"})
        Content(m) == IF IsAnthropic(c) THEN m.content ELSE m.parts
    IN  Gather(LAMBDA m : Each(LAMBDA p : p.source, Those(IsSource, Content(m))), c.messages)

FitsBody(c) == 4 * TotalSize(SourcesOfBody(c)) <= 3 * BodyLimit(c)

\* The tests of both handlers up to the canonical form, but for the images.
Accepted(c) ==
    /\ FitsBody(c)
    /\ IF IsAnthropic(c)
       THEN c.model # "" /\ c.messages # <<>> /\ KnownRoles(c.messages)
       ELSE LET messages == Each(Decoded, c.messages)
            IN  /\ \A i \in DOMAIN c.messages : ~MalformedParts(c.messages[i].parts)
                /\ ValidChat(messages)
                /\ ParsableImages(messages)

CanonicalAsReceived(c) == \* mutant: what validation removes is removed from a copy
    LET named == [c EXCEPT !.session = IF c.header # "" THEN c.header ELSE @]
    IN  IF IsAnthropic(c)
        THEN CanonicalizeAnthropicRequest(named)
        ELSE CanonicalizeOpenAIRequest([named EXCEPT !.messages = Each(Decoded, @)])

\* The canonical form; a session id in the metadata stays there if the header has none.
Canonical(c) ==
    LET named == [c EXCEPT !.session = IF c.header # "" THEN c.header ELSE @]
    IN  IF IsAnthropic(c)
        THEN CanonicalizeAnthropicRequest(named)
        ELSE CanonicalizeOpenAIRequest(
               [named EXCEPT !.messages = WithNamedCalls(Each(Decoded, @))])

(***************************************************************************)
(* q enters the handler of its protocol with body and headers c: decoding, *)
(* validation, canonical form, limits of images.                           *)
(***************************************************************************)
Enter(q, c, from) ==
    /\ pc[q] = "idle"
    /\ IF Accepted(c) /\ WithinVisionLimits(Canonical(c).turns)
       THEN /\ pc' = [pc EXCEPT ![q] = "received"]
            /\ origin' = [origin EXCEPT ![q] = from]
            /\ historical' = IF c.historical THEN historical \cup {q} ELSE historical
            /\ sid' = [sid EXCEPT ![q] = RequestSessionID(c)]
            /\ pre' = [pre EXCEPT ![q] = Canonical(c)]
       ELSE /\ pc' = [pc EXCEPT ![q] = "refused"]
            /\ UNCHANGED requestVars
    /\ UNCHANGED <<now, storeVars, ruleVars, post, merged, sent, used, records, edits>>

Receive(q) == \E c \in ClientRequests : Enter(q, c, Nothing)

ReplayRequest(r, mode) == IF mode = "historical" THEN post[r] ELSE pre[r]

ReplayAsReceived(q, r, mode) == \* mutant: the mode decides the header alone
    /\ r \in records
    /\ Enter(q, ReplayBody(pre[r], mode = "historical"), r)

(***************************************************************************)
(* handleAdminLogsReplay, without a body of its own: the recorded request  *)
(* enters its handler again, as it came or, "historical", as the policies  *)
(* left it.                                                                *)
(***************************************************************************)
ReplayRecord(q, r, mode) ==
    /\ r \in records
    /\ Enter(q, ReplayBody(ReplayRequest(r, mode), mode = "historical"), r)

Refuse(q) == pc' = [pc EXCEPT ![q] = "refused"]

(***************************************************************************)
(* evaluateCanonicalRequest: the enabled rules are read by one query.  The *)
(* request is refused if that, or the evaluation, fails.                   *)
(***************************************************************************)
EvaluateCanonicalRequest(q) ==
    LET attrs == Attributes(pre[q])
        Judged(p) == /\ pc' = [pc EXCEPT ![q] = "judged"]
                     /\ post' = [post EXCEPT ![q] = p]
    IN  /\ pc[q] = "received"
        /\ \/ /\ q \in historical
              /\ Judged(pre[q])
              /\ UNCHANGED used
           \/ /\ q \notin historical
              /\ ~EvaluationFails(GetEnabledPolicies, attrs)
              /\ Judged(ApplyActions(pre[q], EffectiveActions(GetEnabledPolicies, attrs)))
              /\ used' = [used EXCEPT ![q] = rules]
           \/ /\ q \notin historical
              /\ Refuse(q)
              /\ UNCHANGED <<post, used>>
        /\ UNCHANGED <<now, storeVars, ruleVars, requestVars, merged, sent, records, edits>>

\* BuildCanonicalRequest of the store, projection and the second validation.
Build(q) ==
    LET s == sid[q]
        request == [post[q] EXCEPT !.session = IF s = NoSession THEN @ ELSE s,
                                   !.turns = Built(s, @)]
    IN  /\ pc[q] = "judged"
        /\ BuildCanonicalRequest(s)
        /\ IF ValidChat(ProjectTurns(request.turns))
           THEN /\ pc' = [pc EXCEPT ![q] = "built"]
                /\ merged' = [merged EXCEPT ![q] = request]
           ELSE Refuse(q) /\ UNCHANGED merged
        /\ UNCHANGED <<now, ruleVars, requestVars, post, sent, used, records, edits>>

\* ResolveChatModel, where it does not fail; what is known upstream is ModelService's.
ResolveChatModel(model) ==
    CASE model \in {"", "auto"} -> ""
      [] model \in DOMAIN Aliases -> Aliases[model]
      [] OTHER -> model

(***************************************************************************)
(* The model is resolved, the credentials are read, the images of all      *)
(* turns are uploaded, the body is built and StreamChat is called; each    *)
(* but the body may fail.  An image is known by its source.                *)
(***************************************************************************)
Forward(q) ==
    /\ pc[q] = "built"
    /\ \/ /\ pc' = [pc EXCEPT ![q] = "sent"]
          /\ sent' = [sent EXCEPT ![q] =
               BuildCanonical(merged[q], MediaOf(merged[q].turns),
                              ResolveChatModel(merged[q].model))]
       \/ Refuse(q) /\ UNCHANGED sent
    /\ UNCHANGED <<now, storeVars, ruleVars, requestVars, post, merged, used, records, edits>>

\* The text of the upstream's answer to q.
Answer(q) == <<q>>

(***************************************************************************)
(* The stream fails, or the conversation is saved with the answer and the  *)
(* execution is recorded; a failed insert is not reported.                 *)
(***************************************************************************)
Finish(q) ==
    /\ pc[q] = "sent"
    /\ pc' = [pc EXCEPT ![q] = "done"]
    /\ \/ UNCHANGED <<storeVars, records>>
       \/ /\ SaveCanonicalResponse(sid[q],
               Append(merged[q].turns,
                      TurnOfMessage(Message("assistant", Answer(q), <<>>, ""))))
          /\ records' \in {records, records \cup {q}}
    /\ UNCHANGED <<now, ruleVars, requestVars, post, merged, sent, used, edits>>

-----------------------------------------------------------------------------
\* The administrator's edits; one of an id that is gone changes nothing.
EditPolicies ==
    /\ edits < MaxEdits
    /\ edits' = edits + 1
    /\ \/ \E p \in Policies : CreatePolicy(p)
       \/ \E id \in 1..(nextRule - 1), p \in Policies : UpdatePolicy(id, p)
       \/ \E id \in 1..(nextRule - 1) : DeletePolicy(id)
    /\ UNCHANGED <<now, storeVars, pc, requestVars, post, merged, sent, used, records>>

Next ==
    \/ \E q \in Reqs :
        \/ Receive(q)
        \/ \E r \in Reqs, mode \in {"current", "historical"} : ReplayRecord(q, r, mode)
        \/ EvaluateCanonicalRequest(q)
        \/ Build(q)
        \/ Forward(q)
        \/ Finish(q)
    \/ EditPolicies

Spec == Init /\ [][Next]_vars

-----------------------------------------------------------------------------
(***************************************************************************)
(* What a conversation says: by whom each piece of text, which calls,      *)
(* results of which.  Only the assistant calls tools and only the others   *)
(* have results: a result in a turn of the assistant is text of the        *)
(* assistant, and a call in a turn of the user goes nowhere.               *)
(***************************************************************************)
SaidBy(role, text) == Each(LAMBDA w : <<role, w>>, text)

SpeakerOf(b, role) == IF IsResult(b) /\ role # "assistant" THEN "tool" ELSE role

WordsOfTurn(t) ==
    Gather(LAMBDA b : SaidBy(SpeakerOf(b, t.role), AssistantText(b)), t.blocks)

CallsOfTurn(t) ==
    IF t.role = "assistant" THEN Each(LAMBDA b : b.call, Those(IsCall, t.blocks)) ELSE <<>>

ResultsOfTurn(t) ==
    IF t.role = "assistant" THEN <<>> ELSE Each(LAMBDA b : b.id, Those(IsResult, t.blocks))

WordsOfMessage(m) == SaidBy(m.role, m.text)
CallsOfMessage(m) == m.calls
ResultsOfMessage(m) == IF m.role = "tool" THEN <<m.id>> ELSE <<>>

IsLastOfUser(at, messages) ==
    LET byUser == {i \in DOMAIN messages : messages[i].role = "user"}
    IN  IF byUser = {} THEN at = 0 ELSE at \in byUser /\ \A i \in byUser : i <= at

(***************************************************************************)
(* The upstream is sent the whole conversation, what the request brought   *)
(* at its end: every piece of text once, in order and in its speaker's     *)
(* name, also where one turn becomes several messages around its tool      *)
(* results; every call of the assistant, every result that answers it and  *)
(* every image, at one message: the last of the user, if he has one.  An   *)
(* image alone makes no message, so this may be one of an earlier turn.    *)
(***************************************************************************)
EverythingIsSent ==
    \A q \in Reqs : sent[q] # Nothing =>
        LET conversation == merged[q].turns
            body == sent[q].messages
        IN  /\ IsSuffix(pre[q].turns, conversation)
            /\ Gather(WordsOfMessage, body) = Gather(WordsOfTurn, conversation)
            /\ Gather(CallsOfMessage, body) = Gather(CallsOfTurn, conversation)
            /\ Gather(ResultsOfMessage, body) = Gather(ResultsOfTurn, conversation)
            /\ sent[q].images = MediaOf(conversation)
            /\ sent[q].images # <<>> => IsLastOfUser(sent[q].imagesAt, body)

(***************************************************************************)
(* The rule that decides category a of q: enabled, matching, and no        *)
(* such rule of a smaller priority, or an equal one and a smaller id.      *)
(***************************************************************************)
Deciders(q, a) ==
    LET says == {r \in used[q] : r.enabled /\ a \in DOMAIN r.actions
                                 /\ RuleMatches(r.match, Attributes(pre[q]))}
    IN  {r \in says : \A s \in says : r.priority < s.priority
                                      \/ (r.priority = s.priority /\ r.id <= s.id)}

Decided(q, a, otherwise) ==
    IF Deciders(q, a) = {} THEN otherwise
    ELSE (CHOOSE r \in Deciders(q, a) : TRUE).actions[a]

(***************************************************************************)
(* What is sent upstream follows the policies of one moment, for each      *)
(* category the first enabled rule that matches the request as it came:    *)
(* not rules edited while it was under way, not a rule's match against     *)
(* what another one rewrote; and tools are denied with their choice.       *)
(***************************************************************************)
FirstRuleDecides ==
    \A q \in Reqs \ historical : pc[q] = "sent" =>
        /\ sent[q].key = ResolveChatModel(Decided(q, "rewrite_model", pre[q].model))
        /\ sent[q].reasoning = Decided(q, "set_reasoning", pre[q].hasReasoning)
        /\ IF Decided(q, "allow_tools", TRUE)
           THEN sent[q].tools = pre[q].tools /\ sent[q].choice = pre[q].choice
           ELSE sent[q].tools = <<>> /\ sent[q].choice = NoChoice

(***************************************************************************)
(* A replay asks for what the record says.  A current one comes to the     *)
(* policies with the text, calls and results, the model and the tools of   *)
(* the recorded request; a historical one goes upstream with the model and *)
(* the tools that the policies of its time had left, whatever they are by  *)
(* now, and tools denied then stay denied.  Images are not replayed to     *)
(* /v1/chat/completions, nor is reasoning, nor a tool choice to            *)
(* /v1/messages.                                                           *)
(***************************************************************************)
ReplayIsFaithful ==
    \A q \in Reqs : origin[q] # Nothing /\ pre[q] # Nothing =>
        LET r == origin[q]
            recorded == IF q \in historical THEN post[r] ELSE pre[r]
        IN  /\ ProjectTurns(pre[q].turns) = ProjectTurns(recorded.turns)
            /\ pre[q].session = recorded.session
            /\ pre[q].stream = recorded.stream
            /\ pre[q].model = recorded.model
            /\ pre[q].tools = recorded.tools
            /\ pre[q].choice \in {recorded.choice, NoChoice}
            /\ pre[q].protocol = "anthropic" =>
                 /\ pre[q].hasReasoning = recorded.hasReasoning
                 /\ MediaOf(pre[q].turns) = MediaOf(recorded.turns)
            /\ q \in historical /\ sent[q] # Nothing =>
                 sent[q].key = sent[r].key /\ sent[q].tools = sent[r].tools

(***************************************************************************)
(* Every image that goes upstream is given, and has an allowed type and    *)
(* size, whether the request brought it, the conversation had it, or a     *)
(* replay did.  The limits on number and total hold for what a request     *)
(* brings, not for what it sends.  Behind the limits of the bodies those   *)
(* on sizes never decide.                                                  *)
(***************************************************************************)
SentImagesAreAllowed ==
    \A q \in Reqs : sent[q] # Nothing =>
        \A i \in DOMAIN sent[q].images : AllowedSource(sent[q].images[i])

(***************************************************************************)
(* A call without a name never goes upstream in a conversation that only   *)
(* /v1/chat/completions was used in: it is removed before the turns are    *)
(* made that the store keeps.  What /v1/messages sends of them is removed  *)
(* from the copy that is validated, not from the body.                     *)
(***************************************************************************)
UnnamedCallsStayOut ==
    \A q \in Reqs :
        /\ sent[q] # Nothing
        /\ \A r \in Reqs : pre[r] # Nothing => pre[r].protocol = "openai"
        => WithNamedCalls(sent[q].messages) = sent[q].messages

=============================================================================
