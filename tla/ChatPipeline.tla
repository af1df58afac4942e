------------------------------ MODULE ChatPipeline ------------------------------
(***************************************************************************)
(* The two chat endpoints, POST /v1/chat/completions (internal/api/        *)
(* server.go) and POST /v1/messages (internal/api/anthropic_handler.go),   *)
(* over the conversations of SessionStore.  Each request is a goroutine:   *)
(* it builds its request from the stored conversation, forwards it, reads  *)
(* the upstream's event stream, saves the conversation with the answer,    *)
(* records the execution and answers.  Between the steps other requests,   *)
(* the sweeper and the administrator run.                                  *)
(*                                                                         *)
(* Policies, models, credentials and uploads (all before the stream opens) *)
(* appear here as success or failure of Build and Forward.  Policies do    *)
(* not touch turns, so the request before and after them is one value.     *)
(***************************************************************************)
EXTENDS SessionStore

CONSTANTS
    Reqs,        \* the chat requests of a behaviour
    Styles,      \* endpoint and "stream" flag of a request
    Answers,     \* what an upstream answer consists of
    SendTo,      \* session ids the clients use, NoSession for none
    MaxTime      \* bound on the clock

ASSUME ChatAssumption ==
    /\ Styles \subseteq {"openai", "openai_stream", "anthropic", "anthropic_stream"}
    /\ Answers \subseteq {"text", "call", "thought"}
    /\ SendTo \subseteq Sids \cup {NoSession}
    /\ MaxTime \in Nat

VARIABLES
    pc,          \* pc[q]: where request q is
    style,       \* style[q]: its endpoint and stream flag
    session,     \* session[q]: its X-Session-Id
    full,        \* requests whose client repeats the history it knows
    incoming,    \* incoming[q]: the turns the client sent
    snapshot,    \* snapshot[q]: sessionCanonicalRequest.Turns, while q's handler runs
    answer,      \* answer[q]: the upstream's answer, "none" unless it came to its end
    outcome,     \* outcome[q]: what the client got
    view,        \* view[s]: the conversation as its client knows it
    records,     \* requests with a canonical execution record
    excused,     \* requests whose stored answer was dropped, or expired (history)
    overlapped,  \* sessions whose client did not wait for an answer (history)
    gone         \* turns of sessions dropped, or expired, while unused (history)

requestVars == <<style, session, full, incoming>>
historyVars == <<excused, overlapped, gone>>
vars == <<now, storeVars, pc, requestVars, snapshot, answer, outcome, view,
          records, historyVars>>

Points == {"idle", "received", "built", "streaming", "save", "record", "respond", "done"}

\* One message: the request it belongs to and what it is.
Turn == [of : Reqs, is : {"prompt", "result", "text", "call", "thought", "empty", "inlined"}]

TypeOK ==
    /\ now \in Nat
    /\ live \subseteq Sids
    /\ turns \in [Sids -> Seq(Turn)]
    /\ updated \in [Sids -> Nat]
    /\ pc \in [Reqs -> Points]
    /\ style \in [Reqs -> Styles \cup {"none"}]
    /\ session \in [Reqs -> Sids \cup {NoSession}]
    /\ full \subseteq Reqs
    /\ incoming \in [Reqs -> Seq(Turn)]
    /\ snapshot \in [Reqs -> Seq(Turn)]
    /\ answer \in [Reqs -> Answers \cup {"none"}]
    /\ outcome \in [Reqs -> {"none", "ok", "error"}]
    /\ view \in [Sids -> Seq(Turn)]
    /\ records \subseteq Reqs
    /\ excused \subseteq Reqs
    /\ overlapped \subseteq Sids
    /\ gone \subseteq Turn

Init ==
    /\ now = 0
    /\ SessionInit
    /\ pc = [q \in Reqs |-> "idle"]
    /\ style = [q \in Reqs |-> "none"]
    /\ session = [q \in Reqs |-> NoSession]
    /\ full = {}
    /\ incoming = [q \in Reqs |-> <<>>]
    /\ snapshot = [q \in Reqs |-> <<>>]
    /\ answer = [q \in Reqs |-> "none"]
    /\ outcome = [q \in Reqs |-> "none"]
    /\ view = [s \in Sids |-> <<>>]
    /\ records = {}
    /\ excused = {}
    /\ overlapped = {}
    /\ gone = {}

-----------------------------------------------------------------------------
InFlight(q) == pc[q] \notin {"idle", "done"}
Anthropic(y) == y \in {"anthropic", "anthropic_stream"}
TurnsIn(ts) == {ts[i] : i \in 1..Len(ts)}

\* A request that its client waits for, or that saves after answering.
Unfinished(q) ==
    InFlight(q) /\ (outcome[q] = "none" \/ style[q] = "anthropic_stream")

\* The answer as the client gets it: without a stream, /v1/chat/completions has only
\* the text.
AnswerTurn(q) ==
    [of |-> q, is |-> IF style[q] = "openai" /\ answer[q] = "call" THEN "empty" ELSE answer[q]]

\* The answer as SaveCanonicalResponse stores it: the assistant message that the
\* handlers save has no tool calls, and reasoning only as text of an Anthropic answer.
StoredTurn(q) ==
    [of |-> q, is |-> CASE answer[q] = "call" -> "empty"
                        [] answer[q] = "thought" -> "inlined"
                        [] OTHER -> answer[q]]

\* A replay's newest turn is another request's.
Replayed(q) == incoming[q] # <<>> /\ incoming[q][Len(incoming[q])].of # q

\* The turns of the sessions S, but for those that a request in flight uses or sends.
UnusedTurns(S) ==
    LET used == {session[q] : q \in {q \in Reqs : InFlight(q)}}
        sent == UNION {TurnsIn(incoming[q]) : q \in {q \in Reqs : InFlight(q)}}
    IN  (UNION {TurnsIn(turns[s]) : s \in S \ used}) \ sent

\* What the history variables note of sessions that are dropped or expire.
Note(S) ==
    /\ excused' = excused \cup
         {q \in Reqs : session[q] \in S /\ StoredTurn(q) \in TurnsIn(turns[session[q]])}
    /\ gone' = gone \cup UnusedTurns(S)
    /\ UNCHANGED overlapped

NoteDrops == Note(live \ live')

\* q enters a handler with turns ts for session s.
Receive(q, s, y, ts) ==
    /\ pc[q] = "idle"
    /\ pc' = [pc EXCEPT ![q] = "received"]
    /\ style' = [style EXCEPT ![q] = y]
    /\ session' = [session EXCEPT ![q] = s]
    /\ incoming' = [incoming EXCEPT ![q] = ts]
    /\ overlapped' = IF s \in Sids /\ \E r \in Reqs : session[r] = s /\ Unfinished(r)
                     THEN overlapped \cup {s}
                     ELSE overlapped
    /\ gone' = gone \ TurnsIn(ts)
    /\ UNCHANGED <<now, storeVars, snapshot, answer, outcome, view, records, excused>>

(***************************************************************************)
(* A client sends a prompt, or the result of the tool call it was answered *)
(* with, after the history it knows (wholeHistory) or alone; the two are   *)
(* one while it knows none.  Reasoning that it knows from /v1/messages     *)
(* cannot be repeated to /v1/chat/completions.                             *)
(***************************************************************************)
Send(q, s, y, wholeHistory) ==
    LET known == IF s \in Sids THEN view[s] ELSE <<>>
        called == known # <<>> /\ known[Len(known)].is = "call"
        new == [of |-> q, is |-> IF called THEN "result" ELSE "prompt"]
    IN  /\ known = <<>> => wholeHistory
        /\ wholeHistory => \/ Anthropic(y)
                           \/ \A t \in TurnsIn(known) : t.is # "thought"
        /\ Receive(q, s, y, (IF wholeHistory THEN known ELSE <<>>) \o <<new>>)
        /\ full' = IF wholeHistory THEN full \cup {q} ELSE full

(***************************************************************************)
(* POST /admin/logs/{id}/replay: the recorded turns enter the handler      *)
(* again, with the session id of an OpenAI request; an Anthropic one has   *)
(* it in the metadata, where handleAnthropicMessages does not look.        *)
(***************************************************************************)
Replay(q, r) ==
    /\ r \in records
    /\ Receive(q, IF Anthropic(style[r]) THEN NoSession ELSE session[r],
               style[r], incoming[r])
    /\ UNCHANGED full

\* q's handler goes on to its step l; its snapshot ends with it.
Goto(q, l) ==
    /\ pc' = [pc EXCEPT ![q] = l]
    /\ snapshot' = IF l = "done" THEN [snapshot EXCEPT ![q] = <<>>] ELSE snapshot

\* q leaves the handler with an error response.
Refuse(q) ==
    /\ Goto(q, "done")
    /\ outcome' = [outcome EXCEPT ![q] = "error"]

BuildAndRemember(q) == \* mutant: the merged turns are stored before there is an answer
    /\ pc[q] = "received"
    /\ pc' = [pc EXCEPT ![q] = "built"]
    /\ snapshot' = [snapshot EXCEPT ![q] = Built(session[q], incoming[q])]
    /\ SaveCanonicalResponse(session[q], Built(session[q], incoming[q]))
    /\ NoteDrops
    /\ UNCHANGED <<now, requestVars, answer, outcome, view, records>>

(***************************************************************************)
(* Validation, policies and BuildCanonicalRequest.  A request refused      *)
(* before the store is asked leaves it as it was.                          *)
(***************************************************************************)
Build(q) ==
    /\ pc[q] = "received"
    /\ \/ /\ Refuse(q)
          /\ UNCHANGED <<storeVars, historyVars>>
       \/ /\ pc' = [pc EXCEPT ![q] = "built"]
          /\ snapshot' = [snapshot EXCEPT ![q] = Built(session[q], incoming[q])]
          /\ BuildCanonicalRequest(session[q])
          /\ NoteDrops
          /\ UNCHANGED outcome
    /\ UNCHANGED <<now, requestVars, answer, view, records>>

\* Projection, model, credentials, images, request body, StreamChat.
Forward(q) ==
    /\ pc[q] = "built"
    /\ \/ Refuse(q)
       \/ Goto(q, "streaming") /\ UNCHANGED outcome
    /\ UNCHANGED <<now, storeVars, requestVars, answer, view, records, historyVars>>

AnswersFirstStreams(q) == \* mutant: chat streams, too, end before they save
    style[q] \in {"anthropic_stream", "openai_stream"}

\* Only the Anthropic stream ends its response before it saves.
AnswersFirst(q) == style[q] = "anthropic_stream"

(***************************************************************************)
(* The event stream fails (upstream error, timeout, a client that left),   *)
(* or ends, with [DONE] or without.                                        *)
(***************************************************************************)
ReadStream(q) ==
    /\ pc[q] = "streaming"
    /\ \/ Refuse(q) /\ UNCHANGED answer
       \/ /\ \E a \in Answers :
               /\ a = "thought" => Anthropic(style[q])
               /\ answer' = [answer EXCEPT ![q] = a]
          /\ Goto(q, IF AnswersFirst(q) THEN "respond" ELSE "save")
          /\ UNCHANGED outcome
    /\ UNCHANGED <<now, storeVars, requestVars, view, records, historyVars>>

SaveIncoming(q) == \* mutant: the client's turns are saved in place of the merged ones
    /\ pc[q] = "save"
    /\ SaveCanonicalResponse(session[q], Append(incoming[q], StoredTurn(q)))
    /\ Goto(q, "record")
    /\ NoteDrops
    /\ UNCHANGED <<now, requestVars, answer, outcome, view, records>>

\* SaveCanonicalResponse, on a context that no client can cancel or that is not looked at.
Save(q) ==
    /\ pc[q] = "save"
    /\ SaveCanonicalResponse(session[q], Append(snapshot[q], StoredTurn(q)))
    /\ Goto(q, "record")
    /\ NoteDrops
    /\ UNCHANGED <<now, requestVars, answer, outcome, view, records>>

\* persistCanonicalExecutionRecord: a failed insert is not reported.
Record(q) ==
    /\ pc[q] = "record"
    /\ records' \in {records, records \cup {q}}
    /\ Goto(q, IF AnswersFirst(q) THEN "done" ELSE "respond")
    /\ UNCHANGED <<now, storeVars, requestVars, answer, outcome, view, historyVars>>

\* The end of the response is written, and reaches the client or does not.
Respond(q) ==
    LET s == session[q]
    IN  /\ pc[q] = "respond"
        /\ Goto(q, IF AnswersFirst(q) THEN "save" ELSE "done")
        /\ \/ /\ outcome' = [outcome EXCEPT ![q] = "error"]
              /\ UNCHANGED view
           \/ /\ outcome' = [outcome EXCEPT ![q] = "ok"]
              /\ IF s \in Sids /\ ~Replayed(q)
                 THEN view' = [view EXCEPT ![s] =
                                 @ \o <<incoming[q][Len(incoming[q])], AnswerTurn(q)>>]
                 ELSE UNCHANGED view
        /\ UNCHANGED <<now, storeVars, requestVars, answer, records, historyVars>>

-----------------------------------------------------------------------------
\* DELETE /admin/sessions/{id}.
DeleteSession(s) ==
    /\ s \in live
    /\ Delete(s)
    /\ NoteDrops
    /\ UNCHANGED <<now, pc, requestVars, snapshot, answer, outcome, view, records>>

\* The sweeper of main.go, and the session list of the console.
Sweep ==
    /\ SweepExpired
    /\ NoteDrops
    /\ UNCHANGED <<now, pc, requestVars, snapshot, answer, outcome, view, records>>

\* Time passes; the history notes which sessions it makes too old.
Tick ==
    /\ now < MaxTime
    /\ now' = now + 1
    /\ Note({s \in live : TTL > 0 /\ now' > updated[s] + TTL})
    /\ UNCHANGED <<storeVars, pc, requestVars, snapshot, answer, outcome, view, records>>

\* The steps of a request once it was received.
Proceed(q) ==
    \/ Build(q)
    \/ Forward(q)
    \/ ReadStream(q)
    \/ Save(q)
    \/ Record(q)
    \/ Respond(q)

Next ==
    \/ \E q \in Reqs :
        \/ \E s \in SendTo, y \in Styles, wholeHistory \in BOOLEAN :
             Send(q, s, y, wholeHistory)
        \/ \E r \in Reqs : Replay(q, r)
        \/ Proceed(q)
    \/ \E s \in Sids : DeleteSession(s)
    \/ Sweep
    \/ Tick

Spec == Init /\ [][Next]_vars

(***************************************************************************)
(* A handler goroutine that can run does; the upstream call ends within    *)
(* the transport's timeout.  The sweeper runs off a ticker.                *)
(***************************************************************************)
Fairness ==
    /\ \A q \in Reqs : WF_vars(Proceed(q))
    /\ WF_vars(Sweep)

FairSpec == Spec /\ Fairness

-----------------------------------------------------------------------------
(***************************************************************************)
(* What a client was answered is in its conversation until that is         *)
(* dropped, if its client waits for each answer: building a request and    *)
(* saving it are separate critical sections, and the save overwrites, yet  *)
(* a client that waits loses nothing, whoever sweeps, evicts or replays    *)
(* meanwhile.  An Anthropic stream has ended before its save.              *)
(***************************************************************************)
AnsweredIsRemembered ==
    \A s \in Sids \ overlapped : \A q \in Reqs \ excused :
        /\ session[q] = s
        /\ outcome[q] = "ok"
        /\ ~(style[q] = "anthropic_stream" /\ pc[q] = "save")
        => StoredTurn(q) \in TurnsIn(turns[s])

(***************************************************************************)
(* A request that failed before its answer was complete leaves no trace:   *)
(* no record, and neither its prompt nor half an answer in a stored        *)
(* conversation or in what another request sends upstream.                 *)
(***************************************************************************)
FailureLeavesNoTrace ==
    \A q \in Reqs : outcome[q] = "error" /\ answer[q] = "none" =>
        /\ q \notin records
        /\ \A s \in Sids : \A t \in TurnsIn(turns[s]) : t.of # q
        /\ \A r \in Reqs \ {q} : \A t \in TurnsIn(snapshot[r]) : t.of # q

(***************************************************************************)
(* A conversation that was deleted, evicted or outlived its TTL while no   *)
(* request was using it never reaches the upstream again, unless its       *)
(* client or a replay sends it: not before the sweeper's next round, and   *)
(* not through another request's save.                                     *)
(***************************************************************************)
ForgottenIsNotForwarded ==
    \A q \in Reqs :
        pc[q] \in {"built", "streaming"} => TurnsIn(snapshot[q]) \cap gone = {}

\* From the built request to its save; only the Anthropic stream answers in between.
Asking(q) ==
    pc[q] \in {"built", "streaming", "save"} \/ (pc[q] = "respond" /\ AnswersFirst(q))

\* The conversations of clients that wait for each answer, and their requests under way.
StoredLog == [s \in Sids |-> IF s \in overlapped THEN <<>> ELSE turns[s]]

HeldLog ==
    [s \in Sids |->
        IF s \notin overlapped /\ \E q \in Reqs : session[q] = s /\ Asking(q)
        THEN snapshot[CHOOSE q \in Reqs : session[q] = s /\ Asking(q)]
        ELSE <<>>]

Waiting == INSTANCE Conversations WITH Turns <- Turn, log <- StoredLog, held <- HeldLog

(***************************************************************************)
(* For clients that wait, the handlers and the store implement             *)
(* Conversations: read and written in critical sections of their own, and  *)
(* with sweeps, evictions, deletions, replays and the requests of others   *)
(* between them, a conversation only ever becomes what was asked in it,    *)
(* which begins with what it was, and the answer to that.                  *)
(***************************************************************************)
KeepsConversations == Waiting!Spec

\* The store never holds more conversations than session.max_sessions.
CapacityHolds == MaxSessions > 0 => Cardinality(live) <= MaxSessions

(***************************************************************************)
(* A request costs another conversation its place only when the store is   *)
(* full of conversations within their TTL and its own is new, and then the *)
(* one saved the longest ago.                                              *)
(***************************************************************************)
EvictsOnlyOldest ==
    [][\A s \in live \ StaleSessions :
         s \notin live' /\ pc' # pc =>
            /\ Cardinality(live \ StaleSessions) >= MaxSessions
            /\ \E r \in live' : r \notin live \ StaleSessions
            /\ \A r \in live \ StaleSessions : updated[s] <= updated[r]]_vars

\* q is a request in a conversation whose one client always repeats the history, sends
\* one request at a time, and got every answer that came to its end.
InStep(q) ==
    /\ session[q] \in Sids \ overlapped
    /\ \A r \in Reqs : session[r] = session[q] =>
         /\ r \in full
         /\ ~Replayed(r)
         /\ answer[r] # "none" /\ pc[r] = "done" => outcome[r] = "ok"

Forwarded(q) == pc[q] \in {"built", "streaming"}

(***************************************************************************)
(* A client that repeats the whole history gets exactly that forwarded,    *)
(* never its own turns twice, when it and the store are in step and all    *)
(* answers were plain text: also after its conversation was dropped under  *)
(* a request, and after requests of its own that failed.                   *)
(***************************************************************************)
FullHistoryNotDoubled ==
    \A q \in full :
        /\ Forwarded(q)
        /\ InStep(q)
        /\ \A r \in Reqs : session[r] = session[q] => answer[r] \in {"none", "text"}
        => snapshot[q] = incoming[q]

\* A conversation past its TTL leaves the memory even if nobody asks for it again.
StaleIsSwept == \A s \in Sids : Stale(s) ~> ~Stale(s)

-----------------------------------------------------------------------------
(***************************************************************************)
(* What a test says, and the code does not keep: the store "uses incoming  *)
(* full history as authority", also when an answer was a tool call, which  *)
(* canonical storage "must preserve".                                      *)
(***************************************************************************)
FullHistoryIsAuthority ==
    \A q \in full : Forwarded(q) /\ InStep(q) => snapshot[q] = incoming[q]

=============================================================================
