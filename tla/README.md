# A TLA+ model of lingma2api

lingma2api is a Go server that offers the Lingma service behind two chat APIs,
OpenAI's `POST /v1/chat/completions` and Anthropic's `POST /v1/messages`, with
an administration console. It keeps conversations in memory, credentials in a
file, and records, settings and policies in SQLite. This directory holds TLA+
modules of its core (logins, conversations, the way of a request to the
upstream and of its stream back, settings, policies and models), TLC
configurations that check them on small instances, and TLAPS proofs.
`PROJECT.json` lists, for every definition, the source lines it stands for, and
for every property a plausible bug that breaks it.

## 1. Inventory

| Component | State | Operations | Correct when |
|---|---|---|---|
| **Login sessions** `internal/api/bootstrap_manager.go`, `bootstrap_remote_callback.go`, `bootstrap_handler.go` | map of sessions (status, phase, start, context), one mutex | Start, Submit, Cancel, GetStatus, a deadline goroutine per session | one worker per session; the one login slot is always freed; "completed" means saved; a cancelled login stays cancelled |
| **Credentials** `internal/proxy/credentials.go`, `internal/auth/store.go` | the file; the loaded snapshot | Current, Refresh, SaveCredentialFile | the snapshot follows the file; nothing half-written is loaded |
| **Conversations** `internal/proxy/sessions.go` | map of turns and time of last save, TTL, capacity | BuildCanonicalRequest, SaveCanonicalResponse, Delete, List, SweepExpired | remembers what was answered, forgets what expired or was deleted, stays within its capacity and evicts the oldest, never doubles a history |
| **Chat endpoints** `internal/api/server.go`, `anthropic_handler.go`, `canonical_runtime.go` | one goroutine per request, nothing shared but the above | validate, apply policies, build, forward, read the stream, save, record, answer; replay a record | a failed request leaves no trace, a replay asks for what was recorded |
| **Canonical message model** `internal/proxy/message_ir.go`, `types.go` | none (conversions) | canonicalize, project, build the body, limits of images | nothing a conversation says is lost, doubled or put in another's mouth on its way upstream |
| **Stream parsing and tool calls** `internal/proxy/sse.go`, the stream loops of the endpoints | pending calls by index, open content block | one step per event | every call emitted once and whole; blocks opened and closed in pairs |
| **Models** `internal/proxy/models.go` | cached list, last error | Resolve, List, Refresh | what upstream offers is not refused; who refreshes gets what is offered |
| **Policies** `internal/policy/evaluator.go`, `internal/db/policies.go` | rules in SQLite | evaluate, CRUD | the first match of each action decides, of one moment's rules |
| **Database** `internal/db/` | settings, records, logs, rules | CRUD, retention, backfill at start | what was acknowledged holds; nothing is deleted before its time; a migration that was interrupted is completed once |
| **Process** `main.go` | tickers, HTTP server | start, sweep, cleanup, shutdown | requests finish before the database closes |
| **Upstream transport** `internal/proxy/native_transport.go`, `signature.go`, `body.go` | shared HTTP client and its timeout | StreamChat, ListModels, UploadImage | signing, bodies (pure) and I/O |
| **Login protocol** `internal/auth/` (callback parsing, key generation, remote login) | none | pure, and one remote call | – |
| **Command line tools** `cmd/`, `internal/auth/refresh.go`, `ws_refresh.go`, `bootstrap.go` | the credential file | refresh, import, listen for a callback | do not overwrite a newer login |
| **Console, request logging, configuration** | none of their own | views and forms | – |

**How they interact.** A chat request calls, in this order, the policies, the
session store (read), the models, the credentials, the uploader and the
transport, then reads the stream, and calls the session store (write) and the
database. The bootstrap manager writes the credential file and calls back into
the credential manager. `main.go` runs the sweeper of the session store off a
ticker and the retention of the database off another. The administrator
deletes conversations, replays records, cancels logins and asks for a reload
at any moment.

**What is hard here.** No mutex is held across I/O. Every operation that
matters is therefore a read under the lock, a long step without it, and a write
under the lock again, of a state that may have been cancelled, expired, swept,
evicted, deleted or replaced meanwhile: the submit of a login over its session,
a chat request over its conversation, a save of the file over the snapshot.
The credential file is written in place. Sessions and conversations are lost
with the process. A client repeats its history or not, and the server finds out
by comparing. `PROJECT.json` lists these hazards line by line, with the
properties that watch them or, where there is none, the reason.

## 2. Modules

| Module | Models | Used by |
|---|---|---|
| `CredentialManager` | the file and the snapshot | `BootstrapManager` extends it |
| `BootstrapManager` | login sessions, submits, deadlines, cancellation, crashes, the reload | `MCBootstrapManager` |
| `SessionStore` | the conversations, one operator per critical section | `ChatPipeline` and `RequestPath` extend it |
| `ChatPipeline` | the requests of both endpoints, replay, sweeper, deletion | `MCChatPipeline` |
| `Conversations` | abstract: what the store and the handlers promise together | `ChatPipeline` implements it (`INSTANCE ... WITH`) |
| `UpstreamStream` | the parsed events of the upstream, what their tool calls mean, `mergeToolCallDeltas` | `ResponseStream` extends it |
| `ResponseStream` | the loops of both streaming endpoints, event by event and fragment by fragment | `MCResponseStream` |
| `MessageIR` | the canonical form of a request: validation, conversion, projection, body, replay, image limits | `RequestPath` extends it |
| `PolicyRules` | the table of rules, its edits and backfill, matching and evaluation | `RequestPath` and `Administration` extend it |
| `RequestPath` | one request from the client's body to the upstream's, through policies and store; replays | `MCRequestPath` |
| `Retention` | settings, and the cleanups and timeout they govern | `Administration` extends it |
| `ModelService` | the list of models and its refreshes | `Administration` extends it |
| `Administration` | the starts of the process and the edits of rules, beside the two above | `MCAdministration` |
| `MC...` | symmetry sets, requests, rules, events, settings; the `.cfg` files give the constants | TLC |
| `BootstrapManagerProofs`, `ChatPipelineProofs`, `ConversationsProofs`, `ResponseStreamProofs`, `ToolCallProofs`, `AdministrationProofs`, `PolicyRulesProofs`, `RequestPathProofs` | theorems and proofs | TLAPS |

### CredentialManager
`file` is what reading the file would return: one complete credential set (named
by the login that obtained it), nothing, an empty file, or bytes that are not
one set. `os.WriteFile` is two operators, `TruncateFile` and `WriteFile`, since
readers, other writers and crashes come between; a write that finds bytes of
another writer may leave a mixture. `Refresh` takes the file over if it is
complete and is an error otherwise, which keeps the snapshot. `main.go` never
installs a refresh function, so that `Current` only loads the first time.

### BootstrapManager
`status`, `phase`, `start` are the fields of a session; `"absent"` is an id that
is not in the map. `timer` is the context with its deadline and the goroutine
that waits for it: not yet created, armed, fired (the goroutine wants the
lock), over. `canceling` holds the sessions whose `Cancel` has left the lock and
not yet called the context's cancel function. A submit request `q` walks through
`pc[q]`: the first critical section (`Submit`), parsing, key generation, remote
derivation, open, write, then `complete`, `reload` and `respond`, or `fail` from
any of them. The status updates between the steps are the code's
`updateSession` and `updateSessionWithPhase`, which look at nothing but whether
the id is in the map. `GetStatus` drops sessions ten minutes after their start.
`Crash` empties the memory at any moment and keeps the file.

Input that the first lines of a handler refuse (bad JSON, a foreign host, no
authorization) touches nothing and has no action.

### SessionStore and ChatPipeline
A conversation is a sequence of turns, a turn the request it belongs to and
what it is: a prompt, a tool result, or the answer as text, tool call or
reasoning; stored, a tool call is an `"empty"` assistant turn and reasoning is
`"inlined"`. This is all that the comparison of histories can tell apart.
`Merge` is `mergeCanonicalTurns`; `Built` and `BuildCanonicalRequest` are what
the operation returns and what it does; `Victims` are the sets
`ensureCapacityLocked` may remove, of which equal ages leave a choice (the
code's comes from Go's map order).

A request walks through `Send` (or `Replay`), `Build`, `Forward`, `ReadStream`,
`Save`, `Record`, `Respond`. Every step up to the end of the stream may refuse.
The Anthropic stream answers before it saves (`AnswersFirst`), the others after.
`snapshot[q]` is the merged request that the handler holds from `Build` to
`Save`, and what is saved over whatever the store has by then.
`view[s]` is what the client knows, and grows by an exchange when an answer
arrives; `Respond` may also fail to reach it. Clients send the whole history
they know or only what is new, wait for answers or do not.

History variables, read by properties only: `excused` (answers that were
dropped from the store or expired there), `overlapped` (conversations whose
client did not wait), `gone` (turns that were dropped or expired while nobody
used them), and in `BootstrapManager` `saved` (logins written out whole).

### Conversations
The promise without clocks, limits, endpoints or steps: a conversation is asked
in (`Ask`: what is stored and what the client adds goes upstream) and answered
(`Answer`: it becomes exactly what was asked, and the answer), or its question
is given up, or it is forgotten as a whole. The mapping is in `ChatPipeline`:
`log` is `StoredLog`, the turns in the store; `held` is `HeldLog`, the snapshot
of the request between its build and its save. `Build` implements `Ask`,
`Save` implements `Answer`, a refusal `GiveUp`, and `Sweep`, `DeleteSession`,
evictions and the stale sessions that an operation drops on its way are the set
that any of these steps may forget. It holds for clients that wait for an answer
before they go on. A conversation whose client does not wait (`overlapped`) is
mapped to an empty one: two builds of one conversation overlap there, and the
second save overwrites the first one's turns.

### UpstreamStream and ResponseStream
`ReadStream` of `ChatPipeline` is one step with an answer or a failure; these
modules are its detail, for one request. An event has reasoning, text and
fragments of tool calls in any combination; a fragment has an index and may have
a head (id and name) and a part of the arguments. Heads, parts and texts are
named by their position in the stream, so that order, loss and duplication can
be said without strings. `CallsMeant` is the reference: each head, with the parts
that follow it at its index up to the next head.

`streamChatResponse` collects (`pending`) and emits whole calls: before a text
(`ChatContent`, `EmitPending`, `WriteContent`), when a head reuses an index
(`ChatFragment`), and at the end (`ChatEnd`, `ChatFinish`). `streamAnthropicResponse`
passes fragments on in blocks (`MessageText`, `MessageFragment`, `MessageEnd`);
block numbers are the code's plus one. `MergeToolCallDeltas` is what
`/v1/messages` without streaming does with all fragments. (`/v1/chat/completions`
without streaming looks at the text alone: its client gets no calls, and
`AnswerTurn` of `ChatPipeline` gives it an empty answer where there is only one.) The loops over the map and over the
fragments take a step per element, which lets a proof go by the step; nothing
else touches the state of a request meanwhile. Keep-alives and empty lines are
no events. What the modules leave out: usage numbers, and a client that has left,
to which nothing can be shown.

Three premises name what the code relies on and no document promises:
`Orderly` (one kind of thing per event, head first, a call not interrupted by
text), `Sequential` (nor by another call) and `Indexed` (an index for each
call). `EveryPartOnce`, `TextAfterItsCalls` and the nesting of blocks need none.

### MessageIR, PolicyRules and RequestPath
`ChatPipeline` has opaque requests and their answers in detail; `RequestPath` has
the request in detail and the steps after `StreamChat` as one (`Finish`). A text
is a sequence of pieces, so that concatenation can be told from loss and from
doubling; a call has an id and a name, an image a kind, a media type that is
allowed or not, data and a size. `MessageIR` holds the conversions as operators, one
for each function of `message_ir.go` that the server calls: validation (with the
calls without a name that it removes), canonical forms of both protocols,
`ProjectTurns`, `ReplayBody`, `BuildCanonical`, and the limits of images. A document
becomes text, with its data where it has any; a URL that is empty is refused. Sizes
are counted in units of 256 KB: a body has at most 1 MB (`server.go:766`) or 2 MB
(`anthropic_handler.go:21`), which `FitsBody` compares with its images alone, in
base64, the rest of a body being small. Behind these the limits of 5 and 10 MB on
images never decide (`server_test.go:334` knows of the first); they are kept in
`WithinVisionLimits`, as in the code.
`PolicyRules` holds the table (each operator one SQL statement),
`RuleMatches`, `EffectiveActions` and `ApplyActions`; a rule whose pattern is no
regular expression fails the evaluation of the requests it is compared with.

A request goes through `Receive` (or `ReplayRecord`), `EvaluateCanonicalRequest`,
`Build`, `Forward` and `Finish`, any of which may refuse; `EditPolicies` may come
between any two. `FirstRuleDecides` compares what is sent with a definition of
the deciding rule that does not use the evaluation (`Deciders`), and
`EverythingIsSent` what is sent with what the conversation says, word for word.

### Retention, ModelService and Administration
`Retention`: an update of the settings writes its keys one by one in the order
of a Go map (`UpdateSettings`); the cleanup loop of `main.go` and the console's
button read the settings and delete, in a step for each statement, and each
statement may fail. A reading of the settings may fail as a whole, or half way, with
the rows it had over the defaults (`Readings`); the program drops the error and uses
what there is. Rows are known by the day they were made on. `Restart` ends
and starts the process at any moment. History: `granted` (what an update asked
for and nobody wrote over), `whole` (did the cleanup at work read all the settings)
and `inEffect` (the retentions that were set when it read them, or since; what it
read itself is in `days`, and no part of it).

`ModelService`: callers read the list, fetch it without the lock and store it,
any number at once; `Change` is the upstream's. History: `offers`, and `seen`, the
offers during a call with those that other callers had fetched and not stored
when it began.

`Administration` adds the starts of the process with `backfillModelMappingsIntoPolicies`
(`Start` is its query, `InsertMappingRule` one insert), crashes anywhere and the
edits of rules, which are stored with whatever source they come with. History:
`edited`, and `byHand`, the rules that an edit wrote. The three parts share no state and no step of one reads
another's, so every behaviour is an interleaving of three independent ones; the
run explores each with the others at rest (`part`), and loses nothing by it.

## 3. What the runs show

| Run | Instance | Properties |
|---|---|---|
| `bootstrap_safety` | 2 logins, 2 submits, 1 crash, clock 0–3, timeout 1, retention 2 | `TypeOK`, `AwaitingHasDeadline`, `OneAwaiting`, `CompletedWasSaved`, `StaleOnlyUntilReload`, `CancelHoldsWithoutWorker` |
| `bootstrap_liveness` | 1 login, 2 submits, 1 crash | `OneWorkerPerSession`, `RunningHasWorker`, `SlotIsFreed`, `SubmitIsAnswered` |
| `bootstrap_at_most_one_active` | as safety, no crash | violates `AtMostOneActive` |
| `bootstrap_cancelled_is_final` | as safety, no crash | violates `CancelledIsFinal` |
| `chat_safety` | 2 conversations, capacity 1, 3 Anthropic streams (answer before save), TTL 1, clock 0–2 | `AnsweredIsRemembered`, `FailureLeavesNoTrace`, `ForgottenIsNotForwarded`, `FullHistoryNotDoubled`, and `KeepsConversations`, the refinement |
| `chat_capacity` | 3 conversations, capacity 2, 3 chat streams (save before answer), TTL 1, clock 0–2 | `AnsweredIsRemembered`, `CapacityHolds`, `EvictsOnlyOldest` |
| `chat_liveness` | 1 conversation and requests without, 2 requests, all kinds of answers | `TypeOK`, `StaleIsSwept` |
| `response_stream` | 2 indexes, up to 4 of 12 events, both endpoints | `TypeOK`, `CallsAreWhole`, `EveryPartOnce`, `TextAfterItsCalls`, `BlocksNest`, `EndpointsAgree` |
| `request_path` | 2 requests or replays of 8 kinds, 3 tables of rules, 1 edit, 1 conversation | `TypeOK`, `EverythingIsSent`, `FirstRuleDecides`, `ReplayIsFaithful`, `SentImagesAreAllowed`, `UnnamedCallsStayOut` |
| `administration` | 5 mappings, 3 starts, 2 edits; 2 updates, 2 cleanups, days 0–3, default retention 2, 1 restart; 2 callers, 3 calls, 1 change of upstream | `TypeOK`, `BackfillIsExact`, `RulesKeepPlaces`, `AcknowledgedSettingsHold`, `OfferedIsNotRefused`, `RefreshIsFresh`, `CleanupKeepsRetained` |
| `administration_liveness` | the settings alone: 1 update to a retention of 1 and another timeout, 2 cleanups, days 0–3, default retention 2, 1 restart | `SettingsTakeEffect` |
| `chat_full_history` | 1 conversation, 2 chat streams | violates `FullHistoryIsAuthority` |

**Bounds.** Two sessions and two submits are what it takes for two workers on
one session, for a worker beside a newer login and for two writers of the file.
With a timeout of 1, a retention of 2 and a clock that goes to 3, a session can
be submitted before, at and after its deadline and be reclaimed under its
worker; `StartRemoteCallback` is only taken when the deadline lies within the
clock. One crash leaves every half-done step behind; the second would meet
nothing new. In the chat, a conversation is lost or doubled by a request that
reads, another that saves between, and a third that shows the result, which is
three requests; capacity 1 makes every second conversation evict the first, and
capacity 2 with three conversations makes the oldest one a choice. Three time
steps with a TTL of 1 tell fresh, old and expired apart. `MaxTime` and
`MaxCrashes` are guards of their actions and the only artificial bounds of the
logins and the chat; requests and login sessions are used once. Requests are
symmetric, and ids, except where liveness is checked. In a stream, a call is torn
by a head, a part, something between and another part: four events, of which
some carry two fragments. Two indexes make calls of their own and calls in turns;
`MaxEvents` is the only bound there.

On the way of a request, two are what it takes to record and replay, to store a
turn by one protocol and send it by the other, and to be judged before and after
an edit. The eight requests were chosen so that each branch of the conversions
is taken by one: a result after a history with a call without a name, text
around images, an image alone, a replay header, an image of a foreign type, one
too large, a system prompt of two blocks with a turn of text around a result,
and a call without a name on `/v1/messages`. The tables have rules of equal
priority, a rule that matches only what another rewrites, one that denies and
one that allows tools, disabled and broken ones. Expiry and eviction are off there
(TTL and capacity 0): they are `ChatPipeline`'s.

In the administration, three starts are an interrupted migration, one that
completes it, and one that must find nothing to do; two of the five mappings share
their pattern and target, one has a pattern that is no expression, one an empty one,
and one is disabled, so that ranks, gaps between starts and merged rules all occur.
Edits write a rule like that of a mapping, with the source of the console and with
that of the migration. One update asks for a retention of 1, shorter than the default
of 2 as the console's 7 and 14 days are shorter than 30, and a shorter timeout; one
turns retention off and has an unknown key. Up to day 3 there are rows past the
shorter retention and not the default one, and rows past the default one where
retention is off. Two callers and three calls let a refresh begin
before another and end after it, and a third call find what they left;
`MaxEdits`, `MaxStarts`, `MaxDay`, `MaxRestarts`, `MaxChanges` and `MaxCalls` are
guards of their actions. Liveness has a run of its own, since the fairness is that
of the settings, and the rules and models would only multiply its states.

The chat, stream, request and administration runs turn the deadlock check off: when all requests are done
and the clock stands, the stream has ended, or the bounds are reached, the model
(not the server) stops.
A swept, empty store leaves `Sweep` as a stuttering step there. The login runs
keep it on.

**Fairness.** The runtime runs goroutines that can run and fires timers; the
clock advances. So the steps of a request that was accepted, the deadline, the
goroutine behind it, the call of cancel after a Cancel, and the sweeper are
weakly fair. The remote login has a client timeout of 30 s and the chat
transport one of 90 s, which covers the reading of the stream: such a step
ends, with success or failure. Users, administrators, chat clients and crashes
are never obliged to act. In `Retention` the loop goes on after any error, since
`main.go` has no way out of it (weak fairness of its steps), an update that was
begun comes to its end, and a database that may fail in any tick does not fail
in every one: of the ticks some read all the settings (strong fairness of
`ReadsSettings`), and of the ticks that read them some delete (of `CleansRecords`).
The second is said of these ticks, not of all: if the readings that succeed were
always followed by deletions that fail, and the others by ones that succeed, only the
default retention would ever be used, and no code could do better.

**Where code and documents disagree.**
1. *One active login.* The design of the callback login
   (`docs/superpowers/specs/2026-05-05-remote-callback-bootstrap-design.md:330`)
   allows one active session. A submit that is in flight when its session is
   cancelled sets it back to "running" (`bootstrap_manager.go:78`) while the next
   login waits; a session in "error" can be submitted again beside a newer one.
2. *Cancelled is final* (the same document, 180–187). The same submit goes on to
   "completed" and saves the cancelled login's credentials. What does hold is
   `CancelHoldsWithoutWorker`: without a submit in flight, cancelled stays so.
3. *The full history is the authority* (`sessions_test.go:9`). True in
   `FullHistoryNotDoubled` for plain text answers. After a stream with a tool call,
   which the client has and sends back, the stored turn is empty, the comparison
   fails, and the history is doubled. The cause is that the handlers save only the
   text of an answer, though
   `docs/superpowers/plans/2026-05-01-lingma2api-platform-plan.md:39-45` says that
   canonical storage must preserve tool calls.

**What no document promises and the properties leave out**, each met while
modelling and said in the comment of the property that excludes it:
- A mapping with an empty pattern gets a rule without a match, which the query of
  the backfill does not find again: each start adds another. (The test of the
  backfill, `mapping_policy_migration_test.go:56`, has a pattern.) A migrated rule
  that was deleted, or edited in the console, which drops its source, comes back
  with the next start, enabled if its mapping is.
- The query looks for a rule by source, pattern and target, not by priority. Of two
  mappings that share pattern and target, both get a rule, unless the process dies
  between the two inserts: then the next start takes the rule of the first for the
  second's too. `BackfillIsExact` therefore speaks of numbers of such rules;
  that a rule has the priority of its mapping, is enabled as it is, and stands at
  its place in the order (`RulesKeepPlaces`) is said of mappings that share them
  with no other.
- The next request of a client that saw the end of an Anthropic stream may come before
  that stream's save, and overlapping requests of one conversation overwrite each
  other's turns (`AnsweredIsRemembered` is about clients that wait until then).
- A replay on `/v1/chat/completions` loses images and reasoning, one on
  `/v1/messages` the tool choice (`ReplayIsFaithful`).
- A call without a name is removed from what `/v1/messages` validates and not
  from what it sends (`UnnamedCallsStayOut`).
- The limits on the number and total size of images are those of one request,
  while all images of the stored conversation are uploaded and sent again
  (`SentImagesAreAllowed`).
- A cleanup that cannot read the settings (`main.go:61` drops the error) goes by the
  default of 30 days, also if a longer retention is set or it is off
  (`CleanupKeepsRetained` allows it).
- A reading of the settings that fails half way sets the timeout back to the default
  until the next one (`SettingsTakeEffect` says that it gets right again).
- `EndpointsAgree` is about the two streams and `/v1/messages` without streaming, and
  upstreams that send one call after another. Calls sent in turns are mixed by the
  blocks of `/v1/messages`; `/v1/chat/completions` without streaming has no calls.
- Of two overlapping fetches of the model list, the one that began first may
  store last and put the older list back, until the next refresh. What is promised
  is that nobody is refused a model that was offered all the time, and that
  who refreshes does not get a list older than its call but for one that
  was fetched and not yet stored (`OfferedIsNotRefused`, `RefreshIsFresh`).

## 4. What is proved

Every invariant and every action property that a run checks is a theorem as well,
and so is the refinement of `Conversations`; only what speaks of liveness is not.
`PROJECT.json` gives the theorem of each.

`BootstrapManagerProofs` proves, for any sets of sessions and requests, any
timeouts and any number of crashes, all the safety properties of the two login
runs: `TypeCorrect`, `WorkersExcluded`, `NoOrphanedRun`, `NoOrphanedWait`,
`AwaitingIsUnique`, `CompletionIsHonest`, `SnapshotFollowsFile` and the action
property `CancelIsRespected`. They rest on the named assumptions
`SentinelsAssumption` (the sentinels of the file are no credential sets) and
`BootstrapAssumption` (the numbers are naturals, sessions name credentials, the
sentinel `NoSid` is no session); TLC evaluates both in every run.

The inductive invariant is `IInv`. That one worker runs a session is not
inductive by itself: a second submit must be refused in every status that a
session can have while its worker is somewhere between two updates. That is
`WorkerStatus`: running, cancelled, gone from the map, or in error with its time
past. None of these is accepted by `Submit`: a cancelled session is refused, an
expired one fails the check of the time, which comes first, and time does not
go back. `TargetsBegan` and `UnbornIsAbsent` say that a worker's session was
really started, so that an id taken for a new session has no worker yet.
`DeadlineInv` adds that a pending cancel belongs to a session that has stopped
waiting, `SaveInv` that a request before its completion has written the file.
`StaleOnlyUntilReload` is inductive with them. Each is proved by one lemma per
group of actions (`SessionStep`, `SubmitStep`, `WorkerStep`) over `NextType`.

`ChatPipelineProofs` and, on top of it, `ConversationsProofs` prove, for any
numbers of requests and conversations, any TTL, capacity, clients and answers,
all the safety properties of the two chat runs and the refinement:
`ChatTypeCorrect`, `LimitIsKept`, `EvictionIsLeastRecent`, `FailuresAreForgotten`,
`ImplementsConversations`, `AnswersAreRemembered`, `ForgottenStaysForgotten` and
`HistoryIsForwardedOnce`. They rest on `SessionAssumption` (the numbers are
naturals, `NoSession` is no conversation) and `ChatAssumption` (the styles and
answers are known ones). The invariant grows in layers:
- `FlowInv` ties what a request has (a snapshot, an answer, an outcome) to where
  it is. `CapacityInv` adds to the limit that the store is finite, without which
  a removal proves nothing about numbers. `OriginInv` says where turns come
  from: a turn of an answer is of a request that got so far.
- `OneAtATime` is why a store that is read and written in different critical
  sections can keep a promise at all: from the build to the save of a request
  whose client waits, no other request is in that conversation. With it every
  step is one of `Conversations` or none (`BuildRefines`, `SaveRefines`,
  `ReceiveRefines`, `EndRefines`), the set that is forgotten being read off the
  step. `RememberInv` and `GoneInv` say of snapshots and stored turns what the two
  properties say of requests that are forwarded.
- `FullInv` needs the course of each request of a faithful client (`Course`): that
  what it sent is the view of its client and one turn more, and that what is
  stored is that view or nothing, at every point, also for the Anthropic stream,
  where the client knows the answer before the store does.

`ResponseStreamProofs` proves `StreamTypeCorrect`, `PartsAreKept` and
`TextKeepsItsPlace` for any events in any number, from `StreamAssumption` (events
are events). `StreamInv` ties the place in the loop to the event at hand.
`PartInv` is `EveryPartOnce` made inductive: every part that was read is in one
call, written or pending; no two calls share a part, a pending call has parts of
its index only, and parts come in order, since the fragment at hand is after all
before (`AdvancePositions`). `TextInv` adds that the parts still pending came
after all texts that were written.

The second part of that module proves `BlocksAreNested`, chunk by chunk. `Nested`
says that what the handler knows of its blocks (`blockIndex`, `blockType`) is what
the begins and ends in `out` amount to; `AddStart`, `AddStop`, `AddDelta` and
`AddEnd` keep it, whatever the upstream sends. That a delta has a block of its own
type depends on the upstream, so the rest is about orderly ones: one that is
orderly was orderly before (`OrderlyBefore`), and as long as only fragments follow
the head of a call the open block is a tool's (`ToolOpen`).

`ToolCallProofs` proves `CallsArriveWhole` and `EndpointsGiveTheSame`. Both compare
what a client gets with `CallsMeant`, which looks at the whole stream at once. What
makes that inductive is to say it of a stream that is not over: `PartsMeant` of a
head are the parts that follow it so far, and grow at the end alone
(`MeantSoFar`). `CallInv` says for the chat stream that each head is that of one
call, written or pending (`HeadsInv`), that a pending call has all its parts so
far, and that only the last head at an index has one pending (`PendingInv`).
`MessageInv` says the same of the blocks of the other endpoint. `MeantIsMerged`
adds that `MergeToolCallDeltas`, which goes by the index alone, finds the same if
each call has an index of its own.

`PolicyRulesProofs` proves what the evaluation computes for a table of any size:
`InOrder` has every rule once, by priority and then by id (`InOrderReturnsAll`), and
the loop of `EffectiveActions` keeps, for each category, what the first matching
rule says (`FirstRuleHasIt`).

`RequestPathProofs` proves `RequestPathTypes`, `EverythingIsSentAlways`,
`FirstRuleDecidesAlways`, `SentImagesAreAllowedAlways`, `UnnamedCallsStayOutAlways`
and `ReplayIsFaithfulAlways`, for any clients, rules, edits, conversations, records
and numbers of requests, from `WordsAssumption` (the strings the conversions put in
are words) and `PathAssumption` (requests are requests, rules have conditions and
actions of the right types). Its first part is about the operators of `MessageIR`
alone: every conversion is a sum over turns, of sums over blocks, so each is
written as `Cat(f, s)`, and the laws of `Cat` (it distributes over concatenation,
and a `Cat` of a `Cat` is a `Cat`) carry the rest. `TurnSays` shows that a turn's
messages say what the turn says; `MessagesAgain`, `BlocksAgain` and `SystemAgain`
that the body of a replay, read and projected again, gives the messages the
recorded turns gave. The invariants on top of it are
- `PathTypes`: `TypeOK` alone is not inductive, since it does not say which
  requests `sent` and `used` are about, nor that the next rule's id is positive.
- `FlowInv`: what a request holds is what its steps made of what it held before,
  `post` of `pre` by the rules of one moment, `merged` of `post` by turns put in
  front, `sent` of `merged`, and `pre` of its record's body. The policies may be
  edited between any two of these steps, the record is fixed once it is one.
- `TurnsInv` and `NamedInv`: every turn, in the store or in a request, is one that
  validation let pass or an answer; the properties about images and calls follow
  from what holds of each such turn.
- `OriginInv`: a request came as the canonical form of an accepted body. Without it
  a replay on `/v1/messages` could not be shown to keep the order of turns, as the
  system's text is put in front: only a canonical form has it there already.

`AdministrationProofs` proves `AdministrationTypes`, `BackfillIsExactAlways`,
`RulesKeepTheirPlaces`, `SettingsAreKept`, `RetainedIsKept`, `OffersAreAccepted` and `RefreshesAreFresh`, for
any mappings, edits, crashes, requests, settings, calendar and upstream, from
`MappingsAssumption` (finitely many mappings), `AdministrationAssumption` (the bounds
are naturals; edits may be any rules, of any source), `RetentionAssumption` and
`ModelAssumption`. `SettingsInv`: what an update was granted is written, or still to
be written by it. `RetentionInv`: the retention that a cleanup goes by is one that was
set when it read all the settings, or, if it could not, one that it falls back to
(`ReadingsFallBack`). `ModelInv`: each list that is stored, or fetched and about to be,
was offered, and is one that every call under way has seen. `BackfillInv`: the rules
with a mapping's pattern and target that no edit wrote, and the mappings with these
that the start at work has still to insert, are together no more than the mappings
that have them; and each mapping has a rule or is still to be inserted. A crash
empties the second number, and the next query counts only mappings without a rule.
`PlacesInv`, for `RulesKeepTheirPlaces`: a rule that no edit wrote is the rule of some
mapping, and of two mappings that stand alone the one that comes first in the order
has its rule first, with the smaller id (`InTurn`), since a start inserts what is
missing in order and dies, if it does, after a part of that order.

*Induction.* The library states it with an operator as a parameter, which the
provers cannot instantiate. `PolicyRulesProofs` derives it from `WFMin` in the form
that a *set* which has 0, and with each number the next, has every number
(`InductionOnSets`); `InductionOnSeqs` is the same for sequences. Both are used with
the set of what a claim holds of. For that the modules avoid, where a proof looks into
them, operators that the provers cannot unfold (`SelectSeq`, `SetToSortSeq`,
`FoldLeft`, `@@`): `Those`, `InOrder` and the loops over rules and blocks are written
with recursive functions and `FlattenSeq`.

*Only model-checked*: what is temporal, `SlotIsFreed`, `SubmitIsAnswered`,
`StaleIsSwept` and `SettingsTakeEffect`, since the prover handles
neither fairness nor ENABLED. The three properties that are violated are not
theorems either; their traces are in the runs.

## 5. Not modelled

- Signing, encryption, HTTP, the parsing of callbacks: pure code or I/O, whose
  outcome is the success or failure of a step.
- Statistics, lists, exports and the views of the console: they only read. The
  logging middleware passes requests through; nothing writes `request_logs` or
  `http_exchanges` any more (`ExchangeLogger` has no caller).
- `ConvertAnthropicToIR`, `ConvertIRToAnthropic`, `BuildMessages`, `SaveResponse` and the
  functions over `model_mappings` but the backfill: called by tests or by nothing.
- The shutdown: `ListenAndServe` returns as soon as it begins, and the process ends
  with requests still served. To them it is a crash, and nothing of theirs
  outlasts the process but a record, which may be missing after any request.
- The command line tools (`cmd/`, `refresh.go`, `ws_refresh.go`, `bootstrap.go`) and
  the development tools: run by hand, outside the server.
- Configuration: read once at start; its values are constants.
- Data races on single words (the shared client's timeout): no effect on what is
  checked. Wording of messages, token counts, temperature, tool schemas.

## 6. Plan

Modelled and checked so far: logins, credentials, conversations and their
abstract specification, both endpoints in both directions, policies, settings,
retention, backfill, models; proved is all of it that is not about liveness. Left:

1. Second writers of the credential file (`RefreshAndSave` of the command line) and
   `WaitForCallback`, if the tools are ever run beside the server.
2. The premises of liveness as properties of their own: which action is enabled
   where, so that a change of a guard is seen before a run without an end is.
3. The hazards without a property in `PROJECT.json`, where the code gains a promise
   that one could state (an answer cut off before its end, an answer that is saved
   and not received).
