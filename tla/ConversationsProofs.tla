-------------------------- MODULE ConversationsProofs --------------------------
(***************************************************************************)
(* What holds of whole conversations, for any number of requests and       *)
(* sessions: the chat endpoints and the session store implement            *)
(* Conversations, an answered turn is remembered, a forgotten one is not   *)
(* forwarded, and a history that the client repeats is forwarded once.     *)
(*                                                                         *)
(* The argument: the build and the save of a request are critical sections *)
(* of their own, and between them a client that waits for its answers has  *)
(* no other request in that conversation.  So what the save writes is what *)
(* is stored, or was until it was dropped, and the new turns.              *)
(***************************************************************************)
EXTENDS ChatPipelineProofs

USE DEF storeVars, requestVars, historyVars, Points

\* Of the requests of a client that waits, one at a time is unfinished.
OneAtATime ==
    \A q, r \in Reqs :
        /\ session[q] = session[r]
        /\ session[q] \in Sids \ overlapped
        /\ Unfinished(q)
        /\ Unfinished(r)
        => q = r

LEMMA InitOneAtATime == Init => OneAtATime
  BY DEF Init, OneAtATime, Unfinished, InFlight

LEMMA AskingIsUnfinished ==
    ASSUME FlowInv, NEW q \in Reqs, Asking(q)
    PROVE  Unfinished(q)
  BY DEF FlowInv, Asking, Unfinished, InFlight, AnswersFirst

LEMMA ReceiveOneAtATime ==
    ASSUME TypeOK, FlowInv, OneAtATime, NEW q \in Reqs, NEW s \in Sids \cup {NoSession},
           NEW y, NEW ts, Receive(q, s, y, ts)
    PROVE  OneAtATime'
<1>1. /\ session' = [session EXCEPT ![q] = s]
      /\ overlapped \subseteq overlapped'
      /\ s \in Sids \ overlapped' => \A r \in Reqs : session[r] = s => ~Unfinished(r)
      /\ session'[q] = s
  BY DEF Receive, TypeOK
<1>2. \A r \in Reqs \ {q} : session'[r] = session[r] /\ (Unfinished(r)' => Unfinished(r))
  BY DEF Receive, TypeOK, Unfinished, InFlight
<1>3. QED
  BY <1>1, <1>2 DEF OneAtATime

LEMMA GotoIsOwn ==
    ASSUME TypeOK, NEW q \in Reqs, NEW l, Goto(q, l), NEW r \in Reqs \ {q}
    PROVE  pc'[r] = pc[r] /\ snapshot'[r] = snapshot[r]
  BY DEF TypeOK, Goto

LEMMA RefuseIsOwn ==
    ASSUME TypeOK, NEW q \in Reqs, Refuse(q), NEW r \in Reqs \ {q}
    PROVE  pc'[r] = pc[r] /\ snapshot'[r] = snapshot[r] /\ outcome'[r] = outcome[r]
  BY GotoIsOwn DEF TypeOK, Refuse

\* A step of q's handler is of q's only.
LEMMA ProceedIsOwn ==
    ASSUME TypeOK, NEW q \in Reqs, Proceed(q), NEW r \in Reqs \ {q}
    PROVE  /\ pc'[r] = pc[r]
           /\ outcome'[r] = outcome[r]
           /\ answer'[r] = answer[r]
           /\ snapshot'[r] = snapshot[r]
<1>1. CASE Build(q)
  BY <1>1, RefuseIsOwn DEF Build, TypeOK
<1>2. CASE Forward(q)
  BY <1>2, RefuseIsOwn, GotoIsOwn DEF Forward
<1>3. CASE ReadStream(q)
  <2>1. answer'[r] = answer[r]
    BY <1>3 DEF ReadStream, TypeOK
  <2>2. QED
    BY <1>3, <2>1, RefuseIsOwn, GotoIsOwn DEF ReadStream
<1>4. CASE Save(q)
  BY <1>4, GotoIsOwn DEF Save
<1>5. CASE Record(q)
  BY <1>5, GotoIsOwn DEF Record
<1>6. CASE Respond(q)
  <2>1. outcome'[r] = outcome[r]
    BY <1>6 DEF Respond, TypeOK
  <2>2. QED
    BY <1>6, <2>1, GotoIsOwn DEF Respond
<1>7. QED
  BY <1>1, <1>2, <1>3, <1>4, <1>5, <1>6 DEF Proceed

LEMMA ProceedKeeps ==
    ASSUME NEW q \in Reqs, Proceed(q)
    PROVE  session' = session /\ overlapped' = overlapped /\ style' = style /\ incoming' = incoming
<1>1. CASE Build(q)
  BY <1>1 DEF Build, NoteDrops, Note
<1>2. CASE Save(q)
  BY <1>2 DEF Save, NoteDrops, Note
<1>3. CASE Forward(q) \/ ReadStream(q) \/ Record(q) \/ Respond(q)
  BY <1>3 DEF Forward, ReadStream, Record, Respond
<1>4. QED
  BY <1>1, <1>2, <1>3 DEF Proceed

LEMMA ProceedWasUnfinished ==
    ASSUME FlowInv, NEW q \in Reqs, Proceed(q)
    PROVE  Unfinished(q)
<1>1. pc[q] \in {"received", "built", "streaming", "save", "record", "respond"}
  BY DEF Proceed, Build, Forward, ReadStream, Save, Record, Respond
<1>2. QED
  BY <1>1 DEF FlowInv, Unfinished, InFlight, AnswersFirst

LEMMA NextOneAtATime ==
    ASSUME TypeOK, FlowInv, OneAtATime, [Next]_vars
    PROVE  OneAtATime'
<1>1. ASSUME NEW q \in Reqs, NEW s \in SendTo, NEW y \in Styles, NEW wholeHistory \in BOOLEAN,
             Send(q, s, y, wholeHistory)
      PROVE  OneAtATime'
  BY <1>1, ReceiveOneAtATime, ChatAssumption DEF Send
<1>2. ASSUME NEW q \in Reqs, NEW r \in Reqs, Replay(q, r)
      PROVE  OneAtATime'
  BY <1>2, ReceiveOneAtATime DEF Replay, TypeOK
<1>3. ASSUME NEW q \in Reqs, Proceed(q)
      PROVE  OneAtATime'
  <2>1. Unfinished(q)
    BY <1>3, ProceedWasUnfinished
  <2>2. session' = session /\ overlapped' = overlapped /\ style' = style
    BY <1>3, ProceedKeeps
  <2>3. \A r \in Reqs \ {q} : Unfinished(r)' => Unfinished(r)
    BY <1>3, <2>2, ProceedIsOwn DEF Unfinished, InFlight
  <2>4. QED
    BY <2>1, <2>2, <2>3 DEF OneAtATime
<1>4. ASSUME NEW s \in Sids, DeleteSession(s)
      PROVE  OneAtATime'
  BY <1>4 DEF OneAtATime, Unfinished, InFlight, DeleteSession, NoteDrops, Note
<1>5. CASE Sweep \/ Tick \/ UNCHANGED vars
  BY <1>5 DEF OneAtATime, Unfinished, InFlight, Sweep, Tick, NoteDrops, Note, vars
<1>6. QED
  BY <1>1, <1>2, <1>3, <1>4, <1>5 DEF Next

-----------------------------------------------------------------------------
(***************************************************************************)
(* The refinement.                                                         *)
(***************************************************************************)
\* The question in s, if there is one, is its only request's snapshot.
LEMMA HeldIsSnapshot ==
    /\ FlowInv /\ OneAtATime =>
         \A s \in Sids \ overlapped : \A q \in Reqs :
           session[q] = s /\ Asking(q) => HeldLog[s] = snapshot[q]
    /\ \A s \in Sids : s \in overlapped \/ (\A q \in Reqs : ~(session[q] = s /\ Asking(q))) =>
         HeldLog[s] = <<>>
    /\ (FlowInv /\ OneAtATime)' =>
         \A s \in Sids \ overlapped' : \A q \in Reqs :
           session'[q] = s /\ Asking(q)' => HeldLog'[s] = snapshot'[q]
    /\ \A s \in Sids :
         s \in overlapped' \/ (\A q \in Reqs : ~(session'[q] = s /\ Asking(q)')) =>
           HeldLog'[s] = <<>>
<1>1. ASSUME FlowInv, OneAtATime, NEW s \in Sids \ overlapped, NEW q \in Reqs,
             session[q] = s, Asking(q)
      PROVE  HeldLog[s] = snapshot[q]
  <2>1. \A r \in Reqs : session[r] = s /\ Asking(r) => r = q
    BY <1>1, AskingIsUnfinished DEF OneAtATime
  <2>2. (CHOOSE r \in Reqs : session[r] = s /\ Asking(r)) = q
    BY <1>1, <2>1
  <2>3. QED
    BY <1>1, <2>2 DEF HeldLog
<1>2. ASSUME FlowInv', OneAtATime', NEW s \in Sids \ overlapped', NEW q \in Reqs,
             session'[q] = s, Asking(q)'
      PROVE  HeldLog'[s] = snapshot'[q]
  <2>1. \A r \in Reqs : Asking(r)' => Unfinished(r)'
    BY <1>2 DEF FlowInv, Asking, Unfinished, InFlight, AnswersFirst
  <2>2. \A r \in Reqs : session'[r] = s /\ Asking(r)' => r = q
    BY <1>2, <2>1 DEF OneAtATime
  <2>3. (CHOOSE r \in Reqs : session'[r] = s /\ Asking(r)') = q
    BY <1>2, <2>2
  <2>4. QED
    BY <1>2, <2>3 DEF HeldLog
<1>3. \A s \in Sids : s \in overlapped \/ (\A q \in Reqs : ~(session[q] = s /\ Asking(q))) =>
        HeldLog[s] = <<>>
  BY DEF HeldLog
<1>4. \A s \in Sids :
        s \in overlapped' \/ (\A q \in Reqs : ~(session'[q] = s /\ Asking(q)')) =>
          HeldLog'[s] = <<>>
  BY DEF HeldLog
<1>5. QED
  BY <1>1, <1>2, <1>3, <1>4

\* The requests that ask in s, and what they ask, are the same after the step.
SameQuestions(s) ==
    /\ s \in overlapped <=> s \in overlapped'
    /\ \A q \in Reqs :
         /\ (session'[q] = s /\ Asking(q)') <=> (session[q] = s /\ Asking(q))
         /\ session[q] = s /\ Asking(q) => snapshot'[q] = snapshot[q]

LEMMA SameQuestionsHeld ==
    ASSUME FlowInv, OneAtATime, FlowInv', OneAtATime', NEW s \in Sids, SameQuestions(s)
    PROVE  HeldLog'[s] = HeldLog[s]
<1>1. CASE s \in overlapped \/ (\A q \in Reqs : ~(session[q] = s /\ Asking(q)))
  BY <1>1, HeldIsSnapshot DEF SameQuestions
<1>2. CASE s \notin overlapped /\ \E q \in Reqs : session[q] = s /\ Asking(q)
  <2>1. PICK q \in Reqs : session[q] = s /\ Asking(q)
    BY <1>2
  <2>2. HeldLog[s] = snapshot[q] /\ HeldLog'[s] = snapshot'[q]
    BY <1>2, <2>1, HeldIsSnapshot DEF SameQuestions
  <2>3. QED
    BY <2>1, <2>2 DEF SameQuestions
<1>3. QED
  BY <1>1, <1>2

LEMMA LogsAreFunctions ==
    /\ HeldLog = [s \in Sids |-> HeldLog[s]] /\ HeldLog' = [s \in Sids |-> HeldLog'[s]]
    /\ StoredLog = [s \in Sids |-> StoredLog[s]] /\ StoredLog' = [s \in Sids |-> StoredLog'[s]]
    /\ \A s \in Sids : StoredLog[s] = IF s \in overlapped THEN <<>> ELSE turns[s]
    /\ \A s \in Sids : StoredLog'[s] = IF s \in overlapped' THEN <<>> ELSE turns'[s]
  BY DEF HeldLog, StoredLog

\* Steps that leave every question as it was.
LEMMA ForgetStep ==
    ASSUME TypeOK, FlowInv, OneAtATime, FlowInv', OneAtATime',
           \A s \in Sids : SameQuestions(s),
           NEW F \in SUBSET Sids,
           \A s \in Sids \ overlapped : turns'[s] = IF s \in F THEN <<>> ELSE turns[s]
    PROVE  [Waiting!Next]_<<StoredLog, HeldLog>>
<1>1. HeldLog' = HeldLog
  BY SameQuestionsHeld, LogsAreFunctions
<1>2. \A s \in Sids : StoredLog'[s] = Waiting!Kept(F)[s]
  BY LogsAreFunctions DEF SameQuestions, Waiting!Kept
<1>3. StoredLog' = Waiting!Kept(F)
  BY <1>2, LogsAreFunctions DEF Waiting!Kept
<1>4. Waiting!Forget(F)
  BY <1>1, <1>3 DEF Waiting!Forget
<1>5. QED
  BY <1>4 DEF Waiting!Next

\* A question that is given up, with the conversations of F forgotten.
LEMMA GiveUpStep ==
    ASSUME TypeOK, FlowInv, OneAtATime, FlowInv', OneAtATime', NEW s \in Sids,
           \A r \in Sids \ {s} : SameQuestions(r),
           HeldLog'[s] = <<>>,
           NEW F \in SUBSET Sids,
           \A r \in Sids : StoredLog'[r] = IF r \in F THEN <<>> ELSE StoredLog[r]
    PROVE  [Waiting!Next]_<<StoredLog, HeldLog>>
<1>1. HeldLog' = [HeldLog EXCEPT ![s] = <<>>]
  BY SameQuestionsHeld, LogsAreFunctions
<1>2. StoredLog' = Waiting!Kept(F)
  BY LogsAreFunctions DEF Waiting!Kept
<1>3. Waiting!GiveUp(s, F)
  BY <1>1, <1>2 DEF Waiting!GiveUp
<1>4. QED
  BY <1>3 DEF Waiting!Next

LEMMA OwnQuestion ==
    ASSUME TypeOK, NEW q \in Reqs, Proceed(q), NEW s \in Sids,
           \/ session[q] # s
           \/ /\ Asking(q)' <=> Asking(q)
              /\ Asking(q) => snapshot'[q] = snapshot[q]
    PROVE  SameQuestions(s)
<1>1. session' = session /\ overlapped' = overlapped /\ style' = style
  BY ProceedKeeps
<1>2. \A r \in Reqs \ {q} : (Asking(r)' <=> Asking(r)) /\ snapshot'[r] = snapshot[r]
  BY <1>1, ProceedIsOwn DEF Asking, AnswersFirst
<1>3. QED
  BY <1>1, <1>2 DEF SameQuestions

LEMMA ReceiveRefines ==
    ASSUME TypeOK, FlowInv, OneAtATime, FlowInv', OneAtATime', NEW q \in Reqs,
           NEW s \in Sids \cup {NoSession}, NEW y, NEW ts, Receive(q, s, y, ts)
    PROVE  [Waiting!Next]_<<StoredLog, HeldLog>>
<1>1. ~Asking(q) /\ ~Asking(q)'
  BY DEF Receive, TypeOK, Asking
<1>2. \A r \in Reqs \ {q} :
        session'[r] = session[r] /\ (Asking(r)' <=> Asking(r)) /\ snapshot'[r] = snapshot[r]
  BY DEF Receive, TypeOK, Asking, AnswersFirst
<1>3. turns' = turns
  BY DEF Receive
<1>4. CASE overlapped' = overlapped
  <2>1. \A r \in Sids : SameQuestions(r)
    BY <1>1, <1>2, <1>4 DEF SameQuestions
  <2>2. QED
    BY <1>3, <2>1, ForgetStep, {} \in SUBSET Sids
<1>5. CASE s \in Sids /\ overlapped' = overlapped \cup {s}
  <2>1. \A r \in Sids \ {s} : SameQuestions(r)
    BY <1>1, <1>2, <1>5 DEF SameQuestions
  <2>2. HeldLog'[s] = <<>>
    BY <1>5, HeldIsSnapshot
  <2>3. \A r \in Sids : StoredLog'[r] = IF r \in {s} THEN <<>> ELSE StoredLog[r]
    BY <1>3, <1>5, LogsAreFunctions
  <2>4. QED
    BY <1>5, <2>1, <2>2, <2>3, GiveUpStep, {s} \in SUBSET Sids
<1>6. QED
  BY <1>4, <1>5 DEF Receive

\* A request that asks no more, and did not save, gives up.
LEMMA EndRefines ==
    ASSUME TypeOK, FlowInv, OneAtATime, FlowInv', OneAtATime', NEW q \in Reqs, Proceed(q),
           turns' = turns, ~Asking(q)'
    PROVE  [Waiting!Next]_<<StoredLog, HeldLog>>
<1> DEFINE s == session[q]
<1>1. session' = session /\ overlapped' = overlapped
  BY ProceedKeeps
<1>2. \A r \in Sids \ {s} : SameQuestions(r)
  BY OwnQuestion
<1>3. CASE s \in Sids \ overlapped /\ Asking(q)
  <2>1. \A r \in Reqs : session[r] = s /\ Asking(r) => r = q
    BY <1>3, AskingIsUnfinished DEF OneAtATime
  <2>2. \A r \in Reqs \ {q} : session[r] = s => ~Asking(r)'
    <3>1. \A r \in Reqs \ {q} : Asking(r)' <=> Asking(r)
      BY ProceedKeeps, ProceedIsOwn DEF Asking, AnswersFirst
    <3>2. QED
      BY <2>1, <3>1
  <2>3. HeldLog'[s] = <<>>
    BY <1>1, <1>3, <2>2, HeldIsSnapshot
  <2>4. \A r \in Sids : StoredLog'[r] = IF r \in {} THEN <<>> ELSE StoredLog[r]
    BY <1>1, LogsAreFunctions
  <2>5. QED
    BY <1>2, <1>3, <2>3, <2>4, GiveUpStep, {} \in SUBSET Sids
<1>4. CASE s \notin Sids \/ ~Asking(q)
  <2>1. \A r \in Sids : SameQuestions(r)
    BY <1>4, OwnQuestion
  <2>2. QED
    BY <2>1, ForgetStep, {} \in SUBSET Sids
<1>5. CASE s \in overlapped
  <2>1. HeldLog' = HeldLog
    <3>1. HeldLog'[s] = HeldLog[s]
      BY <1>1, <1>5, HeldIsSnapshot DEF TypeOK
    <3>2. QED
      BY <1>2, <3>1, SameQuestionsHeld, LogsAreFunctions
  <2>2. StoredLog' = StoredLog
    BY <1>1 DEF StoredLog
  <2>3. QED
    BY <2>1, <2>2
<1>6. QED
  BY <1>3, <1>4, <1>5

LEMMA BuildRefines ==
    ASSUME TypeOK, FlowInv, OneAtATime, FlowInv', OneAtATime', NEW q \in Reqs, Build(q)
    PROVE  [Waiting!Next]_<<StoredLog, HeldLog>>
<1> DEFINE s == session[q]
<1>1. session' = session /\ overlapped' = overlapped /\ ~Asking(q)
  BY ProceedKeeps DEF Proceed, Build, Asking
<1>2. \A r \in Sids \ {s} : SameQuestions(r)
  BY OwnQuestion DEF Proceed
<1>3. CASE pc'[q] # "built"
  <2>1. turns' = turns /\ ~Asking(q)'
    BY <1>3 DEF Build, TypeOK, Refuse, Goto, Asking
  <2>2. QED
    BY <2>1, EndRefines DEF Proceed
<1>4. CASE pc'[q] = "built" /\ s = NoSession
  <2>1. turns' = turns
    BY <1>4 DEF Build, TypeOK, Refuse, Goto, BuildCanonicalRequest
  <2>2. \A r \in Sids : SameQuestions(r)
    BY <1>2, <1>4, SessionAssumption
  <2>3. QED
    BY <2>1, <2>2, ForgetStep, {} \in SUBSET Sids
<1>5. CASE pc'[q] = "built" /\ s \in Sids
  <2>1. /\ snapshot'[q] = Built(s, incoming[q])
        /\ Drop(StaleSessions)
    BY <1>5, SessionAssumption DEF Build, TypeOK, Refuse, Goto, BuildCanonicalRequest, SweepExpired
  <2>2. StaleSessions \in SUBSET Sids /\ (s \in StaleSessions <=> Stale(s))
    BY <1>5 DEF StaleSessions
  <2>3. \A r \in Sids : turns'[r] = IF r \in StaleSessions THEN <<>> ELSE turns[r]
    BY <2>1 DEF Drop
  <2>4. \A r \in Sids : StoredLog'[r] = Waiting!Kept(StaleSessions)[r]
    BY <1>1, <2>3, LogsAreFunctions DEF Waiting!Kept
  <2>5. StoredLog' = Waiting!Kept(StaleSessions)
    BY <2>4, LogsAreFunctions DEF Waiting!Kept
  <2>6. CASE s \in overlapped
    <3>1. HeldLog'[s] = HeldLog[s]
      BY <1>1, <1>5, <2>6, HeldIsSnapshot
    <3>2. HeldLog' = HeldLog
      BY <1>2, <3>1, SameQuestionsHeld, LogsAreFunctions
    <3>3. QED
      BY <2>2, <2>5, <3>2 DEF Waiting!Next, Waiting!Forget
  <2>7. CASE s \notin overlapped
    <3>1. Unfinished(q)
      BY ProceedWasUnfinished DEF Proceed
    <3>2. \A r \in Reqs : ~(session[r] = s /\ Asking(r))
      BY <1>1, <1>5, <2>7, <3>1, AskingIsUnfinished DEF OneAtATime
    <3>3. HeldLog[s] = <<>>
      BY <1>5, <3>2, HeldIsSnapshot
    <3>4. HeldLog'[s] = Built(s, incoming[q])
      BY <1>1, <1>5, <2>1, <2>7, HeldIsSnapshot DEF Asking
    <3>5. HeldLog' = [HeldLog EXCEPT ![s] = HeldLog'[s]]
      BY <1>2, <1>5, SameQuestionsHeld, LogsAreFunctions
    <3>6. Built(s, incoming[q]) \in Seq(Turn)
      BY <1>5, BuiltTurns DEF TypeOK
    <3>7. Waiting!Extends(Built(s, incoming[q]), Waiting!Kept(StaleSessions)[s])
      <4>1. CASE Stale(s)
        <5>1. Waiting!Kept(StaleSessions)[s] = <<>>
          BY <1>5, <2>2, <4>1 DEF Waiting!Kept
        <5>2. QED
          BY <3>6, <5>1 DEF Waiting!Extends
      <4>2. CASE ~Stale(s)
        <5>1. Waiting!Kept(StaleSessions)[s] = turns[s]
          BY <1>5, <2>2, <2>7, <4>2, LogsAreFunctions DEF Waiting!Kept
        <5>2. HasPrefix(Built(s, incoming[q]), turns[s])
          BY <1>5, <4>2, BuiltTurns DEF TypeOK
        <5>3. QED
          BY <5>1, <5>2 DEF Waiting!Extends, HasPrefix
      <4>3. QED
        BY <4>1, <4>2
    <3>8. Waiting!Ask(s, StaleSessions)
      BY <2>5, <3>3, <3>4, <3>5, <3>6, <3>7 DEF Waiting!Ask
    <3>9. QED
      BY <1>5, <2>2, <3>8 DEF Waiting!Next
  <2>8. QED
    BY <2>6, <2>7
<1>6. QED
  BY <1>3, <1>4, <1>5 DEF TypeOK

LEMMA SaveRefines ==
    ASSUME TypeOK, FlowInv, OneAtATime, FlowInv', OneAtATime', NEW q \in Reqs, Save(q)
    PROVE  [Waiting!Next]_<<StoredLog, HeldLog>>
<1> DEFINE s == session[q]
           ts == Append(snapshot[q], StoredTurn(q))
<1>1. session' = session /\ overlapped' = overlapped /\ Asking(q) /\ ~Asking(q)'
  BY ProceedKeeps DEF Proceed, Save, Goto, Asking, TypeOK
<1>2. \A r \in Sids \ {s} : SameQuestions(r)
  BY OwnQuestion DEF Proceed
<1>3. CASE s = NoSession
  <2>1. turns' = turns
    BY <1>3 DEF Save, SaveCanonicalResponse
  <2>2. QED
    BY <1>1, <2>1, EndRefines DEF Proceed
<1>4. CASE s \in Sids
  <2>1. PICK victim \in Victims(s) :
          StaleSessions \cup victim \subseteq live /\ Saved(s, ts, StaleSessions \cup victim)
    BY <1>4, SaveEffect DEF Save
  <2> DEFINE out == StaleSessions \cup victim
  <2>2. out \in SUBSET Sids
    BY <2>1 DEF TypeOK
  <2>3. \A r \in Sids : turns'[r] = IF r = s THEN ts ELSE IF r \in out THEN <<>> ELSE turns[r]
    BY <2>1 DEF Saved
  <2> HIDE DEF out
  <2>4. CASE s \in overlapped
    <3>1. HeldLog'[s] = HeldLog[s]
      BY <1>1, <1>4, <2>4, HeldIsSnapshot
    <3>2. HeldLog' = HeldLog
      BY <1>2, <3>1, SameQuestionsHeld, LogsAreFunctions
    <3>3. \A r \in Sids : StoredLog'[r] = Waiting!Kept(out)[r]
      BY <1>1, <2>3, <2>4, LogsAreFunctions DEF Waiting!Kept
    <3>4. StoredLog' = Waiting!Kept(out)
      BY <3>3, LogsAreFunctions DEF Waiting!Kept
    <3>5. QED
      BY <2>2, <3>2, <3>4 DEF Waiting!Next, Waiting!Forget
  <2>5. CASE s \notin overlapped
    <3>1. HeldLog[s] = snapshot[q] /\ snapshot[q] # <<>>
      BY <1>1, <1>4, <2>5, HeldIsSnapshot DEF FlowInv
    <3>2. \A r \in Reqs : session[r] = s /\ Asking(r) => r = q
      BY <1>1, <1>4, <2>5, AskingIsUnfinished DEF OneAtATime
    <3>3. \A r \in Reqs \ {q} : Asking(r)' <=> Asking(r)
      BY ProceedKeeps, ProceedIsOwn DEF Proceed, Asking, AnswersFirst
    <3>4. HeldLog'[s] = <<>>
      BY <1>1, <1>4, <3>2, <3>3, HeldIsSnapshot
    <3>5. HeldLog' = [HeldLog EXCEPT ![s] = <<>>]
      BY <1>2, <3>4, SameQuestionsHeld, LogsAreFunctions
    <3>6. StoredTurn(q) \in Turn
      BY StoredIsTurn DEF FlowInv, Save
    <3>7. \A r \in Sids : StoredLog'[r] =
            [Waiting!Kept(out) EXCEPT ![s] = Append(HeldLog[s], StoredTurn(q))][r]
      BY <1>1, <1>4, <2>3, <2>5, <3>1, LogsAreFunctions DEF Waiting!Kept
    <3>8. StoredLog' = [Waiting!Kept(out) EXCEPT ![s] = Append(HeldLog[s], StoredTurn(q))]
      BY <3>7, LogsAreFunctions DEF Waiting!Kept
    <3>9. Waiting!Answer(s, out)
      BY <3>1, <3>5, <3>6, <3>8 DEF Waiting!Answer
    <3>10. QED
      BY <1>4, <2>2, <3>9 DEF Waiting!Next
  <2>6. QED
    BY <2>4, <2>5
<1>5. QED
  BY <1>3, <1>4 DEF TypeOK

LEMMA NextRefines ==
    ASSUME TypeOK, FlowInv, OneAtATime, FlowInv', OneAtATime', [Next]_vars
    PROVE  [Waiting!Next]_<<StoredLog, HeldLog>>
<1>1. ASSUME NEW q \in Reqs, NEW s \in SendTo, NEW y \in Styles, NEW wholeHistory \in BOOLEAN,
             Send(q, s, y, wholeHistory)
      PROVE  [Waiting!Next]_<<StoredLog, HeldLog>>
  BY <1>1, ReceiveRefines, ChatAssumption DEF Send
<1>2. ASSUME NEW q \in Reqs, NEW r \in Reqs, Replay(q, r)
      PROVE  [Waiting!Next]_<<StoredLog, HeldLog>>
  BY <1>2, ReceiveRefines DEF Replay, TypeOK
<1>3. ASSUME NEW q \in Reqs, Build(q)
      PROVE  [Waiting!Next]_<<StoredLog, HeldLog>>
  BY <1>3, BuildRefines
<1>4. ASSUME NEW q \in Reqs, Save(q)
      PROVE  [Waiting!Next]_<<StoredLog, HeldLog>>
  BY <1>4, SaveRefines
<1>5. ASSUME NEW q \in Reqs, Forward(q) \/ ReadStream(q) \/ Record(q) \/ Respond(q)
      PROVE  [Waiting!Next]_<<StoredLog, HeldLog>>
  <2>1. Proceed(q) /\ turns' = turns /\ style' = style
    BY <1>5 DEF Proceed, Forward, ReadStream, Record, Respond
  <2>2. CASE ~Asking(q)'
    BY <2>1, <2>2, EndRefines
  <2>3. CASE Asking(q)'
    <3>1. Asking(q) /\ snapshot'[q] = snapshot[q]
      <4>1. CASE Forward(q)
        BY <2>3, <4>1 DEF Forward, Refuse, Goto, Asking, AnswersFirst, TypeOK
      <4>2. CASE ReadStream(q)
        BY <2>3, <4>2 DEF ReadStream, Refuse, Goto, Asking, AnswersFirst, TypeOK
      <4>3. CASE Record(q)
        BY <2>3, <4>3 DEF Record, Refuse, Goto, Asking, AnswersFirst, TypeOK
      <4>4. CASE Respond(q)
        BY <2>3, <4>4 DEF Respond, Refuse, Goto, Asking, AnswersFirst, TypeOK
      <4>5. QED
        BY <1>5, <4>1, <4>2, <4>3, <4>4
    <3>2. \A r \in Sids : SameQuestions(r)
      BY <2>1, <2>3, <3>1, OwnQuestion
    <3>3. QED
      BY <2>1, <3>2, ForgetStep, {} \in SUBSET Sids
  <2>4. QED
    BY <2>2, <2>3
<1>6. ASSUME UNCHANGED <<pc, style, session, snapshot, overlapped>>,
             NEW F \in SUBSET Sids,
             \A s \in Sids : turns'[s] = IF s \in F THEN <<>> ELSE turns[s]
      PROVE  [Waiting!Next]_<<StoredLog, HeldLog>>
  <2>1. \A s \in Sids : SameQuestions(s)
    BY <1>6 DEF SameQuestions, Asking, AnswersFirst
  <2>2. QED
    BY <1>6, <2>1, ForgetStep
<1>7. ASSUME NEW s \in Sids, DeleteSession(s)
      PROVE  [Waiting!Next]_<<StoredLog, HeldLog>>
  BY <1>6, <1>7, {s} \in SUBSET Sids DEF DeleteSession, Delete, Drop, NoteDrops, Note
<1>8. CASE Sweep
  BY <1>6, <1>8, StaleSessions \in SUBSET Sids
  DEF Sweep, SweepExpired, Drop, NoteDrops, Note, StaleSessions
<1>9. CASE Tick \/ UNCHANGED vars
  BY <1>6, <1>9, {} \in SUBSET Sids DEF Tick, Note, vars
<1>10. QED
  BY <1>1, <1>2, <1>3, <1>4, <1>5, <1>7, <1>8, <1>9 DEF Next, Proceed

-----------------------------------------------------------------------------
(***************************************************************************)
(* Answers are remembered.                                                 *)
(***************************************************************************)
\* The answer to q was saved.
Settled(q) ==
    /\ answer[q] # "none"
    /\ pc[q] \in {"record", "done"} \/ (pc[q] = "respond" /\ ~AnswersFirst(q))

\* The answer is one that the store owes to q's client.
Due(q) == q \notin excused /\ session[q] \in Sids \ overlapped /\ Settled(q)

RememberInv ==
    \A q \in Reqs : Due(q) =>
        /\ StoredTurn(q) \in TurnsIn(turns[session[q]])
        /\ ~Stale(session[q])
        /\ \A r \in Reqs : session[r] = session[q] /\ Asking(r) =>
             StoredTurn(q) \in TurnsIn(snapshot[r])

LEMMA InitRemember == Init => RememberInv
  BY DEF Init, RememberInv, Due, Settled

(***************************************************************************)
(* A step of q that saves nothing: what was settled still is, and q asks   *)
(* only what it asked.                                                     *)
(***************************************************************************)
LEMMA QuietRemember ==
    ASSUME TypeOK, RememberInv, NEW q \in Reqs, Proceed(q),
           UNCHANGED <<now, storeVars, excused>>,
           Settled(q)' => Settled(q) /\ answer'[q] = answer[q],
           Asking(q)' => Asking(q) /\ snapshot'[q] = snapshot[q]
    PROVE  RememberInv'
<1>1. session' = session /\ overlapped' = overlapped /\ style' = style
  BY ProceedKeeps
<1>2. \A r \in Reqs : /\ Settled(r)' => Settled(r) /\ answer'[r] = answer[r]
                      /\ Asking(r)' => Asking(r) /\ snapshot'[r] = snapshot[r]
  BY <1>1, ProceedIsOwn DEF Settled, Asking, AnswersFirst
<1>3. \A r \in Reqs : Due(r)' => Due(r) /\ StoredTurn(r)' = StoredTurn(r)
  BY <1>1, <1>2 DEF Due, StoredTurn
<1>4. \A s \in Sids : Stale(s)' <=> Stale(s)
  BY DEF Stale
<1>5. \A r \in Reqs : Due(r) => session[r] \in Sids
  BY DEF Due
<1>6. QED
  BY <1>1, <1>2, <1>3, <1>4, <1>5 DEF RememberInv

LEMMA ReceiveRemember ==
    ASSUME TypeOK, FlowInv, RememberInv, NEW q \in Reqs, NEW s \in Sids \cup {NoSession},
           NEW y, NEW ts, Receive(q, s, y, ts)
    PROVE  RememberInv'
<1>1. ~Asking(q)' /\ ~Settled(q)'
  BY DEF Receive, TypeOK, Asking, Settled
<1>2. \A r \in Reqs \ {q} : /\ session'[r] = session[r]
                            /\ Asking(r)' <=> Asking(r)
                            /\ Settled(r)' <=> Settled(r)
  BY DEF Receive, TypeOK, Asking, Settled, AnswersFirst
<1>3. UNCHANGED <<now, storeVars, snapshot, answer, excused>> /\ overlapped \subseteq overlapped'
  BY DEF Receive
<1>4. \A r \in Reqs : Due(r)' => r # q /\ Due(r) /\ StoredTurn(r)' = StoredTurn(r)
  BY <1>1, <1>2, <1>3 DEF Due, StoredTurn
<1>5. \A r \in Sids : Stale(r)' <=> Stale(r)
  BY <1>3 DEF Stale
<1>6. \A r \in Reqs : Due(r) => session[r] \in Sids
  BY DEF Due
<1>7. QED
  BY <1>1, <1>2, <1>3, <1>4, <1>5, <1>6 DEF RememberInv

\* What the history notes: a settled answer in a session that is dropped or expires.
LEMMA NotedIsExcused ==
    ASSUME RememberInv, NEW S, Note(S), NEW q \in Reqs, Due(q), session[q] \in S
    PROVE  q \in excused'
  BY DEF RememberInv, Note

(***************************************************************************)
(* Drops, by the sweeper, the console or a request: the sessions of S go,  *)
(* and the stale ones are among them or stay as they are.                  *)
(***************************************************************************)
LEMMA DropRemember ==
    ASSUME TypeOK, RememberInv, NEW S \in SUBSET Sids, Drop(S), NoteDrops, S \subseteq live,
           UNCHANGED <<now, style, session, answer>>,
           \A r \in Reqs : Settled(r)' <=> Settled(r),
           \A r \in Reqs : Asking(r)' =>
             \/ Asking(r) /\ snapshot'[r] = snapshot[r]
             \/ /\ session[r] \in Sids /\ ~Stale(session[r]) =>
                     TurnsIn(turns[session[r]]) \subseteq TurnsIn(snapshot'[r])
    PROVE  RememberInv'
<1>1. Note(S) /\ overlapped' = overlapped
  <2>1. live \ live' = S
    BY DEF Drop
  <2>2. QED
    BY <2>1 DEF NoteDrops, Note
<1>2. \A q \in Reqs : Due(q)' => Due(q) /\ session[q] \notin S /\ StoredTurn(q)' = StoredTurn(q)
  <2>1. \A q \in Reqs : Due(q)' => Due(q) /\ StoredTurn(q)' = StoredTurn(q)
    BY <1>1 DEF Due, StoredTurn, Note
  <2>2. QED
    BY <1>1, <2>1, NotedIsExcused DEF Due
<1>3. \A s \in Sids \ S : turns'[s] = turns[s] /\ (Stale(s)' <=> Stale(s))
  BY DEF Drop, Stale
<1>4. \A q \in Reqs : Due(q) => session[q] \in Sids
  BY DEF Due
<1>5. QED
  BY <1>2, <1>3, <1>4 DEF RememberInv

LEMMA SaveRemember ==
    ASSUME TypeOK, FlowInv, OneAtATime, RememberInv, NEW q \in Reqs, Save(q)
    PROVE  RememberInv'
<1> DEFINE s == session[q]
           ts == Append(snapshot[q], StoredTurn(q))
<1>1. /\ session' = session /\ overlapped' = overlapped /\ style' = style
      /\ answer' = answer /\ now' = now /\ Asking(q) /\ ~Asking(q)'
  BY ProceedKeeps DEF Proceed, Save, Goto, Asking, TypeOK
<1>2. \A r \in Reqs \ {q} : /\ Settled(r)' <=> Settled(r)
                            /\ Asking(r)' <=> Asking(r)
                            /\ snapshot'[r] = snapshot[r]
  BY <1>1, ProceedIsOwn DEF Proceed, Settled, Asking, AnswersFirst
<1>3. Note(live \ live')
  BY DEF Save, NoteDrops
<1>4. \A r \in Reqs \ {q} : Due(r)' => Due(r)
  BY <1>1, <1>2, <1>3 DEF Due, Note
<1>5. \A r \in Reqs : StoredTurn(r)' = StoredTurn(r)
  BY <1>1 DEF StoredTurn
<1>6. CASE s = NoSession
  <2>1. storeVars' = storeVars
    BY <1>6 DEF Save, SaveCanonicalResponse
  <2>2. \A r \in Sids : Stale(r)' <=> Stale(r)
    BY <1>1, <2>1 DEF Stale
  <2>3. ~Due(q)'
    BY <1>1, <1>6, SessionAssumption DEF Due
  <2>4. QED
    BY <1>1, <1>2, <1>4, <1>5, <2>1, <2>2, <2>3 DEF RememberInv, Due
<1>7. CASE s \in Sids
  <2>1. PICK victim \in Victims(s) :
          StaleSessions \cup victim \subseteq live /\ Saved(s, ts, StaleSessions \cup victim)
    BY <1>7, SaveEffect DEF Save
  <2> DEFINE out == StaleSessions \cup victim
  <2>2. /\ turns'[s] = ts
        /\ \A r \in Sids \ {s} : turns'[r] = IF r \in out THEN <<>> ELSE turns[r]
        /\ live \ live' = out \ {s}
        /\ updated'[s] = now /\ updated[s] \in Nat /\ now \in Nat
        /\ \A r \in Sids \ {s} : r \notin out => (Stale(r)' <=> Stale(r))
    BY <1>1, <1>7, <2>1 DEF Saved, TypeOK, Stale
  <2>3. ~Stale(s)'
    BY <1>1, <2>2, SessionAssumption DEF Stale
  <2>4. TurnsIn(ts) = TurnsIn(snapshot[q]) \cup {StoredTurn(q)}
    BY StoredIsTurn, InAppended DEF FlowInv, Save, TypeOK
  <2> HIDE DEF out, ts
  <2>5. s \notin overlapped => \A r \in Reqs : session[r] = s => ~Asking(r)'
    BY <1>1, <1>2, <1>7, AskingIsUnfinished DEF OneAtATime
  <2>6. ASSUME NEW r \in Reqs, Due(r)'
        PROVE  /\ StoredTurn(r) \in TurnsIn(turns'[session[r]])
               /\ ~Stale(session[r])'
               /\ \A x \in Reqs : session[x] = session[r] /\ Asking(x)' =>
                    StoredTurn(r) \in TurnsIn(snapshot'[x])
    <3>1. r \notin excused' /\ session[r] \in Sids \ overlapped
      BY <1>1, <2>6 DEF Due
    <3>2. CASE session[r] = s
      <4>1. StoredTurn(r) \in TurnsIn(ts)
        <5>1. CASE r = q
          BY <2>4, <5>1
        <5>2. CASE r # q
          BY <1>1, <1>4, <2>4, <2>6, <3>2, <5>2 DEF RememberInv
        <5>3. QED
          BY <5>1, <5>2
      <4>2. QED
        BY <1>1, <2>2, <2>3, <2>5, <3>1, <3>2, <4>1
    <3>3. CASE session[r] # s
      <4>1. r # q /\ Due(r)
        BY <1>4, <2>6, <3>3
      <4>2. session[r] \notin out
        BY <1>3, <2>2, <3>1, <3>3, <4>1, NotedIsExcused
      <4>3. turns'[session[r]] = turns[session[r]] /\ (Stale(session[r])' <=> Stale(session[r]))
        BY <1>1, <2>2, <3>1, <3>3, <4>2 DEF Stale
      <4>4. \A x \in Reqs : session[x] = session[r] => x # q
        BY <3>3
      <4>5. QED
        BY <1>2, <4>1, <4>3, <4>4 DEF RememberInv
    <3>4. QED
      BY <3>2, <3>3
  <2>7. QED
    BY <1>1, <1>5, <2>6 DEF RememberInv
<1>8. QED
  BY <1>6, <1>7 DEF TypeOK

LEMMA NextRemember ==
    ASSUME TypeOK, FlowInv, OneAtATime, RememberInv, [Next]_vars
    PROVE  RememberInv'
<1>1. ASSUME NEW q \in Reqs, NEW s \in SendTo, NEW y \in Styles, NEW wholeHistory \in BOOLEAN,
             Send(q, s, y, wholeHistory)
      PROVE  RememberInv'
  BY <1>1, ReceiveRemember, ChatAssumption DEF Send
<1>2. ASSUME NEW q \in Reqs, NEW r \in Reqs, Replay(q, r)
      PROVE  RememberInv'
  BY <1>2, ReceiveRemember DEF Replay, TypeOK
<1>3. ASSUME NEW q \in Reqs, Build(q)
      PROVE  RememberInv'
  <2> DEFINE s == session[q]
  <2>1. session' = session /\ style' = style /\ answer' = answer /\ now' = now
    BY <1>3, ProceedKeeps DEF Proceed, Build
  <2>2. answer[q] = "none"
    BY <1>3 DEF Build, FlowInv
  <2>3. \A r \in Reqs : Settled(r)' <=> Settled(r)
    BY <1>3, <2>1, <2>2, ProceedIsOwn DEF Proceed, Settled, AnswersFirst
  <2>4. \A r \in Reqs \ {q} : (Asking(r)' <=> Asking(r)) /\ snapshot'[r] = snapshot[r]
    BY <1>3, <2>1, ProceedIsOwn DEF Proceed, Asking, AnswersFirst
  <2>5. CASE Refuse(q) /\ UNCHANGED <<storeVars, historyVars>>
    <3>1. ~Asking(q)'
      BY <2>5 DEF Refuse, Goto, Asking, TypeOK
    <3>2. QED
      BY <1>3, <2>1, <2>2, <2>3, <2>5, <3>1, QuietRemember DEF Proceed
  <2>6. CASE /\ snapshot' = [snapshot EXCEPT ![q] = Built(s, incoming[q])]
             /\ BuildCanonicalRequest(s)
             /\ NoteDrops
    <3>1. s \in Sids /\ ~Stale(s) => TurnsIn(turns[s]) \subseteq TurnsIn(snapshot'[q])
      BY <2>6, BuiltTurns DEF TypeOK
    <3>2. CASE s = NoSession
      <4>1. Drop({})
        BY <2>6, <3>2 DEF BuildCanonicalRequest, Drop, TypeOK
      <4>2. QED
        BY <2>1, <2>3, <2>4, <2>6, <3>1, <4>1, DropRemember, {} \in SUBSET Sids
    <3>3. CASE s # NoSession
      <4>1. Drop(StaleSessions)
        BY <2>6, <3>3 DEF BuildCanonicalRequest, SweepExpired
      <4>2. StaleSessions \in SUBSET Sids /\ StaleSessions \subseteq live
        BY DEF StaleSessions, Stale
      <4>3. QED
        BY <2>1, <2>3, <2>4, <2>6, <3>1, <4>1, <4>2, DropRemember
    <3>4. QED
      BY <3>2, <3>3
  <2>7. QED
    BY <1>3, <2>5, <2>6 DEF Build
<1>4. ASSUME NEW q \in Reqs, Forward(q) \/ ReadStream(q) \/ Record(q) \/ Respond(q)
      PROVE  RememberInv'
  <2>1. Proceed(q) /\ UNCHANGED <<now, storeVars, excused, style>>
    BY <1>4 DEF Proceed, Forward, ReadStream, Record, Respond
  <2>2. Settled(q)' => Settled(q) /\ answer'[q] = answer[q]
    <3>1. CASE Forward(q)
      BY <3>1 DEF Forward, Refuse, Goto, FlowInv, Settled, AnswersFirst, TypeOK
    <3>2. CASE ReadStream(q)
      BY <3>2 DEF ReadStream, Refuse, Goto, FlowInv, Settled, AnswersFirst, TypeOK
    <3>3. CASE Record(q)
      BY <3>3 DEF Record, Goto, Settled, AnswersFirst, TypeOK
    <3>4. CASE Respond(q)
      BY <3>4 DEF Respond, Goto, Settled, AnswersFirst, TypeOK
    <3>5. QED
      BY <1>4, <3>1, <3>2, <3>3, <3>4
  <2>3. Asking(q)' => Asking(q) /\ snapshot'[q] = snapshot[q]
    <3>1. CASE Forward(q)
      BY <3>1 DEF Forward, Refuse, Goto, Asking, AnswersFirst, TypeOK
    <3>2. CASE ReadStream(q)
      BY <3>2 DEF ReadStream, Refuse, Goto, Asking, AnswersFirst, TypeOK
    <3>3. CASE Record(q)
      BY <3>3 DEF Record, Goto, Asking, AnswersFirst, TypeOK
    <3>4. CASE Respond(q)
      BY <3>4 DEF Respond, Goto, Asking, AnswersFirst, TypeOK
    <3>5. QED
      BY <1>4, <3>1, <3>2, <3>3, <3>4
  <2>4. QED
    BY <2>1, <2>2, <2>3, QuietRemember
<1>5. ASSUME NEW q \in Reqs, Save(q)
      PROVE  RememberInv'
  BY <1>5, SaveRemember
<1>6. ASSUME NEW S \in SUBSET Sids, S \subseteq live, Drop(S), NoteDrops,
             UNCHANGED <<now, pc, style, session, answer, snapshot>>
      PROVE  RememberInv'
  <2>1. \A r \in Reqs : (Settled(r)' <=> Settled(r)) /\ (Asking(r)' <=> Asking(r))
    BY <1>6 DEF Settled, Asking, AnswersFirst
  <2>2. QED
    BY <1>6, <2>1, DropRemember
<1>7. ASSUME NEW s \in Sids, DeleteSession(s)
      PROVE  RememberInv'
  BY <1>6, <1>7, {s} \in SUBSET Sids DEF DeleteSession, Delete
<1>8. CASE Sweep
  <2>1. StaleSessions \in SUBSET Sids /\ StaleSessions \subseteq live
    BY DEF StaleSessions, Stale
  <2>2. QED
    BY <1>6, <1>8, <2>1 DEF Sweep, SweepExpired
<1>9. CASE Tick
  <2> DEFINE S == {s \in live : TTL > 0 /\ now' > updated[s] + TTL}
  <2>1. Note(S) /\ UNCHANGED <<storeVars, pc, style, session, answer, snapshot, overlapped>>
    BY <1>9 DEF Tick, Note
  <2>2. \A r \in Reqs : /\ Settled(r)' <=> Settled(r)
                        /\ Asking(r)' <=> Asking(r)
                        /\ StoredTurn(r)' = StoredTurn(r)
    BY <2>1 DEF Settled, Asking, AnswersFirst, StoredTurn
  <2>3. \A r \in Reqs : Due(r)' => Due(r)
    BY <2>1, <2>2 DEF Due, Note
  <2>4. \A r \in Reqs : Due(r)' => session[r] \notin S
    BY <2>1, <2>3, NotedIsExcused DEF Due
  <2>5. \A s \in Sids : Stale(s)' => s \in S
    BY <2>1 DEF Stale
  <2> HIDE DEF S
  <2>6. \A r \in Reqs : Due(r)' => ~Stale(session[r])'
    BY <2>1, <2>4, <2>5 DEF Due
  <2>7. QED
    BY <2>1, <2>2, <2>3, <2>6 DEF RememberInv
<1>10. CASE UNCHANGED vars
  BY <1>10 DEF vars, RememberInv, Due, Settled, Asking, AnswersFirst, StoredTurn, Stale
<1>11. QED
  BY <1>1, <1>2, <1>3, <1>4, <1>5, <1>7, <1>8, <1>9, <1>10 DEF Next, Proceed

-----------------------------------------------------------------------------
(***************************************************************************)
(* What was forgotten is not forwarded.                                    *)
(***************************************************************************)
Without(ts, S) == TurnsIn(ts) \cap S = {}

GoneInv ==
    /\ \A t \in gone : pc[t.of] = "done"
    /\ \A q \in Reqs : Asking(q) =>
         /\ Without(snapshot[q], gone)
         /\ session[q] = NoSession => snapshot[q] = incoming[q]
    /\ \A q \in Reqs : InFlight(q) => Without(incoming[q], gone)
    /\ \A s \in Sids : ~Stale(s) => Without(turns[s], gone)

LEMMA InitGone == Init => GoneInv
  BY NothingInEmpty DEF Init, SessionInit, GoneInv, Asking, Without

(***************************************************************************)
(* The turns of S that no request in flight uses or sends are those of     *)
(* finished requests, and nobody else has them.                            *)
(***************************************************************************)
LEMMA UnusedAreNowhere ==
    ASSUME TypeOK, FlowInv, OriginInv, GoneInv, NEW S \in SUBSET Sids
    PROVE  /\ \A t \in UnusedTurns(S) : t \in Turn /\ pc[t.of] = "done"
           /\ \A q \in Reqs : Asking(q) => Without(snapshot[q], UnusedTurns(S))
           /\ \A q \in Reqs : InFlight(q) =>
                /\ Without(incoming[q], UnusedTurns(S))
                /\ session[q] \in Sids => Without(turns[session[q]], UnusedTurns(S))
           /\ \A s \in Sids \ S : Without(turns[s], UnusedTurns(S))
<1>1. ASSUME NEW t \in UnusedTurns(S)
      PROVE  /\ t \in Turn /\ session[t.of] \in S /\ pc[t.of] = "done"
             /\ \A q \in Reqs : InFlight(q) => session[q] # session[t.of] /\ t \notin TurnsIn(incoming[q])
             /\ \A s \in Sids : t \in TurnsIn(turns[s]) => s = session[t.of]
  <2>1. PICK s \in S : /\ t \in TurnsIn(turns[s])
                       /\ \A q \in Reqs : InFlight(q) => session[q] # s
    BY <1>1 DEF UnusedTurns
  <2>2. \A q \in Reqs : InFlight(q) => t \notin TurnsIn(incoming[q])
    BY <1>1 DEF UnusedTurns
  <2>3. answer[t.of] # "none" /\ session[t.of] = s
    BY <2>1 DEF OriginInv
  <2>4. t \in Turn /\ t.of \in Reqs
    BY <2>1, TurnsAreTurns, OfIsRequest DEF TypeOK
  <2>5. pc[t.of] = "done"
    BY <2>1, <2>3, <2>4 DEF InFlight, FlowInv
  <2>6. \A r \in Sids : t \in TurnsIn(turns[r]) => r = s
    BY <2>3 DEF OriginInv
  <2>7. QED
    BY <2>1, <2>2, <2>3, <2>4, <2>5, <2>6
<1>2. ASSUME NEW q \in Reqs, Asking(q)
      PROVE  Without(snapshot[q], UnusedTurns(S))
  <2>1. InFlight(q)
    BY <1>2 DEF Asking, InFlight
  <2>2. CASE session[q] \in Sids
    <3>1. \A t \in TurnsIn(snapshot[q]) : session[t.of] = session[q]
      BY <2>2 DEF OriginInv
    <3>2. QED
      BY <1>1, <2>1, <3>1 DEF Without
  <2>3. CASE session[q] = NoSession
    BY <1>1, <1>2, <2>1, <2>3 DEF GoneInv, Without
  <2>4. QED
    BY <2>2, <2>3 DEF TypeOK
<1>3. QED
  BY <1>1, <1>2 DEF Without

LEMMA WithoutMore ==
    \A ts, S, T : Without(ts, S \cup T) <=> Without(ts, S) /\ Without(ts, T)
  BY DEF Without

LEMMA ReceiveGone ==
    ASSUME TypeOK, FlowInv, GoneInv, NEW q \in Reqs, NEW s \in Sids \cup {NoSession},
           NEW y, NEW ts, Receive(q, s, y, ts)
    PROVE  GoneInv'
<1>1. /\ gone' = gone \ TurnsIn(ts) /\ pc[q] = "idle" /\ ~Asking(q)' /\ incoming'[q] = ts
      /\ UNCHANGED <<now, storeVars, snapshot>>
  BY DEF Receive, TypeOK, Asking
<1>2. \A r \in Reqs \ {q} : /\ pc'[r] = pc[r] /\ session'[r] = session[r]
                            /\ incoming'[r] = incoming[r] /\ (Asking(r)' <=> Asking(r))
  BY DEF Receive, TypeOK, Asking, AnswersFirst
<1>3. \A t \in gone : t.of \in Reqs
  BY OfIsRequest DEF TypeOK
<1>4. \A t \in gone' : pc'[t.of] = "done"
  BY <1>1, <1>2, <1>3 DEF GoneInv
<1>5. \A us : Without(us, gone) => Without(us, gone')
  BY <1>1 DEF Without
<1>6. Without(incoming'[q], gone')
  BY <1>1 DEF Without
<1>7. \A x \in Sids : Stale(x)' <=> Stale(x)
  BY <1>1 DEF Stale
<1>8. QED
  BY <1>1, <1>2, <1>4, <1>5, <1>6, <1>7 DEF GoneInv, InFlight

\* A step of q that drops nothing, and does not build.
LEMMA QuietGone ==
    ASSUME TypeOK, GoneInv, NEW q \in Reqs, Proceed(q),
           UNCHANGED <<now, storeVars, gone>>,
           Asking(q)' => Asking(q) /\ snapshot'[q] = snapshot[q],
           pc[q] # "idle", pc[q] # "done"
    PROVE  GoneInv'
<1>1. session' = session /\ style' = style /\ incoming' = incoming
  BY ProceedKeeps
<1>2. \A r \in Reqs : /\ Asking(r)' => Asking(r) /\ snapshot'[r] = snapshot[r]
                      /\ InFlight(r)' => InFlight(r)
                      /\ pc[r] = "done" => pc'[r] = "done"
  BY <1>1, ProceedIsOwn DEF Asking, AnswersFirst, InFlight
<1>3. \A s \in Sids : Stale(s)' <=> Stale(s)
  BY DEF Stale
<1>4. \A t \in gone : t.of \in Reqs
  BY OfIsRequest DEF TypeOK
<1>5. QED
  BY <1>1, <1>2, <1>3, <1>4 DEF GoneInv

(***************************************************************************)
(* Sessions are dropped, or expire, while nothing else changes that        *)
(* GoneInv is about but q's snapshot.                                      *)
(***************************************************************************)
LEMMA DropGone ==
    ASSUME TypeOK, FlowInv, OriginInv, GoneInv, NEW S \in SUBSET Sids, Note(S),
           UNCHANGED <<style, session, incoming>>,
           \A q \in Reqs : /\ pc[q] = "done" => pc'[q] = "done"
                           /\ InFlight(q)' => InFlight(q),
           \A q \in Reqs : Asking(q)' =>
             \/ Asking(q) /\ snapshot'[q] = snapshot[q]
             \/ /\ Without(snapshot'[q], gone')
                /\ session[q] = NoSession => snapshot'[q] = incoming[q],
           \A s \in Sids : ~Stale(s)' =>
             \/ turns'[s] = <<>>
             \/ turns'[s] = turns[s] /\ ~Stale(s) /\ s \notin S
             \/ Without(turns'[s], gone')
    PROVE  GoneInv'
<1>1. gone' = gone \cup UnusedTurns(S)
  BY DEF Note
<1>2. \A t \in gone' : pc'[t.of] = "done"
  <2>1. \A t \in gone' : t.of \in Reqs /\ pc[t.of] = "done"
    BY <1>1, UnusedAreNowhere, OfIsRequest DEF GoneInv, TypeOK
  <2>2. QED
    BY <2>1
<1>3. \A q \in Reqs : Asking(q)' =>
        /\ Without(snapshot'[q], gone')
        /\ session'[q] = NoSession => snapshot'[q] = incoming'[q]
  <2>1. \A q \in Reqs : Asking(q) => Without(snapshot[q], gone')
    BY <1>1, UnusedAreNowhere, WithoutMore DEF GoneInv
  <2>2. QED
    BY <2>1 DEF GoneInv
<1>4. \A q \in Reqs : InFlight(q)' => Without(incoming'[q], gone')
  <2>1. \A q \in Reqs : InFlight(q) => Without(incoming[q], gone')
    BY <1>1, UnusedAreNowhere, WithoutMore DEF GoneInv
  <2>2. QED
    BY <2>1
<1>5. \A s \in Sids : ~Stale(s)' => Without(turns'[s], gone')
  <2>1. Without(<<>>, gone')
    BY NothingInEmpty DEF Without
  <2>2. \A s \in Sids \ S : ~Stale(s) => Without(turns[s], gone')
    BY <1>1, UnusedAreNowhere, WithoutMore DEF GoneInv
  <2>3. QED
    BY <2>1, <2>2
<1>6. QED
  BY <1>2, <1>3, <1>4, <1>5 DEF GoneInv

LEMMA NothingUnused ==
    ASSUME NoteDrops, live' = live
    PROVE  Note({})
  BY DEF NoteDrops

LEMMA BuildGone ==
    ASSUME TypeOK, FlowInv, OriginInv, GoneInv, NEW q \in Reqs, Build(q)
    PROVE  GoneInv'
<1> DEFINE s == session[q]
<1>1. /\ UNCHANGED <<now, style, session, incoming>>
      /\ pc[q] = "received" /\ InFlight(q) /\ ~Asking(q)
  BY ProceedKeeps DEF Proceed, Build, Asking, InFlight
<1>2. CASE Refuse(q) /\ UNCHANGED <<storeVars, historyVars>>
  <2>1. ~Asking(q)'
    BY <1>2 DEF Refuse, Goto, Asking, TypeOK
  <2>2. QED
    BY <1>1, <1>2, <2>1, QuietGone DEF Proceed
<1>3. CASE /\ pc' = [pc EXCEPT ![q] = "built"]
           /\ snapshot' = [snapshot EXCEPT ![q] = Built(s, incoming[q])]
           /\ BuildCanonicalRequest(s)
           /\ NoteDrops
  <2>1. PICK S \in SUBSET StaleSessions : Drop(S) /\ (s \in Sids => S = StaleSessions)
    <3>1. CASE s = NoSession
      <4>1. Drop({})
        BY <1>3, <3>1 DEF BuildCanonicalRequest, Drop, TypeOK
      <4>2. QED
        BY <3>1, <4>1, SessionAssumption
    <3>2. CASE s # NoSession
      BY <1>3, <3>2 DEF BuildCanonicalRequest, SweepExpired
    <3>3. QED
      BY <3>1, <3>2
  <2>2. S \subseteq live /\ S \in SUBSET Sids
    BY DEF StaleSessions, Stale
  <2>3. Note(S) /\ gone' = gone \cup UnusedTurns(S)
    <3>1. live \ live' = S
      BY <2>1, <2>2 DEF Drop
    <3>2. QED
      BY <1>3, <3>1 DEF NoteDrops, Note
  <2>4. /\ Without(incoming[q], gone')
        /\ s \in Sids /\ ~Stale(s) => Without(turns[s], gone')
    BY <1>1, <2>2, <2>3, UnusedAreNowhere, WithoutMore DEF GoneInv
  <2>5. /\ snapshot'[q] = Built(s, incoming[q])
        /\ Without(snapshot'[q], gone')
        /\ s = NoSession => snapshot'[q] = incoming[q]
    <3>1. snapshot'[q] = Built(s, incoming[q])
      BY <1>3 DEF TypeOK
    <3>2. s = NoSession \/ Stale(s) => Built(s, incoming[q]) = incoming[q]
      BY BuiltTurns DEF TypeOK
    <3>3. s \in Sids =>
            TurnsIn(Built(s, incoming[q])) \subseteq TurnsIn(turns[s]) \cup TurnsIn(incoming[q])
      BY BuiltTurns DEF TypeOK
    <3>4. QED
      BY <2>4, <3>1, <3>2, <3>3 DEF Without, TypeOK
  <2>6. \A r \in Reqs : /\ pc[r] = "done" => pc'[r] = "done"
                        /\ InFlight(r)' => InFlight(r)
    BY <1>1, <1>3 DEF InFlight, TypeOK
  <2>7. \A r \in Reqs : Asking(r)' =>
          \/ Asking(r) /\ snapshot'[r] = snapshot[r]
          \/ Without(snapshot'[r], gone') /\ (session[r] = NoSession => snapshot'[r] = incoming[r])
    <3>1. \A r \in Reqs \ {q} : snapshot'[r] = snapshot[r] /\ (Asking(r)' => Asking(r))
      BY <1>1, <1>3 DEF Asking, AnswersFirst, TypeOK
    <3>2. QED
      BY <2>5, <3>1
  <2>8. \A r \in Sids : ~Stale(r)' =>
          turns'[r] = <<>> \/ (turns'[r] = turns[r] /\ ~Stale(r) /\ r \notin S)
    BY <1>1, <2>1 DEF Drop, Stale, StaleSessions
  <2>9. QED
    BY <1>1, <2>2, <2>3, <2>6, <2>7, <2>8, DropGone
<1>4. QED
  BY <1>2, <1>3 DEF Build

LEMMA SaveGone ==
    ASSUME TypeOK, FlowInv, OriginInv, GoneInv, NEW q \in Reqs, Save(q)
    PROVE  GoneInv'
<1> DEFINE s == session[q]
           ts == Append(snapshot[q], StoredTurn(q))
<1>1. /\ UNCHANGED <<now, style, session, incoming>>
      /\ pc[q] = "save" /\ InFlight(q) /\ Asking(q) /\ ~Asking(q)' /\ pc'[q] = "record"
  BY ProceedKeeps DEF Proceed, Save, Goto, Asking, InFlight, TypeOK
<1>2. \A r \in Reqs \ {q} : pc'[r] = pc[r] /\ snapshot'[r] = snapshot[r] /\ (Asking(r)' => Asking(r))
  BY <1>1, ProceedIsOwn DEF Proceed, Asking, AnswersFirst
<1>3. \A r \in Reqs : /\ pc[r] = "done" => pc'[r] = "done"
                      /\ InFlight(r)' => InFlight(r)
                      /\ Asking(r)' => Asking(r) /\ snapshot'[r] = snapshot[r]
  BY <1>1, <1>2 DEF InFlight
<1>4. CASE s = NoSession
  <2>1. UNCHANGED storeVars
    BY <1>4 DEF Save, SaveCanonicalResponse
  <2>2. Note({})
    BY <2>1, NothingUnused DEF Save
  <2>3. \A r \in Sids : turns'[r] = turns[r] /\ (Stale(r)' <=> Stale(r))
    BY <1>1, <2>1 DEF Stale
  <2>4. QED
    BY <1>1, <1>3, <2>2, <2>3, DropGone, {} \in SUBSET Sids
<1>5. CASE s \in Sids
  <2>1. PICK victim \in Victims(s) :
          StaleSessions \cup victim \subseteq live /\ Saved(s, ts, StaleSessions \cup victim)
    BY <1>5, SaveEffect DEF Save
  <2> DEFINE S == live \ live'
  <2>2. Note(S) /\ S \in SUBSET Sids /\ gone' = gone \cup UnusedTurns(S)
    BY DEF Save, NoteDrops, Note, TypeOK
  <2>3. \A r \in Sids \ {s} : ~Stale(r)' =>
          turns'[r] = <<>> \/ (turns'[r] = turns[r] /\ ~Stale(r) /\ r \notin S)
    BY <1>1, <2>1 DEF Saved, Stale, StaleSessions, TypeOK
  <2>4. turns'[s] = ts
    BY <1>5, <2>1 DEF Saved
  <2> HIDE DEF S
  <2>5. Without(ts, gone')
    <3>1. TurnsIn(ts) = TurnsIn(snapshot[q]) \cup {StoredTurn(q)}
      BY <1>1, StoredIsTurn, InAppended DEF FlowInv, TypeOK
    <3>2. Without(snapshot[q], gone')
      BY <1>1, <2>2, UnusedAreNowhere, WithoutMore DEF GoneInv
    <3>3. StoredTurn(q) \notin gone'
      <4>1. StoredTurn(q).of = q
        BY DEF StoredTurn
      <4>2. \A t \in gone' : pc[t.of] = "done"
        BY <2>2, UnusedAreNowhere DEF GoneInv
      <4>3. QED
        BY <1>1, <4>1, <4>2
    <3>4. QED
      BY <3>1, <3>2, <3>3 DEF Without
  <2>6. \A r \in Sids : ~Stale(r)' =>
          \/ turns'[r] = <<>>
          \/ turns'[r] = turns[r] /\ ~Stale(r) /\ r \notin S
          \/ Without(turns'[r], gone')
    BY <2>3, <2>4, <2>5
  <2>7. QED
    BY <1>1, <1>3, <2>2, <2>6, DropGone
<1>6. QED
  BY <1>4, <1>5 DEF TypeOK

LEMMA NextGone ==
    ASSUME TypeOK, FlowInv, OriginInv, GoneInv, [Next]_vars
    PROVE  GoneInv'
<1>1. ASSUME NEW q \in Reqs, NEW s \in SendTo, NEW y \in Styles, NEW wholeHistory \in BOOLEAN,
             Send(q, s, y, wholeHistory)
      PROVE  GoneInv'
  BY <1>1, ReceiveGone, ChatAssumption DEF Send
<1>2. ASSUME NEW q \in Reqs, NEW r \in Reqs, Replay(q, r)
      PROVE  GoneInv'
  BY <1>2, ReceiveGone DEF Replay, TypeOK
<1>3. ASSUME NEW q \in Reqs, Build(q) \/ Save(q)
      PROVE  GoneInv'
  BY <1>3, BuildGone, SaveGone
<1>4. ASSUME NEW q \in Reqs, Forward(q) \/ ReadStream(q) \/ Record(q) \/ Respond(q)
      PROVE  GoneInv'
  <2>1. /\ Proceed(q) /\ UNCHANGED <<now, storeVars, gone, style>>
        /\ pc[q] # "idle" /\ pc[q] # "done"
    BY <1>4 DEF Proceed, Forward, ReadStream, Record, Respond
  <2>2. Asking(q)' => Asking(q) /\ snapshot'[q] = snapshot[q]
    <3>1. CASE Forward(q)
      BY <3>1 DEF Forward, Refuse, Goto, Asking, AnswersFirst, TypeOK
    <3>2. CASE ReadStream(q)
      BY <3>2 DEF ReadStream, Refuse, Goto, Asking, AnswersFirst, TypeOK
    <3>3. CASE Record(q)
      BY <3>3 DEF Record, Goto, Asking, AnswersFirst, TypeOK
    <3>4. CASE Respond(q)
      BY <3>4 DEF Respond, Goto, Asking, AnswersFirst, TypeOK
    <3>5. QED
      BY <1>4, <3>1, <3>2, <3>3, <3>4
  <2>3. QED
    BY <2>1, <2>2, QuietGone
<1>5. ASSUME NEW S \in SUBSET Sids, S \subseteq live, Drop(S), NoteDrops,
             UNCHANGED <<now, pc, style, session, incoming, snapshot>>
      PROVE  GoneInv'
  <2>1. Note(S)
    <3>1. live \ live' = S
      BY <1>5 DEF Drop
    <3>2. QED
      BY <1>5, <3>1 DEF NoteDrops
  <2>2. \A r \in Reqs : (InFlight(r)' <=> InFlight(r)) /\ (Asking(r)' <=> Asking(r))
    BY <1>5 DEF InFlight, Asking, AnswersFirst
  <2>3. \A r \in Sids : ~Stale(r)' =>
          turns'[r] = <<>> \/ (turns'[r] = turns[r] /\ ~Stale(r) /\ r \notin S)
    BY <1>5 DEF Drop, Stale
  <2>4. QED
    BY <1>5, <2>1, <2>2, <2>3, DropGone
<1>6. ASSUME NEW s \in Sids, DeleteSession(s)
      PROVE  GoneInv'
  BY <1>5, <1>6, {s} \in SUBSET Sids DEF DeleteSession, Delete
<1>7. CASE Sweep
  <2>1. StaleSessions \in SUBSET Sids /\ StaleSessions \subseteq live
    BY DEF StaleSessions, Stale
  <2>2. QED
    BY <1>5, <1>7, <2>1 DEF Sweep, SweepExpired
<1>8. CASE Tick
  <2> DEFINE S == {s \in live : TTL > 0 /\ now' > updated[s] + TTL}
  <2>1. /\ Note(S) /\ S \in SUBSET Sids
        /\ UNCHANGED <<storeVars, pc, style, session, incoming, snapshot>>
    BY <1>8 DEF Tick, TypeOK
  <2>2. \A r \in Reqs : (InFlight(r)' <=> InFlight(r)) /\ (Asking(r)' <=> Asking(r))
    BY <2>1 DEF InFlight, Asking, AnswersFirst
  <2>3. \A r \in Sids : ~Stale(r)' => turns'[r] = turns[r] /\ ~Stale(r) /\ r \notin S
    BY <1>8, SessionAssumption DEF Tick, Stale, TypeOK
  <2> HIDE DEF S
  <2>4. QED
    BY <2>1, <2>2, <2>3, DropGone
<1>9. CASE UNCHANGED vars
  BY <1>9 DEF vars, GoneInv, InFlight, Asking, AnswersFirst, Stale
<1>10. QED
  BY <1>1, <1>2, <1>3, <1>4, <1>6, <1>7, <1>8, <1>9 DEF Next, Proceed

-----------------------------------------------------------------------------
IInv ==
    /\ ChatInv
    /\ OneAtATime
    /\ RememberInv
    /\ GoneInv

LEMMA InitIInv == Init => IInv
  BY InitChat, InitOneAtATime, InitRemember, InitGone DEF IInv

LEMMA NextIInv == IInv /\ [Next]_vars => IInv'
<1> SUFFICES ASSUME IInv, [Next]_vars PROVE IInv'
  OBVIOUS
<1>1. ChatInv'
  BY NextChat DEF IInv
<1>2. OneAtATime' /\ RememberInv' /\ GoneInv'
  BY NextOneAtATime, NextRemember, NextGone DEF IInv, ChatInv
<1>3. QED
  BY <1>1, <1>2 DEF IInv

\* The inductive invariant of the conversations.
LEMMA InvariantHolds == Spec => []IInv
  BY InitIInv, NextIInv, PTL DEF Spec

(***************************************************************************)
(* Clients that wait for their answers have the conversations that         *)
(* Conversations promises: the handlers and the store implement it, with   *)
(* overlapped conversations left out.                                      *)
(***************************************************************************)
THEOREM ImplementsConversations == Spec => KeepsConversations
<1>1. Init => Waiting!Init
  <2>1. ASSUME Init
        PROVE  StoredLog = [s \in Sids |-> <<>>] /\ HeldLog = [s \in Sids |-> <<>>]
    BY <2>1 DEF Init, SessionInit, StoredLog, HeldLog, Asking
  <2>2. QED
    BY <2>1 DEF Waiting!Init
<1>2. IInv /\ IInv' /\ [Next]_vars => [Waiting!Next]_<<StoredLog, HeldLog>>
  BY NextRefines DEF IInv, ChatInv
<1>3. QED
  BY <1>1, <1>2, InvariantHolds, PTL DEF Spec, KeepsConversations, Waiting!Spec

(***************************************************************************)
(* A client that waits finds every answer it was given in its conversation *)
(* until that is dropped.                                                  *)
(***************************************************************************)
THEOREM AnswersAreRemembered == Spec => []AnsweredIsRemembered
<1>1. IInv => AnsweredIsRemembered
  BY DEF IInv, ChatInv, FlowInv, RememberInv, Due, Settled, AnswersFirst,
     AnsweredIsRemembered, TypeOK
<1>2. QED
  BY <1>1, InvariantHolds, PTL

(***************************************************************************)
(* What was deleted, evicted or expired while no request used it is not    *)
(* sent upstream again, unless a client or a replay sends it.              *)
(***************************************************************************)
THEOREM ForgottenStaysForgotten == Spec => []ForgottenIsNotForwarded
<1>1. IInv => ForgottenIsNotForwarded
  BY DEF IInv, GoneInv, Without, Asking, ForgottenIsNotForwarded
<1>2. QED
  BY <1>1, InvariantHolds, PTL


-----------------------------------------------------------------------------
(***************************************************************************)
(* A client that repeats the whole history and got every answer gets       *)
(* exactly that history forwarded, for any number of requests, sessions    *)
(* and drops.                                                              *)
(*                                                                         *)
(* The argument: what is stored is what the client knows, or nothing; a    *)
(* question in between repeats it, so the prefix test takes it as it is.   *)
(***************************************************************************)

\* All that happened in s so far fits a client in step with the store.
Faithful(s) ==
    /\ s \in Sids \ overlapped
    /\ \A r \in Reqs : session[r] = s =>
         /\ r \in full
         /\ ~Replayed(r)
         /\ answer[r] \in {"none", "text"}
         /\ answer[r] # "none" /\ pc[r] = "done" => outcome[r] = "ok"

\* q sent what its client knows and one turn more.
Prompted(q) == \E t \in Turn : incoming[q] = Append(view[session[q]], t)

InView(s) == turns[s] \in {<<>>, view[s]}

Course(q) ==
    /\ \/ pc[q] \in {"received", "built", "streaming"}
       \/ pc[q] = "save" /\ ~AnswersFirst(q)
       \/ pc[q] = "respond" /\ AnswersFirst(q)
       => InView(session[q]) /\ Prompted(q)
    /\ Asking(q) => snapshot[q] = incoming[q]
    /\ pc[q] \in {"record", "respond"} /\ ~AnswersFirst(q) =>
         /\ Prompted(q)
         /\ turns[session[q]] \in {<<>>, Append(incoming[q], AnswerTurn(q))}
    /\ AnswersFirst(q) /\ pc[q] = "save" /\ outcome[q] = "ok" =>
         view[session[q]] = Append(incoming[q], AnswerTurn(q))
    /\ AnswersFirst(q) /\ pc[q] = "record" /\ outcome[q] = "ok" => InView(session[q])

FullInv ==
    /\ \A q \in Reqs : pc[q] = "idle" => q \notin full
    /\ \A s \in Sids : Faithful(s) =>
         /\ (\A q \in Reqs : session[q] = s => ~Unfinished(q)) => InView(s)
         /\ \A q \in Reqs : session[q] = s => Course(q)

LEMMA InitFull == Init => FullInv
<1> SUFFICES ASSUME Init PROVE FullInv
  OBVIOUS
<1>1. \A s \in Sids : InView(s)
  BY DEF Init, SessionInit, InView
<1>2. \A q \in Reqs : session[q] \notin Sids /\ q \notin full
  BY SessionAssumption DEF Init
<1>3. QED
  BY <1>1, <1>2 DEF FullInv

LEMMA DoneIsQuiet ==
    ASSUME TypeOK, FlowInv, NEW q \in Reqs, ~Unfinished(q)
    PROVE  ~InFlight(q)
  BY DEF TypeOK, FlowInv, Unfinished, InFlight, AnswersFirst

LEMMA QuietCourse ==
    ASSUME NEW q \in Reqs, ~InFlight(q)
    PROVE  Course(q)
  BY DEF Course, InFlight, Asking

\* Stored turns of other sessions stay, or are dropped.
LEMMA OtherSessions ==
    ASSUME TypeOK, FullInv, NEW q \in Reqs, Proceed(q), NEW s \in Sids, s # session[q],
           Faithful(s)', turns'[s] \in {<<>>, turns[s]}, view'[s] = view[s], full' = full
    PROVE  /\ (\A r \in Reqs : session'[r] = s => ~Unfinished(r)') => InView(s)'
           /\ \A r \in Reqs : session'[r] = s => Course(r)'
<1>1. session' = session /\ overlapped' = overlapped /\ style' = style /\ incoming' = incoming
  BY ProceedKeeps
<1>2. \A r \in Reqs : session[r] = s =>
        /\ pc'[r] = pc[r] /\ outcome'[r] = outcome[r]
        /\ answer'[r] = answer[r] /\ snapshot'[r] = snapshot[r]
  BY ProceedIsOwn
<1>3. Faithful(s)
  BY <1>1, <1>2 DEF Faithful, Replayed
<1>4. \A r \in Reqs : session[r] = s => (Unfinished(r)' <=> Unfinished(r))
  BY <1>1, <1>2 DEF Unfinished, InFlight
<1>5. InView(s) => InView(s)'
  BY DEF InView
<1>6. ASSUME NEW r \in Reqs, session[r] = s
      PROVE  Course(r)'
  <2>1. Course(r)
    BY <1>3, <1>6 DEF FullInv
  <2>2. Prompted(r)' <=> Prompted(r)
    BY <1>1, <1>6 DEF Prompted
  <2>3. (Asking(r)' <=> Asking(r)) /\ (AnswersFirst(r)' <=> AnswersFirst(r))
    BY <1>1, <1>2, <1>6 DEF Asking, AnswersFirst
  <2>4. AnswerTurn(r)' = AnswerTurn(r)
    BY <1>1, <1>2, <1>6 DEF AnswerTurn
  <2>5. QED
    BY <1>1, <1>2, <1>5, <1>6, <2>1, <2>2, <2>3, <2>4 DEF Course
<1>7. QED
  BY <1>1, <1>3, <1>4, <1>5, <1>6 DEF FullInv

(***************************************************************************)
(* In the session of a step of q, only q's own course is in question.      *)
(***************************************************************************)
LEMMA OwnSession ==
    ASSUME TypeOK, FlowInv, OneAtATime, FullInv, NEW q \in Reqs, Proceed(q), full' = full,
           FlowInv', session[q] \in Sids, Faithful(session[q])'
    PROVE  /\ Faithful(session[q]) /\ Course(q)
           /\ \A r \in Reqs \ {q} : session'[r] = session[q] => ~Unfinished(r)' /\ Course(r)'
<1> DEFINE s == session[q]
<1>1. session' = session /\ overlapped' = overlapped /\ style' = style /\ incoming' = incoming
  BY ProceedKeeps
<1>2. \A r \in Reqs \ {q} : pc'[r] = pc[r] /\ outcome'[r] = outcome[r] /\ answer'[r] = answer[r]
  BY ProceedIsOwn
<1>3. pc[q] # "done" /\ answer[q] \in {"none", answer'[q]}
  BY DEF Proceed, Build, Forward, ReadStream, Save, Record, Respond, FlowInv
<1>4. Faithful(s)
  BY <1>1, <1>2, <1>3 DEF Faithful, Replayed
<1>5. \A r \in Reqs \ {q} : session[r] = s => ~Unfinished(r)
  BY <1>4, ProceedWasUnfinished DEF OneAtATime, Faithful
<1>6. \A r \in Reqs \ {q} : session[r] = s => ~Unfinished(r)' /\ ~InFlight(r)'
  BY <1>1, <1>2, <1>5, DoneIsQuiet DEF Unfinished, InFlight
<1>7. \A r \in Reqs : ~InFlight(r)' => Course(r)'
  BY DEF Course, InFlight, Asking
<1>8. QED
  BY <1>1, <1>4, <1>6, <1>7 DEF FullInv

LEMMA ReceiveFull ==
    ASSUME TypeOK, FlowInv, FullInv, NEW q \in Reqs, NEW s \in Sids \cup {NoSession},
           NEW y, NEW ts \in Seq(Turn), Receive(q, s, y, ts),
           full \subseteq full', full' \subseteq full \cup {q},
           s \in Sids /\ q \in full' => \E t \in Turn : ts = Append(view[s], t)
    PROVE  FullInv'
<1>1. /\ pc[q] = "idle" /\ pc'[q] = "received" /\ session'[q] = s /\ incoming'[q] = ts
      /\ session[q] = NoSession /\ overlapped \subseteq overlapped'
      /\ UNCHANGED <<turns, snapshot, answer, outcome, view>>
  BY DEF Receive, TypeOK, FlowInv
<1>2. \A r \in Reqs \ {q} : /\ session'[r] = session[r] /\ incoming'[r] = incoming[r]
                            /\ pc'[r] = pc[r] /\ style'[r] = style[r]
                            /\ r \in full' <=> r \in full
  BY DEF Receive, TypeOK
<1>3. \A r \in Reqs : pc'[r] = "idle" => r \notin full'
  BY <1>1, <1>2 DEF FullInv
<1>4. ASSUME NEW x \in Sids, Faithful(x)'
      PROVE  /\ (\A r \in Reqs : session'[r] = x => ~Unfinished(r)') => InView(x)'
             /\ \A r \in Reqs : session'[r] = x => Course(r)'
  <2>1. Faithful(x)
    <3>1. \A r \in Reqs : session[r] = x => r # q
      BY <1>1, SessionAssumption
    <3>2. QED
      BY <1>1, <1>2, <1>4, <3>1 DEF Faithful, Replayed
  <2>2. InView(x)' <=> InView(x)
    BY <1>1 DEF InView
  <2>3. \A r \in Reqs \ {q} : Unfinished(r)' <=> Unfinished(r)
    BY <1>1, <1>2 DEF Unfinished, InFlight
  <2>4. ASSUME NEW r \in Reqs \ {q}, session[r] = x
        PROVE  Course(r)'
    <3>1. Course(r)
      BY <2>1, <2>4 DEF FullInv
    <3>2. Prompted(r)' <=> Prompted(r)
      BY <1>1, <1>2 DEF Prompted
    <3>3. /\ Asking(r)' <=> Asking(r)
          /\ AnswersFirst(r)' <=> AnswersFirst(r)
          /\ AnswerTurn(r)' = AnswerTurn(r)
      BY <1>1, <1>2 DEF Asking, AnswersFirst, AnswerTurn
    <3>4. QED
      BY <1>1, <1>2, <2>2, <2>4, <3>1, <3>2, <3>3 DEF Course, InView
  <2>5. CASE x # s
    <3>1. \A r \in Reqs : session'[r] = x => r # q /\ session[r] = x
      BY <1>1, <1>2, <2>5
    <3>2. \A r \in Reqs : session[r] = x => r # q /\ session'[r] = x
      BY <1>1, <1>2, SessionAssumption
    <3>3. QED
      BY <2>1, <2>2, <2>3, <2>4, <3>1, <3>2 DEF FullInv
  <2>6. CASE x = s
    <3>1. q \in full' /\ s \notin overlapped'
      BY <1>1, <1>4, <2>6 DEF Faithful
    <3>2. \A r \in Reqs : session[r] = s => ~Unfinished(r)
      BY <2>6, <3>1 DEF Receive
    <3>3. InView(s)
      BY <2>1, <2>6, <3>2 DEF FullInv
    <3>4. Prompted(q)'
      BY <1>1, <2>6, <3>1 DEF Prompted
    <3>5. Course(q)'
      BY <1>1, <2>2, <2>6, <3>3, <3>4 DEF Course, Asking
    <3>6. Unfinished(q)'
      BY <1>1 DEF Unfinished, InFlight, FlowInv
    <3>7. QED
      BY <1>1, <1>2, <2>4, <2>6, <3>5, <3>6
  <2>7. QED
    BY <2>5, <2>6
<1>5. QED
  BY <1>3, <1>4 DEF FullInv

\* What has to be shown of a step of q that leaves other sessions as they are.
LEMMA ProceedFull ==
    ASSUME TypeOK, FlowInv, OneAtATime, FullInv, FlowInv', NEW q \in Reqs, Proceed(q),
           full' = full,
           \A s \in Sids : s # session[q] =>
             turns'[s] \in {<<>>, turns[s]} /\ view'[s] = view[s],
           session[q] \in Sids /\ Course(q) /\ Faithful(session[q]) /\ Faithful(session[q])' =>
             /\ Course(q)'
             /\ ~Unfinished(q)' => InView(session[q])'
    PROVE  FullInv'
<1>1. session' = session
  BY ProceedKeeps
<1>2. \A r \in Reqs : pc'[r] = "idle" => pc[r] = "idle"
  <2>1. pc'[q] # "idle"
    BY DEF Proceed, Build, Forward, ReadStream, Save, Record, Respond, Refuse, Goto, TypeOK
  <2>2. QED
    BY <2>1, ProceedIsOwn
<1>3. ASSUME NEW s \in Sids, Faithful(s)'
      PROVE  /\ (\A r \in Reqs : session'[r] = s => ~Unfinished(r)') => InView(s)'
             /\ \A r \in Reqs : session'[r] = s => Course(r)'
  <2>1. CASE s # session[q]
    BY <1>3, <2>1, OtherSessions
  <2>2. CASE s = session[q]
    BY <1>1, <1>3, <2>2, OwnSession
  <2>3. QED
    BY <2>1, <2>2
<1>4. QED
  BY <1>2, <1>3 DEF FullInv

LEMMA MergeOfView ==
    ASSUME NEW us \in Seq(Turn), NEW t \in Turn, NEW stored \in {<<>>, us}
    PROVE  Merge(stored, Append(us, t)) = Append(us, t)
  BY DEF Merge, HasPrefix

LEMMA TwoMore ==
    ASSUME NEW us \in Seq(Turn), NEW t \in Turn, NEW a \in Turn
    PROVE  us \o <<t, a>> = Append(Append(us, t), a)
  OBVIOUS

LEMMA BuildFull ==
    ASSUME TypeOK, FlowInv, OneAtATime, FullInv, FlowInv', NEW q \in Reqs, Build(q)
    PROVE  FullInv'
<1> DEFINE s == session[q]
<1>1. /\ Proceed(q) /\ UNCHANGED <<full, view, session, incoming, style, answer>>
      /\ pc[q] = "received"
  BY ProceedKeeps DEF Proceed, Build
<1>2. \A r \in Sids : turns'[r] \in {<<>>, turns[r]}
  BY DropTurns DEF Build, BuildCanonicalRequest, SweepExpired
<1>3. ASSUME s \in Sids, Course(q)
      PROVE  /\ Course(q)'
             /\ ~Unfinished(q)' => InView(s)'
  <2>1. InView(s) /\ Prompted(q)
    BY <1>1, <1>3 DEF Course
  <2>2. InView(s)'
    BY <1>1, <1>2, <1>3, <2>1 DEF InView
  <2>3. Prompted(q)'
    BY <1>1, <2>1 DEF Prompted
  <2>4. CASE Refuse(q)
    <3>1. pc'[q] = "done"
      BY <2>4 DEF Refuse, Goto, TypeOK
    <3>2. QED
      BY <2>2, <3>1 DEF Course, Asking
  <2>5. CASE /\ pc' = [pc EXCEPT ![q] = "built"]
             /\ snapshot' = [snapshot EXCEPT ![q] = Built(s, incoming[q])]
    <3>1. pc'[q] = "built" /\ snapshot'[q] = Built(s, incoming[q])
      BY <2>5 DEF TypeOK
    <3>2. Built(s, incoming[q]) = incoming[q]
      <4>1. PICK t \in Turn : incoming[q] = Append(view[s], t)
        BY <2>1 DEF Prompted
      <4>2. Merge(turns[s], incoming[q]) = incoming[q]
        BY <1>3, <2>1, <4>1, MergeOfView DEF InView, TypeOK
      <4>3. QED
        BY <4>2 DEF Built
    <3>3. Course(q)'
      BY <1>1, <2>2, <2>3, <3>1, <3>2 DEF Course
    <3>4. QED
      BY <2>2, <3>3
  <2>6. QED
    BY <2>4, <2>5 DEF Build
<1>4. QED
  BY <1>1, <1>2, <1>3, ProceedFull

LEMMA SaveFull ==
    ASSUME TypeOK, FlowInv, OneAtATime, FullInv, FlowInv', NEW q \in Reqs, Save(q)
    PROVE  FullInv'
<1> DEFINE s == session[q]
           ts == Append(snapshot[q], StoredTurn(q))
<1>1. /\ Proceed(q) /\ UNCHANGED <<full, view, session, incoming, style, answer, outcome>>
      /\ pc[q] = "save" /\ pc'[q] = "record" /\ answer[q] # "none"
  BY ProceedKeeps DEF Proceed, Save, Goto, TypeOK, FlowInv
<1>2. \A r \in Sids : r # s => turns'[r] \in {<<>>, turns[r]}
  <2>1. CASE s = NoSession
    BY <2>1 DEF Save, SaveCanonicalResponse
  <2>2. CASE s \in Sids
    <3>1. PICK out : Saved(s, ts, out)
      BY <2>2, SaveEffect DEF Save
    <3> HIDE DEF ts
    <3>2. QED
      BY <3>1 DEF Saved
  <2>3. QED
    BY <2>1, <2>2 DEF TypeOK
<1>3. ASSUME s \in Sids, Course(q), Faithful(s)
      PROVE  Course(q)' /\ Unfinished(q)'
  <2>1. turns'[s] = ts
    <3>1. PICK out : Saved(s, ts, out)
      BY <1>3, SaveEffect DEF Save
    <3>2. QED
      BY <1>3, <3>1 DEF Saved
  <2>2. StoredTurn(q) = AnswerTurn(q)
    BY <1>1, <1>3 DEF Faithful, StoredTurn, AnswerTurn
  <2>3. turns'[s] = Append(incoming[q], AnswerTurn(q))
    BY <1>1, <1>3, <2>1, <2>2 DEF Course, Asking
  <2>4. /\ AnswerTurn(q)' = AnswerTurn(q)
        /\ AnswersFirst(q)' <=> AnswersFirst(q)
        /\ Prompted(q)' <=> Prompted(q)
        /\ ~Asking(q)'
    BY <1>1 DEF AnswerTurn, AnswersFirst, Prompted, Asking
  <2>5. CASE AnswersFirst(q)
    <3>1. outcome[q] = "ok" => view[s] = Append(incoming[q], AnswerTurn(q))
      BY <1>1, <1>3, <2>5 DEF Course
    <3>2. QED
      BY <1>1, <2>3, <2>4, <2>5, <3>1 DEF Course, InView, Unfinished, InFlight, AnswersFirst
  <2>6. CASE ~AnswersFirst(q)
    <3>1. Prompted(q) /\ outcome[q] = "none"
      BY <1>1, <1>3, <2>6 DEF Course, FlowInv
    <3>2. QED
      BY <1>1, <2>3, <2>4, <2>6, <3>1 DEF Course, Unfinished, InFlight
  <2>7. QED
    BY <2>5, <2>6
<1>4. QED
  BY <1>1, <1>2, <1>3, ProceedFull

LEMMA RespondFull ==
    ASSUME TypeOK, FlowInv, OneAtATime, FullInv, FlowInv', NEW q \in Reqs, Respond(q)
    PROVE  FullInv'
<1> DEFINE s == session[q]
           last == incoming[q][Len(incoming[q])]
<1>1. /\ Proceed(q) /\ UNCHANGED <<full, turns, session, incoming, style, answer>>
      /\ pc[q] = "respond" /\ answer[q] # "none"
      /\ pc'[q] = IF AnswersFirst(q) THEN "save" ELSE "done"
      /\ snapshot'[q] = IF AnswersFirst(q) THEN snapshot[q] ELSE <<>>
  BY ProceedKeeps DEF Proceed, Respond, Goto, TypeOK, FlowInv
<1>2. \A r \in Sids : r # s => view'[r] = view[r]
  <2>1. CASE s \in Sids /\ ~Replayed(q)
    BY <2>1 DEF Respond, TypeOK
  <2>2. CASE ~(s \in Sids /\ ~Replayed(q))
    BY <2>2, Zenon DEF Respond
  <2>3. QED
    BY <2>1, <2>2
<1>3. ASSUME s \in Sids, Course(q), Faithful(s), Faithful(s)'
      PROVE  /\ Course(q)'
             /\ ~Unfinished(q)' => InView(s)'
  <2>1. Prompted(q)
    BY <1>1, <1>3 DEF Course
  <2>2. outcome'[q] = "ok" => view'[s] = Append(incoming[q], AnswerTurn(q))
    <3>1. ASSUME outcome'[q] = "ok"
          PROVE  view' = [view EXCEPT ![s] = @ \o <<last, AnswerTurn(q)>>]
      <4>1. ~Replayed(q)
        BY <1>3 DEF Faithful
      <4>2. outcome' # [outcome EXCEPT ![q] = "error"]
        BY <3>1 DEF TypeOK
      <4>3. QED
        BY <1>3, <4>1, <4>2 DEF Respond
    <3>2. PICK t \in Turn : incoming[q] = Append(view[s], t)
      BY <2>1 DEF Prompted
    <3>3. view[s] \in Seq(Turn) /\ AnswerTurn(q) \in Turn
      BY <1>1, <1>3, StoredIsTurn DEF TypeOK
    <3>4. last = t
      BY <3>2, <3>3
    <3>5. view[s] \o <<last, AnswerTurn(q)>> = Append(incoming[q], AnswerTurn(q))
      BY <3>2, <3>3, <3>4, TwoMore
    <3> HIDE DEF last
    <3>6. QED
      BY <1>3, <3>1, <3>5 DEF TypeOK
  <2>3. AnswerTurn(q)' = AnswerTurn(q) /\ (AnswersFirst(q)' <=> AnswersFirst(q))
    BY <1>1 DEF AnswerTurn, AnswersFirst
  <2>4. CASE AnswersFirst(q)
    <3>1. snapshot'[q] = incoming[q] /\ pc'[q] = "save" /\ Unfinished(q)'
      BY <1>1, <1>3, <2>4 DEF Course, Asking, Unfinished, InFlight, AnswersFirst
    <3>2. QED
      BY <1>1, <2>2, <2>3, <2>4, <3>1 DEF Course
  <2>5. CASE ~AnswersFirst(q)
    <3>1. pc'[q] = "done" /\ turns[s] \in {<<>>, Append(incoming[q], AnswerTurn(q))}
      BY <1>1, <1>3, <2>5 DEF Course
    <3>2. outcome'[q] = "ok"
      BY <1>1, <1>3, <3>1 DEF Faithful
    <3>3. QED
      BY <1>1, <2>2, <3>1, <3>2 DEF Course, Asking, InView
  <2>6. QED
    BY <2>4, <2>5
<1>4. QED
  BY <1>1, <1>2, <1>3, ProceedFull

LEMMA ForwardFull ==
    ASSUME TypeOK, FlowInv, OneAtATime, FullInv, FlowInv', NEW q \in Reqs,
           Forward(q) \/ ReadStream(q)
    PROVE  FullInv'
<1> DEFINE s == session[q]
<1>1. /\ Proceed(q) /\ UNCHANGED <<full, turns, view, session, incoming, style>>
      /\ pc[q] \in {"built", "streaming"} /\ Asking(q) /\ outcome[q] = "none"
  BY ProceedKeeps DEF Proceed, Forward, ReadStream, Asking, FlowInv
<1>2. \/ pc'[q] = "done"
      \/ /\ snapshot'[q] = snapshot[q] /\ outcome' = outcome
         /\ pc'[q] \in {"streaming", IF AnswersFirst(q) THEN "respond" ELSE "save"}
  <2>1. CASE Forward(q)
    BY <2>1 DEF Forward, Refuse, Goto, TypeOK
  <2>2. CASE ReadStream(q)
    BY <2>2 DEF ReadStream, Refuse, Goto, AnswersFirst, TypeOK
  <2>3. QED
    BY <2>1, <2>2
<1>3. ASSUME s \in Sids, Course(q)
      PROVE  /\ Course(q)'
             /\ ~Unfinished(q)' => InView(s)'
  <2>1. InView(s) /\ Prompted(q) /\ snapshot[q] = incoming[q]
    BY <1>1, <1>3 DEF Course
  <2>2. InView(s)' /\ Prompted(q)' /\ (AnswersFirst(q)' <=> AnswersFirst(q))
    BY <1>1, <2>1 DEF InView, Prompted, AnswersFirst
  <2>3. CASE pc'[q] = "done"
    BY <2>2, <2>3 DEF Course, Asking
  <2>4. CASE pc'[q] # "done"
    BY <1>1, <1>2, <2>1, <2>2, <2>4 DEF Course
  <2>5. QED
    BY <2>3, <2>4
<1>4. QED
  BY <1>1, <1>3, ProceedFull

LEMMA RecordFull ==
    ASSUME TypeOK, FlowInv, OneAtATime, FullInv, FlowInv', NEW q \in Reqs, Record(q)
    PROVE  FullInv'
<1> DEFINE s == session[q]
<1>1. /\ Proceed(q)
      /\ UNCHANGED <<full, turns, view, session, incoming, style, answer, outcome>>
      /\ pc[q] = "record" /\ answer[q] # "none"
      /\ pc'[q] = IF AnswersFirst(q) THEN "done" ELSE "respond"
  BY ProceedKeeps DEF Proceed, Record, Goto, TypeOK, FlowInv
<1>2. /\ InView(s)' <=> InView(s)
      /\ Prompted(q)' <=> Prompted(q)
      /\ AnswersFirst(q)' <=> AnswersFirst(q)
      /\ AnswerTurn(q)' = AnswerTurn(q)
  BY <1>1 DEF InView, Prompted, AnswersFirst, AnswerTurn
<1>3. ASSUME s \in Sids, Course(q), Faithful(s)'
      PROVE  /\ Course(q)'
             /\ ~Unfinished(q)' => InView(s)'
  <2>1. CASE AnswersFirst(q)
    <3>1. outcome[q] = "ok"
      BY <1>1, <1>3, <2>1 DEF Faithful
    <3>2. QED
      BY <1>1, <1>2, <1>3, <2>1, <3>1 DEF Course, Asking
  <2>2. CASE ~AnswersFirst(q)
    <3>1. outcome[q] = "none"
      BY <1>1, <2>2 DEF FlowInv
    <3>2. QED
      BY <1>1, <1>2, <1>3, <2>2, <3>1 DEF Course, Asking, Unfinished, InFlight
  <2>3. QED
    BY <2>1, <2>2
<1>4. QED
  BY <1>1, <1>3, ProceedFull

\* The sweeper, the console and time touch what is stored only by dropping it.
LEMMA DropFull ==
    ASSUME TypeOK, FullInv,
           UNCHANGED <<pc, style, session, full, incoming, snapshot, answer, outcome, view,
                       overlapped>>,
           \A s \in Sids : turns'[s] \in {<<>>, turns[s]}
    PROVE  FullInv'
<1>1. \A s \in Sids : (Faithful(s)' <=> Faithful(s)) /\ (InView(s) => InView(s)')
  BY DEF Faithful, Replayed, InView
<1>2. \A q \in Reqs : Unfinished(q)' <=> Unfinished(q)
  BY DEF Unfinished, InFlight
<1>3. ASSUME NEW q \in Reqs, session[q] \in Sids, Course(q)
      PROVE  Course(q)'
  <2>1. /\ Prompted(q)' <=> Prompted(q)
        /\ AnswersFirst(q)' <=> AnswersFirst(q)
        /\ Asking(q)' <=> Asking(q)
        /\ AnswerTurn(q)' = AnswerTurn(q)
    BY DEF Prompted, AnswersFirst, Asking, AnswerTurn
  <2>2. QED
    BY <1>1, <1>3, <2>1 DEF Course
<1>4. QED
  BY <1>1, <1>2, <1>3 DEF FullInv

LEMMA NextFull ==
    ASSUME TypeOK, FlowInv, OneAtATime, FullInv, FlowInv', [Next]_vars
    PROVE  FullInv'
<1>1. ASSUME NEW q \in Reqs, NEW s \in SendTo, NEW y \in Styles, NEW wholeHistory \in BOOLEAN,
             Send(q, s, y, wholeHistory)
      PROVE  FullInv'
  <2>1. PICK ts \in Seq(Turn) : Receive(q, s, y, ts) /\ ts # <<>>
    BY <1>1, SendEffect
  <2>2. full \subseteq full' /\ full' \subseteq full \cup {q}
    BY <1>1 DEF Send
  <2>3. ASSUME s \in Sids, q \in full'
        PROVE  \E t \in Turn : incoming'[q] = Append(view[s], t)
    <3> DEFINE called == view[s] # <<>> /\ view[s][Len(view[s])].is = "call"
               new == [of |-> q, is |-> IF called THEN "result" ELSE "prompt"]
    <3>1. q \notin full
      BY <2>1 DEF Receive, FullInv
    <3>2. wholeHistory
      BY <1>1, <2>3, <3>1 DEF Send
    <3>3. Receive(q, s, y, view[s] \o <<new>>)
      BY <1>1, <2>3, <3>2 DEF Send
    <3>4. new \in Turn /\ view[s] \in Seq(Turn)
      BY <2>3 DEF Turn, TypeOK
    <3> HIDE DEF new
    <3>5. view[s] \o <<new>> = Append(view[s], new)
      BY <3>4
    <3>6. incoming'[q] = view[s] \o <<new>>
      BY <3>3 DEF Receive, TypeOK
    <3>7. QED
      BY <3>4, <3>5, <3>6
  <2>4. incoming'[q] = ts
    BY <2>1 DEF Receive, TypeOK
  <2>5. QED
    BY <2>1, <2>2, <2>3, <2>4, ReceiveFull, ChatAssumption
<1>2. ASSUME NEW q \in Reqs, NEW r \in Reqs, Replay(q, r)
      PROVE  FullInv'
  <2> DEFINE s == IF Anthropic(style[r]) THEN NoSession ELSE session[r]
  <2>1. /\ s \in Sids \cup {NoSession} /\ incoming[r] \in Seq(Turn)
        /\ Receive(q, s, style[r], incoming[r]) /\ full' = full
    BY <1>2 DEF Replay, TypeOK
  <2>2. q \notin full
    BY <2>1 DEF Receive, FullInv
  <2> HIDE DEF s
  <2>3. QED
    BY <2>1, <2>2, ReceiveFull
<1>3. ASSUME NEW q \in Reqs, Proceed(q)
      PROVE  FullInv'
  BY <1>3, BuildFull, ForwardFull, SaveFull, RecordFull, RespondFull DEF Proceed
<1>4. ASSUME NEW s \in Sids, DeleteSession(s)
      PROVE  FullInv'
  BY <1>4, DropFull, DropTurns DEF DeleteSession, Delete, NoteDrops, Note
<1>5. CASE Sweep
  BY <1>5, DropFull, DropTurns DEF Sweep, SweepExpired, NoteDrops, Note
<1>6. CASE Tick \/ UNCHANGED vars
  BY <1>6, DropFull DEF Tick, Note, vars
<1>7. QED
  BY <1>1, <1>2, <1>3, <1>4, <1>5, <1>6 DEF Next

\* The inductive invariant with the history of clients in step.
LEMMA FullHolds == Spec => [](IInv /\ FullInv)
<1>1. IInv /\ FullInv /\ [Next]_vars => FullInv'
  BY NextFull, NextIInv DEF IInv, ChatInv
<1>2. QED
  BY <1>1, InitFull, InvariantHolds, PTL DEF Spec

(***************************************************************************)
(* A client in step that repeats the whole history gets exactly that       *)
(* forwarded, as long as all answers were plain text.                      *)
(***************************************************************************)
THEOREM HistoryIsForwardedOnce == Spec => []FullHistoryNotDoubled
<1>1. IInv /\ FullInv => FullHistoryNotDoubled
  <2>1. ASSUME FullInv, NEW q \in full, q \in Reqs, Forwarded(q), InStep(q),
               \A r \in Reqs : session[r] = session[q] => answer[r] \in {"none", "text"}
        PROVE  snapshot[q] = incoming[q]
    <3>1. Faithful(session[q])
      BY <2>1 DEF InStep, Faithful
    <3>2. Course(q) /\ Asking(q)
      BY <2>1, <3>1 DEF FullInv, Faithful, Forwarded, Asking
    <3>3. QED
      BY <3>2 DEF Course
  <2>2. QED
    BY <2>1 DEF FullHistoryNotDoubled, IInv, ChatInv, TypeOK
<1>2. QED
  BY <1>1, FullHolds, PTL

=============================================================================
