--------------------------- MODULE ChatPipelineProofs ---------------------------
(***************************************************************************)
(* Safety of the chat endpoints over the session store, for any number of  *)
(* requests and sessions, any TTL, any limit and any answers.              *)
(***************************************************************************)
EXTENDS ChatPipeline, FiniteSetTheorems, SequenceTheorems, TLAPS

\* Where a request is decides what is known of it.
FlowInv ==
    \A q \in Reqs :
        /\ pc[q] = "idle" => session[q] = NoSession /\ q \notin records
        /\ pc[q] # "idle" => incoming[q] # <<>>
        /\ pc[q] \in {"idle", "received"} => snapshot[q] = <<>>
        /\ pc[q] \in {"idle", "received", "built", "streaming"} =>
             answer[q] = "none" /\ outcome[q] = "none"
        /\ pc[q] \in {"save", "record", "respond"} => answer[q] # "none"
        /\ pc[q] \in {"save", "record"} /\ ~AnswersFirst(q) => outcome[q] = "none"
        /\ pc[q] = "respond" => outcome[q] = "none"
        /\ Asking(q) => snapshot[q] # <<>>
        /\ q \in records \/ outcome[q] = "ok" => answer[q] # "none"

USE DEF storeVars, requestVars, historyVars, Points

-----------------------------------------------------------------------------
(***************************************************************************)
(* Sequences of turns.                                                     *)
(***************************************************************************)
LEMMA NothingInEmpty == TurnsIn(<<>>) = {}
  BY DEF TurnsIn

LEMMA InAppended ==
    ASSUME NEW ts \in Seq(Turn), NEW t \in Turn
    PROVE  /\ Append(ts, t) \in Seq(Turn)
           /\ Append(ts, t) # <<>>
           /\ TurnsIn(Append(ts, t)) = TurnsIn(ts) \cup {t}
  BY DEF TurnsIn

LEMMA InConcatenated ==
    ASSUME NEW ts \in Seq(Turn), NEW us \in Seq(Turn)
    PROVE  /\ ts \o us \in Seq(Turn)
           /\ us # <<>> => ts \o us # <<>>
           /\ TurnsIn(ts \o us) = TurnsIn(ts) \cup TurnsIn(us)
           /\ HasPrefix(ts \o us, ts)
<1> DEFINE all == ts \o us
<1>1. /\ all \in Seq(Turn)
      /\ Len(all) = Len(ts) + Len(us)
      /\ \A i \in 1..Len(ts) : all[i] = ts[i]
      /\ \A i \in 1..Len(us) : all[Len(ts) + i] = us[i]
      /\ \A i \in 1..Len(all) :
           i \in 1..Len(ts) \/ (i - Len(ts) \in 1..Len(us) /\ all[i] = us[i - Len(ts)])
  BY ConcatProperties
<1>2. Len(ts) \in Nat /\ Len(us) \in Nat
  OBVIOUS
<1> HIDE DEF all
<1>3. us # <<>> => all # <<>>
  BY <1>1, <1>2
<1>4. TurnsIn(all) \subseteq TurnsIn(ts) \cup TurnsIn(us)
  BY <1>1, <1>2 DEF TurnsIn
<1>5. TurnsIn(ts) \subseteq TurnsIn(all)
  BY <1>1, <1>2 DEF TurnsIn
<1>6. TurnsIn(us) \subseteq TurnsIn(all)
  <2>1. \A i \in 1..Len(us) : Len(ts) + i \in 1..Len(all)
    BY <1>1, <1>2
  <2>2. QED
    BY <1>1, <2>1 DEF TurnsIn
<1>7. HasPrefix(all, ts)
  BY <1>1, <1>2 DEF HasPrefix
<1>8. QED
  BY <1>1, <1>3, <1>4, <1>5, <1>6, <1>7 DEF all

LEMMA TurnsAreTurns ==
    ASSUME NEW ts \in Seq(Turn)
    PROVE  TurnsIn(ts) \subseteq Turn
  BY DEF TurnsIn

LEMMA InPrefix ==
    ASSUME NEW ts \in Seq(Turn), NEW us \in Seq(Turn), HasPrefix(ts, us)
    PROVE  TurnsIn(us) \subseteq TurnsIn(ts)
  BY DEF HasPrefix, TurnsIn

LEMMA MergedTurns ==
    ASSUME NEW ts \in Seq(Turn), NEW us \in Seq(Turn)
    PROVE  /\ Merge(us, ts) \in Seq(Turn)
           /\ ts # <<>> => Merge(us, ts) # <<>>
           /\ TurnsIn(Merge(us, ts)) \subseteq TurnsIn(us) \cup TurnsIn(ts)
           /\ HasPrefix(Merge(us, ts), us)
  BY InConcatenated DEF Merge

\* A built request begins with what is stored, unless that is too old.
LEMMA BuiltTurns ==
    ASSUME TypeOK, NEW s \in Sids \cup {NoSession}, NEW ts \in Seq(Turn)
    PROVE  /\ Built(s, ts) \in Seq(Turn)
           /\ ts # <<>> => Built(s, ts) # <<>>
           /\ s = NoSession \/ Stale(s) => Built(s, ts) = ts
           /\ s \in Sids => TurnsIn(Built(s, ts)) \subseteq TurnsIn(turns[s]) \cup TurnsIn(ts)
           /\ s \in Sids /\ ~Stale(s) =>
                /\ HasPrefix(Built(s, ts), turns[s])
                /\ TurnsIn(turns[s]) \subseteq TurnsIn(Built(s, ts))
<1>1. s \in Sids => turns[s] \in Seq(Turn)
  BY DEF TypeOK
<1>2. QED
  BY <1>1, SessionAssumption, MergedTurns, InPrefix DEF Built

LEMMA StoredIsTurn ==
    ASSUME NEW q \in Reqs, TypeOK, answer[q] # "none"
    PROVE  StoredTurn(q) \in Turn /\ AnswerTurn(q) \in Turn
  BY ChatAssumption DEF TypeOK, StoredTurn, AnswerTurn, Turn

-----------------------------------------------------------------------------
(***************************************************************************)
(* Type correctness.                                                       *)
(***************************************************************************)
StoreTypeOK ==
    /\ live \subseteq Sids
    /\ turns \in [Sids -> Seq(Turn)]
    /\ updated \in [Sids -> Nat]

LEMMA DropType ==
    ASSUME TypeOK, NEW S, Drop(S)
    PROVE  StoreTypeOK'
  BY DEF TypeOK, StoreTypeOK, Drop

\* What a save does: it writes ts into s, and drops the sessions of out.
Saved(s, ts, out) ==
    /\ live' = (live \ out) \cup {s}
    /\ turns' = [r \in Sids |-> IF r = s THEN ts ELSE IF r \in out THEN <<>> ELSE turns[r]]
    /\ updated' = [updated EXCEPT ![s] = now]

LEMMA SaveEffect ==
    ASSUME TypeOK, NEW s \in Sids, NEW ts, SaveCanonicalResponse(s, ts)
    PROVE  \E victim \in Victims(s) :
             /\ victim \subseteq live
             /\ StaleSessions \cup victim \subseteq live
             /\ Saved(s, ts, StaleSessions \cup victim)
<1>1. PICK victim \in Victims(s) :
        LET out == StaleSessions \cup victim
        IN  /\ live' = (live \ out) \cup {s}
            /\ turns' = [r \in Sids |-> CASE r = s -> ts
                                          [] r # s /\ r \in out -> <<>>
                                          [] OTHER -> turns[r]]
            /\ updated' = [updated EXCEPT ![s] = now]
  BY SessionAssumption DEF SaveCanonicalResponse, Store
<1>2. victim \subseteq live
  BY DEF Victims
<1>3. StaleSessions \subseteq live
  BY DEF StaleSessions, Stale
<1>4. \A r \in Sids : turns'[r] = IF r = s THEN ts
                                  ELSE IF r \in StaleSessions \cup victim THEN <<>>
                                  ELSE turns[r]
  BY <1>1
<1>5. turns' = [r \in Sids |-> IF r = s THEN ts
                               ELSE IF r \in StaleSessions \cup victim THEN <<>>
                               ELSE turns[r]]
  BY <1>1, <1>4
<1>6. QED
  BY <1>1, <1>2, <1>3, <1>5 DEF Saved

LEMMA SaveType ==
    ASSUME TypeOK, NEW s \in Sids \cup {NoSession}, NEW ts \in Seq(Turn),
           SaveCanonicalResponse(s, ts)
    PROVE  StoreTypeOK'
<1>1. CASE s = NoSession
  BY <1>1 DEF TypeOK, StoreTypeOK, SaveCanonicalResponse
<1>2. CASE s \in Sids
  <2>1. PICK out : Saved(s, ts, out)
    BY <1>2, SaveEffect
  <2>2. QED
    BY <1>2, <2>1 DEF Saved, TypeOK, StoreTypeOK
<1>3. QED
  BY <1>1, <1>2

LEMMA NoteType ==
    ASSUME TypeOK, NEW S \in SUBSET Sids, Note(S)
    PROVE  excused' \subseteq Reqs /\ overlapped' \subseteq Sids /\ gone' \subseteq Turn
<1>1. UnusedTurns(S) \subseteq Turn
  BY TurnsAreTurns DEF TypeOK, UnusedTurns
<1>2. QED
  BY <1>1 DEF TypeOK, Note

LEMMA ReceiveType ==
    ASSUME TypeOK, NEW q \in Reqs, NEW s \in Sids \cup {NoSession},
           NEW y \in Styles \cup {"none"}, NEW ts \in Seq(Turn), Receive(q, s, y, ts),
           full' \subseteq Reqs
    PROVE  TypeOK'
  BY DEF TypeOK, Receive

\* What a client sends ends with a turn of its request, after what it knows or alone.
LEMMA SendEffect ==
    ASSUME TypeOK, NEW q \in Reqs, NEW s \in SendTo, NEW y \in Styles,
           NEW wholeHistory \in BOOLEAN, Send(q, s, y, wholeHistory)
    PROVE  \E ts \in Seq(Turn) :
             /\ Receive(q, s, y, ts)
             /\ ts # <<>>
             /\ ts[Len(ts)].of = q
             /\ \A t \in TurnsIn(ts) : t.of = q \/ (s \in Sids /\ t \in TurnsIn(view[s]))
<1> DEFINE known == IF s \in Sids THEN view[s] ELSE <<>>
           called == known # <<>> /\ known[Len(known)].is = "call"
           new == [of |-> q, is |-> IF called THEN "result" ELSE "prompt"]
           before == IF wholeHistory THEN known ELSE <<>>
<1>1. new \in Turn /\ new.of = q
  BY DEF Turn
<1>2. known \in Seq(Turn) /\ (s \in Sids => known = view[s]) /\ (s \notin Sids => known = <<>>)
  BY DEF TypeOK
<1>3. /\ before \in Seq(Turn)
      /\ TurnsIn(before) \subseteq TurnsIn(known)
  BY <1>2, NothingInEmpty
<1>4. Receive(q, s, y, before \o <<new>>)
  BY DEF Send
<1> HIDE DEF new, before, known
<1>5. before \o <<new>> = Append(before, new)
  BY <1>1, <1>3
<1>6. /\ Append(before, new) \in Seq(Turn)
      /\ TurnsIn(Append(before, new)) = TurnsIn(before) \cup {new}
      /\ Append(before, new)[Len(Append(before, new))] = new
      /\ Append(before, new) # <<>>
  BY <1>1, <1>3, InAppended
<1>7. \A t \in TurnsIn(known) : s \in Sids /\ t \in TurnsIn(view[s])
  BY <1>2, NothingInEmpty
<1>8. QED
  BY <1>1, <1>3, <1>4, <1>5, <1>6, <1>7

LEMMA InitType == Init => TypeOK
  BY EmptySeq DEF Init, SessionInit, TypeOK

LEMMA GotoType ==
    ASSUME TypeOK, NEW q \in Reqs, NEW l \in Points
    PROVE  /\ Goto(q, l) => pc' \in [Reqs -> Points] /\ snapshot' \in [Reqs -> Seq(Turn)]
           /\ Refuse(q) => /\ pc' \in [Reqs -> Points]
                           /\ snapshot' \in [Reqs -> Seq(Turn)]
                           /\ outcome' \in [Reqs -> {"none", "ok", "error"}]
<1>1. <<>> \in Seq(Turn)
  OBVIOUS
<1>2. QED
  BY <1>1, ZenonT(30) DEF Goto, Refuse, TypeOK

LEMMA NextType ==
    ASSUME TypeOK, FlowInv, [Next]_vars
    PROVE  TypeOK'
<1>1. ASSUME NEW q \in Reqs, NEW s \in SendTo, NEW y \in Styles, NEW wholeHistory \in BOOLEAN,
             Send(q, s, y, wholeHistory)
      PROVE  TypeOK'
  <2>1. PICK ts \in Seq(Turn) : Receive(q, s, y, ts)
    BY <1>1, SendEffect
  <2>2. full' \subseteq Reqs
    BY <1>1 DEF Send, TypeOK
  <2>3. QED
    BY <1>1, <2>1, <2>2, ReceiveType, ChatAssumption
<1>2. ASSUME NEW q \in Reqs, NEW r \in Reqs, Replay(q, r)
      PROVE  TypeOK'
  <2>1. /\ session[r] \in Sids \cup {NoSession}
        /\ style[r] \in Styles \cup {"none"}
        /\ incoming[r] \in Seq(Turn)
        /\ full' \subseteq Reqs
    BY <1>2 DEF TypeOK, Replay
  <2>2. QED
    BY <1>2, <2>1, ReceiveType DEF Replay
<1>3. ASSUME NEW q \in Reqs, Build(q)
      PROVE  TypeOK'
  <2>1. CASE Refuse(q) /\ UNCHANGED <<storeVars, historyVars>>
    BY <1>3, <2>1, EmptySeq DEF Build, Refuse, Goto, TypeOK
  <2>2. CASE /\ pc' = [pc EXCEPT ![q] = "built"]
             /\ snapshot' = [snapshot EXCEPT ![q] = Built(session[q], incoming[q])]
             /\ BuildCanonicalRequest(session[q])
             /\ NoteDrops
             /\ UNCHANGED outcome
    <3>1. Built(session[q], incoming[q]) \in Seq(Turn)
      BY BuiltTurns DEF TypeOK
    <3>2. StoreTypeOK'
      BY <2>2, DropType DEF BuildCanonicalRequest, SweepExpired, TypeOK, StoreTypeOK
    <3>3. excused' \subseteq Reqs /\ overlapped' \subseteq Sids /\ gone' \subseteq Turn
      BY <2>2, NoteType DEF NoteDrops, TypeOK
    <3>4. QED
      BY <1>3, <2>2, <3>1, <3>2, <3>3 DEF Build, TypeOK, StoreTypeOK
  <2>3. QED
    BY <1>3, <2>1, <2>2 DEF Build
<1>4. ASSUME NEW q \in Reqs, Forward(q)
      PROVE  TypeOK'
  <2>1. /\ pc' \in [Reqs -> Points]
        /\ snapshot' \in [Reqs -> Seq(Turn)]
        /\ outcome' \in [Reqs -> {"none", "ok", "error"}]
    BY <1>4, GotoType DEF Forward, TypeOK
  <2>2. QED
    BY <1>4, <2>1 DEF Forward, TypeOK
<1>5. ASSUME NEW q \in Reqs, ReadStream(q)
      PROVE  TypeOK'
  <2>1. /\ pc' \in [Reqs -> Points]
        /\ snapshot' \in [Reqs -> Seq(Turn)]
        /\ outcome' \in [Reqs -> {"none", "ok", "error"}]
    BY <1>5, GotoType DEF ReadStream, TypeOK
  <2>2. QED
    BY <1>5, <2>1 DEF ReadStream, TypeOK
<1>6. ASSUME NEW q \in Reqs, Save(q)
      PROVE  TypeOK'
  <2> answer[q] # "none"
    BY <1>6 DEF FlowInv, Save
  <2>1. Append(snapshot[q], StoredTurn(q)) \in Seq(Turn)
    BY <1>6, StoredIsTurn, InAppended DEF TypeOK
  <2>2. StoreTypeOK'
    BY <1>6, <2>1, SaveType DEF Save, TypeOK
  <2>3. excused' \subseteq Reqs /\ overlapped' \subseteq Sids /\ gone' \subseteq Turn
    BY <1>6, NoteType DEF Save, NoteDrops, TypeOK
  <2>4. QED
    BY <1>6, <2>2, <2>3 DEF Save, Goto, TypeOK, StoreTypeOK
<1>7. ASSUME NEW q \in Reqs, Record(q)
      PROVE  TypeOK'
  BY <1>7, EmptySeq DEF Record, Goto, TypeOK
<1>8. ASSUME NEW q \in Reqs, Respond(q)
      PROVE  TypeOK'
  <2> DEFINE last == incoming[q][Len(incoming[q])]
  <2>1. answer[q] # "none" /\ incoming[q] # <<>>
    BY <1>8 DEF FlowInv, Respond
  <2>2. last \in Turn /\ AnswerTurn(q) \in Turn
    <3>1. \A ts \in Seq(Turn) : ts # <<>> => ts[Len(ts)] \in Turn
      OBVIOUS
    <3>2. QED
      BY <2>1, <3>1, StoredIsTurn DEF TypeOK
  <2> HIDE DEF last
  <2>3. \A ts \in Seq(Turn) : ts \o <<last, AnswerTurn(q)>> \in Seq(Turn)
    BY <2>2
  <2>4. view' \in [Sids -> Seq(Turn)]
    <3>1. \/ view' = view
          \/ \E s \in Sids : view' = [view EXCEPT ![s] = @ \o <<last, AnswerTurn(q)>>]
      <4>1. CASE session[q] \in Sids /\ ~Replayed(q)
        BY <1>8, <4>1 DEF Respond, last
      <4>2. CASE ~(session[q] \in Sids /\ ~Replayed(q))
        BY <1>8, <4>2, Zenon DEF Respond
      <4>3. QED
        BY <4>1, <4>2
    <3>2. \A s \in Sids : view[s] \o <<last, AnswerTurn(q)>> \in Seq(Turn)
      BY <2>3 DEF TypeOK
    <3> DEFINE grown(s) == view[s] \o <<last, AnswerTurn(q)>>
    <3>3. \/ view' = view
          \/ \E s \in Sids : view' = [view EXCEPT ![s] = grown(s)]
      BY <3>1
    <3> HIDE DEF grown
    <3>4. QED
      BY <3>2, <3>3 DEF TypeOK, grown
  <2>5. QED
    BY <1>8, <2>4, EmptySeq DEF Respond, Goto, TypeOK
<1>9. ASSUME NEW s \in Sids, DeleteSession(s)
      PROVE  TypeOK'
  <2>1. excused' \subseteq Reqs /\ overlapped' \subseteq Sids /\ gone' \subseteq Turn
    BY <1>9, NoteType DEF DeleteSession, NoteDrops, TypeOK
  <2>2. QED
    BY <1>9, <2>1, DropType DEF DeleteSession, Delete, TypeOK, StoreTypeOK
<1>10. CASE Sweep
  <2>1. excused' \subseteq Reqs /\ overlapped' \subseteq Sids /\ gone' \subseteq Turn
    BY <1>10, NoteType DEF Sweep, NoteDrops, TypeOK
  <2>2. QED
    BY <1>10, <2>1, DropType DEF Sweep, SweepExpired, TypeOK, StoreTypeOK
<1>11. CASE Tick
  <2>1. excused' \subseteq Reqs /\ overlapped' \subseteq Sids /\ gone' \subseteq Turn
    BY <1>11, NoteType DEF Tick, TypeOK
  <2>2. now' \in Nat
    BY <1>11 DEF Tick, TypeOK
  <2>3. QED
    BY <1>11, <2>1, <2>2 DEF Tick, TypeOK
<1>12. CASE UNCHANGED vars
  BY <1>12 DEF vars, TypeOK
<1>13. QED
  BY <1>1, <1>2, <1>3, <1>4, <1>5, <1>6, <1>7, <1>8, <1>9, <1>10, <1>11, <1>12 DEF Next, Proceed

-----------------------------------------------------------------------------
(***************************************************************************)
(* The course of a request.                                                *)
(***************************************************************************)
LEMMA InitFlow == Init => FlowInv
  BY DEF Init, FlowInv, Asking

LEMMA ReceiveFlow ==
    ASSUME TypeOK, FlowInv, NEW q \in Reqs, NEW s, NEW y, NEW ts, ts # <<>>,
           Receive(q, s, y, ts)
    PROVE  FlowInv'
  BY DEF FlowInv, TypeOK, Receive, Asking, AnswersFirst

LEMMA NextFlow ==
    ASSUME TypeOK, FlowInv, [Next]_vars
    PROVE  FlowInv'
<1> USE DEF FlowInv, TypeOK, Asking, AnswersFirst
<1>1. ASSUME NEW q \in Reqs, NEW s \in SendTo, NEW y \in Styles, NEW wholeHistory \in BOOLEAN,
             Send(q, s, y, wholeHistory)
      PROVE  FlowInv'
  BY <1>1, SendEffect, ReceiveFlow
<1>2. ASSUME NEW q \in Reqs, NEW r \in Reqs, Replay(q, r)
      PROVE  FlowInv'
  <2>1. incoming[r] # <<>>
    BY <1>2 DEF Replay
  <2>2. QED
    BY <1>2, <2>1, ReceiveFlow DEF Replay
<1>3. ASSUME NEW q \in Reqs, Build(q)
      PROVE  FlowInv'
  <2>1. Built(session[q], incoming[q]) # <<>>
    BY <1>3, BuiltTurns DEF Build
  <2>2. QED
    BY <1>3, <2>1 DEF Build, Refuse, Goto
<1>4. ASSUME NEW q \in Reqs, Forward(q)
      PROVE  FlowInv'
  BY <1>4 DEF Forward, Refuse, Goto
<1>5. ASSUME NEW q \in Reqs, ReadStream(q)
      PROVE  FlowInv'
  BY <1>5, ChatAssumption DEF ReadStream, Refuse, Goto
<1>6. ASSUME NEW q \in Reqs, Save(q)
      PROVE  FlowInv'
  BY <1>6 DEF Save, Goto
<1>7. ASSUME NEW q \in Reqs, Record(q)
      PROVE  FlowInv'
  BY <1>7 DEF Record, Goto
<1>8. ASSUME NEW q \in Reqs, Respond(q)
      PROVE  FlowInv'
  BY <1>8 DEF Respond, Goto
<1>9. ASSUME NEW s \in Sids, DeleteSession(s)
      PROVE  FlowInv'
  BY <1>9 DEF DeleteSession
<1>10. CASE Sweep \/ Tick
  BY <1>10 DEF Sweep, Tick
<1>11. CASE UNCHANGED vars
  BY <1>11 DEF vars
<1>12. QED
  BY <1>1, <1>2, <1>3, <1>4, <1>5, <1>6, <1>7, <1>8, <1>9, <1>10, <1>11 DEF Next, Proceed

-----------------------------------------------------------------------------
(***************************************************************************)
(* The number of conversations.                                            *)
(***************************************************************************)
CapacityInv == IsFiniteSet(live) /\ CapacityHolds

LEMMA InitCapacity == Init => CapacityInv
  BY FS_EmptySet, SessionAssumption DEF Init, SessionInit, CapacityInv, CapacityHolds

LEMMA ShrinkCapacity ==
    ASSUME CapacityInv, live' \subseteq live
    PROVE  CapacityInv'
<1>1. IsFiniteSet(live') /\ Cardinality(live') <= Cardinality(live)
  BY FS_Subset DEF CapacityInv
<1>2. Cardinality(live) \in Nat /\ Cardinality(live') \in Nat
  BY <1>1, FS_CardinalityType DEF CapacityInv
<1>3. QED
  BY <1>1, <1>2, SessionAssumption DEF CapacityInv, CapacityHolds

(***************************************************************************)
(* A save first drops what is stale.  If s is none of the rest, and that   *)
(* fills the store, it drops one of the rest.                              *)
(***************************************************************************)
LEMMA SaveCapacity ==
    ASSUME TypeOK, CapacityInv, NEW s \in Sids, NEW ts, SaveCanonicalResponse(s, ts)
    PROVE  CapacityInv'
<1> DEFINE fresh == live \ StaleSessions
<1>1. PICK victim \in Victims(s) : Saved(s, ts, StaleSessions \cup victim)
  BY SaveEffect
<1>2. live' = (fresh \ victim) \cup {s}
  BY <1>1 DEF Saved
<1>3. /\ IsFiniteSet(fresh)
      /\ Cardinality(fresh) \in Nat
      /\ MaxSessions > 0 => Cardinality(fresh) <= MaxSessions
  <2>1. IsFiniteSet(fresh) /\ Cardinality(fresh) <= Cardinality(live)
    BY FS_Subset DEF CapacityInv
  <2>2. Cardinality(fresh) \in Nat /\ Cardinality(live) \in Nat
    BY <2>1, FS_CardinalityType DEF CapacityInv
  <2>3. QED
    BY <2>1, <2>2, SessionAssumption DEF CapacityInv, CapacityHolds
<1>4. CASE victim = {}
  <2>1. live' = fresh \cup {s}
    BY <1>2, <1>4
  <2>2. /\ IsFiniteSet(live')
        /\ Cardinality(live') = IF s \in fresh THEN Cardinality(fresh) ELSE Cardinality(fresh) + 1
    BY <2>1, <1>3, FS_AddElement
  <2>3. MaxSessions = 0 \/ Cardinality(fresh) < MaxSessions \/ s \in fresh
    BY <1>1, <1>4 DEF Victims
  <2>4. QED
    BY <2>2, <2>3, <1>3, SessionAssumption DEF CapacityInv, CapacityHolds
<1>5. CASE victim # {}
  <2>1. PICK v \in fresh : victim = {v}
    BY <1>1, <1>5 DEF Victims
  <2>2. /\ IsFiniteSet(fresh \ {v})
        /\ Cardinality(fresh \ {v}) = Cardinality(fresh) - 1
    BY <1>3, <2>1, FS_RemoveElement
  <2>3. live' = (fresh \ {v}) \cup {s}
    BY <1>2, <2>1
  <2>4. /\ IsFiniteSet(live')
        /\ \/ Cardinality(live') = Cardinality(fresh \ {v})
           \/ Cardinality(live') = Cardinality(fresh \ {v}) + 1
    BY <2>2, <2>3, FS_AddElement
  <2>5. QED
    BY <1>3, <2>2, <2>4, SessionAssumption DEF CapacityInv, CapacityHolds
<1>6. QED
  BY <1>4, <1>5

LEMMA NextCapacity ==
    ASSUME TypeOK, CapacityInv, [Next]_vars
    PROVE  CapacityInv'
<1>1. ASSUME NEW q \in Reqs, Save(q)
      PROVE  CapacityInv'
  <2>1. CASE session[q] = NoSession
    BY <1>1, <2>1, ShrinkCapacity DEF Save, SaveCanonicalResponse
  <2>2. CASE session[q] \in Sids
    BY <1>1, <2>2, SaveCapacity DEF Save
  <2>3. QED
    BY <1>1, <2>1, <2>2 DEF TypeOK
<1>2. ASSUME NEW q \in Reqs, Build(q)
      PROVE  live' \subseteq live
  BY <1>2 DEF Build, BuildCanonicalRequest, SweepExpired, Drop
<1>3. ASSUME NEW s \in Sids, DeleteSession(s) \/ Sweep
      PROVE  live' \subseteq live
  BY <1>3 DEF DeleteSession, Delete, Sweep, SweepExpired, Drop
<1>4. ASSUME NEW q \in Reqs, Forward(q) \/ ReadStream(q) \/ Record(q) \/ Respond(q)
      PROVE  live' \subseteq live
  BY <1>4 DEF Forward, ReadStream, Record, Respond
<1>5. ASSUME NEW q \in Reqs, NEW s, NEW y, NEW ts, Receive(q, s, y, ts)
      PROVE  live' \subseteq live
  BY <1>5 DEF Receive
<1>6. CASE Sweep \/ Tick \/ UNCHANGED vars
  BY <1>6, ShrinkCapacity DEF Sweep, SweepExpired, Drop, Tick, vars
<1>7. QED
  BY <1>1, <1>2, <1>3, <1>4, <1>5, <1>6, ShrinkCapacity DEF Next, Proceed, Send, Replay

(***************************************************************************)
(* Only a save drops a conversation within its TTL in a request's step.    *)
(***************************************************************************)
LEMMA NextEvicts ==
    ASSUME TypeOK, CapacityInv, [Next]_vars
    PROVE  \A s \in live \ StaleSessions :
             s \notin live' /\ pc' # pc =>
                /\ Cardinality(live \ StaleSessions) >= MaxSessions
                /\ \E r \in live' : r \notin live \ StaleSessions
                /\ \A r \in live \ StaleSessions : updated[s] <= updated[r]
<1> DEFINE fresh == live \ StaleSessions
<1> SUFFICES ASSUME NEW s \in fresh, s \notin live', pc' # pc
             PROVE  /\ Cardinality(fresh) >= MaxSessions
                    /\ \E r \in live' : r \notin fresh
                    /\ \A r \in fresh : updated[s] <= updated[r]
  OBVIOUS
<1>1. PICK q \in Reqs : Save(q)
  <2>1. \A q \in Reqs : ~(Forward(q) \/ ReadStream(q) \/ Record(q) \/ Respond(q))
    BY DEF Forward, ReadStream, Record, Respond
  <2>2. \A q \in Reqs : Build(q) => live' = live \/ live' = live \ StaleSessions
    BY DEF Build, BuildCanonicalRequest, SweepExpired, Drop
  <2>3. ~Sweep /\ ~Tick /\ ~UNCHANGED vars /\ \A r \in Sids : ~DeleteSession(r)
    BY DEF Sweep, Tick, vars, DeleteSession
  <2>4. \A q \in Reqs, r \in Sids \cup {NoSession} : \A y, ts : ~Receive(q, r, y, ts)
    BY DEF Receive
  <2>5. QED
    BY <2>1, <2>2, <2>3, <2>4, ChatAssumption DEF Next, Proceed, Send, Replay, TypeOK
<1>2. session[q] \in Sids
  BY <1>1 DEF Save, SaveCanonicalResponse, TypeOK
<1>3. PICK victim \in Victims(session[q]) :
        Saved(session[q], Append(snapshot[q], StoredTurn(q)), StaleSessions \cup victim)
  BY <1>1, <1>2, SaveEffect DEF Save
<1>4. s \in victim
  BY <1>3 DEF Saved
<1>5. /\ ~(MaxSessions = 0 \/ Cardinality(fresh) < MaxSessions \/ session[q] \in fresh)
      /\ \A r \in fresh : updated[s] <= updated[r]
  BY <1>3, <1>4 DEF Victims
<1>6. Cardinality(fresh) \in Nat
  BY FS_Subset, FS_CardinalityType DEF CapacityInv
<1>7. session[q] \in live'
  BY <1>3 DEF Saved
<1>8. QED
  BY <1>5, <1>6, <1>7, SessionAssumption

-----------------------------------------------------------------------------
(***************************************************************************)
(* Where turns come from.  A conversation, stored or as its client knows   *)
(* it, consists of turns of its own requests, and of answered ones.  What  *)
(* a request sends is its own, or such turns.                              *)
(***************************************************************************)
OriginInv ==
    /\ \A s \in Sids : \A t \in TurnsIn(turns[s]) \cup TurnsIn(view[s]) :
         answer[t.of] # "none" /\ session[t.of] = s
    /\ \A q \in Reqs : \A t \in TurnsIn(snapshot[q]) \cup TurnsIn(incoming[q]) :
         /\ t.of = q \/ answer[t.of] # "none"
         /\ session[q] \in Sids => session[t.of] = session[q]

LEMMA InitOrigin == Init => OriginInv
  BY NothingInEmpty DEF Init, SessionInit, OriginInv

LEMMA OfIsRequest == \A t \in Turn : t.of \in Reqs
  BY DEF Turn

LEMMA DropTurns ==
    ASSUME TypeOK, NEW S, Drop(S)
    PROVE  \A s \in Sids : turns'[s] = turns[s] \/ (s \in S /\ turns'[s] = <<>>)
  BY DEF Drop, TypeOK

LEMMA ReceiveOrigin ==
    ASSUME TypeOK, FlowInv, OriginInv, NEW q \in Reqs, NEW s \in Sids \cup {NoSession},
           NEW y, NEW ts \in Seq(Turn), Receive(q, s, y, ts),
           \A t \in TurnsIn(ts) : \/ t.of = q
                                  \/ /\ answer[t.of] # "none"
                                     /\ s \in Sids => session[t.of] = s
    PROVE  OriginInv'
<1>1. \A r \in Reqs : answer[r] # "none" => r # q /\ session'[r] = session[r]
  BY DEF Receive, FlowInv, TypeOK
<1>2. session'[q] = s /\ incoming'[q] = ts /\ snapshot[q] = <<>> /\ answer' = answer
  BY DEF Receive, FlowInv, TypeOK
<1>3. \A r \in Reqs \ {q} : session'[r] = session[r] /\ incoming'[r] = incoming[r]
  BY DEF Receive, TypeOK
<1>4. /\ \A r \in Reqs : \A t \in TurnsIn(snapshot[r]) \cup TurnsIn(incoming[r]) : t.of \in Reqs
      /\ \A r \in Sids : \A t \in TurnsIn(turns[r]) \cup TurnsIn(view[r]) : t.of \in Reqs
      /\ \A t \in TurnsIn(ts) : t.of \in Reqs
  BY TurnsAreTurns, OfIsRequest DEF TypeOK
<1>5. snapshot' = snapshot /\ turns' = turns /\ view' = view
  BY DEF Receive
<1>6. \A r \in Sids : \A t \in TurnsIn(turns[r]) \cup TurnsIn(view[r]) :
        answer'[t.of] # "none" /\ session'[t.of] = r
  BY <1>1, <1>2, <1>4 DEF OriginInv
<1>7. \A r \in Reqs \ {q} : \A t \in TurnsIn(snapshot[r]) \cup TurnsIn(incoming[r]) :
        /\ t.of = r \/ answer'[t.of] # "none"
        /\ session'[r] \in Sids => session'[t.of] = session'[r]
  BY <1>1, <1>2, <1>3, <1>4 DEF OriginInv
<1>8. \A t \in TurnsIn(snapshot[q]) \cup TurnsIn(ts) :
        /\ t.of = q \/ answer'[t.of] # "none"
        /\ session'[q] \in Sids => session'[t.of] = session'[q]
  BY <1>1, <1>2, <1>4, NothingInEmpty
<1>9. QED
  BY <1>2, <1>3, <1>5, <1>6, <1>7, <1>8 DEF OriginInv

LEMMA NextOrigin ==
    ASSUME TypeOK, FlowInv, OriginInv, [Next]_vars
    PROVE  OriginInv'
<1>1. ASSUME NEW q \in Reqs, NEW s \in SendTo, NEW y \in Styles, NEW wholeHistory \in BOOLEAN,
             Send(q, s, y, wholeHistory)
      PROVE  OriginInv'
  <2>1. PICK ts \in Seq(Turn) :
          /\ Receive(q, s, y, ts)
          /\ \A t \in TurnsIn(ts) : t.of = q \/ (s \in Sids /\ t \in TurnsIn(view[s]))
    BY <1>1, SendEffect
  <2>2. \A t \in TurnsIn(ts) : \/ t.of = q
                               \/ answer[t.of] # "none" /\ (s \in Sids => session[t.of] = s)
    BY <2>1 DEF OriginInv
  <2>3. QED
    BY <2>1, <2>2, ReceiveOrigin, ChatAssumption
<1>2. ASSUME NEW q \in Reqs, NEW r \in Reqs, Replay(q, r)
      PROVE  OriginInv'
  <2> DEFINE s == IF Anthropic(style[r]) THEN NoSession ELSE session[r]
  <2>1. s \in Sids \cup {NoSession} /\ incoming[r] \in Seq(Turn) /\ answer[r] # "none"
    BY <1>2 DEF TypeOK, FlowInv, Replay
  <2>2. \A t \in TurnsIn(incoming[r]) : answer[t.of] # "none" /\ (s \in Sids => session[t.of] = s)
    BY <2>1, SessionAssumption DEF OriginInv
  <2>3. QED
    BY <1>2, <2>1, <2>2, ReceiveOrigin DEF Replay
<1>3. ASSUME NEW q \in Reqs, Build(q)
      PROVE  OriginInv'
  <2>1. TurnsIn(snapshot'[q]) \subseteq
          TurnsIn(incoming[q]) \cup (IF session[q] \in Sids THEN TurnsIn(turns[session[q]]) ELSE {})
    BY <1>3, BuiltTurns, NothingInEmpty DEF Build, Refuse, Goto, TypeOK
  <2>2. \A r \in Reqs \ {q} : snapshot'[r] = snapshot[r]
    BY <1>3 DEF Build, Refuse, Goto, TypeOK
  <2>3. \A s \in Sids : turns'[s] = turns[s] \/ turns'[s] = <<>>
    BY <1>3, DropTurns DEF Build, BuildCanonicalRequest, SweepExpired
  <2>4. UNCHANGED <<session, incoming, answer, view>>
    BY <1>3 DEF Build
  <2>5. \A s \in Sids : \A t \in TurnsIn(turns'[s]) \cup TurnsIn(view'[s]) :
          answer'[t.of] # "none" /\ session'[t.of] = s
    BY <2>3, <2>4, NothingInEmpty DEF OriginInv
  <2>6. \A r \in Reqs \ {q} : \A t \in TurnsIn(snapshot'[r]) \cup TurnsIn(incoming'[r]) :
          /\ t.of = r \/ answer'[t.of] # "none"
          /\ session'[r] \in Sids => session'[t.of] = session'[r]
    BY <2>2, <2>4 DEF OriginInv
  <2>7. \A t \in TurnsIn(snapshot'[q]) \cup TurnsIn(incoming'[q]) :
          /\ t.of = q \/ answer'[t.of] # "none"
          /\ session'[q] \in Sids => session'[t.of] = session'[q]
    BY <2>1, <2>4 DEF OriginInv
  <2>8. QED
    BY <2>5, <2>6, <2>7 DEF OriginInv
<1>4. ASSUME NEW q \in Reqs, Forward(q) \/ ReadStream(q) \/ Record(q)
      PROVE  OriginInv'
  <2>1. \A r \in Reqs : snapshot'[r] = snapshot[r] \/ snapshot'[r] = <<>>
    BY <1>4 DEF Forward, ReadStream, Record, Refuse, Goto, TypeOK
  <2>2. \A r \in Reqs : answer[r] # "none" => answer'[r] # "none"
    BY <1>4, ChatAssumption DEF Forward, ReadStream, Record, TypeOK
  <2>3. UNCHANGED <<turns, session, incoming, view>>
    BY <1>4 DEF Forward, ReadStream, Record
  <2>4. /\ \A r \in Reqs : \A t \in TurnsIn(snapshot[r]) \cup TurnsIn(incoming[r]) : t.of \in Reqs
        /\ \A r \in Sids : \A t \in TurnsIn(turns[r]) \cup TurnsIn(view[r]) : t.of \in Reqs
    BY TurnsAreTurns, OfIsRequest DEF TypeOK
  <2>5. QED
    BY <2>1, <2>2, <2>3, <2>4, NothingInEmpty DEF OriginInv
<1>5. ASSUME NEW q \in Reqs, Save(q)
      PROVE  OriginInv'
  <2>1. answer[q] # "none"
    BY <1>5 DEF FlowInv, Save
  <2>2. /\ TurnsIn(Append(snapshot[q], StoredTurn(q))) = TurnsIn(snapshot[q]) \cup {StoredTurn(q)}
        /\ StoredTurn(q).of = q
    BY <2>1, StoredIsTurn, InAppended DEF TypeOK, StoredTurn
  <2>3. \A s \in Sids : \/ turns'[s] = turns[s]
                        \/ turns'[s] = <<>>
                        \/ s = session[q] /\ turns'[s] = Append(snapshot[q], StoredTurn(q))
    <3>1. CASE session[q] \in Sids
      <4>1. PICK out : Saved(session[q], Append(snapshot[q], StoredTurn(q)), out)
        BY <1>5, <3>1, SaveEffect DEF Save
      <4>2. QED
        BY <4>1 DEF Saved
    <3>2. CASE session[q] = NoSession
      BY <1>5, <3>2 DEF Save, SaveCanonicalResponse
    <3>3. QED
      BY <3>1, <3>2 DEF TypeOK
  <2>4. UNCHANGED <<session, incoming, view, answer, snapshot>>
    BY <1>5 DEF Save, Goto
  <2>5. QED
    BY <2>1, <2>2, <2>3, <2>4, NothingInEmpty DEF OriginInv
<1>6. ASSUME NEW q \in Reqs, Respond(q)
      PROVE  OriginInv'
  <2> DEFINE last == incoming[q][Len(incoming[q])]
             s == session[q]
  <2>1. answer[q] # "none" /\ incoming[q] # <<>>
    BY <1>6 DEF FlowInv, Respond
  <2>2. \A r \in Reqs : snapshot'[r] = snapshot[r] \/ snapshot'[r] = <<>>
    BY <1>6 DEF Respond, Goto, TypeOK
  <2>3. UNCHANGED <<turns, session, incoming, answer>>
    BY <1>6 DEF Respond
  <2>4. CASE view' = view
    BY <2>2, <2>3, <2>4, NothingInEmpty DEF OriginInv
  <2>5. CASE s \in Sids /\ ~Replayed(q) /\ view' = [view EXCEPT ![s] = @ \o <<last, AnswerTurn(q)>>]
    <3>1. /\ last \in Turn /\ last.of = q
          /\ AnswerTurn(q) \in Turn /\ AnswerTurn(q).of = q
      <4>1. \A ts \in Seq(Turn) : ts # <<>> => ts[Len(ts)] \in Turn
        OBVIOUS
      <4>2. QED
        BY <2>1, <2>5, <4>1, StoredIsTurn DEF TypeOK, AnswerTurn, Replayed
    <3>2. view[s] \in Seq(Turn)
      BY <2>5 DEF TypeOK
    <3>3. view'[s] = view[s] \o <<last, AnswerTurn(q)>>
      BY <2>5 DEF TypeOK
    <3>4. \A r \in Sids \ {s} : view'[r] = view[r]
      BY <2>5 DEF TypeOK
    <3> HIDE DEF last, s
    <3>5. \A t \in TurnsIn(<<last, AnswerTurn(q)>>) : t = last \/ t = AnswerTurn(q)
      BY DEF TurnsIn
    <3>6. \A t \in TurnsIn(view'[s]) : t \in TurnsIn(view[s]) \/ t.of = q
      <4>1. <<last, AnswerTurn(q)>> \in Seq(Turn)
        BY <3>1
      <4>2. TurnsIn(view'[s]) = TurnsIn(view[s]) \cup TurnsIn(<<last, AnswerTurn(q)>>)
        BY <3>2, <3>3, <4>1, InConcatenated
      <4>3. QED
        BY <3>1, <3>5, <4>2
    <3>7. \A r \in Sids : \A t \in TurnsIn(view'[r]) : answer[t.of] # "none" /\ session[t.of] = r
      BY <2>1, <3>4, <3>6 DEF OriginInv, s
    <3>8. QED
      BY <2>2, <2>3, <3>7, NothingInEmpty DEF OriginInv
  <2>6. QED
    <3>1. CASE s \in Sids /\ ~Replayed(q)
      BY <1>6, <2>4, <2>5, <3>1 DEF Respond
    <3>2. CASE ~(s \in Sids /\ ~Replayed(q))
      BY <1>6, <2>4, <3>2, Zenon DEF Respond
    <3>3. QED
      BY <3>1, <3>2
<1>7. ASSUME NEW s \in Sids, DeleteSession(s)
      PROVE  OriginInv'
  BY <1>7, DropTurns, NothingInEmpty DEF DeleteSession, Delete, OriginInv
<1>8. CASE Sweep
  BY <1>8, DropTurns, NothingInEmpty DEF Sweep, SweepExpired, OriginInv
<1>9. CASE Tick \/ UNCHANGED vars
  BY <1>9 DEF Tick, vars, OriginInv
<1>10. QED
  BY <1>1, <1>2, <1>3, <1>4, <1>5, <1>6, <1>7, <1>8, <1>9 DEF Next, Proceed

-----------------------------------------------------------------------------
ChatInv ==
    /\ TypeOK
    /\ FlowInv
    /\ CapacityInv
    /\ OriginInv

LEMMA InitChat == Init => ChatInv
  BY InitType, InitFlow, InitCapacity, InitOrigin DEF ChatInv

LEMMA NextChat == ChatInv /\ [Next]_vars => ChatInv'
  BY NextType, NextFlow, NextCapacity, NextOrigin DEF ChatInv

\* The inductive invariant of the chat endpoints.
LEMMA ChatHolds == Spec => []ChatInv
  BY InitChat, NextChat, PTL DEF Spec

(***************************************************************************)
(* Every variable of the endpoints and the session store has its type.     *)
(***************************************************************************)
THEOREM ChatTypeCorrect == Spec => []TypeOK
<1>1. ChatInv => TypeOK
  BY DEF ChatInv
<1>2. QED
  BY <1>1, ChatHolds, PTL

(***************************************************************************)
(* The store never outgrows session.max_sessions, for any limit and any    *)
(* number of requests that save.                                           *)
(***************************************************************************)
THEOREM LimitIsKept == Spec => []CapacityHolds
<1>1. ChatInv => CapacityHolds
  BY DEF ChatInv, CapacityInv
<1>2. QED
  BY <1>1, ChatHolds, PTL

(***************************************************************************)
(* A request evicts only from a full store, for a conversation that is     *)
(* new, and the one saved the longest ago.                                 *)
(***************************************************************************)
THEOREM EvictionIsLeastRecent == Spec => EvictsOnlyOldest
<1>1. ChatInv /\ [Next]_vars =>
        [\A s \in live \ StaleSessions :
           s \notin live' /\ pc' # pc =>
              /\ Cardinality(live \ StaleSessions) >= MaxSessions
              /\ \E r \in live' : r \notin live \ StaleSessions
              /\ \A r \in live \ StaleSessions : updated[s] <= updated[r]]_vars
  BY NextEvicts DEF ChatInv
<1>2. QED
  BY <1>1, ChatHolds, PTL DEF Spec, EvictsOnlyOldest

(***************************************************************************)
(* A request that failed before its answer was complete is neither         *)
(* recorded, stored, nor sent upstream by another request.                 *)
(***************************************************************************)
THEOREM FailuresAreForgotten == Spec => []FailureLeavesNoTrace
<1>1. ChatInv => FailureLeavesNoTrace
  BY DEF ChatInv, FlowInv, OriginInv, FailureLeavesNoTrace
<1>2. QED
  BY <1>1, ChatHolds, PTL

=============================================================================
