------------------------- MODULE BootstrapManagerProofs -------------------------
(***************************************************************************)
(* Safety of the login sessions, for any number of sessions, requests,     *)
(* crashes and any timeouts.                                               *)
(*                                                                         *)
(* The argument: a submit takes a session to "running" only from a status  *)
(* no worker leaves it in.  While a request works on a session, the        *)
(* session is running, cancelled, gone from the map, or in error because   *)
(* its time is up, and none of these is ever accepted again.               *)
(***************************************************************************)
EXTENDS BootstrapManager, TLAPS

\* A request past its first critical section knows a session that was started.
TargetsBegan ==
    \A q \in Reqs :
        Working(q) \/ pc[q] \in {"reload", "respond"}
        => target[q] \in Sids /\ timer[target[q]] # "unborn"

\* A session that was never started is not in the map.
UnbornIsAbsent ==
    \A s \in Sids : timer[s] = "unborn" => status[s] = "absent"

\* What a worker's session can look like meanwhile.
WorkerStatus ==
    \A q \in Reqs : Working(q) =>
        \/ status[target[q]] \in {"running", "cancelled", "absent"}
        \/ status[target[q]] = "error" /\ Expired(target[q])

\* A pending cancel call belongs to a session that no longer awaits its callback.
CancelingIsPast ==
    \A s \in canceling : timer[s] # "unborn" /\ status[s] # "awaiting_callback_url"

\* A request at its completion has written the credentials.
CompletingWasSaved ==
    \A q \in Reqs : pc[q] = "complete" => target[q] \in saved

(***************************************************************************)
(* A saved login is over: it was started, no submit is accepted for it any *)
(* more, and nobody is on the way to writing its credentials again.        *)
(***************************************************************************)
SavedIsOver ==
    /\ \A s \in saved :
         /\ timer[s] # "unborn"
         /\ status[s] # "awaiting_callback_url"
         /\ status[s] = "error" => Expired(s)
    /\ \A q \in Reqs : Working(q) /\ target[q] \in saved => pc[q] = "complete"

\* A request that has not begun has no answer.
IdleUnanswered ==
    \A q \in Reqs : pc[q] = "idle" => answer[q] = "none"

WorkInv ==
    /\ TargetsBegan
    /\ UnbornIsAbsent
    /\ WorkerStatus
    /\ OneWorkerPerSession
    /\ RunningHasWorker

USE DEF CredentialTypeOK, FileContents, credentialVars, sessionVars, requestVars,
        Statuses, Phases, Timers, Points, Answers

-----------------------------------------------------------------------------
(***************************************************************************)
(* Type correctness.                                                       *)
(***************************************************************************)
LEMMA NatSuccessor == \A n \in Nat : n + 1 \in Nat
  OBVIOUS

LEMMA LaterIsLater == \A a, b, c \in Nat : a > b + c => a + 1 > b + c
  OBVIOUS

LEMMA UpdateType ==
    ASSUME TypeOK, NEW s \in Sids, NEW st \in Statuses, NEW ph \in Phases,
           UpdateSession(s, st) \/ UpdateSessionWithPhase(s, st, ph)
    PROVE  status' \in [Sids -> Statuses] /\ phase' \in [Sids -> Phases]
  BY DEF TypeOK, InMap, UpdateSession, UpdateSessionWithPhase

LEMMA ReclaimType ==
    ASSUME TypeOK, NEW s \in Sids, ReclaimIfOld(s)
    PROVE  /\ status' \in [Sids -> Statuses]
           /\ phase' \in [Sids -> Phases]
           /\ start' \in [Sids -> Nat]
  BY DEF TypeOK, ReclaimIfOld, InMap

LEMMA ReplyType ==
    ASSUME TypeOK, NEW q \in Reqs, NEW a \in Answers, Reply(q, a)
    PROVE  pc' \in [Reqs -> Points] /\ answer' \in [Reqs -> Answers]
  BY DEF TypeOK, Reply, Goto

LEMMA InitInv == Init => TypeOK /\ WorkInv
<1> SUFFICES ASSUME Init PROVE TypeOK /\ WorkInv
  OBVIOUS
<1>1. TypeOK
  BY DEF Init, CredentialInit, TypeOK
<1>2. WorkInv
  BY DEF Init, WorkInv, TargetsBegan, UnbornIsAbsent, WorkerStatus, OneWorkerPerSession,
     RunningHasWorker, Working
<1>3. QED
  BY <1>1, <1>2

LEMMA NextType ==
    ASSUME TypeOK, TargetsBegan, [Next]_vars
    PROVE  TypeOK'
<1> USE DEF TypeOK
<1>1. ASSUME NEW s \in Sids, StartRemoteCallback(s)
      PROVE  TypeOK'
  BY <1>1 DEF StartRemoteCallback
<1>2. ASSUME NEW s \in Sids, Deadline(s) \/ ExpireSession(s)
      PROVE  TypeOK'
  BY <1>2, ZenonT(30) DEF Deadline, ExpireSession
<1>3. ASSUME NEW s \in Sids, Cancel(s) \/ StopContext(s)
      PROVE  TypeOK'
  BY <1>3 DEF Cancel, StopContext
<1>4. ASSUME NEW s \in Sids, GetStatus(s)
      PROVE  TypeOK'
  BY <1>4, ReclaimType DEF GetStatus
<1>5. ASSUME NEW q \in Reqs, NEW s \in Sids, Submit(q, s)
      PROVE  TypeOK'
  BY <1>5 DEF Submit, SubmitRefused, SubmitExpired, SubmitAccepted, SubmitAcceptedWhen,
     Reply, Goto
<1>6. ASSUME NEW q \in Reqs, ParseCallback(q) \/ GenerateCosy(q) \/ DeriveRemotely(q)
      PROVE  TypeOK'
  <2>1. target[q] \in Sids
    BY <1>6 DEF TargetsBegan, Working, ParseCallback, GenerateCosy, DeriveRemotely
  <2>2. status' \in [Sids -> Statuses] /\ phase' \in [Sids -> Phases]
    BY <1>6, <2>1, UpdateType DEF ParseCallback, GenerateCosy, DeriveRemotely
  <2>3. QED
    BY <1>6, <2>2, ZenonT(30) DEF ParseCallback, GenerateCosy, DeriveRemotely, Goto
<1>7. ASSUME NEW q \in Reqs, OpenFile(q) \/ SaveFile(q)
      PROVE  TypeOK'
  <2>1. target[q] \in Sids
    BY <1>7 DEF TargetsBegan, Working, OpenFile, SaveFile
  <2>2. QED
    BY <1>7, <2>1, BootstrapAssumption
    DEF OpenFile, SaveFile, Goto, TruncateFile, WriteFile, WriteFileFails
<1>8. ASSUME NEW q \in Reqs, FailSession(q) \/ CompleteSession(q)
      PROVE  TypeOK'
  <2>1. target[q] \in Sids
    BY <1>8 DEF TargetsBegan, Working, FailSession, CompleteSession
  <2>2. status' \in [Sids -> Statuses] /\ phase' \in [Sids -> Phases]
    BY <1>8, <2>1, UpdateType DEF FailSession, CompleteSession
  <2>3. QED
    BY <1>8, <2>2, ZenonT(30) DEF FailSession, CompleteSession, Goto
<1>9. ASSUME NEW q \in Reqs, ReloadCredentials(q)
      PROVE  TypeOK'
  BY <1>9 DEF ReloadCredentials, Refresh, Goto
<1>10. ASSUME NEW q \in Reqs, Respond(q)
       PROVE  TypeOK'
  <2>1. target[q] \in Sids
    BY <1>10 DEF TargetsBegan, Respond
  <2>2. pc' \in [Reqs -> Points] /\ answer' \in [Reqs -> Answers]
    BY <1>10, <2>1, ReplyType DEF Respond
  <2>3. QED
    BY <1>10, <2>1, <2>2, ReclaimType DEF Respond
<1>11. CASE AdminRefresh \/ UseCredentials
  BY <1>11 DEF AdminRefresh, UseCredentials, Refresh, Current
<1>12. CASE Tick
  <2>1. now' \in Nat
    BY <1>12, NatSuccessor DEF Tick
  <2>2. QED
    BY <1>12, <2>1 DEF Tick
<1>13. CASE Crash
  <2>1. crashes' \in Nat
    BY <1>13, NatSuccessor DEF Crash
  <2>2. status' \in [Sids -> Statuses] /\ phase' \in [Sids -> Phases]
    BY <1>13 DEF Crash
  <2>3. timer' \in [Sids -> Timers] /\ start' \in [Sids -> Nat]
    BY <1>13 DEF Crash
  <2>4. pc' \in [Reqs -> Points] /\ answer' \in [Reqs -> Answers]
    BY <1>13 DEF Crash
  <2>5. QED
    BY <1>13, <2>1, <2>2, <2>3, <2>4 DEF Crash
<1>14. CASE UNCHANGED vars
  BY <1>14 DEF vars
<1>15. QED
  BY <1>1, <1>2, <1>3, <1>4, <1>5, <1>6, <1>7, <1>8, <1>9, <1>10, <1>11, <1>12, <1>13,
     <1>14 DEF Next, Proceed

-----------------------------------------------------------------------------
(***************************************************************************)
(* Mutual exclusion of the workers.                                        *)
(***************************************************************************)

(***************************************************************************)
(* A step that starts no worker keeps WorkInv, if what it does to the      *)
(* session map fits the workers that remain.                               *)
(***************************************************************************)
SafeStatus(s) ==
    \/ status[s] \in {"running", "cancelled", "absent"}
    \/ status[s] = "error" /\ Expired(s)

NoNewWorker ==
    /\ \A q \in Reqs : Working(q)' => Working(q) /\ target'[q] = target[q]
    /\ \A q \in Reqs : pc'[q] \in {"reload", "respond"} =>
           /\ Working(q) \/ pc[q] \in {"reload", "respond"}
           /\ target'[q] = target[q]
    /\ \A q \in Reqs : Working(q) /\ ~Working(q)' => status'[target[q]] # "running"

MapFits ==
    /\ \A s \in Sids : timer[s] # "unborn" => timer'[s] # "unborn"
    /\ \A s \in Sids : timer'[s] = "unborn" => status'[s] = "absent"
    /\ \A s \in Sids : status'[s] = "running" =>
           \/ status[s] = "running"
           \/ \E q \in Reqs : Working(q)' /\ target'[q] = s
    /\ \A q \in Reqs : Working(q)' => SafeStatus(target[q])'

LEMMA NoNewWorkerStep ==
    ASSUME WorkInv, NoNewWorker, MapFits
    PROVE  WorkInv'
<1> USE DEF NoNewWorker, MapFits
<1>1. TargetsBegan'
  BY DEF WorkInv, TargetsBegan
<1>2. UnbornIsAbsent'
  BY DEF UnbornIsAbsent
<1>3. WorkerStatus'
  BY DEF WorkerStatus, SafeStatus
<1>4. OneWorkerPerSession'
  BY DEF WorkInv, OneWorkerPerSession
<1>5. RunningHasWorker'
  BY DEF WorkInv, RunningHasWorker
<1>6. QED
  BY <1>1, <1>2, <1>3, <1>4, <1>5 DEF WorkInv

LEMMA FunctionTypes ==
    ASSUME TypeOK
    PROVE  /\ pc \in [Reqs -> Points]
           /\ target \in [Reqs -> Sids \cup {NoSid}]
           /\ status \in [Sids -> Statuses]
           /\ timer \in [Sids -> Timers]
           /\ start \in [Sids -> Nat]
  BY DEF TypeOK

\* The operations on the session map outside the submits.
LEMMA SessionStep ==
    ASSUME TypeOK, WorkInv, NEW s \in Sids,
           \/ StartRemoteCallback(s)
           \/ Deadline(s)
           \/ ExpireSession(s)
           \/ Cancel(s)
           \/ StopContext(s)
           \/ GetStatus(s)
    PROVE  WorkInv'
<1> USE FunctionTypes DEF InMap
<1>1. pc' = pc /\ target' = target /\ now' = now
  BY DEF StartRemoteCallback, Deadline, ExpireSession, Cancel, StopContext, GetStatus
<1>2. NoNewWorker
  BY <1>1 DEF NoNewWorker, Working
<1>3. \A q \in Reqs : Working(q) =>
          target[q] \in Sids /\ timer[target[q]] # "unborn" /\ SafeStatus(target[q])
  BY DEF WorkInv, TargetsBegan, WorkerStatus, SafeStatus
<1>4. \A t \in Sids : timer[t] = "unborn" => status[t] = "absent"
  BY DEF WorkInv, UnbornIsAbsent
<1>5. ASSUME \A t \in Sids : timer[t] # "unborn" /\ SafeStatus(t) => SafeStatus(t)',
             \A t \in Sids : timer[t] # "unborn" => timer'[t] # "unborn",
             \A t \in Sids : timer'[t] = "unborn" => status'[t] = "absent",
             \A t \in Sids : status'[t] = "running" => status[t] = "running"
      PROVE  WorkInv'
  <2>1. MapFits
    BY <1>1, <1>3, <1>5 DEF MapFits, Working
  <2>2. QED
    BY <2>1, <1>2, NoNewWorkerStep
<1>6. CASE StartRemoteCallback(s)
  BY <1>4, <1>5, <1>6 DEF StartRemoteCallback, SafeStatus, Expired
<1>7. CASE Deadline(s)
  BY <1>4, <1>5, <1>7 DEF Deadline, SafeStatus, Expired
<1>8. CASE ExpireSession(s)
  BY <1>4, <1>5, <1>8 DEF ExpireSession, SafeStatus, Expired
<1>9. CASE Cancel(s)
  BY <1>4, <1>5, <1>9 DEF Cancel, Active, SafeStatus, Expired
<1>10. CASE StopContext(s)
  BY <1>4, <1>5, <1>10 DEF StopContext, SafeStatus, Expired
<1>11. CASE GetStatus(s)
  BY <1>4, <1>5, <1>11 DEF GetStatus, ReclaimIfOld, SafeStatus, Expired
<1>12. QED
  BY <1>6, <1>7, <1>8, <1>9, <1>10, <1>11

\* A submit is accepted only where nobody works.
LEMMA SubmitStep ==
    ASSUME TypeOK, WorkInv, NEW q \in Reqs, NEW s \in Sids, Submit(q, s)
    PROVE  WorkInv'
<1> USE FunctionTypes DEF InMap
<1>1. /\ pc[q] = "idle"
      /\ target' = [target EXCEPT ![q] = s]
      /\ timer' = timer /\ start' = start /\ now' = now
  BY DEF Submit
<1>2. \A p \in Reqs : Working(p) =>
          target[p] \in Sids /\ timer[target[p]] # "unborn" /\ SafeStatus(target[p])
  BY DEF WorkInv, TargetsBegan, WorkerStatus, SafeStatus
<1>3. \A t \in Sids : timer[t] = "unborn" => status[t] = "absent"
  BY DEF WorkInv, UnbornIsAbsent
<1>4. ASSUME SubmitRefused(q, s) \/ SubmitExpired(q, s)
      PROVE  WorkInv'
  <2>1. pc' = [pc EXCEPT ![q] = "done"]
    BY <1>4 DEF SubmitRefused, SubmitExpired, Reply, Goto
  <2>2. \/ status' = status
        \/ /\ status[s] # "absent" /\ Expired(s)
           /\ status' = [status EXCEPT ![s] = "error"]
    BY <1>4 DEF SubmitRefused, SubmitExpired
  <2>3. NoNewWorker
    BY <1>1, <2>1 DEF NoNewWorker, Working
  <2>4. \A t \in Sids : SafeStatus(t) => SafeStatus(t)'
    BY <1>1, <2>2 DEF SafeStatus, Expired
  <2>5. MapFits
    BY <1>1, <1>2, <1>3, <2>1, <2>2, <2>4 DEF MapFits, Working
  <2>6. QED
    BY <2>3, <2>5, NoNewWorkerStep
<1>5. ASSUME SubmitAccepted(q, s)
      PROVE  WorkInv'
  <2>1. /\ status[s] \in {"awaiting_callback_url", "error"} /\ ~Expired(s)
        /\ status' = [status EXCEPT ![s] = "running"]
        /\ pc' = [pc EXCEPT ![q] = "parse"]
    BY <1>5 DEF SubmitAccepted, SubmitAcceptedWhen, Goto
  <2>2. \A p \in Reqs : Working(p) => target[p] # s
    BY <1>2, <2>1 DEF SafeStatus
  <2>3. timer[s] # "unborn"
    BY <1>3, <2>1
  <2>4. \A p \in Reqs : Working(p)' <=> (Working(p) \/ p = q)
    BY <1>1, <2>1 DEF Working
  <2>5. TargetsBegan'
    BY <1>1, <2>1, <2>3, <2>4 DEF WorkInv, TargetsBegan
  <2>6. UnbornIsAbsent'
    BY <1>1, <1>3, <2>1, <2>3 DEF UnbornIsAbsent
  <2>7. WorkerStatus'
    BY <1>1, <1>2, <2>1, <2>2, <2>4 DEF WorkerStatus, SafeStatus, Expired
  <2>8. OneWorkerPerSession'
    BY <1>1, <2>2, <2>4 DEF WorkInv, OneWorkerPerSession
  <2>9. RunningHasWorker'
    BY <1>1, <2>1, <2>4 DEF WorkInv, RunningHasWorker, Working
  <2>10. QED
    BY <2>5, <2>6, <2>7, <2>8, <2>9 DEF WorkInv
<1>6. QED
  BY <1>4, <1>5 DEF Submit

\* A worker puts "running" back only on its own session, and its last update ends it.
LEMMA WorkerStep ==
    ASSUME TypeOK, WorkInv, NEW q \in Reqs, Proceed(q)
    PROVE  WorkInv'
<1> USE FunctionTypes DEF InMap
<1>1. target' = target /\ timer' = timer /\ now' = now
  BY DEF Proceed, ParseCallback, GenerateCosy, DeriveRemotely, OpenFile, SaveFile,
     FailSession, CompleteSession, ReloadCredentials, Respond, sessionVars
<1>2. \A p \in Reqs : Working(p) =>
          target[p] \in Sids /\ timer[target[p]] # "unborn" /\ SafeStatus(target[p])
  BY DEF WorkInv, TargetsBegan, WorkerStatus, SafeStatus
<1>3. \A t \in Sids : timer[t] = "unborn" => status[t] = "absent"
  BY DEF WorkInv, UnbornIsAbsent
<1>4. ASSUME NEW l \in {"cosy", "derive", "open", "write", "fail", "complete"},
             Working(q), pc' = [pc EXCEPT ![q] = l], start' = start,
             \/ status' = status
             \/ status' = IF InMap(target[q])
                          THEN [status EXCEPT ![target[q]] = "running"] ELSE status
      PROVE  WorkInv'
  <2>1. \A p \in Reqs : Working(p)' <=> Working(p)
    BY <1>4 DEF Working
  <2>2. \A t \in Sids : SafeStatus(t) => SafeStatus(t)'
    BY <1>1, <1>2, <1>4 DEF SafeStatus, Expired
  <2>3. NoNewWorker
    BY <1>1, <1>4, <2>1 DEF NoNewWorker
  <2>4. MapFits
    BY <1>1, <1>2, <1>3, <1>4, <2>1, <2>2 DEF MapFits
  <2>5. QED
    BY <2>3, <2>4, NoNewWorkerStep
<1>5. ASSUME NEW l \in {"reload", "respond", "done"},
             Working(q) \/ pc[q] \in {"reload", "respond"},
             pc' = [pc EXCEPT ![q] = l],
             Working(q) => status'[target[q]] # "running",
             \A t \in Sids : status'[t] = "running" => status[t] = "running",
             \A t \in Sids : status[t] = "absent" => status'[t] = "absent",
             \A p \in Reqs : Working(p) /\ p # q => SafeStatus(target[p])'
      PROVE  WorkInv'
  <2>1. \A p \in Reqs : Working(p)' <=> Working(p) /\ p # q
    BY <1>5 DEF Working
  <2>2. NoNewWorker
    BY <1>1, <1>5, <2>1 DEF NoNewWorker, Working
  <2>3. MapFits
    BY <1>1, <1>3, <1>5, <2>1 DEF MapFits
  <2>4. QED
    BY <2>2, <2>3, NoNewWorkerStep
<1>6. CASE ParseCallback(q) \/ GenerateCosy(q) \/ DeriveRemotely(q)
  BY <1>4, <1>6 DEF ParseCallback, GenerateCosy, DeriveRemotely, UpdateSessionWithPhase,
     Goto, Working
<1>7. CASE OpenFile(q) \/ SaveFile(q)
  BY <1>4, <1>7 DEF OpenFile, SaveFile, Goto, Working
<1>8. CASE FailSession(q) \/ CompleteSession(q)
  <2>1. Working(q) /\ start' = start
    BY <1>8 DEF FailSession, CompleteSession, Working
  <2>2. PICK st \in {"error", "completed"} :
          status' = IF InMap(target[q]) THEN [status EXCEPT ![target[q]] = st] ELSE status
    BY <1>8 DEF FailSession, CompleteSession, UpdateSession
  <2>3. \A p \in Reqs : Working(p) /\ p # q => target[p] # target[q]
    BY <2>1 DEF WorkInv, OneWorkerPerSession
  <2>4. \A p \in Reqs : Working(p) /\ p # q => SafeStatus(target[p])'
    BY <1>1, <1>2, <2>1, <2>2, <2>3 DEF SafeStatus, Expired
  <2>5. status'[target[q]] # "running"
    BY <1>2, <2>1, <2>2
  <2>6. QED
    BY <1>5, <1>8, <2>1, <2>2, <2>4, <2>5 DEF FailSession, CompleteSession, Goto
<1>9. CASE ReloadCredentials(q)
  <2>1. \A p \in Reqs : Working(p) => SafeStatus(target[p])'
    BY <1>1, <1>2, <1>9 DEF ReloadCredentials, SafeStatus, Expired
  <2>2. QED
    BY <1>5, <1>9, <2>1 DEF ReloadCredentials, Goto, Working
<1>10. CASE Respond(q)
  <2>1. \A p \in Reqs : Working(p) => SafeStatus(target[p])'
    BY <1>1, <1>2, <1>10 DEF Respond, ReclaimIfOld, SafeStatus, Expired
  <2>2. QED
    BY <1>5, <1>10, <2>1 DEF Respond, ReclaimIfOld, Reply, Goto, Working
<1>11. QED
  BY <1>6, <1>7, <1>8, <1>9, <1>10 DEF Proceed

LEMMA NextWork ==
    ASSUME TypeOK, WorkInv, [Next]_vars
    PROVE  WorkInv'
<1> USE DEF WorkInv, TargetsBegan, UnbornIsAbsent, WorkerStatus, OneWorkerPerSession,
            RunningHasWorker, Working
<1>1. CASE AdminRefresh \/ UseCredentials
  BY <1>1 DEF AdminRefresh, UseCredentials, Expired
<1>2. CASE Tick
  <2>1. \A s \in Sids : Expired(s) => Expired(s)'
    BY <1>2, LaterIsLater, FunctionTypes, BootstrapAssumption DEF Tick, Expired, TypeOK
  <2>2. QED
    BY <1>2, <2>1, FunctionTypes DEF Tick
<1>3. CASE Crash
  BY <1>3, FunctionTypes DEF Crash
<1>4. CASE UNCHANGED vars
  BY <1>4 DEF vars, Expired
<1>5. QED
  BY <1>1, <1>2, <1>3, <1>4, SessionStep, SubmitStep, WorkerStep DEF Next

-----------------------------------------------------------------------------
(***************************************************************************)
(* Deadlines, awaiting sessions, saved credentials, the loaded snapshot.   *)
(***************************************************************************)
DeadlineInv == CancelingIsPast /\ AwaitingHasDeadline

SaveInv == CompletedWasSaved /\ CompletingWasSaved /\ IdleUnanswered

\* What the steps of a submit do to the statuses: none of them makes a session await.
LEMMA SubmitsNeverAwait ==
    ASSUME TypeOK, NEW q \in Reqs, Proceed(q) \/ \E s \in Sids : Submit(q, s)
    PROVE  /\ \A t \in Sids : status'[t] = "awaiting_callback_url"
                              => status[t] = "awaiting_callback_url"
           /\ timer' = timer /\ canceling' = canceling
<1> USE FunctionTypes DEF InMap
<1>1. ASSUME NEW s \in Sids, Submit(q, s)
      PROVE  \A t \in Sids : status'[t] = "awaiting_callback_url"
                             => status[t] = "awaiting_callback_url"
  BY <1>1 DEF Submit, SubmitRefused, SubmitExpired, SubmitAccepted, SubmitAcceptedWhen
<1>2. ASSUME Proceed(q)
      PROVE  \A t \in Sids : status'[t] = "awaiting_callback_url"
                             => status[t] = "awaiting_callback_url"
  BY <1>2 DEF Proceed, ParseCallback, GenerateCosy, DeriveRemotely, OpenFile, SaveFile,
     FailSession, CompleteSession, ReloadCredentials, Respond, UpdateSession,
     UpdateSessionWithPhase, ReclaimIfOld
<1>3. timer' = timer /\ canceling' = canceling
  BY DEF Submit, Proceed, ParseCallback, GenerateCosy, DeriveRemotely, OpenFile, SaveFile,
     FailSession, CompleteSession, ReloadCredentials, Respond
<1>4. QED
  BY <1>1, <1>2, <1>3

LEMMA NextDeadline ==
    ASSUME TypeOK, WorkInv, DeadlineInv, [Next]_vars
    PROVE  DeadlineInv'
<1> USE FunctionTypes DEF DeadlineInv, CancelingIsPast, AwaitingHasDeadline
<1>1. canceling \subseteq Sids
  BY DEF TypeOK
<1>2. \A s \in Sids : timer[s] = "unborn" => status[s] = "absent"
  BY DEF WorkInv, UnbornIsAbsent
<1>3. ASSUME NEW s \in Sids, StartRemoteCallback(s)
      PROVE  DeadlineInv'
  BY <1>1, <1>3 DEF StartRemoteCallback
<1>4. ASSUME NEW s \in Sids, Deadline(s) \/ ExpireSession(s)
      PROVE  DeadlineInv'
  BY <1>1, <1>4 DEF Deadline, ExpireSession
<1>5. ASSUME NEW s \in Sids, Cancel(s)
      PROVE  DeadlineInv'
  BY <1>1, <1>2, <1>5 DEF Cancel, Active
<1>6. ASSUME NEW s \in Sids, StopContext(s)
      PROVE  DeadlineInv'
  BY <1>1, <1>6 DEF StopContext
<1>7. ASSUME NEW s \in Sids, GetStatus(s)
      PROVE  DeadlineInv'
  BY <1>1, <1>7 DEF GetStatus, ReclaimIfOld
<1>8. ASSUME NEW q \in Reqs, Proceed(q) \/ \E s \in Sids : Submit(q, s)
      PROVE  DeadlineInv'
  BY <1>1, <1>8, SubmitsNeverAwait
<1>9. CASE AdminRefresh \/ UseCredentials \/ Tick \/ Crash \/ UNCHANGED vars
  BY <1>1, <1>9 DEF AdminRefresh, UseCredentials, Tick, Crash, vars
<1>10. QED
  BY <1>3, <1>4, <1>5, <1>6, <1>7, <1>8, <1>9 DEF Next

LEMMA NextAwaiting ==
    ASSUME TypeOK, OneAwaiting, [Next]_vars
    PROVE  OneAwaiting'
<1> USE FunctionTypes DEF OneAwaiting
<1>1. ASSUME NEW s \in Sids, StartRemoteCallback(s)
      PROVE  OneAwaiting'
  BY <1>1 DEF StartRemoteCallback, Active
<1>2. ASSUME NEW s \in Sids,
             Deadline(s) \/ ExpireSession(s) \/ Cancel(s) \/ StopContext(s) \/ GetStatus(s)
      PROVE  OneAwaiting'
  BY <1>2 DEF Deadline, ExpireSession, Cancel, StopContext, GetStatus, ReclaimIfOld
<1>3. ASSUME NEW q \in Reqs, Proceed(q) \/ \E s \in Sids : Submit(q, s)
      PROVE  OneAwaiting'
  BY <1>3, SubmitsNeverAwait
<1>4. CASE AdminRefresh \/ UseCredentials \/ Tick \/ Crash \/ UNCHANGED vars
  BY <1>4 DEF AdminRefresh, UseCredentials, Tick, Crash, vars
<1>5. QED
  BY <1>1, <1>2, <1>3, <1>4 DEF Next

LEMMA NextSaved ==
    ASSUME TypeOK, WorkInv, SaveInv, [Next]_vars
    PROVE  SaveInv'
<1> USE FunctionTypes DEF SaveInv, CompletedWasSaved, CompletingWasSaved, IdleUnanswered, InMap
<1>1. answer \in [Reqs -> Answers]
  BY DEF TypeOK
<1>2. \A q \in Reqs : Working(q) \/ pc[q] \in {"reload", "respond"} => target[q] \in Sids
  BY DEF WorkInv, TargetsBegan
<1>3. ASSUME NEW s \in Sids,
             StartRemoteCallback(s) \/ Deadline(s) \/ ExpireSession(s) \/ Cancel(s)
             \/ StopContext(s) \/ GetStatus(s)
      PROVE  SaveInv'
  BY <1>3 DEF StartRemoteCallback, Deadline, ExpireSession, Cancel, StopContext, GetStatus,
     ReclaimIfOld
<1>4. ASSUME NEW q \in Reqs, NEW s \in Sids, Submit(q, s)
      PROVE  SaveInv'
  <2>1. /\ \A p \in Reqs : pc'[p] \in {"complete", "idle"} => pc'[p] = pc[p] /\ p # q
        /\ \A p \in Reqs : p # q => answer'[p] = answer[p]
        /\ answer'[q] # "completed"
        /\ \A t \in Sids : status'[t] = "completed" => status[t] = "completed"
    BY <1>1, <1>4 DEF Submit, SubmitRefused, SubmitExpired, SubmitAccepted,
       SubmitAcceptedWhen, Reply, Goto
  <2>2. saved' = saved /\ target' = [target EXCEPT ![q] = s]
    BY <1>4 DEF Submit
  <2>3. QED
    BY <2>1, <2>2
<1>5. ASSUME NEW q \in Reqs,
             \/ ParseCallback(q) \/ GenerateCosy(q) \/ DeriveRemotely(q)
             \/ OpenFile(q) \/ FailSession(q) \/ ReloadCredentials(q)
      PROVE  SaveInv'
  <2>1. \A t \in Sids : status'[t] = "completed" => status[t] = "completed"
    BY <1>5 DEF ParseCallback, GenerateCosy, DeriveRemotely, OpenFile, FailSession,
       ReloadCredentials, UpdateSession, UpdateSessionWithPhase
  <2>2. \A p \in Reqs : pc'[p] \in {"complete", "idle"} => pc'[p] = pc[p]
    BY <1>5 DEF ParseCallback, GenerateCosy, DeriveRemotely, OpenFile, FailSession,
       ReloadCredentials, Goto
  <2>3. answer' = answer /\ target' = target /\ saved' = saved
    BY <1>5 DEF ParseCallback, GenerateCosy, DeriveRemotely, OpenFile, FailSession,
       ReloadCredentials
  <2>4. QED
    BY <2>1, <2>2, <2>3
<1>6. ASSUME NEW q \in Reqs, SaveFile(q)
      PROVE  SaveInv'
  BY <1>6 DEF SaveFile, Goto
<1>7. ASSUME NEW q \in Reqs, CompleteSession(q)
      PROVE  SaveInv'
  <2>1. target[q] \in saved
    BY <1>7 DEF CompleteSession
  <2>2. QED
    BY <1>7, <2>1 DEF CompleteSession, UpdateSession, Goto
<1>8. ASSUME NEW q \in Reqs, Respond(q)
      PROVE  SaveInv'
  <2>1. target[q] \in Sids /\ target' = target /\ saved' = saved
    BY <1>2, <1>8 DEF Respond
  <2>2. \A t \in Sids : status'[t] = "completed" => status[t] = "completed"
    BY <1>8 DEF Respond, ReclaimIfOld
  <2>3. /\ pc' = [pc EXCEPT ![q] = "done"]
        /\ answer' = [answer EXCEPT ![q] = status[target[q]]]
    BY <1>8 DEF Respond, Reply, Goto
  <2>4. QED
    BY <1>1, <2>1, <2>2, <2>3
<1>9. CASE AdminRefresh \/ UseCredentials \/ Tick \/ UNCHANGED vars
  BY <1>9 DEF AdminRefresh, UseCredentials, Tick, vars
<1>10. CASE Crash
  BY <1>1, <1>10 DEF Crash
<1>11. QED
  BY <1>3, <1>4, <1>5, <1>6, <1>7, <1>8, <1>9, <1>10 DEF Next, Proceed

(***************************************************************************)
(* A session that is saved stays over, and becomes saved under its only    *)
(* worker, which leaves it in no status that a submit is accepted in.      *)
(***************************************************************************)
LEMMA NextOver ==
    ASSUME TypeOK, WorkInv, SavedIsOver, [Next]_vars
    PROVE  SavedIsOver'
<1> USE FunctionTypes DEF InMap
<1>1. saved \subseteq Sids
  BY DEF TypeOK
<1>2. \A p \in Reqs : Working(p) =>
          target[p] \in Sids /\ timer[target[p]] # "unborn" /\ SafeStatus(target[p])
  BY DEF WorkInv, TargetsBegan, WorkerStatus, SafeStatus
<1>3. \A p, q \in Reqs : Working(p) /\ Working(q) /\ target[p] = target[q] => p = q
  BY DEF WorkInv, OneWorkerPerSession
<1>4. ASSUME saved' = saved,
             \A s \in saved : timer'[s] # "unborn" /\ status'[s] # "awaiting_callback_url",
             \A s \in saved : status'[s] = "error" => Expired(s)',
             \A q \in Reqs : Working(q)' /\ target'[q] \in saved =>
                 /\ Working(q) /\ target'[q] = target[q]
                 /\ pc[q] = "complete" => pc'[q] = "complete"
      PROVE  SavedIsOver'
  BY <1>4 DEF SavedIsOver
<1>5. ASSUME NEW s \in Sids,
             StartRemoteCallback(s) \/ Deadline(s) \/ ExpireSession(s) \/ Cancel(s)
             \/ StopContext(s) \/ GetStatus(s)
      PROVE  SavedIsOver'
  <2>1. /\ pc' = pc /\ target' = target /\ saved' = saved /\ now' = now
        /\ \A q \in Reqs : Working(q)' <=> Working(q)
    BY <1>5 DEF StartRemoteCallback, Deadline, ExpireSession, Cancel, StopContext, GetStatus,
       Working
  <2>2. \A t \in saved : timer'[t] # "unborn" /\ status'[t] # "awaiting_callback_url"
    BY <1>1, <1>5 DEF StartRemoteCallback, Deadline, ExpireSession, Cancel, StopContext,
       GetStatus, ReclaimIfOld, SavedIsOver
  <2>3. \A t \in saved : status'[t] = "error" => status[t] = "error" /\ start'[t] = start[t]
    BY <1>1, <1>5 DEF StartRemoteCallback, Deadline, ExpireSession, Cancel, StopContext,
       GetStatus, ReclaimIfOld, SavedIsOver
  <2>4. QED
    BY <1>4, <2>1, <2>2, <2>3 DEF SavedIsOver, Expired
<1>6. ASSUME NEW q \in Reqs, NEW s \in Sids, Submit(q, s)
      PROVE  SavedIsOver'
  <2>1. /\ pc[q] = "idle" /\ target' = [target EXCEPT ![q] = s]
        /\ timer' = timer /\ start' = start /\ now' = now /\ saved' = saved
    BY <1>6 DEF Submit
  <2>2. CASE SubmitAccepted(q, s)
    <3>1. s \notin saved
      BY <2>2 DEF SubmitAccepted, SubmitAcceptedWhen, SavedIsOver
    <3>2. /\ status' = [status EXCEPT ![s] = "running"]
          /\ pc' = [pc EXCEPT ![q] = "parse"]
      BY <2>2 DEF SubmitAccepted, SubmitAcceptedWhen, Goto
    <3>3. QED
      BY <1>1, <1>4, <2>1, <3>1, <3>2 DEF SavedIsOver, Working, Expired
  <2>3. CASE SubmitRefused(q, s) \/ SubmitExpired(q, s)
    <3>1. pc' = [pc EXCEPT ![q] = "done"]
      BY <2>3 DEF SubmitRefused, SubmitExpired, Reply, Goto
    <3>2. \/ status' = status
          \/ Expired(s) /\ status' = [status EXCEPT ![s] = "error"]
      BY <2>3 DEF SubmitRefused, SubmitExpired
    <3>3. QED
      BY <1>1, <1>4, <2>1, <3>1, <3>2 DEF SavedIsOver, Working, Expired
  <2>4. QED
    BY <1>6, <2>2, <2>3 DEF Submit
<1>7. ASSUME NEW q \in Reqs,
             ParseCallback(q) \/ GenerateCosy(q) \/ DeriveRemotely(q) \/ OpenFile(q)
      PROVE  SavedIsOver'
  <2>1. /\ target' = target /\ timer' = timer /\ start' = start /\ now' = now
        /\ saved' = saved /\ Working(q) /\ pc[q] # "complete"
    BY <1>7 DEF ParseCallback, GenerateCosy, DeriveRemotely, OpenFile, Working
  <2>2. target[q] \in Sids /\ target[q] \notin saved
    BY <1>2, <2>1 DEF SavedIsOver
  <2>3. \A t \in Sids : t # target[q] => status'[t] = status[t]
    BY <1>7, <2>2 DEF ParseCallback, GenerateCosy, DeriveRemotely, OpenFile,
       UpdateSessionWithPhase
  <2>4. \A p \in Reqs : p # q => pc'[p] = pc[p]
    BY <1>7 DEF ParseCallback, GenerateCosy, DeriveRemotely, OpenFile, Goto
  <2>5. QED
    BY <1>1, <1>4, <2>1, <2>2, <2>3, <2>4 DEF SavedIsOver, Working, Expired
<1>8. ASSUME NEW q \in Reqs, SaveFile(q)
      PROVE  SavedIsOver'
  <2>1. /\ target' = target /\ timer' = timer /\ start' = start /\ now' = now
        /\ status' = status /\ pc[q] = "write" /\ Working(q)
    BY <1>8 DEF SaveFile, Working
  <2>2. /\ target[q] \in Sids /\ timer[target[q]] # "unborn" /\ SafeStatus(target[q])
        /\ target[q] \notin saved
    BY <1>2, <2>1 DEF SavedIsOver
  <2>3. CASE pc' = [pc EXCEPT ![q] = "complete"] /\ saved' = saved \cup {target[q]}
    <3>1. \A p \in Reqs : Working(p)' => Working(p)
      BY <2>1, <2>3 DEF Working
    <3>2. \A p \in Reqs : Working(p) /\ target[p] \in saved' => p = q \/ pc'[p] = "complete"
      BY <1>3, <2>1, <2>3 DEF SavedIsOver
    <3>3. \A t \in saved' : /\ timer[t] # "unborn" /\ status[t] # "awaiting_callback_url"
                            /\ status[t] = "error" => Expired(t)
      BY <2>2, <2>3 DEF SavedIsOver, SafeStatus
    <3>4. \A p \in Reqs : Working(p)' /\ target'[p] \in saved' => pc'[p] = "complete"
      BY <2>1, <2>3, <3>1, <3>2
    <3>5. \A t \in saved' : /\ timer'[t] # "unborn" /\ status'[t] # "awaiting_callback_url"
                            /\ status'[t] = "error" => Expired(t)'
      BY <2>1, <3>3 DEF Expired
    <3>6. QED
      BY <3>4, <3>5, ZenonT(30) DEF SavedIsOver
  <2>4. CASE pc' = [pc EXCEPT ![q] = "fail"] /\ saved' = saved
    BY <1>4, <2>1, <2>2, <2>4 DEF SavedIsOver, Working, Expired
  <2>5. QED
    BY <1>8, <2>3, <2>4 DEF SaveFile, Goto
<1>9. ASSUME NEW q \in Reqs, FailSession(q) \/ CompleteSession(q)
      PROVE  SavedIsOver'
  <2>1. /\ target' = target /\ timer' = timer /\ start' = start /\ now' = now
        /\ saved' = saved /\ Working(q) /\ target[q] \in Sids
    BY <1>2, <1>9 DEF FailSession, CompleteSession, Working
  <2>2. \/ target[q] \notin saved
        \/ \A t \in Sids : status'[t] \in {status[t], "completed"}
    BY <1>9, <2>1 DEF FailSession, CompleteSession, UpdateSession, SavedIsOver
  <2>3. \A t \in Sids : t # target[q] => status'[t] = status[t]
    BY <1>9, <2>1 DEF FailSession, CompleteSession, UpdateSession
  <2>4. \A p \in Reqs : /\ p # q => pc'[p] = pc[p]
                        /\ p = q => pc'[p] \in {"reload", "respond"}
    BY <1>9 DEF FailSession, CompleteSession, Goto
  <2>5. \A t \in saved : status'[t] \in {status[t], "completed"}
    BY <1>1, <2>2, <2>3
  <2>6. \A p \in Reqs : Working(p)' => Working(p) /\ p # q
    <3> SUFFICES ASSUME NEW p \in Reqs, Working(p)'
                 PROVE  Working(p) /\ p # q
      OBVIOUS
    <3>1. CASE p = q
      BY <2>4, <3>1 DEF Working
    <3>2. CASE p # q
      BY <2>4, <3>2 DEF Working
    <3>3. QED
      BY <3>1, <3>2
  <2>7. \A t \in saved : /\ timer'[t] # "unborn" /\ status'[t] # "awaiting_callback_url"
                         /\ status'[t] = "error" => Expired(t)'
    BY <1>1, <2>1, <2>5 DEF SavedIsOver, Expired
  <2>8. QED
    BY <1>4, <2>1, <2>4, <2>6, <2>7
<1>10. ASSUME NEW q \in Reqs, ReloadCredentials(q) \/ Respond(q)
       PROVE  SavedIsOver'
  <2>1. /\ target' = target /\ timer' = timer /\ now' = now /\ saved' = saved
        /\ \A p \in Reqs : p # q => pc'[p] = pc[p]
        /\ pc'[q] \in {"respond", "done"}
    BY <1>10 DEF ReloadCredentials, Respond, Reply, Goto
  <2>2. \A t \in Sids : \/ status'[t] = status[t] /\ start'[t] = start[t]
                        \/ status'[t] = "absent"
    BY <1>10 DEF ReloadCredentials, Respond, ReclaimIfOld
  <2>3. QED
    BY <1>1, <1>4, <2>1, <2>2 DEF SavedIsOver, Working, Expired
<1>11. CASE AdminRefresh \/ UseCredentials \/ UNCHANGED vars
  BY <1>4, <1>11 DEF AdminRefresh, UseCredentials, vars, SavedIsOver, Working, Expired
<1>12. CASE Tick
  <2>1. \A s \in Sids : Expired(s) => Expired(s)'
    BY <1>12, LaterIsLater, BootstrapAssumption DEF Tick, Expired, TypeOK
  <2>2. QED
    BY <1>1, <1>4, <1>12, <2>1 DEF Tick, SavedIsOver, Working
<1>13. CASE Crash
  BY <1>1, <1>4, <1>13 DEF Crash, SavedIsOver, Working
<1>14. QED
  BY <1>5, <1>6, <1>7, <1>8, <1>9, <1>10, <1>11, <1>12, <1>13 DEF Next, Proceed

(***************************************************************************)
(* A saved file is replaced only by a request that reloads it next; one    *)
(* whose write is an error leaves no set that was saved.                   *)
(***************************************************************************)
LEMMA NextStale ==
    ASSUME TypeOK, WorkInv, SavedIsOver, StaleOnlyUntilReload, [Next]_vars
    PROVE  StaleOnlyUntilReload'
<1> USE FunctionTypes, SentinelsAssumption DEF StaleOnlyUntilReload
<1> saved \subseteq Creds
  BY BootstrapAssumption DEF TypeOK
<1>1. ASSUME file' = file, current' = current, saved' = saved,
             \A q \in Reqs : pc[q] \in {"complete", "reload"}
                              => pc'[q] \in {"complete", "reload"}
      PROVE  StaleOnlyUntilReload'
  BY <1>1
<1>2. ASSUME NEW s \in Sids,
             StartRemoteCallback(s) \/ Deadline(s) \/ ExpireSession(s) \/ Cancel(s)
             \/ StopContext(s) \/ GetStatus(s)
      PROVE  StaleOnlyUntilReload'
  BY <1>1, <1>2 DEF StartRemoteCallback, Deadline, ExpireSession, Cancel, StopContext,
     GetStatus
<1>3. ASSUME NEW q \in Reqs, NEW s \in Sids, Submit(q, s)
      PROVE  StaleOnlyUntilReload'
  BY <1>1, <1>3 DEF Submit, SubmitRefused, SubmitExpired, SubmitAccepted,
     SubmitAcceptedWhen, Reply, Goto
<1>4. ASSUME NEW q \in Reqs,
             \/ ParseCallback(q) \/ GenerateCosy(q) \/ DeriveRemotely(q)
             \/ FailSession(q) \/ CompleteSession(q) \/ Respond(q)
      PROVE  StaleOnlyUntilReload'
  BY <1>1, <1>4 DEF ParseCallback, GenerateCosy, DeriveRemotely, FailSession,
     CompleteSession, Respond, Reply, Goto
<1>5. ASSUME NEW q \in Reqs, OpenFile(q)
      PROVE  StaleOnlyUntilReload'
  BY <1>5 DEF OpenFile, TruncateFile, Goto
<1>6. ASSUME NEW q \in Reqs, SaveFile(q)
      PROVE  StaleOnlyUntilReload'
  <2>1. pc[q] = "write" /\ current' = current /\ target[q] \notin saved
    BY <1>6 DEF SaveFile, SavedIsOver, Working
  <2>2. CASE pc' = [pc EXCEPT ![q] = "complete"]
    BY <2>2
  <2>3. CASE pc' = [pc EXCEPT ![q] = "fail"] /\ saved' = saved /\ WriteFileFails(target[q])
    <3>1. file' \in {file, target[q], Garbled}
      BY <2>3 DEF WriteFileFails, WriteFile
    <3>2. Garbled \notin saved
      BY BootstrapAssumption DEF TypeOK
    <3>3. QED
      BY <2>1, <2>3, <3>1, <3>2
  <2>4. QED
    BY <1>6, <2>2, <2>3 DEF SaveFile, Goto
<1>7. ASSUME NEW q \in Reqs, ReloadCredentials(q)
      PROVE  StaleOnlyUntilReload'
  BY <1>7 DEF ReloadCredentials, Refresh
<1>8. CASE AdminRefresh \/ UseCredentials
  BY <1>8 DEF AdminRefresh, UseCredentials, Refresh, Current
<1>9. CASE Tick \/ UNCHANGED vars
  BY <1>1, <1>9 DEF Tick, vars
<1>10. CASE Crash
  BY <1>10 DEF Crash
<1>11. QED
  BY <1>2, <1>3, <1>4, <1>5, <1>6, <1>7, <1>8, <1>9, <1>10 DEF Next, Proceed

-----------------------------------------------------------------------------
(***************************************************************************)
(* A cancelled session on which nobody works stays out of the way.         *)
(***************************************************************************)
CancelHolds ==
    \A s \in Sids :
        status[s] = "cancelled" /\ (\A q \in Reqs : ~(Working(q) /\ target[q] = s))
        => status'[s] \in {"cancelled", "error", "absent"}

LEMMA NextCancelHolds ==
    ASSUME TypeOK, WorkInv, Next
    PROVE  CancelHolds
<1> USE FunctionTypes DEF InMap
<1> SUFFICES ASSUME NEW s \in Sids, status[s] = "cancelled",
                    \A q \in Reqs : ~(Working(q) /\ target[q] = s)
             PROVE  status'[s] \in {"cancelled", "error", "absent"}
  BY DEF CancelHolds
<1>1. ASSUME NEW t \in Sids,
             StartRemoteCallback(t) \/ Deadline(t) \/ ExpireSession(t) \/ Cancel(t)
             \/ StopContext(t) \/ GetStatus(t)
      PROVE  status'[s] \in {"cancelled", "error", "absent"}
  BY <1>1 DEF StartRemoteCallback, Deadline, ExpireSession, Cancel, StopContext, GetStatus,
     ReclaimIfOld, WorkInv, UnbornIsAbsent, Active
<1>2. ASSUME NEW q \in Reqs, NEW t \in Sids, Submit(q, t)
      PROVE  status'[s] \in {"cancelled", "error", "absent"}
  BY <1>2 DEF Submit, SubmitRefused, SubmitExpired, SubmitAccepted, SubmitAcceptedWhen
<1>3. ASSUME NEW q \in Reqs, Working(q), Proceed(q)
      PROVE  status'[s] = status[s]
  <2>1. target[q] # s
    BY <1>3
  <2>2. target[q] \in Sids
    BY <1>3 DEF WorkInv, TargetsBegan
  <2>3. QED
    BY <1>3, <2>1, <2>2 DEF Proceed, ParseCallback, GenerateCosy, DeriveRemotely, OpenFile,
       SaveFile, FailSession, CompleteSession, ReloadCredentials, Respond, UpdateSession,
       UpdateSessionWithPhase, Working
<1>4. ASSUME NEW q \in Reqs, ~Working(q), Proceed(q)
      PROVE  status'[s] \in {"cancelled", "absent"}
  <2>1. ReloadCredentials(q) \/ Respond(q)
    BY <1>4 DEF Proceed, ParseCallback, GenerateCosy, DeriveRemotely, OpenFile, SaveFile,
       FailSession, CompleteSession, Working
  <2>2. QED
    BY <2>1 DEF ReloadCredentials, Respond, ReclaimIfOld
<1>5. CASE AdminRefresh \/ UseCredentials \/ Tick \/ Crash
  BY <1>5 DEF AdminRefresh, UseCredentials, Tick, Crash
<1>6. QED
  BY <1>1, <1>2, <1>3, <1>4, <1>5 DEF Next

-----------------------------------------------------------------------------
IInv ==
    /\ TypeOK
    /\ WorkInv
    /\ DeadlineInv
    /\ OneAwaiting
    /\ SaveInv
    /\ SavedIsOver
    /\ StaleOnlyUntilReload

LEMMA InitIInv == Init => IInv
<1> SUFFICES ASSUME Init PROVE IInv
  OBVIOUS
<1>1. TypeOK /\ WorkInv
  BY InitInv
<1>2. DeadlineInv /\ OneAwaiting
  BY DEF Init, DeadlineInv, CancelingIsPast, AwaitingHasDeadline, OneAwaiting
<1>3. SaveInv /\ SavedIsOver /\ StaleOnlyUntilReload
  BY DEF Init, CredentialInit, SaveInv, CompletedWasSaved, CompletingWasSaved,
     IdleUnanswered, SavedIsOver, Working, StaleOnlyUntilReload
<1>4. QED
  BY <1>1, <1>2, <1>3 DEF IInv

LEMMA NextIInv == IInv /\ [Next]_vars => IInv'
<1> SUFFICES ASSUME IInv, [Next]_vars PROVE IInv'
  OBVIOUS
<1>1. TypeOK'
  BY NextType DEF IInv, WorkInv
<1>2. WorkInv' /\ DeadlineInv'
  BY NextWork, NextDeadline DEF IInv
<1>3. OneAwaiting' /\ SaveInv'
  BY NextAwaiting, NextSaved DEF IInv
<1>4. SavedIsOver' /\ StaleOnlyUntilReload'
  BY NextOver, NextStale DEF IInv
<1>5. QED
  BY <1>1, <1>2, <1>3, <1>4 DEF IInv

\* The inductive invariant holds in every behaviour; the theorems below rest on it.
LEMMA InvariantHolds == Spec => []IInv
  BY InitIInv, NextIInv, PTL DEF Spec

(***************************************************************************)
(* Every variable has its type, the session map and the requests included. *)
(***************************************************************************)
THEOREM TypeCorrect == Spec => []TypeOK
<1>1. IInv => TypeOK
  BY DEF IInv
<1>2. QED
  BY <1>1, InvariantHolds, PTL

(***************************************************************************)
(* The status is a lock: two submits never work on one login.              *)
(***************************************************************************)
THEOREM WorkersExcluded == Spec => []OneWorkerPerSession
<1>1. IInv => OneWorkerPerSession
  BY DEF IInv, WorkInv
<1>2. QED
  BY <1>1, InvariantHolds, PTL

(***************************************************************************)
(* A running login always has the request that will end it.                *)
(***************************************************************************)
THEOREM NoOrphanedRun == Spec => []RunningHasWorker
<1>1. IInv => RunningHasWorker
  BY DEF IInv, WorkInv
<1>2. QED
  BY <1>1, InvariantHolds, PTL

(***************************************************************************)
(* An awaiting login always has a deadline left.                           *)
(***************************************************************************)
THEOREM NoOrphanedWait == Spec => []AwaitingHasDeadline
<1>1. IInv => AwaitingHasDeadline
  BY DEF IInv, DeadlineInv
<1>2. QED
  BY <1>1, InvariantHolds, PTL

(***************************************************************************)
(* At most one login waits for its callback.                               *)
(***************************************************************************)
THEOREM AwaitingIsUnique == Spec => []OneAwaiting
<1>1. IInv => OneAwaiting
  BY DEF IInv
<1>2. QED
  BY <1>1, InvariantHolds, PTL

(***************************************************************************)
(* A login is reported complete only with its credentials written out.     *)
(***************************************************************************)
THEOREM CompletionIsHonest == Spec => []CompletedWasSaved
<1>1. IInv => CompletedWasSaved
  BY DEF IInv, SaveInv
<1>2. QED
  BY <1>1, InvariantHolds, PTL

(***************************************************************************)
(* The loaded snapshot lags behind a saved file only until the reload of   *)
(* the request that wrote it.                                              *)
(***************************************************************************)
THEOREM SnapshotFollowsFile == Spec => []StaleOnlyUntilReload
<1>1. IInv => StaleOnlyUntilReload
  BY DEF IInv
<1>2. QED
  BY <1>1, InvariantHolds, PTL

(***************************************************************************)
(* Without a request in flight a cancelled login is never revived.         *)
(***************************************************************************)
THEOREM CancelIsRespected == Spec => CancelHoldsWithoutWorker
<1>1. IInv /\ [Next]_vars => [CancelHolds]_vars
  BY NextCancelHolds DEF IInv
<1>2. Spec => [][CancelHolds]_vars
  BY <1>1, InvariantHolds, PTL DEF Spec
<1>3. QED
  BY <1>2, PTL DEF CancelHoldsWithoutWorker, CancelHolds

=============================================================================
