---------------------------- MODULE BootstrapManager ----------------------------
(***************************************************************************)
(* The admin API's login ("bootstrap") sessions: internal/api/             *)
(* bootstrap_manager.go and bootstrap_remote_callback.go, composed with    *)
(* the credential file and its in-memory snapshot (CredentialManager).     *)
(*                                                                         *)
(* An administrator starts a session, logs in with a browser and submits   *)
(* the callback URL.  Each HTTP request runs in its own goroutine; the     *)
(* manager's mutex is held for single lookups and updates of the session   *)
(* map, never across parsing, key generation, the remote call or the save. *)
(* Every action below is one critical section, or one step of a request    *)
(* outside the mutex.                                                      *)
(***************************************************************************)
EXTENDS Naturals, CredentialManager

CONSTANTS
    Sids,        \* ids of the login sessions; a session's credentials are named by its id
    Reqs,        \* the POST .../submit requests of a behaviour
    NoSid,       \* target of a request that has not begun
    Timeout,     \* remoteCallbackTimeout, in clock units (5 min)
    Retention,   \* how long GetStatus keeps a session, from its start (10 min)
    MaxTime,     \* bound on the clock
    MaxCrashes   \* bound on process crashes

ASSUME BootstrapAssumption ==
    /\ Sids \subseteq Creds
    /\ Timeout \in Nat
    /\ Retention \in Nat
    /\ MaxTime \in Nat
    /\ MaxCrashes \in Nat
    /\ NoSid \notin Sids

VARIABLES
    now,         \* the clock
    status,      \* status[s]: Status of sessions[s], "absent" if not in the map
    phase,       \* phase[s]: Phase of sessions[s]
    start,       \* start[s]: StartedAt; ExpiresAt is start[s] + Timeout
    timer,       \* timer[s]: the deadline context and the goroutine behind it
    canceling,   \* sessions whose Cancel has yet to call the context's cancel
    pc,          \* pc[q]: where submit request q is
    target,      \* target[q]: the session q works on
    answer,      \* answer[q]: what q's response says
    saved,       \* sessions whose SaveCredentialFile returned no error (history)
    crashes      \* how often the process died

sessionVars == <<status, phase, start, timer, canceling>>
requestVars == <<pc, target, answer>>
vars == <<now, sessionVars, requestVars, saved, crashes, credentialVars>>

Statuses == {"absent", "awaiting_callback_url", "running", "completed",
             "error", "cancelled"}
Phases == {"", "parsing_callback", "generating_cosy", "deriving_remote", "saving"}
Timers == {"unborn", "armed", "fired", "stopped"}
Points == {"idle", "parse", "cosy", "derive", "open", "write", "fail",
           "complete", "reload", "respond", "done"}
Answers == Statuses \cup {"none", "not_found", "expired", "conflict", "lost"}

TypeOK ==
    /\ CredentialTypeOK
    /\ now \in Nat
    /\ status \in [Sids -> Statuses]
    /\ phase \in [Sids -> Phases]
    /\ start \in [Sids -> Nat]
    /\ timer \in [Sids -> Timers]
    /\ canceling \subseteq Sids
    /\ pc \in [Reqs -> Points]
    /\ target \in [Reqs -> Sids \cup {NoSid}]
    /\ answer \in [Reqs -> Answers]
    /\ saved \subseteq Sids
    /\ crashes \in Nat

Init ==
    /\ CredentialInit
    /\ file \notin Sids
    /\ now = 0
    /\ status = [s \in Sids |-> "absent"]
    /\ phase = [s \in Sids |-> ""]
    /\ start = [s \in Sids |-> 0]
    /\ timer = [s \in Sids |-> "unborn"]
    /\ canceling = {}
    /\ pc = [q \in Reqs |-> "idle"]
    /\ target = [q \in Reqs |-> NoSid]
    /\ answer = [q \in Reqs |-> "none"]
    /\ saved = {}
    /\ crashes = 0

Active(s) == status[s] \in {"running", "awaiting_callback_url"}
Expired(s) == now > start[s] + Timeout
Old(s) == now > start[s] + Retention

\* Requests between taking a session to "running" and its last status update.
Working(q) == pc[q] \in {"parse", "cosy", "derive", "open", "write", "fail", "complete"}

(***************************************************************************)
(* updateSession and updateSessionWithPhase: unconditional, unless the id  *)
(* has left the map.                                                       *)
(***************************************************************************)
InMap(s) == status[s] # "absent"

UpdateSessionIntoPhase(s, st) == \* mutant: the status lands in the phase
    /\ phase' = IF InMap(s) THEN [phase EXCEPT ![s] = st] ELSE phase
    /\ UNCHANGED status

UpdateSession(s, st) ==
    /\ status' = IF InMap(s) THEN [status EXCEPT ![s] = st] ELSE status
    /\ UNCHANGED phase

UpdateSessionWithPhase(s, st, ph) ==
    /\ status' = IF InMap(s) THEN [status EXCEPT ![s] = st] ELSE status
    /\ phase' = IF InMap(s) THEN [phase EXCEPT ![s] = ph] ELSE phase

Goto(q, l) == pc' = [pc EXCEPT ![q] = l]

Reply(q, a) ==
    /\ Goto(q, "done")
    /\ answer' = [answer EXCEPT ![q] = a]

-----------------------------------------------------------------------------
StartWithoutCheck(s) == \* mutant: no findActiveLocked
    /\ timer[s] = "unborn"
    /\ now + Timeout <= MaxTime
    /\ status' = [status EXCEPT ![s] = "awaiting_callback_url"]
    /\ start' = [start EXCEPT ![s] = now]
    /\ timer' = [timer EXCEPT ![s] = "armed"]
    /\ UNCHANGED <<now, phase, canceling, requestVars, saved, crashes, credentialVars>>

(***************************************************************************)
(* StartRemoteCallback, with a fresh random id.                            *)
(***************************************************************************)
StartRemoteCallback(s) ==
    /\ timer[s] = "unborn"
    /\ now + Timeout <= MaxTime     \* bound: the deadline lies within the clock
    /\ \A t \in Sids : ~Active(t)
    /\ status' = [status EXCEPT ![s] = "awaiting_callback_url"]
    /\ start' = [start EXCEPT ![s] = now]
    /\ timer' = [timer EXCEPT ![s] = "armed"]
    /\ UNCHANGED <<now, phase, canceling, requestVars, saved, crashes, credentialVars>>

\* The deadline of the session's context passes.
Deadline(s) ==
    /\ timer[s] = "armed"
    /\ now >= start[s] + Timeout
    /\ timer' = [timer EXCEPT ![s] = "fired"]
    /\ UNCHANGED <<now, status, phase, start, canceling, requestVars, saved, crashes,
                   credentialVars>>

ExpireOnlyRunning(s) == \* mutant: the goroutine looks for the wrong status
    /\ timer[s] = "fired"
    /\ timer' = [timer EXCEPT ![s] = "stopped"]
    /\ status' = IF status[s] = "running" THEN [status EXCEPT ![s] = "error"] ELSE status
    /\ UNCHANGED <<now, phase, start, canceling, requestVars, saved, crashes, credentialVars>>

\* The goroutine of StartRemoteCallback, woken by the deadline, gets the lock.
ExpireSession(s) ==
    /\ timer[s] = "fired"
    /\ timer' = [timer EXCEPT ![s] = "stopped"]
    /\ IF status[s] = "awaiting_callback_url"
       THEN /\ status' = [status EXCEPT ![s] = "error"]
            /\ phase' = [phase EXCEPT ![s] = ""]
       ELSE UNCHANGED <<status, phase>>
    /\ UNCHANGED <<now, start, canceling, requestVars, saved, crashes, credentialVars>>

CancelContextOnly(s) == \* mutant: the context is cancelled, the status is not set
    /\ Active(s)
    /\ canceling' = canceling \cup {s}
    /\ UNCHANGED <<now, status, phase, start, timer, requestVars, saved, crashes,
                   credentialVars>>

\* Cancel, its critical section; other statuses are refused without effect.
Cancel(s) ==
    /\ Active(s)
    /\ status' = [status EXCEPT ![s] = "cancelled"]
    /\ phase' = [phase EXCEPT ![s] = ""]
    /\ canceling' = canceling \cup {s}
    /\ UNCHANGED <<now, start, timer, requestVars, saved, crashes, credentialVars>>

\* Cancel, after the lock: the context ends, unless its deadline came first.
StopContext(s) ==
    /\ s \in canceling
    /\ canceling' = canceling \ {s}
    /\ timer' = IF timer[s] = "armed" THEN [timer EXCEPT ![s] = "stopped"] ELSE timer
    /\ UNCHANGED <<now, status, phase, start, requestVars, saved, crashes, credentialVars>>

\* The map without session s, if GetStatus finds it too old.
ReclaimIfOld(s) ==
    LET old == InMap(s) /\ Old(s)
    IN  /\ status' = IF old THEN [status EXCEPT ![s] = "absent"] ELSE status
        /\ phase' = IF old THEN [phase EXCEPT ![s] = ""] ELSE phase
        /\ start' = IF old THEN [start EXCEPT ![s] = 0] ELSE start

\* GetStatus, asked by the console that polls the session.
GetStatus(s) ==
    /\ InMap(s)
    /\ ReclaimIfOld(s)
    /\ UNCHANGED <<now, timer, canceling, requestVars, saved, crashes, credentialVars>>

-----------------------------------------------------------------------------
(***************************************************************************)
(* SubmitCallbackURL, first critical section.  (A malformed URL, or one of *)
(* another host, is refused before it and touches nothing.)  The expiry    *)
(* check comes before every check of the status.                           *)
(***************************************************************************)
SubmitRefused(q, s) ==
    /\ \/ /\ ~InMap(s)
          /\ Reply(q, "not_found")
       \/ /\ status[s] \in {"cancelled", "completed", "running"}
          /\ ~Expired(s)
          /\ Reply(q, "conflict")
    /\ UNCHANGED <<status, phase>>

SubmitExpired(q, s) ==
    /\ InMap(s)
    /\ Expired(s)
    /\ status' = [status EXCEPT ![s] = "error"]
    /\ phase' = [phase EXCEPT ![s] = ""]
    /\ Reply(q, "expired")

SubmitAcceptedWhen(q, s, accepted) ==
    /\ status[s] \in accepted
    /\ ~Expired(s)
    /\ status' = [status EXCEPT ![s] = "running"]
    /\ phase' = [phase EXCEPT ![s] = "parsing_callback"]
    /\ Goto(q, "parse")
    /\ UNCHANGED answer

SubmitAcceptedRunning(q, s) == \* mutant: a running session may be submitted again
    SubmitAcceptedWhen(q, s, {"awaiting_callback_url", "error", "running"})

SubmitAcceptedCancelled(q, s) == \* mutant: no check for a cancelled session
    SubmitAcceptedWhen(q, s, {"awaiting_callback_url", "error", "cancelled"})

SubmitAccepted(q, s) == SubmitAcceptedWhen(q, s, {"awaiting_callback_url", "error"})

Submit(q, s) ==
    /\ pc[q] = "idle"
    /\ SubmitRefused(q, s) \/ SubmitExpired(q, s) \/ SubmitAccepted(q, s)
    /\ target' = [target EXCEPT ![q] = s]
    /\ UNCHANGED <<now, start, timer, canceling, saved, crashes, credentialVars>>

\* The callback has no usable identity or token, or it has: then the phase moves on.
ParseCallback(q) ==
    /\ pc[q] = "parse"
    /\ \/ Goto(q, "fail") /\ UNCHANGED <<status, phase>>
       \/ /\ Goto(q, "cosy")
          /\ UpdateSessionWithPhase(target[q], "running", "generating_cosy")
    /\ UNCHANGED <<now, start, timer, canceling, target, answer, saved, crashes, credentialVars>>

\* Local key generation; where it fails the remote login is asked.
GenerateCosy(q) ==
    /\ pc[q] = "cosy"
    /\ \/ /\ Goto(q, "open")
          /\ UpdateSessionWithPhase(target[q], "running", "saving")
       \/ /\ Goto(q, "derive")
          /\ UpdateSessionWithPhase(target[q], "running", "deriving_remote")
    /\ UNCHANGED <<now, start, timer, canceling, target, answer, saved, crashes, credentialVars>>

DeriveAgain(q) == \* mutant: a failed remote login starts over
    /\ pc[q] = "derive"
    /\ \/ Goto(q, "cosy") /\ UNCHANGED <<status, phase>>
       \/ /\ Goto(q, "open")
          /\ UpdateSessionWithPhase(target[q], "running", "saving")
    /\ UNCHANGED <<now, start, timer, canceling, target, answer, saved, crashes, credentialVars>>

\* DeriveCredentialsRemotely: some strategy answers with keys, or all fail.
DeriveRemotely(q) ==
    /\ pc[q] = "derive"
    /\ \/ Goto(q, "fail") /\ UNCHANGED <<status, phase>>
       \/ /\ Goto(q, "open")
          /\ UpdateSessionWithPhase(target[q], "running", "saving")
    /\ UNCHANGED <<now, start, timer, canceling, target, answer, saved, crashes, credentialVars>>

\* SaveCredentialFile up to the truncating open, which may fail.
OpenFile(q) ==
    /\ pc[q] = "open"
    /\ \/ Goto(q, "fail") /\ UNCHANGED file
       \/ Goto(q, "write") /\ TruncateFile
    /\ UNCHANGED <<now, sessionVars, target, answer, saved, crashes, current>>

SaveFileUnchecked(q) == \* mutant: the error of the write is ignored
    /\ pc[q] = "write"
    /\ Goto(q, "complete")
    /\ \/ WriteFile(target[q]) /\ saved' = saved \cup {target[q]}
       \/ WriteFileFails(target[q]) /\ UNCHANGED saved
    /\ UNCHANGED <<now, sessionVars, target, answer, crashes, current>>

\* The write of SaveCredentialFile.
SaveFile(q) ==
    /\ pc[q] = "write"
    /\ \/ /\ Goto(q, "complete")
          /\ WriteFile(target[q])
          /\ saved' = saved \cup {target[q]}
       \/ /\ Goto(q, "fail")
          /\ WriteFileFails(target[q])
          /\ UNCHANGED saved
    /\ UNCHANGED <<now, sessionVars, target, answer, crashes, current>>

FailSilently(q) == \* mutant: an error path without updateSession
    /\ pc[q] = "fail"
    /\ Goto(q, "respond")
    /\ UNCHANGED <<now, sessionVars, target, answer, saved, crashes, credentialVars>>

\* Every failed step ends in updateSession(id, "error", ...).
FailSession(q) ==
    /\ pc[q] = "fail"
    /\ UpdateSession(target[q], "error")
    /\ Goto(q, "respond")
    /\ UNCHANGED <<now, start, timer, canceling, target, answer, saved, crashes, credentialVars>>

CompleteWithoutReload(q) == \* mutant: OnCredentialSaved is not called
    /\ pc[q] = "complete"
    /\ UpdateSession(target[q], "completed")
    /\ Goto(q, "respond")
    /\ UNCHANGED <<now, start, timer, canceling, target, answer, saved, crashes, credentialVars>>

\* logAndReload: the session is completed first, then the snapshot is reloaded.
CompleteSession(q) ==
    /\ pc[q] = "complete"
    /\ UpdateSession(target[q], "completed")
    /\ Goto(q, "reload")
    /\ UNCHANGED <<now, start, timer, canceling, target, answer, saved, crashes, credentialVars>>

ReloadCredentials(q) ==
    /\ pc[q] = "reload"
    /\ Refresh
    /\ Goto(q, "respond")
    /\ UNCHANGED <<now, sessionVars, target, answer, saved, crashes, file>>

\* return m.GetStatus(id): the answer is the session as it is by now.
Respond(q) ==
    /\ pc[q] = "respond"
    /\ Reply(q, status[target[q]])
    /\ ReclaimIfOld(target[q])
    /\ UNCHANGED <<now, timer, canceling, target, saved, crashes, credentialVars>>

-----------------------------------------------------------------------------
\* POST /admin/account/refresh.
AdminRefresh ==
    /\ Refresh
    /\ UNCHANGED <<now, sessionVars, requestVars, saved, crashes, file>>

\* Any handler that needs the credentials: chat, account page, account test.
UseCredentials ==
    /\ Current
    /\ UNCHANGED <<now, sessionVars, requestVars, saved, crashes, file>>

Tick ==
    /\ now < MaxTime
    /\ now' = now + 1
    /\ UNCHANGED <<sessionVars, requestVars, saved, crashes, credentialVars>>

(***************************************************************************)
(* The process dies and is started again: sessions, timers and the         *)
(* snapshot are memory, the credential file is what was on disk.           *)
(***************************************************************************)
Crash ==
    /\ crashes < MaxCrashes
    /\ crashes' = crashes + 1
    /\ status' = [s \in Sids |-> "absent"]
    /\ phase' = [s \in Sids |-> ""]
    /\ start' = [s \in Sids |-> 0]
    /\ timer' = [s \in Sids |-> IF timer[s] = "unborn" THEN "unborn" ELSE "stopped"]
    /\ canceling' = {}
    /\ pc' = [q \in Reqs |-> IF pc[q] = "idle" THEN "idle" ELSE "done"]
    /\ answer' = [q \in Reqs |-> IF pc[q] \in {"idle", "done"} THEN answer[q] ELSE "lost"]
    /\ current' = NoCred
    /\ UNCHANGED <<now, target, saved, file>>

\* The steps a submit request takes once it was accepted.
Proceed(q) ==
    \/ ParseCallback(q)
    \/ GenerateCosy(q)
    \/ DeriveRemotely(q)
    \/ OpenFile(q)
    \/ SaveFile(q)
    \/ FailSession(q)
    \/ CompleteSession(q)
    \/ ReloadCredentials(q)
    \/ Respond(q)

Next ==
    \/ \E s \in Sids :
        \/ StartRemoteCallback(s)
        \/ Deadline(s)
        \/ ExpireSession(s)
        \/ Cancel(s)
        \/ StopContext(s)
        \/ GetStatus(s)
    \/ \E q \in Reqs :
        \/ \E s \in Sids : Submit(q, s)
        \/ Proceed(q)
    \/ AdminRefresh
    \/ UseCredentials
    \/ Tick
    \/ Crash

Spec == Init /\ [][Next]_vars

(***************************************************************************)
(* What the runtime guarantees: the clock runs, timers fire, a goroutine   *)
(* that can run does (the remote call has a 30 s client timeout).  The     *)
(* administrator, the chat clients and crashes are under no obligation.    *)
(***************************************************************************)
Fairness ==
    /\ WF_vars(Tick)
    /\ \A s \in Sids : /\ WF_vars(Deadline(s))
                       /\ WF_vars(ExpireSession(s))
                       /\ WF_vars(StopContext(s))
    /\ \A q \in Reqs : WF_vars(Proceed(q))

FairSpec == Spec /\ Fairness

-----------------------------------------------------------------------------
(***************************************************************************)
(* One worker per session.  The status alone keeps two submits of the same *)
(* callback from generating keys and writing the credential file side by   *)
(* side, although the mutex is released for all of that work, a running    *)
(* session can be cancelled or expired under its worker, and the worker    *)
(* then puts "running" back.                                               *)
(***************************************************************************)
OneWorkerPerSession ==
    \A p, q \in Reqs :
        Working(p) /\ Working(q) /\ target[p] = target[q] => p = q

(***************************************************************************)
(* A running session has its request: nothing else ends "running", and     *)
(* findActiveLocked refuses every new login while a session runs.          *)
(***************************************************************************)
RunningHasWorker ==
    \A s \in Sids :
        status[s] = "running" => \E q \in Reqs : Working(q) /\ target[q] = s

(***************************************************************************)
(* A session that waits for its callback has a deadline left to end it:    *)
(* the cancel call of an earlier Cancel never takes it away.               *)
(***************************************************************************)
AwaitingHasDeadline ==
    \A s \in Sids :
        status[s] = "awaiting_callback_url" => timer[s] \in {"armed", "fired"}

(***************************************************************************)
(* Only one session at a time waits for its callback.                      *)
(***************************************************************************)
OneAwaiting ==
    \A s, t \in Sids :
        status[s] = "awaiting_callback_url" /\ status[t] = "awaiting_callback_url"
        => s = t

(***************************************************************************)
(* "completed" is never shown, nor answered to a submit, for a login whose *)
(* credentials were not written out.                                       *)
(***************************************************************************)
CompletedWasSaved ==
    /\ \A s \in Sids : status[s] = "completed" => s \in saved
    /\ \A q \in Reqs : answer[q] = "completed" => target[q] \in saved

(***************************************************************************)
(* The snapshot follows the file.  When a credential set is on disk that a *)
(* login reported as saved, and another one is loaded, a request is about  *)
(* to reload it: with no login in flight the proxy never goes on using     *)
(* replaced credentials.  A set that is on disk although its writing was   *)
(* an error is left out: its login failed, and nothing reloads it.         *)
(***************************************************************************)
StaleOnlyUntilReload ==
    file \in saved /\ current \notin {NoCred, file}
    => \E q \in Reqs : pc[q] \in {"complete", "reload"}

(***************************************************************************)
(* Cancel works when no request is in flight: a cancelled session without  *)
(* a worker never becomes active or completed again.                       *)
(***************************************************************************)
CancelHoldsWithoutWorker ==
    [][\A s \in Sids :
         status[s] = "cancelled" /\ (\A q \in Reqs : ~(Working(q) /\ target[q] = s))
         => status'[s] \in {"cancelled", "error", "absent"}]_vars

(***************************************************************************)
(* The login slot is freed: whatever the administrator does or fails to do,*)
(* an active session stops being active (findActiveLocked lets the next    *)
(* login start).                                                           *)
(***************************************************************************)
SlotIsFreed == \A s \in Sids : Active(s) ~> ~Active(s)

(***************************************************************************)
(* Every submit is answered.                                               *)
(***************************************************************************)
SubmitIsAnswered == \A q \in Reqs : pc[q] # "idle" ~> pc[q] = "done"

-----------------------------------------------------------------------------
(***************************************************************************)
(* What the design document says and the code does not keep.               *)
(***************************************************************************)

\* "only one running/awaiting_callback/deriving session at the same time"
AtMostOneActive ==
    \A s, t \in Sids : Active(s) /\ Active(t) => s = t

\* The state machine of the document has no arrow out of "cancelled".
CancelledIsFinal ==
    [][\A s \in Sids :
         status[s] = "cancelled" => status'[s] \in {"cancelled", "absent"}]_vars

=============================================================================
