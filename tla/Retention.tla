------------------------------- MODULE Retention -------------------------------
(***************************************************************************)
(* The settings (internal/db/settings.go, handlers in internal/api/        *)
(* admin_handlers.go) and what they govern: how long execution records and *)
(* request logs are kept, and the timeout of the upstream transport, both  *)
(* set by a loop in main.go that reads the settings every ten minutes.     *)
(*                                                                         *)
(* Each SQL statement is a step.  Rows are known by the day they were made *)
(* on; nothing writes request_logs any more, its rows are of earlier       *)
(* versions.  The module is a component of Administration.                 *)
(***************************************************************************)
EXTENDS Integers, FiniteSets, Functions

CONSTANTS
    Admins,       \* requests that update settings
    Updates,      \* Updates[a]: what a asks for, a function from keys to values
    Defaults,     \* defaultSettings: its keys are the known ones
    Number,       \* the integers that values stand for, where they do
    DefaultDays,  \* retention where the settings do not say
    MaxDay,       \* bound on the calendar
    MaxRestarts   \* bound on the restarts

ASSUME RetentionAssumption ==
    /\ {"retention_days", "request_timeout"} \subseteq DOMAIN Defaults
    /\ \A v \in DOMAIN Number : Number[v] \in Int
    /\ "absent" \notin DOMAIN Number
    /\ {DefaultDays, MaxDay, MaxRestarts} \subseteq Nat

Cleaners == {"loop", "admin"}

VARIABLES
    settings,   \* what GetSettings returns: the table over the defaults
    asked,      \* asked[a]: keys and values that a's request still has to write
    reply,      \* reply[a]: what a was answered
    rows,       \* days on which a row of canonical_execution_records was made
    logs,       \* the same of request_logs
    today,
    stage,      \* stage[c]: where the cleanup of the loop, or of the console, is
    days,       \* days[c]: the retention that it read, if it is at work
    timeout,    \* the timeout of the transport
    restarts,
    granted,    \* granted[a]: what a asked for and nobody wrote over (history)
    whole,      \* whole[c]: did c, at work, read all the settings? (history)
    inEffect    \* inEffect[c]: the retentions set when c read, or since (history)

settingVars == <<settings, asked, reply, granted>>
cleanupVars == <<stage, days, whole, inEffect>>
retentionVars == <<settingVars, cleanupVars, timeout, rows, logs, today, restarts>>

Nobody == [k \in {} |-> ""]

\* strconv.Atoi(settings["retention_days"]), or the default.
DaysOf(s) ==
    IF s["retention_days"] \in DOMAIN Number THEN Number[s["retention_days"]] ELSE DefaultDays

TimeoutOf(s, otherwise) ==
    IF s["request_timeout"] \in DOMAIN Number /\ Number[s["request_timeout"]] > 0
    THEN Number[s["request_timeout"]]
    ELSE otherwise

(***************************************************************************)
(* What GetSettings may return: no map, if the query fails; or a map that  *)
(* has the rows up to the one where reading stopped, over the defaults.    *)
(* No row has the value "absent".                                          *)
(***************************************************************************)
NoMap == [k \in DOMAIN Defaults |-> "absent"]

RowsOver(K) == [k \in DOMAIN Defaults |-> IF k \in K THEN settings[k] ELSE Defaults[k]]

Readings == {NoMap} \cup {RowsOver(K) : K \in SUBSET DOMAIN Defaults}

RetentionTypeOK ==
    /\ DOMAIN settings = DOMAIN Defaults
    /\ \A a \in Admins : reply[a] = "waits" \/ asked[a] = Nobody
    /\ reply \in [Admins -> {"none", "waits", "ok", "error", "lost"}]
    /\ rows \subseteq 0..today
    /\ logs \subseteq 0..today
    /\ stage \in [Cleaners -> {"idle", "logs", "records"}]
    /\ stage["admin"] # "records"
    /\ days \in [Cleaners -> Int]
    /\ timeout > 0

RetentionInit ==
    /\ settings = Defaults
    /\ asked = [a \in Admins |-> Nobody]
    /\ reply = [a \in Admins |-> "none"]
    /\ rows = {0}
    /\ logs = {0}
    /\ today = 0
    /\ stage = [c \in Cleaners |-> "idle"]
    /\ days = [c \in Cleaners |-> DefaultDays]
    /\ timeout = TimeoutOf(Defaults, 1)
    /\ restarts = 0
    /\ granted = [a \in Admins |-> Nobody]
    /\ whole = [c \in Cleaners |-> TRUE]
    /\ inEffect = [c \in Cleaners |-> {}]

-----------------------------------------------------------------------------
\* PUT /admin/settings, once for each a.
BeginUpdate(a) ==
    /\ reply[a] = "none"
    /\ reply' = [reply EXCEPT ![a] = "waits"]
    /\ asked' = [asked EXCEPT ![a] = Updates[a]]
    /\ granted' = [granted EXCEPT ![a] = Updates[a]]
    /\ UNCHANGED <<settings, cleanupVars, timeout, rows, logs, today, restarts>>

Without(f, k) == Restrict(f, DOMAIN f \ {k})

Reply(a, r) ==
    /\ reply' = [reply EXCEPT ![a] = r]
    /\ asked' = [asked EXCEPT ![a] = Nobody]

\* The statement for key k of a's request.
Write(a, k) ==
    /\ settings' = [settings EXCEPT ![k] = asked[a][k]]
    /\ granted' = [b \in Admins |-> IF b = a THEN granted[b] ELSE Without(granted[b], k)]
    /\ inEffect' = [c \in Cleaners |->
                      IF stage[c] = "idle" THEN {} ELSE inEffect[c] \cup {DaysOf(settings')}]

UpdatePastErrors(a) == \* mutant: a failed statement does not end the update
    /\ reply[a] = "waits"
    /\ \/ asked[a] = Nobody /\ Reply(a, "ok") /\ UNCHANGED <<settings, granted, inEffect>>
       \/ \E k \in DOMAIN asked[a] :
            /\ asked' = [asked EXCEPT ![a] = Without(@, k)]
            /\ \/ k \in DOMAIN Defaults /\ Write(a, k)
               \/ UNCHANGED <<settings, granted, inEffect>>
            /\ UNCHANGED reply
    /\ UNCHANGED <<stage, days, whole, timeout, rows, logs, today, restarts>>

(***************************************************************************)
(* UpdateSettings: the keys in the order of a Go map, one statement each.  *)
(* The first key that is unknown, or whose statement fails, ends it; what  *)
(* was written stays.                                                      *)
(***************************************************************************)
UpdateSettings(a) ==
    /\ reply[a] = "waits"
    /\ \/ asked[a] = Nobody /\ Reply(a, "ok") /\ UNCHANGED <<settings, granted, inEffect>>
       \/ \E k \in DOMAIN asked[a] :
            \/ /\ k \in DOMAIN Defaults
               /\ Write(a, k)
               /\ asked' = [asked EXCEPT ![a] = Without(@, k)]
               /\ UNCHANGED reply
            \/ /\ Reply(a, "error")
               /\ granted' = [granted EXCEPT ![a] = Nobody]
               /\ UNCHANGED <<settings, inEffect>>
    /\ UNCHANGED <<stage, days, whole, timeout, rows, logs, today, restarts>>

-----------------------------------------------------------------------------
EndCleanup(c) ==
    /\ stage' = [stage EXCEPT ![c] = "idle"]
    /\ days' = [days EXCEPT ![c] = DefaultDays]
    /\ whole' = [whole EXCEPT ![c] = TRUE]
    /\ inEffect' = [inEffect EXCEPT ![c] = {}]

\* A cleanup begins, having read the map s.
BeginCleanup(c, s) ==
    /\ stage[c] = "idle"
    /\ stage' = [stage EXCEPT ![c] = "logs"]
    /\ whole' = [whole EXCEPT ![c] = (s = settings)]
    /\ inEffect' = [inEffect EXCEPT ![c] = {DaysOf(settings)}]
    /\ UNCHANGED <<settingVars, rows, logs, today, restarts>>

ReadPositive(c) == \* mutant: a retention of 0 is none, as a timeout of 0 is
    \E s \in Readings :
        /\ BeginCleanup(c, s)
        /\ days' = [days EXCEPT ![c] = IF DaysOf(s) > 0 THEN DaysOf(s) ELSE DefaultDays]
        /\ timeout' = IF c = "loop" THEN TimeoutOf(s, timeout) ELSE timeout

ReadTimeoutOnly(c) == \* mutant: the retention is the default, whatever the settings say
    \E s \in Readings :
        /\ BeginCleanup(c, s)
        /\ UNCHANGED days
        /\ timeout' = IF c = "loop" THEN TimeoutOf(s, timeout) ELSE timeout

(***************************************************************************)
(* A tick of the loop, or POST /admin/logs/cleanup, reads the settings.    *)
(* An error of the reading is dropped: without a map the retention is the  *)
(* default one and the timeout stays; what a map holds is used.  The loop  *)
(* also sets the timeout.                                                  *)
(***************************************************************************)
ReadSettings(c) ==
    \E s \in Readings :
        /\ BeginCleanup(c, s)
        /\ days' = [days EXCEPT ![c] = DaysOf(s)]
        /\ timeout' = IF c = "loop" THEN TimeoutOf(s, timeout) ELSE timeout

\* Rows that a cleanup with retention d deletes; none if d is not positive.
OlderThan(table, d) == {day \in table : d > 0 /\ day + d < today}

\* CleanupExpiredLogs: a failure is logged, or answered.
CleanupLogs(c) ==
    /\ stage[c] = "logs"
    /\ logs' \in {logs, logs \ OlderThan(logs, days[c])}
    /\ IF c = "loop"
       THEN stage' = [stage EXCEPT ![c] = "records"] /\ UNCHANGED <<days, whole, inEffect>>
       ELSE EndCleanup(c)
    /\ UNCHANGED <<settingVars, timeout, rows, today, restarts>>

CleanupOrGiveUp == \* mutant: a failed cleanup ends the loop
    /\ stage["loop"] = "records"
    /\ \/ /\ rows' = rows \ OlderThan(rows, days["loop"])
          /\ EndCleanup("loop")
       \/ /\ stage' = [stage EXCEPT !["loop"] = "stopped"]
          /\ UNCHANGED <<rows, days, whole, inEffect>>
    /\ UNCHANGED <<settingVars, timeout, logs, today, restarts>>

\* CleanupExpiredCanonicalRecords, only by the loop.
CleanupRecords ==
    /\ stage["loop"] = "records"
    /\ rows' \in {rows, rows \ OlderThan(rows, days["loop"])}
    /\ EndCleanup("loop")
    /\ UNCHANGED <<settingVars, timeout, logs, today, restarts>>

\* A chat request is recorded.
InsertRecord ==
    /\ rows' = rows \cup {today}
    /\ UNCHANGED <<settingVars, cleanupVars, timeout, logs, today, restarts>>

NextDay ==
    /\ today < MaxDay
    /\ today' = today + 1
    /\ UNCHANGED <<settingVars, cleanupVars, timeout, rows, logs, restarts>>

\* The process ends, anywhere, and is started again; what is in the database stays.
Restart ==
    /\ restarts < MaxRestarts
    /\ restarts' = restarts + 1
    /\ asked' = [a \in Admins |-> Nobody]
    /\ reply' = [a \in Admins |-> IF reply[a] = "waits" THEN "lost" ELSE reply[a]]
    /\ granted' = [a \in Admins |-> IF reply[a] = "waits" THEN Nobody ELSE granted[a]]
    /\ stage' = [c \in Cleaners |-> "idle"]
    /\ days' = [c \in Cleaners |-> DefaultDays]
    /\ whole' = [c \in Cleaners |-> TRUE]
    /\ inEffect' = [c \in Cleaners |-> {}]
    /\ timeout' = TimeoutOf(Defaults, 1)
    /\ UNCHANGED <<settings, rows, logs, today>>

RetentionNext ==
    \/ \E a \in Admins : BeginUpdate(a) \/ UpdateSettings(a)
    \/ \E c \in Cleaners : ReadSettings(c) \/ CleanupLogs(c)
    \/ CleanupRecords
    \/ InsertRecord
    \/ NextDay
    \/ Restart

\* A tick with a database that answers: all the settings are read, the records deleted.
ReadsSettings == ReadSettings("loop") /\ whole'["loop"]

CleansRecords ==
    /\ CleanupRecords
    /\ whole["loop"]
    /\ rows' = rows \ OlderThan(rows, days["loop"])

(***************************************************************************)
(* The loop goes on, with or without errors, and what makes the database   *)
(* fail passes: not every tick has a reading that fails, and of the ticks  *)
(* that read well not every one has a cleaning that fails.  The requests   *)
(* of administrators come to their end.                                    *)
(***************************************************************************)
RetentionFairness ==
    /\ WF_retentionVars(ReadSettings("loop"))
    /\ WF_retentionVars(CleanupLogs("loop"))
    /\ WF_retentionVars(CleanupRecords)
    /\ SF_retentionVars(ReadsSettings)
    /\ SF_retentionVars(CleansRecords)
    /\ \A a \in Admins : WF_retentionVars(UpdateSettings(a))

-----------------------------------------------------------------------------
(***************************************************************************)
(* What a request for new settings was answered "ok" holds, key by key,    *)
(* until another request writes the key, whichever writes first: also if   *)
(* two of them write their keys in turns, if statements fail, and after a  *)
(* restart.                                                                *)
(***************************************************************************)
AcknowledgedSettingsHold ==
    \A a \in Admins : reply[a] = "ok" =>
        \A k \in DOMAIN granted[a] :
            k \in DOMAIN settings /\ settings[k] = granted[a][k]

\* A retention of 0 or less deletes nothing.
Past(day, d) == d > 0 /\ day + d < today

\* What a cleanup that could not read all the settings goes by.
Fallback(c) == IF whole[c] THEN {} ELSE {DefaultDays, DaysOf(Defaults)}

Allowed(c, day) == \E d \in inEffect[c] \cup Fallback(c) : Past(day, d)

(***************************************************************************)
(* A cleanup that read all the settings deletes no record and no log that  *)
(* is not past a retention set when it read them, or since: none if all of *)
(* these are 0 or less, whatever the default is.  One that could not read  *)
(* them may also go by the default retention, be it shorter than the one   *)
(* that is set, or that one off: main.go drops the error.                  *)
(***************************************************************************)
CleanupKeepsRetained ==
    [][/\ \A day \in rows \ rows' : Allowed("loop", day)
       /\ \A day \in logs \ logs' : \E c \in Cleaners : Allowed(c, day)]_retentionVars

Expired == {day \in rows : Past(day, DaysOf(settings))}

(***************************************************************************)
(* The settings take effect without a restart, however often the database  *)
(* fails in between: the records past the retention that is set, shorter   *)
(* or longer than the default, are deleted, and the transport gets the     *)
(* timeout that is set, unless they are changed again.                     *)
(***************************************************************************)
SettingsTakeEffect ==
    /\ Expired # {} ~> Expired = {}
    /\ TimeoutOf(settings, timeout) # timeout ~> TimeoutOf(settings, timeout) = timeout

=============================================================================
