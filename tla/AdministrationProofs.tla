--------------------------- MODULE AdministrationProofs --------------------------
(***************************************************************************)
(* Safety of the settings, the retention, the list of models and the       *)
(* backfill of rules, for any number of requests, any settings and         *)
(* calendar, any upstream, and any mappings and crashes.  The three parts  *)
(* share no state, so each has an invariant of its own (SettingsInv and    *)
(* RetentionInv, ModelInv, BackfillInv with PlacesInv) that the steps of   *)
(* the others leave alone; the types come part by part as well.            *)
(***************************************************************************)
EXTENDS Administration, PolicyRulesProofs, TLAPS

USE DEF settingVars, cleanupVars, retentionVars, callVars, modelVars

-----------------------------------------------------------------------------
(***************************************************************************)
(* Settings.  What an update was granted is written, or still asked for;   *)
(* a write of another request takes the key out of what was granted.       *)
(***************************************************************************)
SettingsInv ==
    /\ DOMAIN settings = DOMAIN Defaults
    /\ {DOMAIN asked, DOMAIN granted, DOMAIN reply} = {Admins}
    /\ \A a \in Admins :
         /\ reply[a] = "ok" => asked[a] = Nobody
         /\ reply[a] \in {"waits", "ok"} =>
              \A k \in DOMAIN granted[a] :
                 /\ k \in DOMAIN asked[a] => asked[a][k] = granted[a][k]
                 /\ k \notin DOMAIN asked[a] =>
                      k \in DOMAIN settings /\ settings[k] = granted[a][k]

LEMMA InitSettings == Init => SettingsInv
  BY DEF Init, RetentionInit, SettingsInv

LEMMA WithoutIsSmaller ==
    ASSUME NEW f, NEW k
    PROVE  /\ DOMAIN Without(f, k) = DOMAIN f \ {k}
           /\ \A x \in DOMAIN f \ {k} : Without(f, k)[x] = f[x]
  BY DEF Without, Restrict

LEMMA UpdateSettingsKeeps ==
    ASSUME SettingsInv, NEW a \in Admins, UpdateSettings(a)
    PROVE  SettingsInv'
<1>1. CASE asked[a] = Nobody /\ Reply(a, "ok") /\ UNCHANGED <<settings, granted, inEffect>>
  BY <1>1 DEF UpdateSettings, Reply, SettingsInv, Nobody
<1>2. ASSUME NEW k \in DOMAIN asked[a], k \in DOMAIN Defaults, Write(a, k),
             asked' = [asked EXCEPT ![a] = Without(@, k)], UNCHANGED reply, reply[a] = "waits"
      PROVE  SettingsInv'
  <2>1. /\ DOMAIN settings' = DOMAIN settings
        /\ settings'[k] = asked[a][k]
        /\ \A l \in DOMAIN settings \ {k} : settings'[l] = settings[l]
    BY <1>2 DEF Write, SettingsInv
  <2>2. /\ DOMAIN asked' = Admins /\ DOMAIN granted' = Admins /\ DOMAIN reply' = Admins
        /\ asked'[a] = Without(asked[a], k) /\ granted'[a] = granted[a]
        /\ \A b \in Admins \ {a} :
             asked'[b] = asked[b] /\ granted'[b] = Without(granted[b], k)
    BY <1>2 DEF Write, SettingsInv
  <2>3. ASSUME NEW b \in Admins, reply'[b] \in {"waits", "ok"}, NEW l \in DOMAIN granted'[b]
        PROVE  /\ l \in DOMAIN asked'[b] => asked'[b][l] = granted'[b][l]
               /\ l \notin DOMAIN asked'[b] =>
                    l \in DOMAIN settings' /\ settings'[l] = granted'[b][l]
    <3>1. CASE b = a
      <4>1. /\ DOMAIN Without(asked[a], k) = DOMAIN asked[a] \ {k}
            /\ \A x \in DOMAIN asked[a] \ {k} : Without(asked[a], k)[x] = asked[a][x]
        BY WithoutIsSmaller
      <4>2. QED
        BY <4>1, <3>1, <1>2, <2>1, <2>2, <2>3 DEF SettingsInv
    <3>2. CASE b # a
      <4>1. l \in DOMAIN granted[b] /\ l # k /\ granted'[b][l] = granted[b][l]
        <5>1. /\ DOMAIN Without(granted[b], k) = DOMAIN granted[b] \ {k}
              /\ \A x \in DOMAIN granted[b] \ {k} : Without(granted[b], k)[x] = granted[b][x]
          BY WithoutIsSmaller
        <5>2. granted'[b] = Without(granted[b], k)
          BY <3>2, <2>2
        <5>3. QED
          BY <5>1, <5>2, <2>3
      <4>2. QED
        BY <4>1, <3>2, <1>2, <2>1, <2>2, <2>3 DEF SettingsInv
    <3>3. QED
      BY <3>1, <3>2
  <2>4. QED
    BY <1>2, <2>1, <2>2, <2>3 DEF SettingsInv
<1>3. CASE Reply(a, "error") /\ granted' = [granted EXCEPT ![a] = Nobody] /\ UNCHANGED settings
  BY <1>3 DEF Reply, SettingsInv, Nobody
<1>4. QED
  BY <1>1, <1>2, <1>3 DEF UpdateSettings

LEMMA NextSettings == SettingsInv /\ [Next]_vars => SettingsInv'
<1> SUFFICES ASSUME SettingsInv, [Next]_vars
             PROVE  SettingsInv'
  OBVIOUS
<1>1. ASSUME NEW a \in Admins, BeginUpdate(a)
      PROVE  SettingsInv'
  BY <1>1 DEF BeginUpdate, SettingsInv
<1>2. CASE Restart
  BY <1>2 DEF Restart, SettingsInv
<1>3. CASE UNCHANGED settingVars
  BY <1>3 DEF SettingsInv
<1>4. CASE RetentionNext
  BY <1>1, <1>2, <1>3, <1>4, UpdateSettingsKeeps DEF RetentionNext, ReadSettings, BeginCleanup,
     CleanupLogs, EndCleanup, CleanupRecords, InsertRecord, NextDay
<1>5. QED
  BY <1>3, <1>4 DEF Next, vars

(***************************************************************************)
(* What was answered "ok" holds until it is written over.                  *)
(***************************************************************************)
THEOREM SettingsAreKept == Spec => []AcknowledgedSettingsHold
<1>1. SettingsInv => AcknowledgedSettingsHold
  BY DEF SettingsInv, AcknowledgedSettingsHold, Nobody
<1>2. QED
  BY <1>1, InitSettings, NextSettings, PTL DEF Spec

-----------------------------------------------------------------------------
(***************************************************************************)
(* Retention.  A cleanup at work goes by the retention that was set when   *)
(* it read the settings, or, if it could not read all of them, by one that *)
(* it falls back to.                                                       *)
(***************************************************************************)
RetentionInv ==
    /\ today \in Nat
    /\ rows \subseteq 0..today
    /\ logs \subseteq 0..today
    /\ stage \in [Cleaners -> {"idle", "logs", "records"}]
    /\ days \in [Cleaners -> Int]
    /\ {DOMAIN whole, DOMAIN inEffect} = {Cleaners}
    /\ \A c \in Cleaners : stage[c] # "idle" => days[c] \in inEffect[c] \cup Fallback(c)

LEMMA DaysAreIntegers == \A s : DaysOf(s) \in Int
  BY RetentionAssumption DEF DaysOf

\* What may be read of the retention: the one that is set, or one to fall back to.
LEMMA ReadingsFallBack ==
    ASSUME NEW s \in Readings
    PROVE  \/ DaysOf(s) = DaysOf(settings)
           \/ s # settings /\ DaysOf(s) \in {DefaultDays, DaysOf(Defaults)}
<1>1. "retention_days" \in DOMAIN Defaults
  BY RetentionAssumption
<1>2. CASE s = NoMap
  <2>1. s["retention_days"] = "absent"
    BY <1>1, <1>2 DEF NoMap
  <2>2. QED
    BY <2>1, RetentionAssumption DEF DaysOf
<1>3. CASE \E K \in SUBSET DOMAIN Defaults : s = RowsOver(K)
  <2>1. PICK K \in SUBSET DOMAIN Defaults : s = RowsOver(K)
    BY <1>3
  <2>2. s["retention_days"] \in {settings["retention_days"], Defaults["retention_days"]}
    BY <1>1, <2>1 DEF RowsOver
  <2>3. DaysOf(s) \in {DaysOf(settings), DaysOf(Defaults)}
    BY <2>2 DEF DaysOf
  <2>4. QED
    BY <2>3
<1>4. QED
  BY <1>2, <1>3 DEF Readings

LEMMA OlderThanIsOlder ==
    ASSUME NEW table, NEW d
    PROVE  OlderThan(table, d) = {day \in table : d > 0 /\ day + d < today}
  BY DEF OlderThan

LEMMA InitRetention == Init => RetentionInv
  BY RetentionAssumption DEF Init, RetentionInit, RetentionInv, Cleaners

LEMMA WriteKeepsRetention ==
    ASSUME RetentionInv, NEW a \in Admins, NEW k, Write(a, k),
           UNCHANGED <<stage, days, whole, rows, logs, today>>
    PROVE  RetentionInv'
<1>1. inEffect' = [c \in Cleaners |->
                     IF stage[c] = "idle" THEN {} ELSE inEffect[c] \cup {DaysOf(settings')}]
  BY DEF Write
<1>2. \A c \in Cleaners : Fallback(c)' = Fallback(c)
  BY DEF Fallback
<1>3. ASSUME NEW c \in Cleaners, stage[c] # "idle"
      PROVE  days[c] \in inEffect'[c] \cup Fallback(c)'
  BY <1>1, <1>2, <1>3 DEF RetentionInv
<1>4. QED
  BY <1>1, <1>3 DEF RetentionInv

LEMMA ReadSettingsKeeps ==
    ASSUME RetentionInv, NEW c \in Cleaners, ReadSettings(c)
    PROVE  RetentionInv'
<1>1. PICK s \in Readings : BeginCleanup(c, s) /\ days' = [days EXCEPT ![c] = DaysOf(s)]
  BY DEF ReadSettings
<1>2. DaysOf(s) \in Int
  BY DaysAreIntegers
<1>3. /\ days' \in [Cleaners -> Int] /\ days'[c] = DaysOf(s)
      /\ \A e \in Cleaners \ {c} : days'[e] = days[e]
  BY <1>1, <1>2 DEF RetentionInv
<1>4. /\ stage' = [stage EXCEPT ![c] = "logs"]
      /\ DOMAIN whole' = Cleaners /\ whole'[c] = (s = settings)
      /\ DOMAIN inEffect' = Cleaners /\ inEffect'[c] = {DaysOf(settings)}
      /\ \A e \in Cleaners \ {c} : whole'[e] = whole[e] /\ inEffect'[e] = inEffect[e]
      /\ UNCHANGED <<rows, logs, today>>
  BY <1>1 DEF BeginCleanup, RetentionInv
<1>5. days'[c] \in inEffect'[c] \cup Fallback(c)'
  <2>1. CASE DaysOf(s) = DaysOf(settings)
    BY <1>3, <1>4, <2>1
  <2>2. CASE s # settings /\ DaysOf(s) \in {DefaultDays, DaysOf(Defaults)}
    <3>1. ~whole'[c]
      BY <1>4, <2>2
    <3>2. Fallback(c)' = {DefaultDays, DaysOf(Defaults)}
      BY <3>1 DEF Fallback, DaysOf
    <3>3. QED
      BY <1>3, <2>2, <3>2
  <2>3. QED
    BY <2>1, <2>2, ReadingsFallBack
<1>6. ASSUME NEW e \in Cleaners \ {c}, stage[e] # "idle"
      PROVE  days'[e] \in inEffect'[e] \cup Fallback(e)'
  <2>1. Fallback(e)' = Fallback(e)
    BY <1>4 DEF Fallback, DaysOf
  <2>2. QED
    BY <1>3, <1>4, <1>6, <2>1 DEF RetentionInv
<1>7. stage' \in [Cleaners -> {"idle", "logs", "records"}]
      /\ \A e \in Cleaners \ {c} : stage'[e] = stage[e]
  BY <1>4 DEF RetentionInv
<1>8. QED
  BY <1>3, <1>4, <1>5, <1>6, <1>7 DEF RetentionInv

LEMMA EndCleanupKeeps ==
    ASSUME RetentionInv, NEW c \in Cleaners, EndCleanup(c), today' = today,
           rows' \subseteq rows, logs' \subseteq logs
    PROVE  RetentionInv'
<1>1. /\ stage' \in [Cleaners -> {"idle", "logs", "records"}] /\ stage'[c] = "idle"
      /\ days' \in [Cleaners -> Int]
      /\ {DOMAIN whole', DOMAIN inEffect'} = {Cleaners}
  BY RetentionAssumption DEF EndCleanup, RetentionInv
<1>2. ASSUME NEW e \in Cleaners \ {c}, stage'[e] # "idle"
      PROVE  days'[e] \in inEffect'[e] \cup Fallback(e)'
  <2>1. /\ stage[e] # "idle" /\ days'[e] = days[e] /\ inEffect'[e] = inEffect[e]
        /\ whole'[e] = whole[e]
    BY <1>2 DEF EndCleanup, RetentionInv
  <2>2. Fallback(e)' = Fallback(e)
    BY <2>1 DEF Fallback, DaysOf
  <2>3. QED
    BY <2>1, <2>2 DEF RetentionInv
<1>3. QED
  BY <1>1, <1>2 DEF RetentionInv

LEMMA NextRetention == RetentionInv /\ [Next]_vars => RetentionInv'
<1> SUFFICES ASSUME RetentionInv, [Next]_vars
             PROVE  RetentionInv'
  OBVIOUS
<1>1. ASSUME UNCHANGED cleanupVars, today' \in Nat, today' >= today,
             rows' \subseteq 0..today', logs' \subseteq 0..today'
      PROVE  RetentionInv'
  <2>1. \A c \in Cleaners : Fallback(c)' = Fallback(c)
    BY <1>1 DEF Fallback, DaysOf
  <2>2. QED
    BY <1>1, <2>1 DEF RetentionInv
<1>2. ASSUME NEW a \in Admins, UpdateSettings(a)
      PROVE  RetentionInv'
  <2>1. CASE UNCHANGED inEffect
    BY <1>1, <1>2, <2>1 DEF UpdateSettings, RetentionInv
  <2>2. QED
    BY <1>2, <2>1, WriteKeepsRetention DEF UpdateSettings
<1>3. ASSUME NEW c \in Cleaners, CleanupLogs(c)
      PROVE  RetentionInv'
  <2>1. logs' \subseteq logs /\ UNCHANGED <<rows, today>>
    BY <1>3 DEF CleanupLogs, OlderThan
  <2>2. CASE EndCleanup(c)
    BY <2>1, <2>2, EndCleanupKeeps
  <2>3. CASE /\ c = "loop" /\ stage' = [stage EXCEPT ![c] = "records"]
             /\ UNCHANGED <<days, whole, inEffect>>
    <3>1. \A e \in Cleaners : Fallback(e)' = Fallback(e)
      BY <2>3 DEF Fallback, DaysOf
    <3>2. stage[c] = "logs"
      BY <1>3 DEF CleanupLogs
    <3>3. QED
      BY <2>1, <2>3, <3>1, <3>2 DEF RetentionInv
  <2>4. QED
    BY <1>3, <2>2, <2>3 DEF CleanupLogs
<1>4. CASE CleanupRecords
  <2>1. rows' \subseteq rows /\ UNCHANGED <<logs, today>> /\ EndCleanup("loop")
    BY <1>4 DEF CleanupRecords, OlderThan
  <2>2. QED
    BY <2>1, EndCleanupKeeps DEF Cleaners
<1>5. CASE Restart
  BY <1>5, RetentionAssumption DEF Restart, RetentionInv
<1>6. CASE \/ \E a \in Admins : BeginUpdate(a)
           \/ InsertRecord \/ NextDay \/ UNCHANGED retentionVars
  <2>1. today \in Nat /\ rows \subseteq 0..today /\ logs \subseteq 0..today
    BY DEF RetentionInv
  <2>2. CASE InsertRecord
    <3>1. today \in 0..today
      BY <2>1
    <3>2. UNCHANGED <<cleanupVars, logs, today>> /\ rows' = rows \cup {today}
      BY <2>2 DEF InsertRecord
    <3>3. QED
      BY <1>1, <2>1, <3>1, <3>2
  <2>3. CASE NextDay
    <3>1. UNCHANGED <<cleanupVars, rows, logs>> /\ today' = today + 1
      BY <2>3 DEF NextDay
    <3>2. today + 1 \in Nat /\ today + 1 >= today /\ 0..today \subseteq 0..(today + 1)
      BY <2>1
    <3>3. QED
      BY <1>1, <2>1, <3>1, <3>2
  <2>4. CASE (\E a \in Admins : BeginUpdate(a)) \/ UNCHANGED retentionVars
    <3>1. UNCHANGED <<cleanupVars, rows, logs, today>>
      BY <2>4 DEF BeginUpdate
    <3>2. QED
      BY <1>1, <2>1, <3>1
  <2>5. QED
    BY <1>6, <2>2, <2>3, <2>4
<1>7. QED
  BY <1>2, <1>3, <1>4, <1>5, <1>6, ReadSettingsKeeps DEF Next, RetentionNext, vars

\* What a cleanup deletes is past the retention that it goes by.
LEMMA DeletedIsAllowed ==
    ASSUME RetentionInv, NEW c \in Cleaners, stage[c] # "idle",
           NEW table \in SUBSET (0..today), NEW day \in OlderThan(table, days[c])
    PROVE  Allowed(c, day)
<1>1. Past(day, days[c])
  BY OlderThanIsOlder DEF Past
<1>2. days[c] \in inEffect[c] \cup Fallback(c)
  BY DEF RetentionInv
<1>3. QED
  BY <1>1, <1>2 DEF Allowed

(***************************************************************************)
(* A cleanup that read all the settings deletes only what is past a        *)
(* retention set when it read them, or since; one that did not may go by   *)
(* the default, too.                                                       *)
(***************************************************************************)
THEOREM RetainedIsKept == Spec => CleanupKeepsRetained
<1> DEFINE Kept == /\ \A day \in rows \ rows' : Allowed("loop", day)
                   /\ \A day \in logs \ logs' : \E c \in Cleaners : Allowed(c, day)
<1>1. ASSUME RetentionInv, [Next]_vars
      PROVE  [Kept]_retentionVars
  <2>1. ASSUME NEW c \in Cleaners, CleanupLogs(c)
        PROVE  Kept
    <3>1. rows' = rows /\ stage[c] # "idle" /\ logs \in SUBSET (0..today)
          /\ logs \ logs' \subseteq OlderThan(logs, days[c])
      BY <1>1, <2>1 DEF CleanupLogs, RetentionInv
    <3>2. QED
      BY <1>1, <3>1, DeletedIsAllowed
  <2>2. CASE CleanupRecords
    <3>1. logs' = logs /\ stage["loop"] # "idle" /\ rows \in SUBSET (0..today)
          /\ rows \ rows' \subseteq OlderThan(rows, days["loop"]) /\ "loop" \in Cleaners
      BY <1>1, <2>2 DEF CleanupRecords, RetentionInv, Cleaners
    <3>2. QED
      BY <1>1, <3>1, DeletedIsAllowed
  <2>3. CASE rows \subseteq rows' /\ logs' = logs
    BY <2>3
  <2>4. CASE RetentionNext
    BY <2>1, <2>2, <2>3, <2>4 DEF RetentionNext, BeginUpdate, UpdateSettings, ReadSettings,
       BeginCleanup, InsertRecord, NextDay, Restart
  <2>5. QED
    BY <1>1, <2>4 DEF Next, vars
<1>2. QED
  BY <1>1, InitRetention, NextRetention, PTL DEF Spec, CleanupKeepsRetained

-----------------------------------------------------------------------------
(***************************************************************************)
(* The list of models.  A call under way has no result yet; every list     *)
(* that is stored, or may be, was offered, and offered to the calls that   *)
(* are under way: at their beginning or since.                             *)
(***************************************************************************)
ModelInv ==
    /\ at \in [Callers -> Points]
    /\ call \in [Callers -> Requested \cup Listing \cup {"refresh"}]
    /\ {DOMAIN fetched, DOMAIN result, DOMAIN seen} = {Callers}
    /\ \A c \in Callers : at[c] # "idle" => result[c] = Pending
    /\ offer \in offers
    /\ modelsByKey \in offers \cup {{}}
    /\ \A c \in Callers : at[c] = "store" => fetched[c] \in offers
    /\ \A c \in Callers : at[c] # "idle" =>
         /\ OffersAtHand \subseteq seen[c]
         /\ call[c] = "relist" => modelsByKey \in seen[c]

ModelSafe == ModelInv /\ OfferedIsNotRefused /\ RefreshIsFresh

USE DEF Points, Listing, OffersAtHand

LEMMA InitModels == Init => ModelSafe
  BY DEF Init, ModelInit, ModelSafe, ModelInv, OfferedIsNotRefused, RefreshIsFresh,
     Error, ErrUnknownModel

\* A step of c that answers it, and changes nothing else.
LEMMA ReturnKeeps ==
    ASSUME ModelSafe, NEW c \in Callers, NEW r, Return(c, r), at[c] # "idle", at[c] # "store",
           UNCHANGED <<modelsByKey, call, fetched, offer, offers, seen>>,
           r = ErrUnknownModel => \E keys \in offers : call[c] \notin keys,
           call[c] = "relist" /\ r.is = "list" => r.keys \in seen[c]
    PROVE  ModelSafe'
<1>1. /\ at' = [at EXCEPT ![c] = "idle"] /\ result' = [result EXCEPT ![c] = r]
  BY DEF Return, Goto
<1>2. ModelInv'
  BY <1>1 DEF ModelSafe, ModelInv
<1>3. OfferedIsNotRefused' /\ RefreshIsFresh'
  BY <1>1 DEF ModelSafe, ModelInv, OfferedIsNotRefused, RefreshIsFresh
<1>4. QED
  BY <1>2, <1>3 DEF ModelSafe

\* A step of c from one point to another, neither its beginning, fetch nor store.
LEMMA GotoKeeps ==
    ASSUME ModelSafe, NEW c \in Callers, NEW l \in {"fetch", "reread"}, Goto(c, l),
           at[c] \notin {"idle", "store"},
           UNCHANGED <<modelsByKey, call, fetched, result, offer, offers, seen>>
    PROVE  ModelSafe'
<1>1. at' = [at EXCEPT ![c] = l]
  BY DEF Goto
<1>2. ModelInv'
  BY <1>1 DEF ModelSafe, ModelInv
<1>3. QED
  BY <1>2 DEF ModelSafe, OfferedIsNotRefused, RefreshIsFresh

LEMMA BeginKeeps ==
    ASSUME ModelSafe, NEW c \in Callers, Begin(c)
    PROVE  ModelSafe'
<1>1. /\ result' = [result EXCEPT ![c] = Pending]
      /\ seen' = [seen EXCEPT ![c] = OffersAtHand]
      /\ UNCHANGED <<modelsByKey, fetched, offer, offers>>
      /\ at[c] = "idle"
  BY DEF Begin
<1>2. /\ call' = [call EXCEPT ![c] = call'[c]] /\ call'[c] \in Requested \cup {"list", "refresh"}
      /\ at' = [at EXCEPT ![c] = at'[c]] /\ at'[c] \in {"read", "fetch"}
  BY DEF Begin, Goto, ModelSafe, ModelInv
<1>3. call'[c] # "relist"
  BY <1>2, ModelAssumption
<1>4. ModelInv'
  BY <1>1, <1>2, <1>3 DEF ModelSafe, ModelInv
<1>5. OfferedIsNotRefused' /\ RefreshIsFresh'
  BY <1>1, <1>2 DEF ModelSafe, ModelInv, OfferedIsNotRefused, RefreshIsFresh, Pending,
     ErrUnknownModel
<1>6. QED
  BY <1>4, <1>5 DEF ModelSafe

LEMMA ReadKeeps ==
    ASSUME ModelSafe, NEW c \in Callers, Read(c)
    PROVE  ModelSafe'
<1>1. ASSUME NEW k, Return(c, Key(k))
      PROVE  ModelSafe'
  BY <1>1, ReturnKeeps DEF Read, Key, ErrUnknownModel
<1>2. CASE Goto(c, IF modelsByKey = {} THEN "fetch" ELSE "reread") /\ UNCHANGED result
  BY <1>2, GotoKeeps DEF Read
<1>3. QED
  BY <1>1, <1>2 DEF Read

LEMMA FetchKeeps ==
    ASSUME ModelSafe, NEW c \in Callers, Fetch(c)
    PROVE  ModelSafe'
<1>1. CASE fetched' = [fetched EXCEPT ![c] = offer] /\ Goto(c, "store") /\ UNCHANGED result
  <2>1. ModelInv'
    BY <1>1 DEF Fetch, Goto, ModelSafe, ModelInv
  <2>2. QED
    BY <1>1, <2>1 DEF Fetch, ModelSafe, OfferedIsNotRefused, RefreshIsFresh
<1>2. CASE Return(c, Error) /\ UNCHANGED fetched
  BY <1>2, ReturnKeeps DEF Fetch, Error, ErrUnknownModel
<1>3. CASE Goto(c, "reread") /\ UNCHANGED <<result, fetched>>
  BY <1>3, GotoKeeps DEF Fetch
<1>4. QED
  BY <1>1, <1>2, <1>3 DEF Fetch

LEMMA StoreKeeps ==
    ASSUME ModelSafe, NEW c \in Callers, Store(c)
    PROVE  ModelSafe'
<1>1. /\ modelsByKey' = fetched[c] /\ fetched[c] \in offers
      /\ fetched' = [fetched EXCEPT ![c] = {}]
      /\ at[c] = "store" /\ at' = [at EXCEPT ![c] = at'[c]] /\ at'[c] \in {"read", "reread"}
      /\ call' = [call EXCEPT ![c] = call'[c]] /\ call'[c] \in {call[c], "relist"}
      /\ UNCHANGED <<result, offer, offers, seen>>
  BY DEF Store, Goto, ModelSafe, ModelInv
<1>2. \A d \in Callers : at[d] # "idle" => fetched[c] \in seen[d]
  BY <1>1 DEF ModelSafe, ModelInv
<1>3. \A d \in Callers : (at'[d] # "idle" <=> at[d] # "idle") /\ (at'[d] = "store" => d # c /\ at[d] = "store")
  BY <1>1 DEF ModelSafe, ModelInv
<1>4. ModelInv'
  BY <1>1, <1>2, <1>3 DEF ModelSafe, ModelInv
<1>5. OfferedIsNotRefused' /\ RefreshIsFresh'
  BY <1>1 DEF ModelSafe, ModelInv, OfferedIsNotRefused, RefreshIsFresh, Pending,
     ErrUnknownModel
<1>6. QED
  BY <1>4, <1>5 DEF ModelSafe

LEMMA RereadKeeps ==
    ASSUME ModelSafe, NEW c \in Callers, Reread(c)
    PROVE  ModelSafe'
<1>1. CASE call[c] \in {"list", "relist"}
  <2>1. Return(c, List(modelsByKey))
    BY <1>1 DEF Reread
  <2>2. QED
    BY <2>1, ReturnKeeps DEF Reread, List, ErrUnknownModel, ModelSafe, ModelInv
<1>2. CASE call[c] \notin Listing /\ (call[c] \in modelsByKey \/ modelsByKey = {})
  <2>1. Return(c, Key(call[c]))
    BY <1>2 DEF Reread
  <2>2. QED
    BY <1>2, <2>1, ReturnKeeps DEF Reread, Key, ErrUnknownModel
<1>3. CASE call[c] \notin Listing /\ call[c] \notin modelsByKey /\ modelsByKey # {}
  <2>1. Return(c, ErrUnknownModel)
    BY <1>3 DEF Reread
  <2>2. modelsByKey \in offers
    BY <1>3 DEF ModelSafe, ModelInv
  <2>3. QED
    BY <1>3, <2>1, <2>2, ReturnKeeps DEF Reread
<1>4. QED
  BY <1>1, <1>2, <1>3

LEMMA ChangeKeeps == ModelSafe /\ Change => ModelSafe'
<1> SUFFICES ASSUME ModelSafe, Change
             PROVE  ModelSafe'
  OBVIOUS
<1>1. /\ offers' = offers \cup {offer'}
      /\ UNCHANGED <<modelsByKey, at, call, fetched, result>>
      /\ DOMAIN seen' = Callers
      /\ \A c \in Callers : seen'[c] = IF at[c] = "idle" THEN seen[c] ELSE seen[c] \cup {offer'}
  BY DEF Change
<1>2. ModelInv'
  BY <1>1 DEF ModelSafe, ModelInv
<1>3. OfferedIsNotRefused' /\ RefreshIsFresh'
  BY <1>1 DEF ModelSafe, OfferedIsNotRefused, RefreshIsFresh
<1>4. QED
  BY <1>2, <1>3 DEF ModelSafe

LEMMA NextModels == ModelSafe /\ [Next]_vars => ModelSafe'
<1> SUFFICES ASSUME ModelSafe, [Next]_vars
             PROVE  ModelSafe'
  OBVIOUS
<1>1. CASE ModelNext
  BY <1>1, BeginKeeps, ReadKeeps, FetchKeeps, StoreKeeps, RereadKeeps, ChangeKeeps DEF ModelNext
<1>2. CASE UNCHANGED modelVars
  BY <1>2 DEF ModelSafe, ModelInv, OfferedIsNotRefused, RefreshIsFresh
<1>3. QED
  BY <1>1, <1>2 DEF Next, vars

\* The inductive invariant of the list of models.
LEMMA ModelsHold == Spec => []ModelSafe
  BY InitModels, NextModels, PTL DEF Spec

(***************************************************************************)
(* A model that upstream offered all the time is never refused.            *)
(***************************************************************************)
THEOREM OffersAreAccepted == Spec => []OfferedIsNotRefused
<1>1. ModelSafe => OfferedIsNotRefused
  BY DEF ModelSafe
<1>2. QED
  BY <1>1, ModelsHold, PTL

(***************************************************************************)
(* A refresh is answered nothing older than itself.                        *)
(***************************************************************************)
THEOREM RefreshesAreFresh == Spec => []RefreshIsFresh
<1>1. ModelSafe => RefreshIsFresh
  BY DEF ModelSafe
<1>2. QED
  BY <1>1, ModelsHold, PTL

-----------------------------------------------------------------------------
(***************************************************************************)
(* The type invariant, part by part.  A retention or a timeout is an       *)
(* integer only if the values that settings may have stand for integers;   *)
(* the model list is one that upstream offered, or empty.                  *)
(***************************************************************************)
RetentionTyped ==
    /\ DOMAIN settings = DOMAIN Defaults
    /\ DOMAIN asked = Admins
    /\ \A a \in Admins : reply[a] = "waits" \/ asked[a] = Nobody
    /\ reply \in [Admins -> {"none", "waits", "ok", "error", "lost"}]
    /\ stage["admin"] # "records"
    /\ timeout \in Int /\ timeout > 0

LEMMA TimeoutIsPositive ==
    ASSUME NEW s, NEW t \in Int, t > 0
    PROVE  TimeoutOf(s, t) \in Int /\ TimeoutOf(s, t) > 0
  BY RetentionAssumption DEF TimeoutOf

LEMMA InitRetentionTyped == Init => RetentionTyped
<1> SUFFICES ASSUME Init PROVE RetentionTyped
  OBVIOUS
<1>1. TimeoutOf(Defaults, 1) \in Int /\ TimeoutOf(Defaults, 1) > 0
  BY TimeoutIsPositive
<1>2. QED
  BY <1>1 DEF Init, RetentionInit, RetentionTyped, Cleaners

LEMMA NextRetentionTyped == RetentionInv /\ RetentionTyped /\ [Next]_vars => RetentionTyped'
<1> SUFFICES ASSUME RetentionInv, RetentionTyped, [Next]_vars
             PROVE  RetentionTyped'
  OBVIOUS
<1> USE DEF RetentionTyped, RetentionInv
<1>1. ASSUME NEW a \in Admins, BeginUpdate(a)
      PROVE  RetentionTyped'
  BY <1>1 DEF BeginUpdate
<1>2. ASSUME NEW a \in Admins, UpdateSettings(a)
      PROVE  RetentionTyped'
  <2>1. UNCHANGED <<stage, timeout>> /\ reply[a] = "waits"
    BY <1>2 DEF UpdateSettings
  <2>2. DOMAIN settings' = DOMAIN settings
    BY <1>2 DEF UpdateSettings, Write
  <2>3. CASE UNCHANGED reply /\ \E f : asked' = [asked EXCEPT ![a] = f]
    BY <2>1, <2>2, <2>3
  <2>4. CASE Reply(a, "ok") \/ Reply(a, "error")
    BY <2>1, <2>2, <2>4 DEF Reply
  <2>5. QED
    BY <1>2, <2>3, <2>4 DEF UpdateSettings
<1>3. ASSUME NEW c \in Cleaners, ReadSettings(c)
      PROVE  RetentionTyped'
  <2>1. PICK s \in Readings : /\ BeginCleanup(c, s)
                              /\ timeout' = IF c = "loop" THEN TimeoutOf(s, timeout) ELSE timeout
    BY <1>3 DEF ReadSettings
  <2>2. TimeoutOf(s, timeout) \in Int /\ TimeoutOf(s, timeout) > 0
    BY TimeoutIsPositive
  <2>3. timeout' \in Int /\ timeout' > 0
    BY <2>1, <2>2
  <2>4. QED
    BY <2>1, <2>3 DEF BeginCleanup
<1>4. ASSUME NEW c \in Cleaners, CleanupLogs(c)
      PROVE  RetentionTyped'
  BY <1>4 DEF CleanupLogs, EndCleanup, Cleaners
<1>5. CASE CleanupRecords
  BY <1>5 DEF CleanupRecords, EndCleanup, Cleaners
<1>6. CASE Restart
  <2>1. TimeoutOf(Defaults, 1) \in Int /\ TimeoutOf(Defaults, 1) > 0
    BY TimeoutIsPositive
  <2>2. QED
    BY <1>6, <2>1 DEF Restart, Cleaners
<1>7. CASE InsertRecord \/ NextDay \/ UNCHANGED retentionVars
  BY <1>7 DEF InsertRecord, NextDay
<1>8. QED
  BY <1>1, <1>2, <1>3, <1>4, <1>5, <1>6, <1>7 DEF Next, vars, RetentionNext

ModelTyped ==
    /\ ModelTypeOK
    /\ offer \in Lists
    /\ {DOMAIN fetched, DOMAIN result} = {Callers}
    /\ \A c \in Callers : at[c] = "store" => fetched[c] \in Lists

LEMMA AnswersArrive ==
    /\ \A k : Key(k) # Pending /\ List(k) # Pending
    /\ Error # Pending /\ ErrUnknownModel # Pending
  BY DEF Key, List, Error, ErrUnknownModel, Pending

LEMMA InitModelTyped == Init => ModelTyped
  BY AnswersArrive DEF Init, ModelInit, ModelTyped, ModelTypeOK

LEMMA NextModelTyped == ModelTyped /\ [Next]_vars => ModelTyped'
<1> SUFFICES ASSUME ModelTyped, [Next]_vars
             PROVE  ModelTyped'
  OBVIOUS
<1> USE DEF ModelTyped, ModelTypeOK, Goto
<1>1. ASSUME NEW c \in Callers, Begin(c)
      PROVE  ModelTyped'
  BY <1>1 DEF Begin
<1>2. ASSUME NEW c \in Callers, Read(c)
      PROVE  ModelTyped'
  <2>1. /\ \/ \E k : Return(c, Key(k))
           \/ /\ \E l \in {"fetch", "reread"} : at' = [at EXCEPT ![c] = l]
              /\ UNCHANGED result
        /\ at[c] = "read"
        /\ UNCHANGED <<modelsByKey, lastError, call, fetched, offer>>
    BY <1>2, Zenon DEF Read
  <2>2. QED
    BY <2>1, AnswersArrive DEF Return
<1>3. ASSUME NEW c \in Callers, Fetch(c)
      PROVE  ModelTyped'
  BY <1>3, AnswersArrive, ZenonT(30) DEF Fetch, Return
<1>4. ASSUME NEW c \in Callers, Store(c)
      PROVE  ModelTyped'
  BY <1>4 DEF Store
<1>5. ASSUME NEW c \in Callers, Reread(c)
      PROVE  ModelTyped'
  BY <1>5, AnswersArrive DEF Reread, Return
<1>6. CASE Change
  BY <1>6 DEF Change
<1>7. CASE UNCHANGED modelVars
  BY <1>7
<1>8. QED
  BY <1>1, <1>2, <1>3, <1>4, <1>5, <1>6, <1>7 DEF Next, vars, ModelNext

-----------------------------------------------------------------------------
(***************************************************************************)
(* The rules and their backfill.  Ids are keys of the table, and no        *)
(* mapping is asked for twice in the list that the migration works off.    *)
(***************************************************************************)
TableInv ==
    /\ nextRule \in Nat /\ nextRule > 0
    /\ IsFiniteSet(rules)
    /\ \A r \in rules : r.id \in 1..(nextRule - 1)
    /\ \A r, s \in rules : r.id = s.id => r = s
    /\ byHand \subseteq 1..(nextRule - 1)

Remaining == {todo[i] : i \in 1..Len(todo)}

TodoInv ==
    /\ part \in {"rules", "retention", "models"}
    /\ proc \in {"down", "migrating", "serving"}
    /\ todo \in Seq(Mappings)
    /\ \A i, j \in 1..Len(todo) : todo[i] = todo[j] => i = j
    /\ \A i, j \in 1..Len(todo) : i < j => Precedes(todo[i], todo[j])
    /\ proc # "migrating" => todo = <<>>

(***************************************************************************)
(* BackfillIsExact says nothing of a migration that has yet to insert:     *)
(* what it has in its list counts with what is in the table, and a mapping *)
(* is in one of the two until it is served.                                *)
(***************************************************************************)
Awaited(m) == Remaining \cap AsMuchAs(m)

BackfillInv ==
    \A m \in Mappings : m.pattern # EmptyPattern =>
        /\ Cardinality(Migrated(m)) + Cardinality(Awaited(m)) <= Cardinality(AsMuchAs(m))
        /\ proc = "migrating" => HasRule(m) \/ m \in Remaining
        /\ proc = "serving" /\ ~edited => HasRule(m)

LEMMA WithIdIs ==
    ASSUME NEW p, NEW id
    PROVE  /\ WithId(p, id).id = id
           /\ WithId(p, id).source = p.source
           /\ WithId(p, id).match = p.match
           /\ WithId(p, id).actions = p.actions
  BY DEF WithId

\* A new rule has an id of its own.
LEMMA CreateKeepsTable ==
    ASSUME TableInv, NEW p, CreatePolicy(p), byHand' \subseteq byHand \cup {nextRule}
    PROVE  TableInv' /\ WithId(p, nextRule) \notin rules
<1> DEFINE new == WithId(p, nextRule)
<1>1. new.id = nextRule
  BY WithIdIs
<1> HIDE DEF new
<1>2. rules' = rules \cup {new} /\ nextRule' = nextRule + 1
  BY DEF CreatePolicy, new
<1>3. IsFiniteSet(rules')
  BY <1>2, FS_AddElement DEF TableInv
<1>4. \A r \in rules : r.id < nextRule
  BY DEF TableInv
<1>5. /\ \A r \in rules' : r.id \in 1..(nextRule' - 1)
      /\ \A r, s \in rules' : r.id = s.id => r = s
  BY <1>1, <1>2, <1>4 DEF TableInv
<1>6. new \notin rules
  BY <1>1, <1>4 DEF TableInv
<1>8. nextRule' \in Nat /\ nextRule' > 0 /\ byHand' \subseteq 1..(nextRule' - 1)
  BY <1>2 DEF TableInv
<1>9. QED
  BY <1>2, <1>3, <1>5, <1>6, <1>8 DEF TableInv, new

LEMMA UpdateKeepsTable ==
    ASSUME TableInv, NEW id, NEW p, UpdatePolicy(id, p), id \in {r.id : r \in rules},
           byHand' = byHand \cup {id}
    PROVE  TableInv' /\ rules' \subseteq rules \cup {WithId(p, id)}
<1> DEFINE new == WithId(p, id)
<1>1. new.id = id
  BY WithIdIs
<1> HIDE DEF new
<1>2. rules' = {IF r.id = id THEN new ELSE r : r \in rules} /\ nextRule' = nextRule
  BY DEF UpdatePolicy, new
<1>3. rules' \subseteq rules \cup {new}
  BY <1>2
<1>4. IsFiniteSet(rules')
  BY <1>3, FS_AddElement, FS_Subset DEF TableInv
<1>5. \A r \in rules' : r = new \/ (r \in rules /\ r.id # id)
  BY <1>2
<1>6. id \in 1..(nextRule - 1)
  BY DEF TableInv
<1>7. QED
  BY <1>1, <1>2, <1>3, <1>4, <1>5, <1>6 DEF TableInv, new

LEMMA DeleteKeepsTable ==
    ASSUME TableInv, NEW id, DeletePolicy(id), byHand' = byHand
    PROVE  TableInv' /\ rules' \subseteq rules
<1>1. rules' \subseteq rules /\ nextRule' = nextRule
  BY DEF DeletePolicy
<1>2. IsFiniteSet(rules')
  BY <1>1, FS_Subset DEF TableInv
<1>3. QED
  BY <1>1, <1>2 DEF TableInv

\* The rule that the migration inserts for one mapping says another, if they agree.
LEMMA RuleMaps ==
    ASSUME NEW n, NEW m, NEW id, m.pattern # EmptyPattern
    PROVE  Maps(WithId(PatternRule(n), id), m) <=> n.pattern = m.pattern /\ n.target = m.target
<1> DEFINE r == WithId(PatternRule(n), id)
<1>1. /\ r.source = PatternRule(n).source /\ r.match = PatternRule(n).match
      /\ r.actions = PatternRule(n).actions
  BY WithIdIs
<1>2. /\ PatternRule(n).source = "model_mapping"
      /\ PatternRule(n).actions = [rewrite_model |-> n.target]
      /\ n.pattern # EmptyPattern => PatternRule(n).match = [a \in {"model"} |-> n.pattern]
      /\ n.pattern = EmptyPattern => PatternRule(n).match = [a \in {} |-> n.pattern]
  BY DEF PatternRule
<1> HIDE DEF r
<1>3. "rewrite_model" \in DOMAIN r.actions /\ r.actions["rewrite_model"] = n.target
  BY <1>1, <1>2
<1>4. CASE n.pattern = EmptyPattern
  <2>1. "model" \notin DOMAIN r.match
    BY <1>1, <1>2, <1>4
  <2>2. QED
    BY <2>1, <1>4 DEF Maps, r
<1>5. CASE n.pattern # EmptyPattern
  <2>1. "model" \in DOMAIN r.match /\ r.match["model"] = n.pattern
    BY <1>1, <1>2, <1>5
  <2>2. QED
    BY <2>1, <1>1, <1>2, <1>3 DEF Maps, r
<1>6. QED
  BY <1>4, <1>5

\* The query of the migration finds the rule of a mapping that has one.
LEMMA MigratedHasRule ==
    \A m : Migrated(m) # {} => HasRule(m)
  BY DEF HasRule, Migrated

-----------------------------------------------------------------------------
RulesSafe == TableInv /\ TodoInv /\ BackfillInv

LEMMA CountsAreNumbers ==
    ASSUME TableInv, NEW m
    PROVE  /\ IsFiniteSet(Migrated(m)) /\ Cardinality(Migrated(m)) \in Nat
           /\ IsFiniteSet(AsMuchAs(m)) /\ Cardinality(AsMuchAs(m)) \in Nat
           /\ IsFiniteSet(Awaited(m)) /\ Cardinality(Awaited(m)) \in Nat
           /\ Cardinality(Awaited(m)) <= Cardinality(AsMuchAs(m))
<1>1. Migrated(m) \subseteq rules /\ AsMuchAs(m) \subseteq Mappings /\ Awaited(m) \subseteq AsMuchAs(m)
  BY DEF Migrated, AsMuchAs, Awaited
<1>2. IsFiniteSet(rules) /\ IsFiniteSet(Mappings)
  BY MappingsAssumption DEF TableInv, Rows
<1>3. IsFiniteSet(Migrated(m)) /\ IsFiniteSet(AsMuchAs(m))
  BY <1>1, <1>2, FS_Subset
<1>4. IsFiniteSet(Awaited(m)) /\ Cardinality(Awaited(m)) <= Cardinality(AsMuchAs(m))
  BY <1>1, <1>3, FS_Subset
<1>5. QED
  BY <1>3, <1>4, FS_CardinalityType

LEMMA CountsLater ==
    \A m : (TableInv => /\ Cardinality(Awaited(m)) <= Cardinality(AsMuchAs(m))
                        /\ Cardinality(Awaited(m)) \in Nat)'
<1>1. \A m : TableInv => /\ Cardinality(Awaited(m)) <= Cardinality(AsMuchAs(m))
                         /\ Cardinality(Awaited(m)) \in Nat
  BY CountsAreNumbers
<1>2. (\A m : TableInv => /\ Cardinality(Awaited(m)) <= Cardinality(AsMuchAs(m))
                          /\ Cardinality(Awaited(m)) \in Nat)'
  BY <1>1, PTL
<1>3. QED
  BY <1>2

\* Fewer rules and fewer mappings to insert keep the count.
LEMMA FewerKeepCount ==
    ASSUME TableInv, TableInv', NEW m,
           Migrated(m)' \subseteq Migrated(m), Awaited(m)' \subseteq Awaited(m),
           Cardinality(Migrated(m)) + Cardinality(Awaited(m)) <= Cardinality(AsMuchAs(m))
    PROVE  Cardinality(Migrated(m)') + Cardinality(Awaited(m)') <= Cardinality(AsMuchAs(m))
<1>1. /\ IsFiniteSet(Migrated(m)) /\ Cardinality(Migrated(m)) \in Nat
      /\ IsFiniteSet(Awaited(m)) /\ Cardinality(Awaited(m)) \in Nat
      /\ Cardinality(AsMuchAs(m)) \in Nat
  BY CountsAreNumbers
<1>2. IsFiniteSet(Migrated(m)') /\ Cardinality(Migrated(m)') <= Cardinality(Migrated(m))
  BY <1>1, FS_Subset
<1>3. IsFiniteSet(Awaited(m)') /\ Cardinality(Awaited(m)') <= Cardinality(Awaited(m))
  BY <1>1, FS_Subset
<1>4. Cardinality(Migrated(m)') \in Nat /\ Cardinality(Awaited(m)') \in Nat
  BY <1>2, <1>3, FS_CardinalityType
<1>5. QED
  BY <1>1, <1>2, <1>3, <1>4

LEMMA InitRules == Init => RulesSafe
<1> SUFFICES ASSUME Init PROVE RulesSafe
  OBVIOUS
<1>1. rules = {} /\ nextRule = 1 /\ byHand = {} /\ todo = <<>> /\ proc = "down"
      /\ part \in {"rules", "retention", "models"}
  BY DEF Init, RulesInit
<1>2. TableInv
  BY <1>1, FS_EmptySet DEF TableInv
<1>3. TodoInv
  BY <1>1 DEF TodoInv
<1>4. ASSUME NEW m
      PROVE  Cardinality(Migrated(m)) + Cardinality(Awaited(m)) <= Cardinality(AsMuchAs(m))
  <2>1. Migrated(m) = {} /\ Awaited(m) = {}
    BY <1>1 DEF Migrated, Awaited, Remaining
  <2>2. Cardinality(AsMuchAs(m)) \in Nat
    BY <1>2, CountsAreNumbers
  <2>3. QED
    BY <2>1, <2>2, FS_EmptySet
<1>5. QED
  BY <1>1, <1>2, <1>3, <1>4 DEF RulesSafe, BackfillInv

\* The list of the migration has the mappings without a rule, each once.
LEMMA StartKeeps ==
    ASSUME RulesSafe, Start, UNCHANGED part
    PROVE  RulesSafe'
<1> DEFINE S == {m \in Mappings : ~HasRule(m)}
           q == InOrder(S)
<1>1. Rows(S)
  <2>1. S \subseteq Mappings
    OBVIOUS
  <2>2. IsFiniteSet(S)
    BY <2>1, MappingsAssumption, FS_Subset DEF Rows
  <2>3. QED
    BY <2>1, <2>2, MappingsAssumption DEF Rows
<1> DEFINE n == Cardinality(S)
<1> HIDE DEF S
<1>2. /\ n \in Nat /\ q \in Seq(S) /\ Len(q) = n
      /\ \A i, j \in 1..n : i < j => Precedes(q[i], q[j])
      /\ \A i, j \in 1..n : q[i] = q[j] => i = j
      /\ \A r \in S : \E i \in 1..n : q[i] = r
  BY <1>1, InOrderReturnsAll DEF Sorted
<1> HIDE DEF q, n
<1>3. /\ todo' = q /\ proc' = "migrating" /\ rules' = rules /\ nextRule' = nextRule
      /\ part' = part /\ byHand' = byHand
  BY DEF Start, MappingsWithoutRule, ruleVars, S, q
<1>4. TableInv'
  BY <1>3 DEF RulesSafe, TableInv
<1>5. q \in Seq(Mappings) /\ Remaining' = S
  <2>1. S \subseteq Mappings
    BY DEF S
  <2>2. q \in Seq(Mappings)
    BY <2>1, <1>2
  <2>3. Remaining' = {q[i] : i \in 1..n}
    BY <1>2, <1>3 DEF Remaining
  <2>4. QED
    BY <1>2, <2>2, <2>3
<1>6. TodoInv'
  BY <1>2, <1>3, <1>5 DEF RulesSafe, TodoInv
<1>7. ASSUME NEW m \in Mappings, m.pattern # EmptyPattern
      PROVE  /\ Cardinality(Migrated(m)') + Cardinality(Awaited(m)') <= Cardinality(AsMuchAs(m))
             /\ HasRule(m)' \/ m \in Remaining'
  <2>1. Migrated(m)' = Migrated(m) /\ (HasRule(m)' <=> HasRule(m))
    BY <1>3 DEF Migrated, HasRule
  <2>2. Awaited(m)' = S \cap AsMuchAs(m)
    BY <1>5 DEF Awaited
  <2>3. CASE HasRule(m)
    <3>1. Awaited(m)' = {}
      <4>1. ASSUME NEW k \in AsMuchAs(m)
            PROVE  HasRule(k)
        <5>1. k.pattern = m.pattern /\ k.target = m.target
          BY DEF AsMuchAs
        <5>2. QED
          BY <5>1, <2>3 DEF HasRule, Maps
      <4>2. QED
        BY <4>1, <2>2 DEF S
    <3>2. TableInv /\ Cardinality(Migrated(m)) + Cardinality(Awaited(m)) <= Cardinality(AsMuchAs(m))
      BY <1>7 DEF RulesSafe, BackfillInv
    <3>3. Migrated(m)' \subseteq Migrated(m) /\ Awaited(m)' \subseteq Awaited(m)
      BY <2>1, <3>1
    <3>4. Cardinality(Migrated(m)') + Cardinality(Awaited(m)') <= Cardinality(AsMuchAs(m))
      BY <3>2, <3>3, <1>4, FewerKeepCount
    <3>5. QED
      BY <2>1, <2>3, <3>4
  <2>4. CASE ~HasRule(m)
    <3>1. Migrated(m)' = {}
      <4>1. \A r \in Migrated(m) : HasRule(m)
        BY MigratedHasRule
      <4>2. QED
        BY <4>1, <2>1, <2>4
    <3>2. /\ Cardinality(Awaited(m)') <= Cardinality(AsMuchAs(m))
          /\ Cardinality(Awaited(m)') \in Nat
      <4>1. /\ Cardinality(Awaited(m))' <= Cardinality(AsMuchAs(m))'
            /\ Cardinality(Awaited(m))' \in Nat
        BY <1>4, CountsLater
      <4>3. Cardinality(AsMuchAs(m))' = Cardinality(AsMuchAs(m))
        BY DEF AsMuchAs
      <4>4. QED
        BY <4>1, <4>3
    <3>3. m \in S
      BY <2>4 DEF S
    <3>4. QED
      BY <3>1, <3>2, <3>3, <1>5, FS_EmptySet
  <2>5. QED
    BY <2>3, <2>4
<1>8. QED
  BY <1>3, <1>4, <1>6, <1>7 DEF RulesSafe, BackfillInv, AsMuchAs

\* A rule is inserted for the first mapping of the list, which leaves it.
LEMMA InsertKeeps ==
    ASSUME RulesSafe, InsertMappingRule, UNCHANGED part
    PROVE  RulesSafe'
<1> DEFINE h == Head(todo)
           new == WithId(PatternRule(h), nextRule)
<1>1. /\ todo # <<>> /\ todo' = Tail(todo) /\ CreatePolicy(PatternRule(h))
      /\ proc' = proc /\ edited' = edited /\ part' = part /\ byHand' = byHand
  BY DEF InsertMappingRule
<1>2. proc = "migrating"
  BY <1>1 DEF RulesSafe, TodoInv
<1>3. TableInv' /\ new \notin rules
  BY <1>1, CreateKeepsTable DEF RulesSafe
<1>4. new.id = nextRule /\ new.id \notin byHand
  BY WithIdIs DEF RulesSafe, TableInv
<1>5. rules' = rules \cup {new}
  BY <1>1 DEF CreatePolicy
<1>6. /\ todo \in Seq(Mappings) /\ Len(todo) \in Nat /\ Len(todo) > 0
      /\ \A i, j \in 1..Len(todo) : todo[i] = todo[j] => i = j
      /\ \A i, j \in 1..Len(todo) : i < j => Precedes(todo[i], todo[j])
  BY <1>1 DEF RulesSafe, TodoInv
<1>7. /\ h = todo[1] /\ h \in Mappings
      /\ todo' \in Seq(Mappings) /\ Len(todo') = Len(todo) - 1
      /\ \A i \in 1..Len(todo') : todo'[i] = todo[i + 1]
  BY <1>1, <1>6
<1> HIDE DEF h, new
<1>8. Remaining' = Remaining \ {h} /\ h \in Remaining
  <2>1. Remaining' = {todo[i + 1] : i \in 1..(Len(todo) - 1)}
    BY <1>7 DEF Remaining
  <2>2. \A i \in 2..Len(todo) : i - 1 \in 1..(Len(todo) - 1) /\ (i - 1) + 1 = i /\ todo[i] # todo[1]
    BY <1>6
  <2>3. Remaining' = {todo[i] : i \in 2..Len(todo)}
    BY <2>1, <2>2, <1>6
  <2>4. \A i \in 1..Len(todo) : i = 1 \/ i \in 2..Len(todo)
    BY <1>6
  <2>5. 1 \in 1..Len(todo) /\ \A i \in 2..Len(todo) : i \in 1..Len(todo)
    BY <1>6
  <2>6. Remaining = {todo[i] : i \in 2..Len(todo)} \cup {h}
    BY <2>4, <2>5, <1>6, <1>7 DEF Remaining
  <2>7. h \notin {todo[i] : i \in 2..Len(todo)}
    BY <2>2, <1>7
  <2>8. QED
    BY <2>3, <2>6, <2>7
<1>9. TodoInv'
  <2>1. \A i, j \in 1..Len(todo') : todo'[i] = todo'[j] => i = j
    BY <1>6, <1>7
  <2>2. ASSUME NEW i \in 1..Len(todo'), NEW j \in 1..Len(todo'), i < j
        PROVE  Precedes(todo'[i], todo'[j])
    <3>1. /\ i + 1 \in 1..Len(todo) /\ j + 1 \in 1..Len(todo) /\ i + 1 < j + 1
          /\ todo'[i] = todo[i + 1] /\ todo'[j] = todo[j + 1]
      BY <2>2, <1>6, <1>7
    <3>2. QED
      BY <3>1, <1>6
  <2>3. QED
    BY <2>1, <2>2, <1>1, <1>2, <1>7 DEF RulesSafe, TodoInv
<1>10. ASSUME NEW m \in Mappings, m.pattern # EmptyPattern
       PROVE  /\ Cardinality(Migrated(m)') + Cardinality(Awaited(m)') <= Cardinality(AsMuchAs(m))
              /\ HasRule(m)' \/ m \in Remaining'
  <2>1. /\ Cardinality(Migrated(m)) + Cardinality(Awaited(m)) <= Cardinality(AsMuchAs(m))
        /\ HasRule(m) \/ m \in Remaining
        /\ TableInv
    BY <1>2, <1>10 DEF RulesSafe, BackfillInv
  <2>2. h \in AsMuchAs(m) <=> Maps(new, m)
    BY <1>7, <1>10, RuleMaps DEF AsMuchAs, new
  <2>3. Awaited(m)' = Awaited(m) \ {h}
    BY <1>8 DEF Awaited, AsMuchAs
  <2>4. CASE h \in AsMuchAs(m)
    <3>1. Migrated(m)' = Migrated(m) \cup {new} /\ new \notin Migrated(m)
      BY <1>1, <1>3, <1>4, <1>5, <2>2, <2>4 DEF Migrated
    <3>2. h \in Awaited(m)
      BY <1>8, <2>4 DEF Awaited
    <3>3. /\ IsFiniteSet(Migrated(m)) /\ Cardinality(Migrated(m)) \in Nat
          /\ IsFiniteSet(Awaited(m)) /\ Cardinality(Awaited(m)) \in Nat
          /\ Cardinality(AsMuchAs(m)) \in Nat
      BY <2>1, CountsAreNumbers
    <3>4. Cardinality(Migrated(m)') = Cardinality(Migrated(m)) + 1
      BY <3>1, <3>3, FS_AddElement
    <3>5. Cardinality(Awaited(m)') = Cardinality(Awaited(m)) - 1
      BY <2>3, <3>2, <3>3, FS_RemoveElement
    <3>6. HasRule(m)'
      BY <1>5, <2>2, <2>4 DEF HasRule
    <3>7. QED
      BY <2>1, <3>3, <3>4, <3>5, <3>6
  <2>5. CASE h \notin AsMuchAs(m)
    <3>1. Migrated(m)' = Migrated(m)
      BY <1>1, <1>5, <2>2, <2>5 DEF Migrated
    <3>2. Awaited(m)' = Awaited(m)
      BY <2>3, <2>5 DEF Awaited
    <3>3. HasRule(m) => HasRule(m)'
      BY <1>5 DEF HasRule
    <3>4. m \in AsMuchAs(m)
      BY <1>10 DEF AsMuchAs
    <3>5. QED
      BY <2>1, <2>5, <3>1, <3>2, <3>3, <3>4, <1>8
  <2>6. QED
    BY <2>4, <2>5
<1>11. QED
  BY <1>1, <1>2, <1>3, <1>9, <1>10 DEF RulesSafe, BackfillInv, AsMuchAs

\* What an edit writes is its own, whatever source it gives: no rule of the migration is added.
LEMMA EditsKeep ==
    ASSUME RulesSafe, EditPolicies, UNCHANGED part
    PROVE  RulesSafe'
<1>1. /\ proc = "serving" /\ proc' = proc /\ edited' = TRUE /\ todo' = todo /\ part' = part
  BY DEF EditPolicies
<1> DEFINE Theirs == \A r \in rules' : r \in rules \/ r.id \in byHand'
<1>2. TableInv' /\ Theirs /\ byHand \subseteq byHand'
  <2>1. ASSUME NEW p \in Edits, CreatePolicy(p), byHand' = byHand \cup {nextRule}
        PROVE  TableInv' /\ Theirs
    <3>1. rules' = rules \cup {WithId(p, nextRule)}
      BY <2>1 DEF CreatePolicy
    <3>2. TableInv'
      BY <2>1, CreateKeepsTable DEF RulesSafe
    <3>3. WithId(p, nextRule).id = nextRule
      BY WithIdIs
    <3>4. QED
      BY <2>1, <3>1, <3>2, <3>3
  <2>2. ASSUME NEW r \in rules, NEW p \in Edits, UpdatePolicy(r.id, p),
               byHand' = byHand \cup {r.id}
        PROVE  TableInv' /\ Theirs
    <3>1. TableInv' /\ rules' \subseteq rules \cup {WithId(p, r.id)}
      BY <2>2, UpdateKeepsTable DEF RulesSafe
    <3>2. WithId(p, r.id).id = r.id
      BY WithIdIs
    <3>3. QED
      BY <2>2, <3>1, <3>2
  <2>3. ASSUME NEW r \in rules, DeletePolicy(r.id), byHand' = byHand
        PROVE  TableInv' /\ Theirs
    BY <2>3, DeleteKeepsTable DEF RulesSafe
  <2>4. QED
    BY <2>1, <2>2, <2>3 DEF EditPolicies
<1>3. TodoInv'
  BY <1>1 DEF RulesSafe, TodoInv
<1>4. ASSUME NEW m \in Mappings, m.pattern # EmptyPattern
      PROVE  Cardinality(Migrated(m)') + Cardinality(Awaited(m)') <= Cardinality(AsMuchAs(m))
  <2>1. Migrated(m)' \subseteq Migrated(m)
    BY <1>2 DEF Migrated
  <2>2. Awaited(m)' = Awaited(m)
    BY <1>1 DEF Awaited, Remaining, AsMuchAs
  <2>3. TableInv /\ Cardinality(Migrated(m)) + Cardinality(Awaited(m)) <= Cardinality(AsMuchAs(m))
    BY <1>4 DEF RulesSafe, BackfillInv
  <2>4. QED
    BY <1>2, <2>1, <2>2, <2>3, FewerKeepCount
<1>5. QED
  BY <1>1, <1>2, <1>3, <1>4 DEF RulesSafe, BackfillInv, AsMuchAs

\* The steps that leave the table alone: serving, a crash, and the other parts.
LEMMA RestKeeps ==
    ASSUME RulesSafe, UNCHANGED <<ruleVars, edited, byHand>>, part' \in {"rules", "retention", "models"},
           \/ proc = "migrating" /\ todo = <<>> /\ proc' = "serving" /\ todo' = todo
           \/ proc' = "down" /\ todo' = <<>>
           \/ proc' = proc /\ todo' = todo
    PROVE  RulesSafe'
<1>1. TableInv'
  BY DEF RulesSafe, TableInv, ruleVars
<1>2. TodoInv'
  <2>1. CASE todo' = todo
    BY <2>1 DEF RulesSafe, TodoInv
  <2>2. CASE todo' = <<>>
    BY <2>2 DEF RulesSafe, TodoInv
  <2>3. QED
    BY <2>1, <2>2
<1>3. ASSUME NEW m \in Mappings, m.pattern # EmptyPattern
      PROVE  /\ Cardinality(Migrated(m)') + Cardinality(Awaited(m)') <= Cardinality(AsMuchAs(m))
             /\ proc' = "migrating" => HasRule(m)' \/ m \in Remaining'
             /\ proc' = "serving" /\ ~edited' => HasRule(m)'
  <2>1. Migrated(m)' = Migrated(m) /\ (HasRule(m)' <=> HasRule(m))
    BY DEF Migrated, HasRule, ruleVars
  <2>2. Remaining' \subseteq Remaining /\ (todo' = todo => Remaining' = Remaining)
        /\ (todo = <<>> => Remaining = {})
    BY DEF Remaining
  <2>3. Awaited(m)' \subseteq Awaited(m)
    BY <2>2 DEF Awaited, AsMuchAs
  <2>4. /\ TableInv /\ Cardinality(Migrated(m)) + Cardinality(Awaited(m)) <= Cardinality(AsMuchAs(m))
        /\ proc = "migrating" => HasRule(m) \/ m \in Remaining
        /\ proc = "serving" /\ ~edited => HasRule(m)
    BY <1>3 DEF RulesSafe, BackfillInv
  <2>5. Cardinality(Migrated(m)') + Cardinality(Awaited(m)') <= Cardinality(AsMuchAs(m))
    BY <1>1, <2>1, <2>3, <2>4, FewerKeepCount
  <2>6. QED
    BY <2>1, <2>2, <2>4, <2>5
<1>4. QED
  BY <1>1, <1>2, <1>3 DEF RulesSafe, BackfillInv, AsMuchAs

LEMMA NextRules == RulesSafe /\ [Next]_vars => RulesSafe'
<1> SUFFICES ASSUME RulesSafe, [Next]_vars
             PROVE  RulesSafe'
  OBVIOUS
<1>1. part \in {"rules", "retention", "models"}
  BY DEF RulesSafe, TodoInv
<1>2. CASE Start /\ UNCHANGED part
  BY <1>2, StartKeeps
<1>3. CASE InsertMappingRule /\ UNCHANGED part
  BY <1>3, InsertKeeps
<1>4. CASE EditPolicies /\ UNCHANGED part
  BY <1>4, EditsKeep
<1>5. CASE (Serve \/ Crash) /\ UNCHANGED part
  <2>1. UNCHANGED <<ruleVars, edited, byHand>> /\ part' = part
    BY <1>5 DEF Serve, Crash
  <2>2. \/ proc = "migrating" /\ todo = <<>> /\ proc' = "serving" /\ todo' = todo
        \/ proc' = "down" /\ todo' = <<>>
    BY <1>5 DEF Serve, Crash
  <2>3. QED
    BY <1>1, <2>1, <2>2, RestKeeps
<1>6. CASE UNCHANGED <<part, ruleVars, startVars>>
  <2>1. UNCHANGED <<ruleVars, edited, byHand>> /\ part' = part /\ proc' = proc /\ todo' = todo
    BY <1>6 DEF startVars
  <2>2. QED
    BY <1>1, <2>1, RestKeeps
<1>7. QED
  BY <1>2, <1>3, <1>4, <1>5, <1>6 DEF Next, RulesNext, vars

LEMMA RulesHold == Spec => []RulesSafe
  BY InitRules, NextRules, PTL DEF Spec

(***************************************************************************)
(* The types of all three parts, and ids that are keys.                    *)
(***************************************************************************)
THEOREM AdministrationTypes == Spec => []TypeOK
<1>1. RulesSafe => /\ part \in {"rules", "retention", "models"}
                   /\ proc \in {"down", "migrating", "serving"}
                   /\ proc # "migrating" => todo = <<>>
                   /\ \A i \in DOMAIN todo : todo[i] \in Mappings
                   /\ nextRule > 0
                   /\ \A r \in rules : r.id \in 1..(nextRule - 1)
                   /\ \A r, s \in rules : r.id = s.id => r = s
  BY DEF RulesSafe, TableInv, TodoInv
<1>2. RetentionInv /\ RetentionTyped => RetentionTypeOK
  BY DEF RetentionInv, RetentionTyped, RetentionTypeOK
<1>3. RulesSafe /\ RetentionInv /\ RetentionTyped /\ ModelTyped => TypeOK
  BY <1>1, <1>2 DEF TypeOK, ModelTyped
<1>4. Spec => [](RetentionInv /\ RetentionTyped)
  BY InitRetention, NextRetention, InitRetentionTyped, NextRetentionTyped, PTL DEF Spec
<1>5. Spec => []ModelTyped
  BY InitModelTyped, NextModelTyped, PTL DEF Spec
<1>6. QED
  BY <1>3, <1>4, <1>5, RulesHold, PTL

(***************************************************************************)
(* However often the process starts and wherever its migration dies, it    *)
(* leaves no more rules of a pattern and target than mappings have them,   *)
(* and a server that listens has one of each until the rules are edited.   *)
(* Empty patterns are left out, and neither priority nor "enabled" is      *)
(* looked at: RulesKeepTheirPlaces does.                                   *)
(***************************************************************************)
THEOREM BackfillIsExactAlways == Spec => []BackfillIsExact
<1>1. RulesSafe => BackfillIsExact
  <2> SUFFICES ASSUME RulesSafe, NEW m \in Mappings, m.pattern # EmptyPattern
               PROVE  /\ Cardinality(Migrated(m)) <= Cardinality(AsMuchAs(m))
                      /\ proc = "serving" /\ ~edited => HasRule(m)
    BY DEF BackfillIsExact
  <2>1. /\ Cardinality(Migrated(m)) \in Nat /\ Cardinality(Awaited(m)) \in Nat
        /\ Cardinality(AsMuchAs(m)) \in Nat
    BY CountsAreNumbers DEF RulesSafe
  <2>2. QED
    BY <2>1 DEF RulesSafe, BackfillInv
<1>2. QED
  BY <1>1, RulesHold, PTL

-----------------------------------------------------------------------------
(***************************************************************************)
(* Places.  A rule that no edit wrote is the rule of some mapping; as long *)
(* as there was no edit, the mappings that stand alone get their rules in  *)
(* their order, over any number of starts: one has its rule before, and    *)
(* with a smaller id than, each that it precedes.                          *)
(***************************************************************************)
InTurn(m, n) ==
    \A s \in Migrated(n) : /\ Migrated(m) # {}
                           /\ \A r \in Migrated(m) : r.id < s.id

PlacesInv ==
    /\ edits \in Nat
    /\ \A r \in rules : r.id \in byHand \/ \E n \in Mappings : r = WithId(PatternRule(n), r.id)
    /\ edits = 0 => byHand = {} /\ ~edited
    /\ edits = 0 => \A m, n \in Mappings : Alone(m) /\ Alone(n) /\ Precedes(m, n) => InTurn(m, n)

LEMMA InitPlaces == Init => PlacesInv
  BY DEF Init, RulesInit, PlacesInv, InTurn, Migrated

\* The rule of a mapping that stands alone is its own.
LEMMA AloneOwnsIts ==
    ASSUME PlacesInv, NEW m \in Mappings, Alone(m), NEW r \in Migrated(m)
    PROVE  r = WithId(PatternRule(m), r.id)
<1>1. PICK n \in Mappings : r = WithId(PatternRule(n), r.id)
  BY DEF PlacesInv, Migrated
<1>2. Maps(WithId(PatternRule(n), r.id), m)
  BY <1>1 DEF Migrated
<1>3. n.pattern = m.pattern /\ n.target = m.target
  BY <1>2, RuleMaps DEF Alone
<1>4. n = m
  BY <1>3 DEF Alone, AsMuchAs
<1>5. QED
  BY <1>1, <1>4

\* With no edits, the query finds a rule that the migration inserted.
LEMMA FoundIsMigrated ==
    ASSUME PlacesInv, edits = 0, NEW m, HasRule(m)
    PROVE  Migrated(m) # {}
  BY DEF PlacesInv, HasRule, Migrated

\* An inserted rule is the first of its mapping, and the last of all.
LEMMA InsertKeepsPlaces ==
    ASSUME RulesSafe, PlacesInv, InsertMappingRule
    PROVE  PlacesInv'
<1> DEFINE h == Head(todo)
           new == WithId(PatternRule(h), nextRule)
<1>1. /\ todo # <<>> /\ rules' = rules \cup {new}
      /\ UNCHANGED <<proc, edits, edited, byHand>>
  BY DEF InsertMappingRule, CreatePolicy
<1>2. proc = "migrating" /\ todo \in Seq(Mappings)
      /\ \A i, j \in 1..Len(todo) : i < j => Precedes(todo[i], todo[j])
  BY <1>1 DEF RulesSafe, TodoInv
<1>3. h \in Mappings /\ h = todo[1] /\ Len(todo) \in Nat /\ Len(todo) > 0
  BY <1>1, <1>2
<1>4. new.id = nextRule /\ new = WithId(PatternRule(h), new.id) /\ new.id \notin byHand
  BY WithIdIs DEF RulesSafe, TableInv
<1>5. ASSUME NEW m, m.pattern # EmptyPattern
      PROVE  Migrated(m)' = Migrated(m) \cup (IF h \in AsMuchAs(m) THEN {new} ELSE {})
  <2>1. Maps(new, m) <=> h \in AsMuchAs(m)
    BY <1>3, <1>5, RuleMaps DEF AsMuchAs
  <2> HIDE DEF new, h
  <2>2. QED
    BY <2>1, <1>1, <1>4 DEF Migrated
<1> HIDE DEF new, h
<1>6. ASSUME edits = 0, NEW m \in Mappings, NEW n \in Mappings, Alone(m), Alone(n),
             Precedes(m, n), NEW s \in Migrated(n)'
      PROVE  /\ Migrated(m)' # {}
             /\ \A r \in Migrated(m)' : r.id < s.id
  <2>1. /\ Migrated(m)' = Migrated(m) \cup (IF h = m THEN {new} ELSE {})
        /\ Migrated(n)' = Migrated(n) \cup (IF h = n THEN {new} ELSE {})
    BY <1>3, <1>5, <1>6 DEF Alone
  <2>2. m # n /\ ~Precedes(n, m)
    BY <1>6, MappingsAssumption, PrecedesIsAnOrder
  <2>3. InTurn(m, n)
    BY <1>6 DEF PlacesInv
  <2>4. ASSUME h = m
        PROVE  Migrated(m) = {}
    <3>1. TableInv /\ h \in Awaited(m) /\ AsMuchAs(m) = {m}
          /\ Cardinality(Migrated(m)) + Cardinality(Awaited(m)) <= Cardinality(AsMuchAs(m))
      <4>1. AsMuchAs(m) = {m} /\ m.pattern # EmptyPattern
        BY <1>6 DEF Alone
      <4>2. 1 \in 1..Len(todo)
        BY <1>3
      <4>3. h \in Awaited(m)
        BY <4>1, <4>2, <1>3, <2>4 DEF Awaited, Remaining
      <4>4. QED
        BY <4>1, <4>3 DEF RulesSafe, BackfillInv
    <3>2. Awaited(m) = {m}
      BY <3>1, <2>4 DEF Awaited
    <3>3. Cardinality({m}) = 1
      BY FS_Singleton
    <3>4. IsFiniteSet(Migrated(m)) /\ Cardinality(Migrated(m)) \in Nat
      BY <3>1, CountsAreNumbers
    <3>5. Cardinality(Migrated(m)) = 0
      BY <3>1, <3>2, <3>3, <3>4
    <3>6. QED
      BY <3>4, <3>5, FS_EmptySet
  <2>5. CASE s \in Migrated(n)
    <3>1. Migrated(m) # {} /\ \A r \in Migrated(m) : r.id < s.id
      BY <2>3, <2>5 DEF InTurn
    <3>2. QED
      BY <2>1, <2>4, <3>1
  <2>6. CASE h = n /\ s = new
    <3>1. HasRule(m)
      <4>1. HasRule(m) \/ m \in Remaining
        BY <1>2, <1>6 DEF RulesSafe, BackfillInv, Alone
      <4>2. ASSUME m \in Remaining
            PROVE  FALSE
        <5>1. PICK i \in 1..Len(todo) : m = todo[i]
          BY <4>2 DEF Remaining
        <5>2. i # 1
          BY <5>1, <2>2, <2>6, <1>3
        <5>3. Precedes(todo[1], todo[i])
          BY <5>1, <5>2, <1>2, <1>3
        <5>4. QED
          BY <5>1, <5>3, <2>2, <2>6, <1>3
      <4>3. QED
        BY <4>1, <4>2
    <3>2. Migrated(m) # {}
      BY <3>1, <1>6, FoundIsMigrated
    <3>3. \A r \in Migrated(m) : r.id < nextRule
      BY DEF Migrated, RulesSafe, TableInv
    <3>4. QED
      BY <2>1, <2>2, <2>6, <3>2, <3>3, <1>4
  <2>7. QED
    BY <2>1, <2>5, <2>6, <1>6
<1>7. \A r \in rules' : r.id \in byHand' \/ \E n \in Mappings : r = WithId(PatternRule(n), r.id)
  <2>1. ASSUME NEW r \in rules'
        PROVE  r.id \in byHand' \/ \E n \in Mappings : r = WithId(PatternRule(n), r.id)
    <3>1. CASE r = new
      BY <3>1, <1>3, <1>4
    <3>2. CASE r \in rules
      BY <3>2, <1>1 DEF PlacesInv
    <3>3. QED
      BY <2>1, <3>1, <3>2, <1>1
  <2>2. QED
    BY <2>1
<1>8. edits' \in Nat /\ (edits' = 0 => byHand' = {} /\ ~edited') /\ edits' = edits
  BY <1>1 DEF PlacesInv
<1>9. edits' = 0 => \A m, n \in Mappings :
                       Alone(m)' /\ Alone(n)' /\ Precedes(m, n) => InTurn(m, n)'
  BY <1>6, <1>8 DEF InTurn, Alone, AsMuchAs
<1>10. QED
  BY <1>7, <1>8, <1>9 DEF PlacesInv

\* After an edit only what it did not write is said of.
LEMMA EditKeepsPlaces ==
    ASSUME PlacesInv, EditPolicies
    PROVE  PlacesInv'
<1>1. edits' = edits + 1 /\ edits' \in Nat /\ edits' # 0
  BY DEF EditPolicies, PlacesInv
<1> DEFINE Theirs == \A r \in rules' : r \in rules \/ r.id \in byHand'
<1>2. Theirs
  <2>1. ASSUME NEW p \in Edits, CreatePolicy(p), byHand' = byHand \cup {nextRule}
        PROVE  Theirs
    BY <2>1, WithIdIs DEF CreatePolicy
  <2>2. ASSUME NEW r \in rules, NEW p \in Edits, UpdatePolicy(r.id, p),
               byHand' = byHand \cup {r.id}
        PROVE  Theirs
    <3>1. WithId(p, r.id).id = r.id
      BY WithIdIs
    <3>2. \A x \in rules' : x = WithId(p, r.id) \/ x \in rules
      BY <2>2 DEF UpdatePolicy
    <3>3. QED
      BY <2>2, <3>1, <3>2
  <2>3. ASSUME NEW r \in rules, DeletePolicy(r.id), byHand' = byHand
        PROVE  Theirs
    BY <2>3 DEF DeletePolicy
  <2>4. QED
    BY <2>1, <2>2, <2>3 DEF EditPolicies
<1>3. byHand \subseteq byHand'
  BY DEF EditPolicies
<1>4. QED
  BY <1>1, <1>2, <1>3 DEF PlacesInv

LEMMA NextPlaces == RulesSafe /\ PlacesInv /\ [Next]_vars => PlacesInv'
<1> SUFFICES ASSUME RulesSafe, PlacesInv, [Next]_vars
             PROVE  PlacesInv'
  OBVIOUS
<1>1. ASSUME UNCHANGED <<ruleVars, edits, byHand>>, edited' => edited
      PROVE  PlacesInv'
  <2>1. \A m : Migrated(m)' = Migrated(m) /\ (Alone(m)' <=> Alone(m))
    BY <1>1 DEF Migrated, Alone, AsMuchAs, ruleVars
  <2>2. QED
    <3>1. \A m, n : InTurn(m, n)' <=> InTurn(m, n)
      BY <2>1 DEF InTurn
    <3>2. /\ \A r \in rules' : r.id \in byHand' \/ \E n \in Mappings : r = WithId(PatternRule(n), r.id)
          /\ edits' \in Nat
      BY <1>1 DEF PlacesInv, ruleVars
    <3>3. edits' = 0 => \A m, n \in Mappings :
                           Alone(m)' /\ Alone(n)' /\ Precedes(m, n) => InTurn(m, n)'
      BY <1>1, <2>1, <3>1 DEF PlacesInv
    <3>4. edits' = 0 => byHand' = {} /\ ~edited'
      BY <1>1, Zenon DEF PlacesInv
    <3>5. QED
      BY <3>2, <3>3, <3>4 DEF PlacesInv
<1>2. CASE Start \/ Serve \/ Crash
  BY <1>1, <1>2 DEF Start, Serve, Crash
<1>3. CASE UNCHANGED <<ruleVars, startVars>>
  BY <1>1, <1>3 DEF startVars
<1>4. QED
  BY <1>2, <1>3, InsertKeepsPlaces, EditKeepsPlaces DEF Next, RulesNext, vars

(***************************************************************************)
(* A mapping that shares its pattern and target with no other has, if it   *)
(* has one, a rule of its own, with its priority and enabled if it is; and *)
(* as long as no rule was edited, the rules of such mappings are there in  *)
(* the order of the mappings, wherever the migrations before died.         *)
(***************************************************************************)
THEOREM RulesKeepTheirPlaces == Spec => []RulesKeepPlaces
<1>1. RulesSafe /\ PlacesInv => RulesKeepPlaces
  <2> SUFFICES ASSUME RulesSafe, PlacesInv, NEW m \in Mappings, Alone(m)
               PROVE  /\ \A r \in Migrated(m) : r.priority = m.priority /\ r.enabled = m.enabled
                      /\ edits = 0 =>
                           /\ proc = "serving" => Cardinality(Migrated(m)) = 1
                           /\ \A n \in Mappings : Alone(n) /\ Precedes(m, n) =>
                                \A r \in Migrated(m), s \in Migrated(n) : Precedes(r, s)
    BY DEF RulesKeepPlaces
  <2>1. \A k \in Mappings : Alone(k) =>
          \A r \in Migrated(k) : r.priority = k.priority /\ r.enabled = k.enabled
    <3>1. \A k, id : /\ WithId(PatternRule(k), id).priority = k.priority
                     /\ WithId(PatternRule(k), id).enabled = k.enabled
      BY DEF WithId, PatternRule
    <3>2. QED
      BY <3>1, AloneOwnsIts
  <2>2. ASSUME edits = 0, proc = "serving"
        PROVE  Cardinality(Migrated(m)) = 1
    <3>1. HasRule(m) /\ TableInv /\ AsMuchAs(m) = {m}
          /\ Cardinality(Migrated(m)) + Cardinality(Awaited(m)) <= Cardinality(AsMuchAs(m))
      BY <2>2 DEF RulesSafe, BackfillInv, PlacesInv, Alone
    <3>2. Migrated(m) # {}
      BY <2>2, <3>1, FoundIsMigrated
    <3>3. /\ IsFiniteSet(Migrated(m)) /\ Cardinality(Migrated(m)) \in Nat
          /\ Cardinality(Awaited(m)) \in Nat
      BY <3>1, CountsAreNumbers
    <3>4. Cardinality(Migrated(m)) # 0 /\ Cardinality({m}) = 1
      BY <3>2, <3>3, FS_EmptySet, FS_Singleton
    <3>5. QED
      BY <3>1, <3>3, <3>4
  <2>3. ASSUME edits = 0, NEW n \in Mappings, Alone(n), Precedes(m, n),
               NEW r \in Migrated(m), NEW s \in Migrated(n)
        PROVE  Precedes(r, s)
    <3>1. r.priority = m.priority /\ s.priority = n.priority
      BY <2>1, <2>3
    <3>2. r.id < s.id
      BY <2>3 DEF PlacesInv, InTurn
    <3>3. QED
      BY <2>3, <3>1, <3>2 DEF Precedes
  <2>4. QED
    BY <2>1, <2>2, <2>3
<1>2. QED
  BY <1>1, InitPlaces, NextPlaces, RulesHold, InitRules, NextRules, PTL DEF Spec

=============================================================================
