----------------------------- MODULE Administration -----------------------------
(***************************************************************************)
(* The parts of the program that the console administers: the policy rules *)
(* with the migration that fills them at every start, the settings with    *)
(* what they govern, and the list of models.                               *)
(*                                                                         *)
(* The three share no state and none reads another's, so that a behaviour  *)
(* is any interleaving of one of each, and a property of one part holds of *)
(* it if it holds where the others rest: "part" says which one moves.      *)
(***************************************************************************)
EXTENDS PolicyRules, Retention, ModelService

CONSTANTS
    Edits,      \* what is put in place of a rule, or added, with any source
    MaxEdits,   \* bound on its edits
    MaxStarts   \* bound on the starts of the process

ASSUME AdministrationAssumption == MaxEdits \in Nat /\ MaxStarts \in Nat

VARIABLES
    part,    \* the part that moves
    proc,    \* "down", "migrating" or "serving"
    todo,    \* the mappings that the migration still has to insert
    edits, starts,
    edited,     \* were the rules edited since the migration? (history)
    byHand      \* ids of the rules that an edit wrote (history)

startVars == <<proc, todo, edits, starts, edited, byHand>>
vars == <<part, ruleVars, startVars, retentionVars, modelVars>>

TypeOK ==
    /\ part \in {"rules", "retention", "models"}
    /\ proc \in {"down", "migrating", "serving"}
    /\ proc # "migrating" => todo = <<>>
    /\ \A i \in DOMAIN todo : todo[i] \in Mappings
    /\ nextRule > 0
    /\ \A r \in rules : r.id \in 1..(nextRule - 1)
    /\ \A r, s \in rules : r.id = s.id => r = s
    /\ RetentionTypeOK
    /\ ModelTypeOK

Init ==
    /\ part \in {"rules", "retention", "models"}
    /\ RulesInit
    /\ proc = "down"
    /\ todo = <<>>
    /\ edits = 0
    /\ starts = 0
    /\ edited = FALSE
    /\ byHand = {}
    /\ RetentionInit
    /\ ModelInit
    /\ part # "models" => offer = {}  \* one initial state of the part, as it rests

-----------------------------------------------------------------------------
\* main opens the database and migrates it: first the query of the backfill.
Start ==
    /\ proc = "down"
    /\ starts < MaxStarts
    /\ starts' = starts + 1
    /\ proc' = "migrating"
    /\ todo' = MappingsWithoutRule
    /\ edited' = FALSE
    /\ UNCHANGED <<ruleVars, edits, byHand>>

\* The insert for one mapping; one that fails is Crash.
InsertMappingRule ==
    /\ todo # <<>>
    /\ CreatePolicy(PatternRule(Head(todo)))
    /\ todo' = Tail(todo)
    /\ UNCHANGED <<proc, edits, starts, edited, byHand>>

\* The migration is done; the server listens.
Serve ==
    /\ proc = "migrating"
    /\ todo = <<>>
    /\ proc' = "serving"
    /\ UNCHANGED <<ruleVars, todo, edits, starts, edited, byHand>>

\* The process ends, or log.Fatalf ends it: an inserted rule stays.
Crash ==
    /\ proc # "down"
    /\ proc' = "down"
    /\ todo' = <<>>
    /\ UNCHANGED <<ruleVars, edits, starts, edited, byHand>>

(***************************************************************************)
(* POST, PUT and DELETE /admin/policies: a row is stored as it was sent,   *)
(* its source too; the editor of the console sends none, and then it is    *)
(* "native".                                                               *)
(***************************************************************************)
EditPolicies ==
    /\ proc = "serving"
    /\ edits < MaxEdits
    /\ edits' = edits + 1
    /\ edited' = TRUE
    /\ \/ \E p \in Edits : CreatePolicy(p) /\ byHand' = byHand \cup {nextRule}
       \/ \E r \in rules, p \in Edits : UpdatePolicy(r.id, p) /\ byHand' = byHand \cup {r.id}
       \/ \E r \in rules : DeletePolicy(r.id) /\ UNCHANGED byHand
    /\ UNCHANGED <<proc, todo, starts>>

RulesNext == Start \/ InsertMappingRule \/ Serve \/ Crash \/ EditPolicies

Next ==
    \/ /\ part = "rules" /\ RulesNext
       /\ UNCHANGED <<part, retentionVars, modelVars>>
    \/ /\ part = "retention" /\ RetentionNext
       /\ UNCHANGED <<part, ruleVars, startVars, modelVars>>
    \/ /\ part = "models" /\ ModelNext
       /\ UNCHANGED <<part, ruleVars, startVars, retentionVars>>

Spec == Init /\ [][Next]_vars

\* The fairness of Retention, where it is the one that moves.
FairSpec == Spec /\ (part = "retention" => RetentionFairness)

-----------------------------------------------------------------------------
\* Rules of m's pattern and target that the migration inserted, and no edit wrote.
Migrated(m) == {r \in rules : Maps(r, m) /\ r.id \notin byHand}

AsMuchAs(m) == {n \in Mappings : n.pattern = m.pattern /\ n.target = m.target}

Alone(m) == m.pattern # EmptyPattern /\ AsMuchAs(m) = {m}

(***************************************************************************)
(* However often the process is started, wherever it died in between and   *)
(* whatever was edited, the migration leaves no more rules for a mapping   *)
(* than there are mappings with its pattern and target, and a server that  *)
(* listens has one, until the rules are edited: a rule of its pattern and  *)
(* target, of any priority, enabled or not.  A mapping with an empty       *)
(* pattern is left out: its rule is not found again, and each start adds   *)
(* another.                                                                *)
(***************************************************************************)
BackfillIsExact ==
    \A m \in Mappings : m.pattern # EmptyPattern =>
        /\ Cardinality(Migrated(m)) <= Cardinality(AsMuchAs(m))
        /\ proc = "serving" /\ ~edited => HasRule(m)

(***************************************************************************)
(* Of a mapping that shares its pattern and target with no other, the rule *)
(* is its own: it has its priority, is enabled if the mapping is, and as   *)
(* long as no rule was ever edited it is there when the server listens,    *)
(* and the rules of two such mappings are in the order of the mappings,    *)
(* also if they were inserted in different starts.  Mappings that share    *)
(* them have no such rule each: if the process dies between their inserts, *)
(* the one of the first is taken for the others' too.                      *)
(***************************************************************************)
RulesKeepPlaces ==
    \A m \in Mappings : Alone(m) =>
        /\ \A r \in Migrated(m) : r.priority = m.priority /\ r.enabled = m.enabled
        /\ edits = 0 =>
             /\ proc = "serving" => Cardinality(Migrated(m)) = 1
             /\ \A n \in Mappings : Alone(n) /\ Precedes(m, n) =>
                  \A r \in Migrated(m), s \in Migrated(n) : Precedes(r, s)

=============================================================================
