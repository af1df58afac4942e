------------------------------ MODULE PolicyRules ------------------------------
(***************************************************************************)
(* The policy rules: the table policy_rules (internal/db/policies.go), the *)
(* legacy table model_mappings and its backfill at start (migrations.go),  *)
(* and the evaluation of rules (internal/policy/evaluator.go).             *)
(*                                                                         *)
(* A rule has an id, a priority, a flag "enabled", what it matches, its    *)
(* actions and its source.  A match is a function on the attributes it     *)
(* names; for "model" its value is the pattern, [valid |-> is it a regular *)
(* expression, of |-> the models it matches].  Actions are a function on   *)
(* the categories the rule decides; "add_tags" has a sequence of tags.     *)
(*                                                                         *)
(* The module is a component: SQLite runs one statement at a time over one *)
(* connection, and each operation below is one statement.                  *)
(***************************************************************************)
EXTENDS Integers, Sequences, FiniteSets

CONSTANT Mappings   \* rows of model_mappings: nothing writes them any more

\* An id is a key of its table, a priority an integer.
Rows(S) ==
    /\ IsFiniteSet(S)
    /\ \A r \in S : r.id \in Nat /\ r.priority \in Int
    /\ \A r, s \in S : r.id = s.id => r = s

ASSUME MappingsAssumption ==
    /\ Rows(Mappings)
    /\ \A m \in Mappings : DOMAIN m = {"id", "priority", "pattern", "target", "enabled"}

VARIABLES
    rules,      \* rows of policy_rules
    nextRule    \* the next id; AUTOINCREMENT uses none twice

ruleVars == <<rules, nextRule>>

RulesInit == rules = {} /\ nextRule = 1

WithId(p, id) ==
    [id |-> id, priority |-> p.priority, enabled |-> p.enabled, match |-> p.match,
     actions |-> p.actions, source |-> p.source]

CreateWithoutNewId(p) == \* mutant: the id is not used up
    /\ rules' = rules \cup {WithId(p, nextRule)}
    /\ UNCHANGED nextRule

\* CreatePolicy; p is the row but for its id.
CreatePolicy(p) ==
    /\ rules' = rules \cup {WithId(p, nextRule)}
    /\ nextRule' = nextRule + 1

\* UpdatePolicy: the whole row is replaced; an id that is not there is no error.
UpdatePolicy(id, p) ==
    /\ rules' = {IF r.id = id THEN WithId(p, id) ELSE r : r \in rules}
    /\ UNCHANGED nextRule

DeletePolicy(id) ==
    /\ rules' = {r \in rules : r.id # id}
    /\ UNCHANGED nextRule

\* ORDER BY priority ASC, id ASC.
Precedes(r, s) == r.priority < s.priority \/ (r.priority = s.priority /\ r.id < s.id)

InOrder(S) ==
    CHOOSE s \in [1..Cardinality(S) -> S] : \A i, j \in DOMAIN s : i < j => Precedes(s[i], s[j])

GetEnabledPolicies == InOrder({r \in rules : r.enabled})

-----------------------------------------------------------------------------
(***************************************************************************)
(* backfillModelMappingsIntoPolicies: first the query for the mappings     *)
(* that have no rule of their pattern, target and source, then an insert   *)
(* for each of them; the process may die between two.                      *)
(***************************************************************************)
EmptyPattern == [valid |-> TRUE, of |-> {}]  \* "": JSON leaves it out, the rule matches all

PatternRuleEnabled(m) == \* mutant: the rule is enabled, whatever the mapping is
    [priority |-> m.priority, enabled |-> TRUE, source |-> "model_mapping",
     match |-> [a \in {"model"} \ (IF m.pattern = EmptyPattern THEN {"model"} ELSE {}) |-> m.pattern],
     actions |-> [rewrite_model |-> m.target]]

PatternRule(m) ==
    [priority |-> m.priority, enabled |-> m.enabled, source |-> "model_mapping",
     match |-> [a \in {"model"} \ (IF m.pattern = EmptyPattern THEN {"model"} ELSE {}) |-> m.pattern],
     actions |-> [rewrite_model |-> m.target]]

\* What the query compares: neither the priority nor "enabled".
Maps(r, m) ==
    /\ r.source = "model_mapping"
    /\ "model" \in DOMAIN r.match /\ r.match["model"] = m.pattern
    /\ "rewrite_model" \in DOMAIN r.actions /\ r.actions["rewrite_model"] = m.target

HasRule(m) == \E r \in rules : Maps(r, m)

EveryMapping == \* mutant: the query has no WHERE NOT EXISTS
    InOrder(Mappings)

MappingsWithoutRule == InOrder({m \in Mappings : ~HasRule(m)})

-----------------------------------------------------------------------------
\* ruleMatches, but for what an invalid pattern does.
RuleMatches(match, attrs) ==
    \A a \in DOMAIN match :
        IF a = "model" THEN attrs[a] \in match[a].of ELSE attrs[a] = match[a]

(***************************************************************************)
(* The pattern is looked at once the protocol matched, and an invalid one  *)
(* is an error of the whole evaluation.                                    *)
(***************************************************************************)
MatchFails(match, attrs) ==
    /\ "protocol" \in DOMAIN match => match["protocol"] = attrs["protocol"]
    /\ "model" \in DOMAIN match /\ ~match["model"].valid

EvaluationFails(ordered, attrs) ==
    \E i \in DOMAIN ordered : MatchFails(ordered[i].match, attrs)

Tags(actions) == IF "add_tags" \in DOMAIN actions THEN actions["add_tags"] ELSE <<>>

TakeLatest(effective, actions) == \* mutant: a later rule overrides an earlier one
    [a \in DOMAIN effective \cup DOMAIN actions |->
        IF a \in DOMAIN actions THEN actions[a] ELSE effective[a]]

\* The first rule that decides a category has it; tags are collected.
Take(effective, actions) ==
    [a \in DOMAIN effective \cup DOMAIN actions |->
        CASE a = "add_tags" -> Tags(effective) \o Tags(actions)
          [] a # "add_tags" /\ a \in DOMAIN effective -> effective[a]
          [] OTHER -> actions[a]]

NoActions == [a \in {} |-> TRUE]

\* EvaluateMatchAttributes: the effective actions.
EffectiveActions(ordered, attrs) ==
    LET effective[n \in 0..Len(ordered)] ==
          IF n = 0 THEN NoActions
          ELSE IF RuleMatches(ordered[n].match, attrs)
               THEN Take(effective[n - 1], ordered[n].actions)
               ELSE effective[n - 1]
    IN  effective[Len(ordered)]

\* AttributesFromCanonicalRequest; a client's name and tag are other headers.
Attributes(req) ==
    [protocol |-> req.protocol, model |-> req.model, stream |-> req.stream,
     has_tools |-> req.hasTools, has_reasoning |-> req.hasReasoning,
     session_present |-> req.session # ""]

\* applyActions.
ApplyActions(req, actions) ==
    LET Decides(a) == a \in DOMAIN actions
        denied == Decides("allow_tools") /\ ~actions["allow_tools"]
    IN  [req EXCEPT
           !.model = IF Decides("rewrite_model") THEN actions["rewrite_model"] ELSE @,
           !.hasReasoning = IF Decides("set_reasoning") THEN actions["set_reasoning"] ELSE @,
           !.hasTools = IF Decides("allow_tools") THEN actions["allow_tools"] ELSE @,
           !.tools = IF denied THEN <<>> ELSE @,
           !.choice = IF denied THEN "" ELSE @,
           !.tags = @ \o Tags(actions)]

=============================================================================
