---------------------------- MODULE MCAdministration ----------------------------
(***************************************************************************)
(* Administration with the mappings, updates and lists below.              *)
(***************************************************************************)
EXTENDS Administration, TLC

Mapping(id, priority, pattern, target, enabled) ==
    [id |-> id, priority |-> priority, pattern |-> pattern, target |-> target, enabled |-> enabled]

OnlyGpt == [valid |-> TRUE, of |-> {"gpt"}]
BrokenPattern == [valid |-> FALSE, of |-> {}]

\* Two rows that say the same, one whose pattern is no expression, one without, one disabled.
MCMappings == {
    Mapping(1, 2, OnlyGpt, "m1", TRUE),
    Mapping(2, 1, BrokenPattern, "m2", TRUE),
    Mapping(3, 1, OnlyGpt, "m1", TRUE),
    Mapping(4, 3, EmptyPattern, "m3", TRUE),
    Mapping(5, 1, OnlyGpt, "m2", FALSE) }

\* A rule like the one of mapping 1 or 3, of the console and with the migration's source.
ByEditor ==
    [priority |-> 1, enabled |-> FALSE, source |-> "native",
     match |-> [model |-> OnlyGpt], actions |-> [rewrite_model |-> "m1"]]

MCEdits == {ByEditor, [ByEditor EXCEPT !.source = "model_mapping"]}

\* retention_days is 30 in the program, and the default of the loop as well.
MCDefaults == [retention_days |-> "2", request_timeout |-> "90"]

MCNumber == ("0" :> 0) @@ ("1" :> 1) @@ ("2" :> 2) @@ ("30" :> 30) @@ ("90" :> 90)

\* A shorter retention and timeout; retention off, and an unknown key.
MCUpdates ==
    ("short" :> [retention_days |-> "1", request_timeout |-> "30"])
    @@ ("off" :> [retention_days |-> "0", color |-> "dark"])

MCLists == {{}, {"m1"}, {"m1", "m2"}}

MCRequested == {"m1", "m2", "gpt"}

MCAlias == [gpt |-> "key"]

=============================================================================
