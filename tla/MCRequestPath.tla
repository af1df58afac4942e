----------------------------- MODULE MCRequestPath -----------------------------
(***************************************************************************)
(* RequestPath with the requests and policies below: one conversation, "s".*)
(***************************************************************************)
EXTENDS RequestPath, TLC

Small == [kind |-> "base64", allowed |-> TRUE, size |-> 2, data |-> "512KB"]
Large == [kind |-> "base64", allowed |-> TRUE, size |-> 4, data |-> "1MB"]
Foreign == [kind |-> "base64", allowed |-> FALSE, size |-> 1, data |-> "256KB"]
Blank == [kind |-> "base64", allowed |-> TRUE, size |-> 0, data |-> ""]
Link == [kind |-> "url", allowed |-> TRUE, size |-> 0, data |-> "https"]
Nowhere == [kind |-> "url", allowed |-> TRUE, size |-> 0, data |-> ""]

Shout == [id |-> "c1", name |-> "shout"]
Unnamed == [id |-> "c2", name |-> ""]

Part(src) == [type |-> "image_url", source |-> src]
WithParts(parts) == [Message("user", <<>>, <<>>, "") EXCEPT !.parts = parts]

OpenAI(header, session, tools, choice, messages) ==
    [protocol |-> "openai", header |-> header, historical |-> FALSE,
     model |-> "m1", stream |-> TRUE, session |-> session,
     tools |-> tools, choice |-> choice, messages |-> messages]

Anthropic(header, session, thinking, system, messages) ==
    [protocol |-> "anthropic", header |-> header, historical |-> FALSE,
     model |-> "m1", stream |-> FALSE, session |-> session, system |-> system,
     tools |-> <<"shout">>, choice |-> "auto", thinking |-> thinking, messages |-> messages]

Said(role, content) == [role |-> role, content |-> content]

MCClientRequests == {
    \* the result of a call, after a history with a call without a name
    OpenAI("s", "", <<"shout">>, "auto",
           <<Message("assistant", <<>>, <<Unnamed, Shout>>, ""),
             Message("tool", <<"done">>, <<>>, "c1")>>),
    \* the session in the body, text around images
    OpenAI("", "s", <<>>, NoChoice,
           <<WithParts(<<Text(<<"look">>), Part(Small), Part(Link), Text(<<"here">>)>>)>>),
    \* an image alone
    OpenAI("s", "", <<>>, "required", <<WithParts(<<Part(Link), Part(Blank)>>)>>),
    \* past the policies, by X-Replay-Mode
    [OpenAI("s", "", <<"shout">>, "auto",
            <<Message("system", <<"short">>, <<>>, ""), Message("user", <<"go">>, <<>>, "")>>)
      EXCEPT !.historical = TRUE, !.model = "gpt"],
    \* refused: media type, size of the body, a URL that is empty
    OpenAI("", "", <<>>, NoChoice, <<WithParts(<<Text(<<"a">>), Part(Foreign)>>)>>),
    OpenAI("", "s", <<>>, NoChoice, <<WithParts(<<Text(<<"b">>), Part(Large)>>)>>),
    Anthropic("s", "", "default", <<>>, <<Said("user", <<Media("image", Nowhere)>>)>>),
    \* a turn with text around a tool result, after one with reasoning
    Anthropic("s", "", "default", <<<<"be">>, <<"brief">>>>,
              <<Said("assistant", <<[type |-> "thinking", text |-> <<"hm">>], Text(<<"yes">>),
                                    [type |-> "tool_use", call |-> Shout]>>),
                Said("user", <<Text(<<"so">>), Result("c1", <<"done">>), Text(<<"next">>)>>)>>),
    \* a session in the metadata, a call without a name, as many images as a body has room for
    Anthropic("", "s", "disabled", <<>>,
              <<Said("assistant", <<Text(<<"now">>), [type |-> "tool_use", call |-> Unnamed]>>),
                Said("user", <<Media("image", Small), Text(<<"see">>), Media("document", Large)>>)>>),
    \* a result where the assistant speaks, a call where the user does
    Anthropic("s", "", "default", <<>>,
              <<Said("assistant", <<Text(<<"yes">>), Result("c1", <<"done">>)>>),
                Said("user", <<Text(<<"so">>), [type |-> "tool_use", call |-> Shout],
                               Text(<<"next">>)>>)>>) }

Rule(priority, enabled, match, actions) ==
    [priority |-> priority, enabled |-> enabled, match |-> match, actions |-> actions,
     source |-> "native"]

Only(model) == [valid |-> TRUE, of |-> {model}]
Broken == [valid |-> FALSE, of |-> {}]

Rename == Rule(2, TRUE, [model |-> Only("m1")], [rewrite_model |-> "m2"])
RenameLater == Rule(3, TRUE, [model |-> Only("m2")], [rewrite_model |-> "m3"])
NoTools == Rule(2, TRUE, [has_tools |-> TRUE],
                [allow_tools |-> FALSE, rewrite_model |-> "gpt", add_tags |-> <<"x">>])
Calm == Rule(1, TRUE, [protocol |-> "anthropic", session_present |-> TRUE],
             [set_reasoning |-> FALSE, allow_tools |-> TRUE])
Failing == Rule(1, TRUE, [protocol |-> "anthropic", model |-> Broken], [add_tags |-> <<"y">>])

MCPolicies == {Rename, [Calm EXCEPT !.enabled = FALSE], Failing}

MCInitialRules ==
    { {},
      {WithId(Rename, 1), WithId(NoTools, 2), WithId(RenameLater, 3)},
      {WithId(NoTools, 1), WithId(Calm, 2)} }

MCAliases == [gpt |-> "auto_key"]

MCMappings == {}

MCWords ==
    Sids \cup Reqs \cup Roles
    \cup {"", "text", "[thinking]", "[/thinking]", "[document]"}
    \cup {"done", "look", "here", "short", "go", "a", "b", "be", "brief", "hm", "yes", "so",
          "next", "now", "see", "x", "y"}
    \cup {"256KB", "512KB", "1MB", "https"}
    \cup {"base64", "url", "c1", "c2", "shout", "auto", "required", "gpt", "auto_key",
          "m1", "m2", "m3"}

Symmetry == Permutations(Reqs)

=============================================================================
