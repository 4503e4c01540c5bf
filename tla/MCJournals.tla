----------------------------- MODULE MCJournals -----------------------------
(* TLC instance of Journals.                                               *)
EXTENDS Journals

\* The lists runPipeline's ledger gives: skills before agents before the gate.
FailureLists ==
  {<<>>, <<"gate">>, <<"agent/a", "agent_a", "gate">>, <<"skill", "agent_a", "agent_b", "gate">>}

\* A character that has no place in an id is replaced.
SomeAttentionId(f) == IF f = "agent/a" THEN "agent_a" ELSE f

Rule(id) == [id |-> id, severity |-> "must"]
PolicyFile(json, rules) == [json |-> json, rules |-> rules, absent |-> FALSE]

\* A policy file that does not parse, one that adds to the built-in rules, and
\* one that takes the rank of a must from one of them.
SomePolicyFiles ==
  {[json |-> FALSE, rules |-> <<>>, absent |-> TRUE], PolicyFile(FALSE, <<>>),
   PolicyFile(TRUE, <<Rule("resource-first")>>),
   PolicyFile(TRUE, <<[id |-> "trade-offs", severity |-> "may"]>>)}

\* A decision that passes, one that fails, names no known kind and a policy
\* nobody has, and one without a summary.
SomeInputs ==
  {[verdict |-> "pass", kind |-> "", policyIds |-> {}, summary |-> "s"],
   [verdict |-> "fail", kind |-> "x", policyIds |-> {"gone"}, summary |-> "s"],
   [verdict |-> "none", kind |-> "adr", policyIds |-> {}, summary |-> ""]}

SomeSurroundings ==
  {[provider |-> TRUE, memories |-> Workspace, chats |-> "fine", agentErrors |-> FALSE,
    decisions |-> {}],
   [provider |-> FALSE, memories |-> {}, chats |-> "errors", agentErrors |-> TRUE,
    decisions |-> {[id |-> "decision-fail", severity |-> "error", of |-> "home"]}]}

ChatLine(provider, ok, prompt, completion, total) ==
  [kind |-> "provider.chat", name |-> provider, ok |-> ok,
   prompt |-> prompt, completion |-> completion, total |-> total]
AgentLine(agent, outcome) ==
  [kind |-> "agent.execution", name |-> agent, outcome |-> outcome, ok |-> outcome = "success"]

\* Chats with and without a provider, agents that succeed and do not, a check
\* of CI without its base, and a line that does not parse.
SomeLines ==
  {ChatLine("p", TRUE, 1, 1, 0), ChatLine("", FALSE, 0, 0, 3),
   AgentLine("a", "success"), AgentLine("b", "timeout"),
   [kind |-> "delivery.ci", name |-> "c", conclusion |-> "failure", base |-> ""],
   [kind |-> "garbage"]}

\* The id "ab" begins with "a".
SomePrefixes == {<<"a", "ab">>}
SomeBodies ==
  {[agentIds |-> <<"a">>, steps |-> <<"a">>, decisions |-> 1],
   [agentIds |-> <<"a", "ab">>, steps |-> <<"a", "ab", "b">>, decisions |-> 1],
   [agentIds |-> <<"ab", "a">>, steps |-> <<"b">>, decisions |-> 0]}

\* No workspace, or two of which one is the default.
Registries ==
  LET ids == CHOOSE s \in [1..2 -> Id] : s[1] # s[2]
      path == CHOOSE x \in Path : TRUE
  IN  {{}, {[id |-> ids[i], path |-> path, default |-> i = 1] : i \in 1..2}}

=============================================================================
