----------------------------- MODULE MCPipeline -----------------------------
(* TLC instance of Pipeline.                                               *)
EXTENDS Pipeline, TLC

\* The built-in plugins; a registry that lists one agent twice, one without
\* a runner, and not all of those an intent may call for.
PluginLists == {BuiltinPlugins, PluginsFromRegistry(<<"qa", "other", "docs", "qa">>)}

\* One request, of every kind, served without the run store.
Alone ==
  {(r :> [kind |-> kind, plugins |-> plugins, skillIds |-> <<>>, workspace |-> TRUE,
          context |-> context, persist |-> FALSE]) :
     r \in Run, kind \in IntentKind, plugins \in PluginLists, context \in BOOLEAN}

\* Two requests that are stored: two agents for explain.code, one for what a
\* registry knows of it, with and without skills.
Explain(plugins, skillIds) ==
  [kind |-> "explain.code", plugins |-> plugins, skillIds |-> skillIds,
   workspace |-> FALSE, context |-> TRUE, persist |-> TRUE]

Together ==
  [Run -> {Explain(<<"architecture", "qa">>, <<>>),
           Explain(<<"docs">>, <<>>),
           Explain(<<"docs">>, <<"lint", "none", "lint">>)}]

AllWorkloads == Alone \union Together
Single == {(r :> Explain(<<"architecture", "qa">>, <<>>)) : r \in Run}

\* The pack fails its check, or is gone.
SkillCatalogs ==
  {<<[id |-> "lint", allowedTools |-> {}, checks |-> {"repoPath", "workspaceId"},
      failurePolicy |-> "retry"]>>,
   <<>>}

Runs == Permutations(Run)
=============================================================================
