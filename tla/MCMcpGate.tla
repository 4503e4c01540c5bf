------------------------------ MODULE MCMcpGate ------------------------------
(* TLC instance of McpGate.                                                *)
EXTENDS McpGate, TLC

Env(privilege, allowed, skillIds) ==
  [privilege |-> privilege, allowPrivileged |-> allowed, allowSafeWrite |-> allowed,
   skillIds |-> skillIds]

Asks(tool, skillIds, env) == [tool |-> tool, skillIds |-> skillIds, env |-> env]

\* A read, a write with consent, a run, and a tool for the privileged; below,
\* at and above their rank, with and without the switch; one environment is
\* not a privilege's name, one binds its calls to skills.
SomeRequests ==
  {Asks(tool, <<>>, Env(privilege, allowed, <<>>)) :
     tool \in {"aios_memory_recall", "aios_memory_clear", "aios_workspace_remove"},
     privilege \in {"READ_ONLY", "PRIVILEGED"},
     allowed \in BOOLEAN}
  \union {Asks("aios_memory_clear", <<>>, Env("root", FALSE, <<>>))}
  \union
  {Asks("aios_run_pipeline", skillIds, Env("CONTROLLED_EXECUTION", FALSE, session)) :
     skillIds \in {<<>>, <<"", "run">>}, session \in {<<>>, <<"read", "run">>}}
  \union
  {Asks("aios_memory_recall", <<>>, Env("PRIVILEGED", TRUE, <<"run">>))}

\* A pack by that name allows runs, or it does not, or there is none.
SomeCatalogs ==
  {<<[id |-> "run", allowedTools |-> tools]>> : tools \in {{}, {"aios_run_pipeline"}}}
  \union {<<>>}

Calls == Permutations(Call)
=============================================================================
