--------------------------- MODULE MCRouteFailover ---------------------------
(* TLC instance of RouteFailover.                                          *)
EXTENDS RouteFailover

Intents ==
  {"analyze.project", "explain.code", "review.change", "implement.feature",
   "fix.bug", "audit.security", "unknown"}

Plain ==
  [intent |-> "explain.code", risk |-> none, privilege |-> none, cost |-> none,
   class |-> none, complexity |-> none, privacy |-> none, model |-> none]

\* Every way to describe a task.
AllTasks ==
  {[Plain EXCEPT !.intent = intent, !.risk = risk, !.privilege = privilege,
                 !.cost = cost, !.class = class, !.complexity = complexity,
                 !.privacy = privacy] :
     intent \in Intents, risk \in {none, "low", "medium", "high"},
     privilege \in {none, "PRIVILEGED", "HUMAN_APPROVAL_REQUIRED"}, cost \in {none, "low"},
     class \in {none, "reasoning"}, complexity \in {none, "SIMPLE", "CRITICAL"},
     privacy \in {none, "sensitive"}}

\* Two tasks, each with and without a model of its own.
ChatTasks ==
  {[Plain EXCEPT !.privacy = privacy, !.model = model] :
     privacy \in {none, "sensitive"}, model \in {none, "m1"}}

Env(classProvider, classModel, ollamaModel, fallback, failover) ==
  [classProvider |-> classProvider, classModel |-> classModel,
   model |-> [p \in ProviderId |-> IF p = "ollama" THEN ollamaModel ELSE none],
   fallback |-> fallback, failover |-> failover]

\* Every class bound to a provider of its own, and all left alone.
BoundEnvs ==
  {Env([fast |-> "groq", coding |-> "openai", reasoning |-> "anthropic",
        arbitration |-> "gemini"], [c \in Class |-> none], none, <<>>, FALSE),
   Env([c \in Class |-> "cohere"], [c \in Class |-> none], "qwen", <<>>, FALSE)}

Token(provider, model) == [provider |-> provider, model |-> model]

\* No fallback; a duplicate and an unknown provider; the primary among them;
\* the local provider last; two models of one provider.
FallbackLists ==
  {<<>>,
   <<Token("groq", none), Token("cohere", none), Token("groq", "openai/gpt-oss-20b")>>,
   <<Token("openai", none), Token("groq", none)>>,
   <<Token("openai", "m2"), Token("ollama", none)>>}

ChatEnvs ==
  {Env([c \in Class |-> provider], [c \in Class |-> model], none, fallback, failover) :
     provider \in {none, "openai"}, model \in {none, "m2"},
     fallback \in FallbackLists, failover \in BOOLEAN}

\* Every task under the bound classes, the two chats under every chain.
AllCases == (AllTasks \X BoundEnvs) \union (ChatTasks \X ChatEnvs)
=============================================================================
