------------------------------- MODULE Routing -------------------------------
(***************************************************************************)
(* The model router of packages/shared/src/index.ts: routeModel() decides, *)
(* from what is known of a task and from the operator's environment, which *)
(* provider and model serve it, and which ones stand by.  It asks nobody.  *)
(*                                                                         *)
(* An optional field of a request, or an environment variable that is not  *)
(* set, is `none'.                                                         *)
(***************************************************************************)
EXTENDS SequencesExt, Places

none == "none"

ProviderId == {"ollama", "openai", "anthropic", "openrouter", "groq", "gemini"}
Class == {"fast", "coding", "reasoning", "arbitration"}

ProviderDefaultModel ==
  [ollama |-> "llama3.2", openai |-> "gpt-4o-mini", anthropic |-> "claude-haiku-4-5",
   openrouter |-> "openrouter/free", groq |-> "openai/gpt-oss-20b",
   gemini |-> "gemini-2.5-flash"]

-----------------------------------------------------------------------------
(* The task profile.                                                       *)

Or(value, fallback) == IF value = none THEN fallback ELSE value

InferRouteRisk(req) ==
  IF req.privilege \in {"PRIVILEGED", "HUMAN_APPROVAL_REQUIRED"} THEN "high"
  ELSE IF req.intent \in {"implement.feature", "fix.bug", "review.change", "audit.security"}
    THEN "medium"
  ELSE "low"

Risk(req) == Or(req.risk, InferRouteRisk(req))

ComplexityOfIntent(intent) ==
  CASE intent \in {"implement.feature", "fix.bug"} -> "AGENTIC"
    [] intent \in {"analyze.project", "review.change", "audit.security"} -> "COMPLEX"
    [] intent = "explain.code" -> "MEDIUM"
    [] intent = "unknown" -> "SIMPLE"

InferTaskComplexity(req) ==
  Or(req.complexity,
     IF Risk(req) = "high" THEN "CRITICAL" ELSE ComplexityOfIntent(req.intent))

Privacy(req) == Or(req.privacy, "internal")

ClassOfComplexity(complexity) ==
  CASE complexity = "CRITICAL" -> "arbitration"
    [] complexity = "COMPLEX" -> "reasoning"
    [] complexity \in {"MEDIUM", "AGENTIC"} -> "coding"
    [] complexity = "SIMPLE" -> "fast"

\* Mutant of ResolveCapabilityClass: a high risk comes before a low budget.
ResolveClassRiskFirst(req) ==
  IF req.class # none THEN req.class
  ELSE IF Risk(req) = "high" THEN "arbitration"
  ELSE IF req.cost = "low" THEN "fast"
  ELSE ClassOfComplexity(InferTaskComplexity(req))

\* A forced class, then a low budget, then a high risk, then the complexity.
ResolveCapabilityClass(req) ==
  IF req.class # none THEN req.class
  ELSE IF req.cost = "low" THEN "fast"
  ELSE IF Risk(req) = "high" THEN "arbitration"
  ELSE ClassOfComplexity(InferTaskComplexity(req))

-----------------------------------------------------------------------------
(* The decision.  `env' holds the AIOS_ROUTE_* variables by class, the     *)
(* model variable of each provider, and the tokens of AIOS_ROUTE_FALLBACK. *)

DefaultModelFor(env, provider) ==
  Or(env.model[provider], ProviderDefaultModel[provider])

\* A provider nobody knows leaves the class on ollama.
BindCapabilityClass(env, class) ==
  LET provider == IF env.classProvider[class] \in ProviderId
                    THEN env.classProvider[class]
                    ELSE "ollama"
  IN  [provider |-> provider,
       model |-> Or(env.classModel[class], DefaultModelFor(env, provider))]

\* Sensitive work stays on the local provider, whatever the class is bound to.
Primary(env, req) ==
  LET bound == BindCapabilityClass(env, ResolveCapabilityClass(req))
  IN  IF Privacy(req) = "sensitive" /\ bound.provider # "ollama"
        THEN [provider |-> "ollama", model |-> DefaultModelFor(env, "ollama")]
        ELSE bound

Binding(env, token) ==
  [provider |-> token.provider, model |-> Or(token.model, DefaultModelFor(env, token.provider))]

\* Unknown providers are skipped, and so is a binding that came before.
ParseRouteFallbackChain(env) ==
  LET known    == {i \in DOMAIN env.fallback : env.fallback[i].provider \in ProviderId}
      bindings == [i \in known |-> Binding(env, env.fallback[i])]
  IN  At(bindings, {i \in known : \A k \in known : k < i => bindings[k] # bindings[i]})

\* Mutant of Fallbacks: privacy only concerns the primary.
FallbacksUncleared(env, req) ==
  LET chain == ParseRouteFallbackChain(env)
  IN  At(chain, {i \in DOMAIN chain : chain[i] # Primary(env, req)})

Fallbacks(env, req) ==
  LET chain == ParseRouteFallbackChain(env)
  IN  IF Privacy(req) = "sensitive" THEN <<>>
      ELSE At(chain, {i \in DOMAIN chain : chain[i] # Primary(env, req)})

\* resolveRouteChatChain(routeModel(req, env)).
ResolveRouteChatChain(env, req) == <<Primary(env, req)>> \o Fallbacks(env, req)
=============================================================================
