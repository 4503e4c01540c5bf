---------------------------- MODULE RouteFailover ----------------------------
(***************************************************************************)
(* chatWithRouteFailover() of engines/provider/src/index.ts over a route   *)
(* decided by routeModel(): the bindings of the chain are tried in order,  *)
(* each by a new provider with the retry loop of its own (resilience.ts),  *)
(* and some errors hop to the next.                                        *)
(*                                                                         *)
(* Each provider comes with a new circuit breaker, which a single call     *)
(* cannot open before it ends; it is left out.  So is the check for an     *)
(* unknown provider: routeModel() names none.                              *)
(***************************************************************************)
EXTENDS Routing

CONSTANTS
  Cases,    \* pairs of a task, with the model its ChatRequest may name, and
            \* an environment; `failover' is the flag or the caller's option
  Retries   \* cfg.maxRetries

\* What a RouteRequest may say, and its ChatRequest about the model.
Task ==
  [intent : {"analyze.project", "explain.code", "review.change", "implement.feature",
             "fix.bug", "audit.security", "unknown"},
   risk : {none, "low", "medium", "high"},
   privilege : {none, "READ_ONLY", "SAFE_WRITE", "CONTROLLED_EXECUTION", "PRIVILEGED",
                "HUMAN_APPROVAL_REQUIRED"},
   cost : {none, "normal", "low"}, class : Class \union {none},
   complexity : {none, "SIMPLE", "MEDIUM", "COMPLEX", "AGENTIC", "CRITICAL"},
   privacy : {none, "public", "internal", "sensitive"}, model : STRING]

\* The AIOS_ROUTE_* variables, the models of the providers and the flag.
Environment ==
  [classProvider : [Class -> STRING], classModel : [Class -> STRING],
   model : [ProviderId -> STRING], fallback : Seq([provider : STRING, model : STRING]),
   failover : BOOLEAN]

ASSUME FailoverAssumption ==
  /\ Retries \in Nat
  /\ \A call \in Cases : call[1] \in Task /\ call[2] \in Environment

VARIABLES
  request, env,   \* the call
  hop,            \* index of the binding being tried
  tries,          \* loop counter of its withRetry()
  asked,          \* history: who was asked for which model, and what came back
  outcome

routeVars == <<request, env, hop, tries, asked, outcome>>

\* What one attempt gets.  busy: HTTP 429, 503 or 408; down: another 5xx, a
\* network error or a timeout; quota: an error that is not transient and
\* speaks of a quota or rate limit; refused: anything else.
Answer == {"answer", "busy", "down", "quota", "refused"}

IsTransientError(answer) == answer \in {"busy", "down"}

\* Mutant of IsFailoverEligibleError: only the HTTP codes are looked at.
EligibleUnlessQuota(answer) == answer = "busy"

IsFailoverEligibleError(answer) == answer \in {"busy", "quota"}

Chain == ResolveRouteChatChain(env, request)
Targets == IF env.failover THEN Chain ELSE SubSeq(Chain, 1, 1)

RouteInit ==
  /\ \E call \in Cases : request = call[1] /\ env = call[2]
  /\ hop = 1
  /\ tries = 0
  /\ asked = <<>>
  /\ outcome = "pending"

\* One attempt of the current binding; a model the request names overrides
\* the model of the binding.
Attempt(answer) ==
  /\ outcome = "pending"
  /\ asked' = Append(asked,
                [provider |-> Targets[hop].provider,
                 model |-> Or(request.model, Targets[hop].model),
                 answer |-> answer])
  /\ UNCHANGED <<request, env>>

Serve ==
  /\ Attempt("answer")
  /\ outcome' = "answered"
  /\ UNCHANGED <<hop, tries>>

\* withRetry() backs off and tries the same provider again.
TryAgain(answer) ==
  /\ IsTransientError(answer)
  /\ tries < Retries
  /\ Attempt(answer)
  /\ tries' = tries + 1
  /\ UNCHANGED <<hop, outcome>>

\* The error leaves the provider ...
Leaves(answer) ==
  /\ answer # "answer"
  /\ ~(IsTransientError(answer) /\ tries < Retries)
  /\ Attempt(answer)

\* Mutant of Hop: after the last binding comes the first again.
HopRound(answer) ==
  /\ outcome = "pending"
  /\ IsFailoverEligibleError(answer) /\ Len(Targets) > 1
  /\ answer = "busy" => tries = Retries
  /\ hop' = 1 + (hop % Len(Targets))
  /\ tries' = 0
  /\ asked' = IF Len(asked) < 3
                THEN Append(asked, [provider |-> Targets[hop].provider,
                                    model |-> Targets[hop].model, answer |-> answer])
                ELSE asked
  /\ UNCHANGED <<request, env, outcome>>

\* ... and hops to the next binding,
Hop(answer) ==
  /\ Leaves(answer)
  /\ IsFailoverEligibleError(answer) /\ hop < Len(Targets)
  /\ hop' = hop + 1
  /\ tries' = 0
  /\ UNCHANGED outcome

\* or is thrown.
Throw(answer) ==
  /\ Leaves(answer)
  /\ ~(IsFailoverEligibleError(answer) /\ hop < Len(Targets))
  /\ outcome' = "thrown"
  /\ UNCHANGED <<hop, tries>>

RouteNext == Serve \/ \E answer \in Answer : TryAgain(answer) \/ Hop(answer) \/ Throw(answer)

RouteSpec == RouteInit /\ [][RouteNext]_routeVars

\* Every attempt ends, by its timeout at the latest.
FairRoute == RouteSpec /\ WF_routeVars(RouteNext)

-----------------------------------------------------------------------------
(* Properties.                                                             *)

\* The loop variables keep their types, and every binding of the chain is one
\* getProvider() knows.
RouteTypeOK ==
  /\ hop \in DOMAIN Targets
  /\ tries \in 0..Retries
  /\ asked \in Seq([provider : ProviderId, model : STRING, answer : Answer])
  /\ outcome \in {"pending", "answered", "thrown"}
  /\ \A i \in DOMAIN Chain : Chain[i].provider \in ProviderId

\* Sensitive work never leaves the local provider: not through the binding of
\* its class, nor through a fallback when that is busy.
PrivacyWins ==
  request.privacy = "sensitive" => \A i \in DOMAIN asked : asked[i].provider = "ollama"

\* An answered call took the first answer there was; a failed one either met
\* an error that must not hop ("429/503/408 and quota wording hop"), or
\* wore out every binding it was allowed.
GivesUpLast ==
  LET last == asked[Len(asked)]
  IN  /\ \A i \in 1..(Len(asked) - 1) : asked[i].answer # "answer"
      /\ outcome = "thrown" =>
           \/ last.answer \in {"down", "refused"}
           \/ \A i \in DOMAIN Targets : \E k \in DOMAIN asked :
                /\ asked[k].provider = Targets[i].provider
                /\ asked[k].answer \in {"busy", "quota"}

\* Unless the request names the model, no provider is asked for a model it
\* already failed to serve in this call: the attempts of a binding are one
\* run, as long as its retries.
EachBindingTriedOnce ==
  request.model = none =>
    \A i, k \in DOMAIN asked :
      /\ i < k
      /\ asked[i].provider = asked[k].provider
      /\ asked[i].model = asked[k].model
      => /\ k - i <= Retries
         /\ \A m \in i..(k - 1) : IsTransientError(asked[m].answer)

\* A failover asks each binding in its turn and gives up when it must: both.
AsksInTurn == GivesUpLast /\ EachBindingTriedOnce

\* Every call is answered or throws, whatever its providers do.
Settles == <>(outcome # "pending")

\* The intent table of docs/adr/0031, with "high risk / PRIVILEGED" and the
\* low budget that "still forces class fast", for requests without overrides;
\* the privilege above PRIVILEGED counts as that.
DocumentedClass(req) ==
  IF req.cost = "low" THEN "fast"
  ELSE IF req.risk = "high" \/ req.privilege \in {"PRIVILEGED", "HUMAN_APPROVAL_REQUIRED"}
    THEN "arbitration"
  ELSE IF req.intent \in {"implement.feature", "fix.bug", "explain.code"} THEN "coding"
  ELSE IF req.intent = "unknown" THEN "fast"
  ELSE "reasoning"

\* Without an explicit risk, class or complexity the class is the documented
\* one, and so is the provider its environment variable binds.
ClassAsDocumented ==
  request.risk \in {none, "high"} /\ request.class = none /\ request.complexity = none =>
    /\ ResolveCapabilityClass(request) = DocumentedClass(request)
    /\ request.privacy # "sensitive"
       /\ env.classProvider[DocumentedClass(request)] \in ProviderId =>
         Chain[1].provider = env.classProvider[DocumentedClass(request)]
=============================================================================
