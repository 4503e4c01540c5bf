--------------------------- MODULE ProviderProofs ---------------------------
(***************************************************************************)
(* What holds of the calls to a provider (engines/provider), however the   *)
(* providers answer.  Of a failover, for every environment, chain of       *)
(* fallbacks and number of retries:                                        *)
(*   SensitiveStaysLocal   sensitive work only ever asks the local provider*)
(*   ClassesAreDocumented  a task gets the class, and the provider, that   *)
(*                         the ADR promises it                             *)
(*   FailoverAsksInTurn    each binding is asked in its turn, for one run  *)
(*                         of retries, and none is given up too early      *)
(* Of the circuit one provider guards its calls with, for every number of  *)
(* callers, retry budget, backoff, threshold and cooldown:                 *)
(*   ClosedIffBelowThreshold, LeakIsBounded, OpenCircuitSheds              *)
(*   GuardsTheLoad         to its callers it is a count and a clock        *)
(***************************************************************************)
EXTENDS ResilientProvider, RouteFailover, PlacesProofs

-----------------------------------------------------------------------------
(* Sensitive work.                                                         *)

\* The chain of a sensitive request is one binding of the local provider.
LEMMA SensitiveChain ==
  ASSUME request.privacy = "sensitive"
  PROVE  /\ Primary(env, request).provider = "ollama"
         /\ Chain = <<Primary(env, request)>>
         /\ Targets = <<Primary(env, request)>>
PROOF
<1>1. Privacy(request) = "sensitive"
  BY DEF Privacy, Or, none
<1>2. PICK bound : bound = BindCapabilityClass(env, ResolveCapabilityClass(request))
  OBVIOUS
<1>3. Primary(env, request) =
        IF bound.provider # "ollama"
          THEN [provider |-> "ollama", model |-> DefaultModelFor(env, "ollama")]
          ELSE bound
  BY <1>1, <1>2 DEF Primary
<1>4. Primary(env, request).provider = "ollama"
  BY <1>3
<1>5. Fallbacks(env, request) = <<>>
  BY <1>1 DEF Fallbacks
<1>6. PICK primary : primary = Primary(env, request)
  OBVIOUS
<1>7. Chain = <<primary>>
  <2>1. Chain = <<primary>> \o <<>>
    BY <1>5, <1>6 DEF Chain, ResolveRouteChatChain
  <2>2. <<primary>> \in Seq({primary})
    OBVIOUS
  <2> QED BY <2>1, <2>2, ConcatEmptySeq
<1>8. SubSeq(Chain, 1, 1) = <<primary>>
  <2>1. <<primary>> \in Seq({primary}) /\ Len(<<primary>>) = 1
    OBVIOUS
  <2>2. SubSeq(<<primary>>, 1, Len(<<primary>>)) = <<primary>>
    BY <2>1, SubSeqFull
  <2> QED BY <1>7, <2>1, <2>2
<1> QED BY <1>4, <1>6, <1>7, <1>8 DEF Targets

\* What a sensitive request may have asked for.
LocalModel == Or(request.model, Primary(env, request).model)

LocalInv ==
  request.privacy = "sensitive" =>
    /\ hop = 1
    /\ asked \in Seq([provider : {"ollama"}, model : {LocalModel}, answer : Answer])

\* An attempt of a sensitive request goes to the local provider.
LEMMA AttemptStaysLocal ==
  ASSUME LocalInv, request.privacy = "sensitive", NEW answer \in Answer, Attempt(answer)
  PROVE  /\ request' = request
         /\ LocalModel' = LocalModel
         /\ asked' \in Seq([provider : {"ollama"}, model : {LocalModel}, answer : Answer])
PROOF
<1>1. request' = request /\ env' = env
  BY DEF Attempt
<1>2. LocalModel' = LocalModel
  BY <1>1 DEF LocalModel
<1>3. PICK primary : primary = Primary(env, request)
  OBVIOUS
<1>4. Targets[hop] = primary /\ primary.provider = "ollama"
  BY <1>3, SensitiveChain DEF LocalInv
<1>5. PICK new : new = [provider |-> "ollama", model |-> LocalModel, answer |-> answer]
  OBVIOUS
<1>6. asked' = Append(asked, new)
  BY <1>3, <1>4, <1>5 DEF Attempt, LocalModel
<1>7. new \in [provider : {"ollama"}, model : {LocalModel}, answer : Answer]
  BY <1>5
<1>8. asked \in Seq([provider : {"ollama"}, model : {LocalModel}, answer : Answer])
  BY DEF LocalInv
<1>9. asked' \in Seq([provider : {"ollama"}, model : {LocalModel}, answer : Answer])
  BY <1>6, <1>7, <1>8
<1> QED BY <1>1, <1>2, <1>9

\* A hop needs a second binding, which a sensitive request has not.
LEMMA NextStaysLocal == LocalInv /\ [RouteNext]_routeVars => LocalInv'
PROOF
<1> SUFFICES ASSUME LocalInv, [RouteNext]_routeVars, request'.privacy = "sensitive"
             PROVE  /\ hop' = 1
                    /\ asked' \in Seq([provider : {"ollama"}, model : {LocalModel'}, answer : Answer])
  BY DEF LocalInv
<1>1. ASSUME NEW answer \in Answer, Attempt(answer), hop' = hop
      PROVE  /\ hop' = 1
             /\ asked' \in Seq([provider : {"ollama"}, model : {LocalModel'}, answer : Answer])
  <2>1. request.privacy = "sensitive"
    BY <1>1 DEF Attempt
  <2> QED BY <1>1, <2>1, AttemptStaysLocal DEF LocalInv
<1>2. CASE Serve
  BY <1>1, <1>2 DEF Serve, Answer
<1>3. ASSUME NEW answer \in Answer, TryAgain(answer) PROVE Attempt(answer) /\ hop' = hop
  BY <1>3 DEF TryAgain
<1>4. ASSUME NEW answer \in Answer, Throw(answer) PROVE Attempt(answer) /\ hop' = hop
  BY <1>4 DEF Throw, Leaves
<1>5. ASSUME NEW answer \in Answer, Hop(answer) PROVE FALSE
  <2>1. request.privacy = "sensitive"
    BY <1>5 DEF Hop, Leaves, Attempt
  <2>2. hop = 1 /\ Len(Targets) = 1
    BY <2>1, SensitiveChain DEF LocalInv
  <2> QED BY <1>5, <2>2 DEF Hop
<1>6. CASE UNCHANGED routeVars
  BY <1>6 DEF routeVars, LocalInv, LocalModel
<1> QED BY <1>1, <1>2, <1>3, <1>4, <1>5, <1>6 DEF RouteNext

\* "Privacy wins" (docs/adr/0035): with any environment, fallbacks, retries
\* and failing providers, a sensitive request only ever asks ollama.
THEOREM SensitiveStaysLocal == RouteSpec => []PrivacyWins
PROOF
<1>1. RouteInit => LocalInv
  <2>1. \A S : <<>> \in Seq(S)
    OBVIOUS
  <2> QED BY <2>1 DEF RouteInit, LocalInv
<1>2. LocalInv => PrivacyWins
  <2> SUFFICES ASSUME LocalInv, request.privacy = "sensitive", NEW i \in DOMAIN asked
               PROVE  asked[i].provider = "ollama"
    BY DEF PrivacyWins
  <2>1. asked \in Seq([provider : {"ollama"}, model : {LocalModel}, answer : Answer])
    BY DEF LocalInv
  <2>2. i \in 1..Len(asked)
    BY <2>1
  <2>3. PICK S : S = [provider : {"ollama"}, model : {LocalModel}, answer : Answer]
    OBVIOUS
  <2>4. asked \in Seq(S)
    BY <2>1, <2>3
  <2>5. asked[i] \in S
    BY <2>2, <2>4, ElementOfSeq
  <2> QED BY <2>3, <2>5
<1> QED BY <1>1, <1>2, NextStaysLocal, PTL DEF RouteSpec
-----------------------------------------------------------------------------
(* The chain: nobody stands in it twice.                                   *)

\* What the chain may hold: the primary, and the fallbacks that are set.
Candidates ==
  {Primary(env, request)} \union {Binding(env, env.fallback[i]) : i \in DOMAIN env.fallback}

IsBinding(b) == b = [provider |-> b.provider, model |-> b.model]

\* Its bindings differ from each other, and are known by their two fields.
AllDiffer(list) ==
  /\ \A i, k \in 1..Len(list) : list[i] = list[k] => i = k
  /\ \A i \in 1..Len(list) : IsBinding(list[i])

\* Whatever the chain may hold has a provider and a model, and nothing else.
LEMMA CandidatesAreBindings == \A b \in Candidates : IsBinding(b)
<1>1. IsBinding(Primary(env, request))
  <2>1. PICK bound : bound = BindCapabilityClass(env, ResolveCapabilityClass(request))
    OBVIOUS
  <2>2. IsBinding(bound)
    BY <2>1 DEF BindCapabilityClass, IsBinding
  <2>3. IsBinding([provider |-> "ollama", model |-> DefaultModelFor(env, "ollama")])
    BY DEF IsBinding
  <2> QED BY <2>1, <2>2, <2>3 DEF Primary
<1>2. ASSUME NEW i \in DOMAIN env.fallback PROVE IsBinding(Binding(env, env.fallback[i]))
  BY DEF Binding, IsBinding
<1> QED BY <1>1, <1>2 DEF Candidates

\* What the fallback variable leaves: no binding comes again.
LEMMA ParsedDiffer ==
  ASSUME NEW T, env.fallback \in Seq(T)
  PROVE  LET chain == ParseRouteFallbackChain(env)
         IN  /\ chain \in Seq(Candidates)
             /\ \A i, k \in 1..Len(chain) : chain[i] = chain[k] => i = k
<1> DEFINE known == {i \in DOMAIN env.fallback : env.fallback[i].provider \in ProviderId}
           bindings == [i \in known |-> Binding(env, env.fallback[i])]
           kept == {i \in known : \A k \in known : k < i => bindings[k] # bindings[i]}
           chain == ParseRouteFallbackChain(env)
<1>1. chain = At(bindings, kept)
  BY Zenon DEF ParseRouteFallbackChain
<1>2. PICK n \in Nat : n = Len(env.fallback) /\ DOMAIN env.fallback = 1..n
  BY LenProperties
<1>3. kept \in SUBSET (1..n) /\ known \subseteq 1..n
  BY <1>2
<1>4. \A i \in kept : bindings[i] \in Candidates
  BY DEF Candidates
<1>5. \A i, k \in kept : i # k => bindings[i] # bindings[k]
  <2> SUFFICES ASSUME NEW i \in kept, NEW k \in kept, i # k PROVE bindings[i] # bindings[k]
    OBVIOUS
  <2>1. i \in 1..n /\ k \in 1..n
    BY <1>3
  <2>2. CASE i < k
    BY <2>2
  <2>3. CASE k < i
    BY <2>3
  <2> HIDE DEF kept, bindings
  <2> QED BY <1>2, <2>1, <2>2, <2>3
<1> HIDE DEF kept, bindings, chain
<1>6. chain \in Seq(Candidates) /\ \E nth : Keeps(chain, bindings, kept, nth)
  BY <1>1, <1>3, <1>4, AtPlaces
<1>7. PICK nth : Keeps(chain, bindings, kept, nth)
  BY <1>6
<1>8. ASSUME NEW i \in 1..Len(chain), NEW k \in 1..Len(chain), chain[i] = chain[k]
      PROVE  i = k
  <2>1. nth[i] \in kept /\ nth[k] \in kept
    BY <1>7 DEF Keeps
  <2>2. bindings[nth[i]] = bindings[nth[k]]
    BY <1>7, <1>8 DEF Keeps
  <2>3. nth[i] = nth[k] /\ nth[i] \in Nat /\ nth[k] \in Nat
    <3>1. nth[i] = nth[k]
      BY <1>5, <2>1, <2>2
    <3>2. \A p \in kept : p \in Nat
      BY <1>3
    <3> QED BY <2>1, <3>1, <3>2
  <2>4. ~(i < k) /\ ~(k < i)
    BY <1>7, <2>3 DEF Keeps
  <2>5. Len(chain) \in Nat
    BY <1>6, LenProperties
  <2> QED BY <2>4, <2>5
<1> QED BY <1>6, <1>8 DEF chain

\* The fallbacks are parsed bindings other than the primary.
LEMMA FallbacksDiffer ==
  ASSUME NEW T, env.fallback \in Seq(T)
  PROVE  LET rest == Fallbacks(env, request)
         IN  /\ rest \in Seq(Candidates)
             /\ \A i, k \in 1..Len(rest) : rest[i] = rest[k] => i = k
             /\ \A i \in 1..Len(rest) : rest[i] # Primary(env, request)
<1> DEFINE parsed == ParseRouteFallbackChain(env)
           kept == {i \in DOMAIN parsed : parsed[i] # Primary(env, request)}
           rest == Fallbacks(env, request)
<1>1. /\ parsed \in Seq(Candidates)
      /\ \A i, k \in 1..Len(parsed) : parsed[i] = parsed[k] => i = k
  BY ParsedDiffer
<1>2. rest = <<>> \/ rest = At(parsed, kept)
  BY Zenon DEF Fallbacks
<1> HIDE DEF parsed, rest
<1>3. CASE rest = <<>>
  <2>1. <<>> \in Seq(Candidates) /\ Len(<<>>) = 0
    OBVIOUS
  <2>2. rest \in Seq(Candidates) /\ 1..Len(rest) = {}
    BY <1>3, <2>1
  <2> QED BY <2>2 DEF rest
<1>4. CASE rest = At(parsed, kept)
  <2>1. PICK n \in Nat : n = Len(parsed) /\ DOMAIN parsed = 1..n
    BY <1>1, LenProperties
  <2>2. kept \in SUBSET (1..n)
    BY <2>1
  <2>3. \A i \in kept : parsed[i] \in Candidates /\ parsed[i] # Primary(env, request)
    BY <1>1, <2>1, ElementOfSeq
  <2>4. \A i, k \in kept : parsed[i] = parsed[k] => i = k
    BY <1>1, <2>1
  <2> HIDE DEF kept
  <2>5. rest \in Seq(Candidates) /\ \E nth : Keeps(rest, parsed, kept, nth)
    BY <1>4, <2>2, <2>3, AtPlaces
  <2>6. PICK nth : Keeps(rest, parsed, kept, nth)
    BY <2>5
  <2>7. \A i \in 1..Len(rest) : nth[i] \in kept /\ rest[i] = parsed[nth[i]]
    BY <2>6 DEF Keeps
  <2>8. ASSUME NEW i \in 1..Len(rest), NEW k \in 1..Len(rest), rest[i] = rest[k] PROVE i = k
    <3>1. nth[i] = nth[k] /\ nth[i] \in Nat /\ nth[k] \in Nat
      <4>1. nth[i] = nth[k]
        BY <2>4, <2>7, <2>8
      <4>2. \A p \in kept : p \in Nat
        BY <2>2
      <4> QED BY <2>7, <4>1, <4>2
    <3>2. ~(i < k) /\ ~(k < i)
      BY <2>6, <3>1 DEF Keeps
    <3>3. Len(rest) \in Nat
      BY <2>5, LenProperties
    <3> QED BY <3>2, <3>3
  <2>9. \A i \in 1..Len(rest) : rest[i] # Primary(env, request)
    BY <2>3, <2>7
  <2> QED BY <2>5, <2>8, <2>9 DEF rest
<1> QED BY <1>2, <1>3, <1>4

\* The chain starts with the primary and nobody comes twice; so do the
\* bindings that are tried.
LEMMA ChainDiffers ==
  ASSUME NEW T, env.fallback \in Seq(T)
  PROVE  /\ Targets \in Seq(Candidates) /\ AllDiffer(Targets) /\ Len(Targets) >= 1
         /\ Chain[1] = Primary(env, request)
<1> DEFINE primary == Primary(env, request)
           rest == Fallbacks(env, request)
<1>1. /\ rest \in Seq(Candidates)
      /\ \A i, k \in 1..Len(rest) : rest[i] = rest[k] => i = k
      /\ \A i \in 1..Len(rest) : rest[i] # primary
  BY FallbacksDiffer
<1>2. Chain = <<primary>> \o rest
  BY Zenon DEF Chain, ResolveRouteChatChain
<1>3. primary \in Candidates
  BY DEF Candidates
<1> HIDE DEF primary, rest
<1>4. /\ Chain \in Seq(Candidates) /\ Len(Chain) = 1 + Len(rest) /\ Chain[1] = primary
      /\ \A i \in 1..Len(rest) : Chain[1 + i] = rest[i]
  <2>1. <<primary>> \in Seq(Candidates) /\ Len(<<primary>>) = 1 /\ <<primary>>[1] = primary
    BY <1>3
  <2>2. Len(rest) \in Nat
    BY <1>1, LenProperties
  <2> QED BY <1>1, <1>2, <2>1, <2>2, ConcatProperties
<1>5. Len(rest) \in Nat
  BY <1>1, LenProperties
<1>6. \A i, k \in 1..Len(Chain) : Chain[i] = Chain[k] => i = k
  <2> SUFFICES ASSUME NEW i \in 1..Len(Chain), NEW k \in 1..Len(Chain), Chain[i] = Chain[k]
               PROVE  i = k
    OBVIOUS
  <2>1. ASSUME NEW j \in 1..Len(Chain), j # 1
        PROVE  /\ j - 1 \in 1..Len(rest) /\ Chain[j] = rest[j - 1]
               /\ Chain[j] # primary
    <3>1. j - 1 \in 1..Len(rest) /\ 1 + (j - 1) = j
      BY <1>4, <1>5, <2>1
    <3> QED BY <1>1, <1>4, <3>1
  <2>2. CASE i = 1 \/ k = 1
    BY <1>4, <2>1, <2>2
  <2>3. CASE i # 1 /\ k # 1
    <3>1. i - 1 = k - 1
      BY <1>1, <2>1, <2>3
    <3> QED BY <1>4, <1>5, <3>1
  <2> QED BY <2>2, <2>3
<1>7. AllDiffer(Chain)
  <2>1. \A i \in 1..Len(Chain) : Chain[i] \in Candidates
    BY <1>4, ElementOfSeq
  <2> QED BY <1>6, <2>1, CandidatesAreBindings DEF AllDiffer
<1>8. PICK first : first = SubSeq(Chain, 1, 1)
  OBVIOUS
<1>9. first \in Seq(Candidates) /\ Len(first) = 1 /\ first[1] = Chain[1]
  BY <1>4, <1>5, <1>8, SubSeqProperties
<1>10. AllDiffer(first)
  BY <1>4, <1>5, <1>7, <1>9 DEF AllDiffer
<1> QED BY <1>4, <1>5, <1>7, <1>8, <1>9, <1>10 DEF Targets, primary

-----------------------------------------------------------------------------
(* The class of a task.                                                    *)

\* The call is one of Cases, and stays the one it was.
CallInv == request \in Task /\ env \in Environment

\* No step of a failover changes what was asked for, or the environment.
LEMMA CallStays == FailoverAssumption => (RouteInit => CallInv) /\ (CallInv /\ [RouteNext]_routeVars => CallInv')
<1> SUFFICES ASSUME FailoverAssumption
             PROVE  (RouteInit => CallInv) /\ (CallInv /\ [RouteNext]_routeVars => CallInv')
  OBVIOUS
<1>1. RouteInit => CallInv
  BY DEF FailoverAssumption, RouteInit, CallInv
<1>2. ASSUME [RouteNext]_routeVars PROVE request' = request /\ env' = env
  BY <1>2 DEF RouteNext, Serve, TryAgain, Hop, Throw, Leaves, Attempt, routeVars
<1> QED BY <1>1, <1>2 DEF CallInv

\* The inference of risk, complexity and class comes to the table of the ADR.
LEMMA ClassOfTask ==
  ASSUME NEW req \in Task, req.risk \in {none, "high"}, req.class = none, req.complexity = none
  PROVE  ResolveCapabilityClass(req) = DocumentedClass(req) /\ DocumentedClass(req) \in Class
<1>1. Risk(req) = IF req.risk = "high" THEN "high" ELSE InferRouteRisk(req)
  BY DEF Risk, Or, none
<1>2. Risk(req) = "high" <=>
        req.risk = "high" \/ req.privilege \in {"PRIVILEGED", "HUMAN_APPROVAL_REQUIRED"}
  BY <1>1 DEF InferRouteRisk
<1>3. req.intent \in {"analyze.project", "explain.code", "review.change", "implement.feature",
                      "fix.bug", "audit.security", "unknown"}
  BY DEF Task
<1>4. InferTaskComplexity(req) =
        IF Risk(req) = "high" THEN "CRITICAL" ELSE ComplexityOfIntent(req.intent)
  BY DEF InferTaskComplexity, Or
<1>5. Risk(req) # "high" =>
        ClassOfComplexity(InferTaskComplexity(req)) =
          IF req.intent \in {"implement.feature", "fix.bug", "explain.code"} THEN "coding"
          ELSE IF req.intent = "unknown" THEN "fast" ELSE "reasoning"
  BY <1>3, <1>4 DEF ClassOfComplexity, ComplexityOfIntent
<1>6. ResolveCapabilityClass(req) = DocumentedClass(req)
  BY <1>2, <1>5 DEF ResolveCapabilityClass, DocumentedClass
<1>7. DocumentedClass(req) \in Class
  BY DEF DocumentedClass, Class
<1> QED BY <1>6, <1>7

\* A task without overrides gets the class of docs/adr/0031 and the provider
\* that class is bound to, in any environment.
THEOREM ClassesAreDocumented == FailoverAssumption => (RouteSpec => []ClassAsDocumented)
PROOF
<1> SUFFICES ASSUME FailoverAssumption PROVE RouteSpec => []ClassAsDocumented
  OBVIOUS
<1>1. CallInv => ClassAsDocumented
  <2> SUFFICES ASSUME CallInv, request.risk \in {none, "high"}, request.class = none,
                      request.complexity = none
               PROVE  /\ ResolveCapabilityClass(request) = DocumentedClass(request)
                      /\ request.privacy # "sensitive"
                         /\ env.classProvider[DocumentedClass(request)] \in ProviderId =>
                           Chain[1].provider = env.classProvider[DocumentedClass(request)]
    BY DEF ClassAsDocumented
  <2>1. PICK class : class = ResolveCapabilityClass(request) /\ class = DocumentedClass(request)
    BY ClassOfTask DEF CallInv
  <2>2. Chain[1] = Primary(env, request)
    BY ChainDiffers DEF CallInv, Environment
  <2>3. request.privacy # "sensitive" => Privacy(request) # "sensitive"
    BY DEF Privacy, Or
  <2>4. env.classProvider[class] \in ProviderId =>
          BindCapabilityClass(env, class).provider = env.classProvider[class]
    BY DEF BindCapabilityClass
  <2>5. Privacy(request) # "sensitive" => Primary(env, request) = BindCapabilityClass(env, class)
    BY <2>1 DEF Primary
  <2> QED BY <2>1, <2>2, <2>3, <2>4, <2>5
<1> QED BY <1>1, CallStays, PTL DEF RouteSpec

-----------------------------------------------------------------------------
(* The order of a failover.  `at' tells which binding each attempt was of. *)

\* Every attempt was of a binding reached, by its provider and model.
Told(at) ==
  /\ at \in [1..Len(asked) -> 1..hop]
  /\ \A k \in 1..Len(asked) :
       /\ asked[k].provider = Targets[at[k]].provider
       /\ asked[k].model = Or(request.model, Targets[at[k]].model)

\* The attempts of a binding are one run of retries ...
OneRun(at) ==
  \A i, k \in 1..Len(asked) :
    i < k /\ at[i] = at[k] =>
      k - i <= Retries /\ \A m \in i..(k - 1) : IsTransientError(asked[m].answer)

\* ... and those of the binding being tried are the last `tries' ones.
Trailing(at) ==
  outcome = "pending" =>
    \A i \in 1..Len(asked) :
      /\ asked[i].answer # "answer"
      /\ at[i] = hop => i > Len(asked) - tries
      /\ i > Len(asked) - tries => IsTransientError(asked[i].answer)

\* A binding left behind had its busy answer or no quota left.
LeftBehind(at) ==
  \A i \in 1..(hop - 1) : \E k \in 1..Len(asked) :
    at[k] = i /\ IsFailoverEligibleError(asked[k].answer)

\* Only the last attempt may have been answered; a call gives up on an error
\* that does not hop, or on its last binding.
Ending(at) ==
  /\ \A k \in 1..(Len(asked) - 1) : asked[k].answer # "answer"
  /\ outcome = "thrown" =>
       /\ Len(asked) >= 1
       /\ \/ asked[Len(asked)].answer \in {"down", "refused"}
          \/ /\ at[Len(asked)] = hop /\ hop = Len(Targets)
             /\ IsFailoverEligibleError(asked[Len(asked)].answer)

InTurn(at) == Told(at) /\ OneRun(at) /\ Trailing(at) /\ LeftBehind(at) /\ Ending(at)

\* What may be asked for, and what comes back.
Attempts == [provider : {b.provider : b \in Candidates},
             model : {Or(request.model, b.model) : b \in Candidates}, answer : Answer]

\* The inductive invariant: some map from attempts to bindings shows the order.
TurnInv ==
  /\ CallInv
  /\ hop \in 1..Len(Targets)
  /\ tries \in 0..Retries
  /\ asked \in Seq(Attempts)
  /\ \E at : InTurn(at)

\* Before anyone is asked.
LEMMA TurnStarts == ASSUME FailoverAssumption, RouteInit PROVE TurnInv
<1>1. CallInv
  BY CallStays
<1>2. hop \in 1..Len(Targets) /\ tries \in 0..Retries
  <2>1. Targets \in Seq(Candidates) /\ Len(Targets) >= 1
    BY <1>1, ChainDiffers DEF CallInv, Environment
  <2>2. Len(Targets) \in Nat
    BY <2>1, LenProperties
  <2> QED BY <2>1, <2>2 DEF RouteInit, FailoverAssumption
<1>3. asked \in Seq(Attempts) /\ Len(asked) = 0
  <2>1. \A S : <<>> \in Seq(S) /\ Len(<<>>) = 0
    OBVIOUS
  <2> QED BY <2>1 DEF RouteInit
<1>4. PICK at : at = [k \in 1..0 |-> 1]
  OBVIOUS
<1>5. 1..0 = {} /\ 1..(0 - 1) = {} /\ hop = 1 /\ 1..(hop - 1) = {} /\ outcome # "thrown"
  BY DEF RouteInit
<1>6. Told(at) /\ OneRun(at) /\ Trailing(at) /\ LeftBehind(at) /\ Ending(at)
  BY <1>3, <1>4, <1>5 DEF Told, OneRun, Trailing, LeftBehind, Ending
<1> QED BY <1>1, <1>2, <1>3, <1>6 DEF TurnInv, InTurn

\* With the attempt that is being made, which is of the binding at `hop'.
Extended(at) == [k \in 1..(Len(asked) + 1) |-> IF k <= Len(asked) THEN at[k] ELSE hop]

\* What every attempt leaves, whatever it gets and wherever the call goes on.
LEMMA AttemptIsTold ==
  ASSUME FailoverAssumption, TurnInv, NEW at, InTurn(at), NEW ext, ext = Extended(at),
         NEW answer \in Answer, Attempt(answer), hop' \in {hop, hop + 1}
  PROVE  /\ CallInv' /\ Targets' = Targets /\ asked' \in Seq(Attempts')
         /\ Len(asked) \in Nat /\ Len(asked') = Len(asked) + 1
         /\ \A k \in 1..Len(asked) : asked'[k] = asked[k] /\ ext[k] = at[k]
         /\ asked'[Len(asked) + 1].answer = answer /\ ext[Len(asked) + 1] = hop
         /\ Told(ext)' /\ OneRun(ext)'
         /\ \A k \in 1..(Len(asked') - 1) : asked'[k].answer # "answer"
<1> DEFINE n == Len(asked)
<1>1. request' = request /\ env' = env /\ outcome = "pending"
  BY DEF Attempt
<1>2. /\ CallInv' /\ Targets' = Targets /\ Candidates' = Candidates /\ Attempts' = Attempts
  BY <1>1 DEF TurnInv, CallInv, Targets, Chain, Candidates, Attempts
<1>3. /\ n \in Nat /\ asked \in Seq(Attempts)
      /\ Targets \in Seq(Candidates) /\ Len(Targets) \in Nat
      /\ hop \in 1..Len(Targets) /\ tries \in 0..Retries /\ Retries \in Nat
  BY ChainDiffers, LenProperties DEF TurnInv, CallInv, Environment, FailoverAssumption
<1>4. PICK new : new = [provider |-> Targets[hop].provider,
                        model |-> Or(request.model, Targets[hop].model), answer |-> answer]
  OBVIOUS
<1>5. new \in Attempts
  <2>1. Targets[hop] \in Candidates
    BY <1>3, ElementOfSeq
  <2> QED BY <1>4, <2>1 DEF Attempts
<1>6. asked' = Append(asked, new)
  BY <1>4 DEF Attempt
<1>7. /\ asked' \in Seq(Attempts) /\ Len(asked') = n + 1 /\ asked'[n + 1] = new
      /\ \A k \in 1..n : asked'[k] = asked[k]
  BY <1>3, <1>5, <1>6, AppendProperties
<1>8. /\ ext \in [1..(n + 1) -> 1..hop] /\ ext[n + 1] = hop
      /\ \A k \in 1..n : ext[k] = at[k]
  <2>1. at \in [1..n -> 1..hop]
    BY DEF InTurn, Told
  <2>2. hop \in Nat /\ hop \in 1..hop
    BY <1>3
  <2>3. n + 1 \in 1..(n + 1) /\ ~(n + 1 <= n) /\ \A k \in 1..n : k \in 1..(n + 1) /\ k <= n
    BY <1>3
  <2>4. \A k \in 1..(n + 1) : k <= n => k \in 1..n
    BY <1>3
  <2> QED BY <2>1, <2>2, <2>3, <2>4 DEF Extended
<1> HIDE DEF n
<1>9. Told(ext)'
  <2>1. ext \in [1..(n + 1) -> 1..hop']
    <3>1. 1..hop \subseteq 1..hop'
      BY <1>3
    <3> QED BY <1>8, <3>1
  <2>2. ASSUME NEW k \in 1..(n + 1)
        PROVE  /\ asked'[k].provider = Targets[ext[k]].provider
               /\ asked'[k].model = Or(request.model, Targets[ext[k]].model)
    <3>1. CASE k = n + 1
      BY <1>4, <1>7, <1>8, <3>1
    <3>2. CASE k # n + 1
      <4>1. k \in 1..n
        BY <1>3, <3>2
      <4>2. /\ asked[k].provider = Targets[at[k]].provider
            /\ asked[k].model = Or(request.model, Targets[at[k]].model)
        BY <4>1 DEF InTurn, Told, n
      <4> QED BY <1>7, <1>8, <4>1, <4>2
    <3> QED BY <3>1, <3>2
  <2> QED BY <1>1, <1>2, <1>7, <2>1, <2>2 DEF Told
<1>10. OneRun(ext)'
  <2> SUFFICES ASSUME NEW i \in 1..(n + 1), NEW k \in 1..(n + 1), i < k, ext[i] = ext[k]
               PROVE  k - i <= Retries /\ \A m \in i..(k - 1) : IsTransientError(asked'[m].answer)
    BY <1>7 DEF OneRun
  <2>1. i \in 1..n /\ ext[i] = at[i] /\ \A m \in i..(k - 1) : m \in 1..n /\ asked'[m] = asked[m]
    <3>1. i \in 1..n /\ \A m \in i..(k - 1) : m \in 1..n
      BY <1>3
    <3> QED BY <1>7, <1>8, <3>1
  <2>2. CASE k \in 1..n
    <3>1. at[i] = at[k]
      BY <1>8, <2>1, <2>2
    <3>2. k - i <= Retries /\ \A m \in i..(k - 1) : IsTransientError(asked[m].answer)
      BY <2>1, <2>2, <3>1 DEF InTurn, OneRun, n
    <3> QED BY <2>1, <3>2
  <2>3. CASE k = n + 1
    <3>1. at[i] = hop
      BY <1>8, <2>1, <2>3
    <3>2. i > n - tries
      BY <1>1, <2>1, <3>1 DEF InTurn, Trailing, n
    <3>3. k - i <= Retries /\ \A m \in i..(k - 1) : m > n - tries
      BY <1>3, <2>3, <3>2
    <3>4. \A m \in i..(k - 1) : IsTransientError(asked[m].answer)
      BY <1>1, <2>1, <3>3 DEF InTurn, Trailing, n
    <3> QED BY <2>1, <3>3, <3>4
  <2> QED BY <1>3, <2>2, <2>3
<1>11. \A k \in 1..(Len(asked') - 1) : asked'[k].answer # "answer"
  <2>1. \A k \in 1..(Len(asked') - 1) : k \in 1..n
    BY <1>3, <1>7
  <2>2. \A k \in 1..n : asked[k].answer # "answer"
    BY <1>1 DEF InTurn, Trailing, n
  <2> QED BY <1>7, <2>1, <2>2
<1>12. asked'[n + 1].answer = answer
  BY <1>4, <1>7
<1> QED BY <1>2, <1>3, <1>7, <1>8, <1>9, <1>10, <1>11, <1>12 DEF n

\* One step per outcome of an attempt: served, retried, hopped or thrown.
LEMMA NextInTurn == FailoverAssumption /\ TurnInv /\ [RouteNext]_routeVars => TurnInv'
PROOF
<1> SUFFICES ASSUME FailoverAssumption, TurnInv, [RouteNext]_routeVars PROVE TurnInv'
  OBVIOUS
<1>1. PICK at : InTurn(at)
  BY DEF TurnInv
<1>2. /\ Len(Targets) \in Nat /\ hop \in 1..Len(Targets)
      /\ tries \in 0..Retries /\ Retries \in Nat
  BY ChainDiffers, LenProperties DEF TurnInv, CallInv, Environment, FailoverAssumption
<1>3. PICK ext : ext = Extended(at)
  OBVIOUS
\* What remains to show of an attempt.
<1>4. ASSUME NEW answer \in Answer, Attempt(answer), hop' \in {hop, hop + 1},
             hop' \in 1..Len(Targets), tries' \in 0..Retries,
             Trailing(ext)', LeftBehind(ext)', outcome' = "thrown" => Ending(ext)'
      PROVE  TurnInv'
  <2>1. /\ CallInv' /\ Targets' = Targets /\ asked' \in Seq(Attempts')
        /\ Told(ext)' /\ OneRun(ext)'
        /\ \A k \in 1..(Len(asked') - 1) : asked'[k].answer # "answer"
    BY <1>1, <1>3, <1>4, AttemptIsTold
  <2>2. Ending(ext)'
    BY <1>4, <2>1 DEF Ending
  <2>3. InTurn(ext)'
    BY <1>4, <2>1, <2>2 DEF InTurn
  <2>4. hop' \in 1..Len(Targets') /\ tries' \in 0..Retries
    BY <1>4, <2>1
  <2> QED BY <2>1, <2>3, <2>4 DEF TurnInv
\* A binding left behind stays so.
<1>5. ASSUME NEW answer \in Answer, Attempt(answer), hop' = hop PROVE LeftBehind(ext)'
  <2>1. /\ Len(asked) \in Nat /\ Len(asked') = Len(asked) + 1
        /\ \A k \in 1..Len(asked) : asked'[k] = asked[k] /\ ext[k] = at[k]
    BY <1>1, <1>3, <1>5, AttemptIsTold
  <2>2. \A k \in 1..Len(asked) : k \in 1..Len(asked')
    BY <2>1
  <2>3. \A i \in 1..(hop - 1) : \E k \in 1..Len(asked) :
          at[k] = i /\ IsFailoverEligibleError(asked[k].answer)
    BY <1>1 DEF InTurn, LeftBehind
  <2> QED BY <1>5, <2>1, <2>2, <2>3 DEF LeftBehind
<1>6. CASE Serve
  <2>1. /\ Attempt("answer") /\ "answer" \in Answer /\ hop' = hop /\ tries' = tries
        /\ outcome' = "answered"
    BY <1>6 DEF Serve, Answer
  <2>2. Trailing(ext)'
    BY <2>1 DEF Trailing
  <2>3. LeftBehind(ext)'
    BY <1>5, <2>1
  <2> QED BY <1>2, <1>4, <2>1, <2>2, <2>3
<1>7. ASSUME NEW answer \in Answer, TryAgain(answer) PROVE TurnInv'
  <2>1. /\ Attempt(answer) /\ hop' = hop /\ tries' = tries + 1 /\ tries < Retries
        /\ outcome' = outcome /\ outcome = "pending" /\ IsTransientError(answer)
    BY <1>7 DEF TryAgain, Attempt
  <2>2. /\ Len(asked) \in Nat /\ Len(asked') = Len(asked) + 1
        /\ \A k \in 1..Len(asked) : asked'[k] = asked[k] /\ ext[k] = at[k]
        /\ asked'[Len(asked) + 1].answer = answer
    BY <1>1, <1>3, <2>1, AttemptIsTold
  <2>3. Trailing(ext)'
    <3> SUFFICES ASSUME NEW i \in 1..(Len(asked) + 1)
                 PROVE  /\ asked'[i].answer # "answer"
                        /\ ext[i] = hop => i > (Len(asked) + 1) - (tries + 1)
                        /\ i > (Len(asked) + 1) - (tries + 1) =>
                             IsTransientError(asked'[i].answer)
      BY <2>1, <2>2 DEF Trailing
    <3>1. (Len(asked) + 1) - (tries + 1) = Len(asked) - tries
      BY <1>2, <2>2
    <3>2. CASE i \in 1..Len(asked)
      <4>1. /\ asked[i].answer # "answer"
            /\ at[i] = hop => i > Len(asked) - tries
            /\ i > Len(asked) - tries => IsTransientError(asked[i].answer)
        BY <1>1, <2>1, <3>2 DEF InTurn, Trailing
      <4> QED BY <2>2, <3>1, <3>2, <4>1
    <3>3. CASE i = Len(asked) + 1
      <4>1. i > Len(asked) - tries
        BY <1>2, <2>2, <3>3
      <4> QED BY <2>1, <2>2, <3>1, <3>3, <4>1 DEF IsTransientError
    <3> QED BY <2>2, <3>2, <3>3
  <2>4. LeftBehind(ext)'
    BY <1>5, <2>1
  <2>5. hop' \in 1..Len(Targets) /\ tries' \in 0..Retries
    BY <1>2, <2>1
  <2> QED BY <1>4, <2>1, <2>3, <2>4, <2>5
<1>8. ASSUME NEW answer \in Answer, Hop(answer) PROVE TurnInv'
  <2>1. /\ Attempt(answer) /\ hop' = hop + 1 /\ hop < Len(Targets) /\ tries' = 0
        /\ outcome' = outcome /\ outcome = "pending" /\ IsFailoverEligibleError(answer)
        /\ answer # "answer"
    BY <1>8 DEF Hop, Leaves, Attempt
  <2>2. /\ Len(asked) \in Nat /\ Len(asked') = Len(asked) + 1
        /\ \A k \in 1..Len(asked) : asked'[k] = asked[k] /\ ext[k] = at[k]
        /\ asked'[Len(asked) + 1].answer = answer /\ ext[Len(asked) + 1] = hop
    BY <1>1, <1>3, <2>1, AttemptIsTold
  <2>3. Trailing(ext)'
    <3> SUFFICES ASSUME NEW i \in 1..(Len(asked) + 1)
                 PROVE  /\ asked'[i].answer # "answer"
                        /\ ext[i] # hop + 1
                        /\ ~(i > (Len(asked) + 1) - 0)
      BY <2>1, <2>2 DEF Trailing
    <3>1. ~(i > (Len(asked) + 1) - 0) /\ hop # hop + 1
      BY <1>2, <2>2
    <3>2. CASE i \in 1..Len(asked)
      <4>1. asked[i].answer # "answer" /\ at[i] \in 1..hop
        BY <1>1, <2>1, <3>2 DEF InTurn, Trailing, Told
      <4>2. at[i] # hop + 1
        BY <1>2, <4>1
      <4> QED BY <2>2, <3>1, <3>2, <4>1, <4>2
    <3>3. CASE i = Len(asked) + 1
      BY <2>1, <2>2, <3>1, <3>3
    <3> QED BY <2>2, <3>2, <3>3
  <2>4. LeftBehind(ext)'
    <3> SUFFICES ASSUME NEW i \in 1..hop
                 PROVE  \E k \in 1..(Len(asked) + 1) :
                          ext[k] = i /\ IsFailoverEligibleError(asked'[k].answer)
      <4>1. (hop + 1) - 1 = hop
        BY <1>2
      <4> QED BY <2>1, <2>2, <4>1 DEF LeftBehind
    <3>1. CASE i = hop
      <4>1. Len(asked) + 1 \in 1..(Len(asked) + 1)
        BY <2>2
      <4> QED BY <2>1, <2>2, <3>1, <4>1
    <3>2. CASE i # hop
      <4>1. i \in 1..(hop - 1)
        BY <1>2, <3>2
      <4>2. PICK k \in 1..Len(asked) : at[k] = i /\ IsFailoverEligibleError(asked[k].answer)
        BY <1>1, <4>1 DEF InTurn, LeftBehind
      <4>3. k \in 1..(Len(asked) + 1)
        BY <2>2
      <4> QED BY <2>2, <4>2, <4>3
    <3> QED BY <3>1, <3>2
  <2>5. hop' \in 1..Len(Targets) /\ tries' \in 0..Retries
    BY <1>2, <2>1
  <2> QED BY <1>4, <2>1, <2>3, <2>4, <2>5
<1>9. ASSUME NEW answer \in Answer, Throw(answer) PROVE TurnInv'
  <2>1. /\ Attempt(answer) /\ hop' = hop /\ tries' = tries /\ outcome' = "thrown"
        /\ answer # "answer" /\ ~(IsFailoverEligibleError(answer) /\ hop < Len(Targets))
    BY <1>9 DEF Throw, Leaves
  <2>2. /\ Len(asked) \in Nat /\ Len(asked') = Len(asked) + 1 /\ Targets' = Targets
        /\ asked'[Len(asked) + 1].answer = answer /\ ext[Len(asked) + 1] = hop
        /\ \A k \in 1..(Len(asked') - 1) : asked'[k].answer # "answer"
    BY <1>1, <1>3, <2>1, AttemptIsTold
  <2>3. Trailing(ext)'
    BY <2>1 DEF Trailing
  <2>4. LeftBehind(ext)'
    BY <1>5, <2>1
  <2>5. answer \in {"down", "refused"} \/ (IsFailoverEligibleError(answer) /\ hop = Len(Targets))
    BY <1>2, <2>1 DEF Answer, IsFailoverEligibleError
  <2>6. Ending(ext)'
    <3>1. Len(asked') >= 1
      BY <2>2
    <3> QED BY <2>1, <2>2, <2>5, <3>1 DEF Ending
  <2> QED BY <1>2, <1>4, <2>1, <2>3, <2>4, <2>6
<1>10. CASE UNCHANGED routeVars
  <2>1. /\ Targets' = Targets /\ Attempts' = Attempts /\ CallInv'
        /\ hop' = hop /\ tries' = tries /\ asked' = asked /\ outcome' = outcome
    BY <1>10 DEF routeVars, Targets, Chain, Attempts, Candidates, TurnInv, CallInv
  <2>2. InTurn(at)'
    <3>1. request' = request
      BY <1>10 DEF routeVars
    <3> QED BY <1>1, <2>1, <3>1 DEF InTurn, Told, OneRun, Trailing, LeftBehind, Ending
  <2> QED BY <2>1, <2>2 DEF TurnInv
<1> QED BY <1>6, <1>7, <1>8, <1>9, <1>10 DEF RouteNext

\* What the invariant says of a call that asks each binding in its turn.
LEMMA TurnsTell == FailoverAssumption /\ TurnInv => AsksInTurn
PROOF
<1> SUFFICES ASSUME FailoverAssumption, TurnInv PROVE GivesUpLast /\ EachBindingTriedOnce
  BY DEF AsksInTurn
<1>1. PICK at : InTurn(at)
  BY DEF TurnInv
<1>2. /\ Targets \in Seq(Candidates) /\ AllDiffer(Targets) /\ Len(Targets) \in Nat
      /\ DOMAIN Targets = 1..Len(Targets) /\ hop \in 1..Len(Targets)
  BY ChainDiffers, LenProperties DEF TurnInv, CallInv, Environment
<1>3. asked \in Seq(Attempts) /\ Len(asked) \in Nat /\ DOMAIN asked = 1..Len(asked)
  BY LenProperties DEF TurnInv
<1>4. \A k \in 1..Len(asked) : at[k] \in 1..Len(Targets)
  <2>1. \A k \in 1..Len(asked) : at[k] \in 1..hop
    BY <1>1 DEF InTurn, Told
  <2>2. 1..hop \subseteq 1..Len(Targets)
    BY <1>2
  <2> QED BY <2>1, <2>2
<1>5. GivesUpLast
  <2>1. \A i \in 1..(Len(asked) - 1) : asked[i].answer # "answer"
    BY <1>1 DEF InTurn, Ending
  <2>2. ASSUME outcome = "thrown", asked[Len(asked)].answer \notin {"down", "refused"},
               NEW i \in DOMAIN Targets
        PROVE  \E k \in DOMAIN asked : /\ asked[k].provider = Targets[i].provider
                                       /\ asked[k].answer \in {"busy", "quota"}
    <3>1. /\ Len(asked) >= 1 /\ at[Len(asked)] = hop /\ hop = Len(Targets)
          /\ IsFailoverEligibleError(asked[Len(asked)].answer)
      BY <1>1, <2>2 DEF InTurn, Ending
    <3>2. \E k \in 1..Len(asked) : at[k] = i /\ IsFailoverEligibleError(asked[k].answer)
      <4>1. CASE i = hop
        <5>1. Len(asked) \in 1..Len(asked)
          BY <1>3, <3>1
        <5> QED BY <3>1, <4>1, <5>1
      <4>2. CASE i # hop
        <5>1. i \in 1..(hop - 1)
          BY <1>2, <2>2, <3>1, <4>2
        <5> QED BY <1>1, <5>1 DEF InTurn, LeftBehind
      <4> QED BY <4>1, <4>2
    <3>3. \A k \in 1..Len(asked) : asked[k].provider = Targets[at[k]].provider
      BY <1>1 DEF InTurn, Told
    <3> QED BY <1>3, <3>2, <3>3 DEF IsFailoverEligibleError
  <2> QED BY <2>1, <2>2 DEF GivesUpLast
<1>6. EachBindingTriedOnce
  <2> SUFFICES ASSUME request.model = none, NEW i \in 1..Len(asked), NEW k \in 1..Len(asked),
                      i < k, asked[i].provider = asked[k].provider,
                      asked[i].model = asked[k].model
               PROVE  k - i <= Retries /\ \A m \in i..(k - 1) : IsTransientError(asked[m].answer)
    BY <1>3 DEF EachBindingTriedOnce
  <2>1. \A j \in 1..Len(asked) :
          asked[j].provider = Targets[at[j]].provider /\ asked[j].model = Targets[at[j]].model
    BY <1>1 DEF InTurn, Told, Or
  <2>2. /\ Targets[at[i]].provider = Targets[at[k]].provider
        /\ Targets[at[i]].model = Targets[at[k]].model
    BY <2>1
  <2>3. IsBinding(Targets[at[i]]) /\ IsBinding(Targets[at[k]])
    BY <1>2, <1>4 DEF AllDiffer
  <2>4. Targets[at[i]] = Targets[at[k]]
    BY <2>2, <2>3 DEF IsBinding
  <2>5. at[i] = at[k]
    BY <1>2, <1>4, <2>4 DEF AllDiffer
  <2> QED BY <1>1, <2>5 DEF InTurn, OneRun
<1> QED BY <1>5, <1>6

\* However its providers answer, a failover asks the bindings of the chain in
\* their order, each for one run of retries, never after an answer; and it
\* gives up only on an error that must not hop or on its last binding.
THEOREM FailoverAsksInTurn == FailoverAssumption => (RouteSpec => []AsksInTurn)
PROOF
<1> SUFFICES ASSUME FailoverAssumption PROVE RouteSpec => []AsksInTurn
  OBVIOUS
<1> QED BY TurnStarts, NextInTurn, TurnsTell, PTL DEF RouteSpec

-----------------------------------------------------------------------------
(* The circuit.                                                            *)

USE ProviderAssumption DEF Circuit!CircuitState, Backend

\* The inductive part of LeakBound: while the circuit stays open, a call in
\* flight has started no more attempts than its loop counter shows, because
\* it was admitted before the circuit opened.
LeakInv ==
  /\ \A c \in Caller : pc[c] = "sleeping" => attempt[c] < MaxRetries
  /\ \A c \in Caller : leaked[c] <= MaxRetries
  /\ \A c \in Caller : pc[c] # "idle" => leaked[c] <= attempt[c]
  /\ state # "open" => \A c \in Caller : leaked[c] = 0

GuardInv ==
  TypeOK /\ ClosedBelowThreshold /\ Circuit!HalfOpenAfterCooldown /\ LeakInv

\* Any step leaves the circuit alone or is one of its methods.
LEMMA StepOfCircuit ==
  ASSUME Next
  PROVE  Circuit!Next \/ UNCHANGED circuitVars
BY DEF Next, Call, Settle, Refuse, Admit, Succeed, Reject, BackOff, GiveUp,
       Retry, Health, Tick, BackendChanges, Circuit!Next, circuitVars

\* The circuit's own invariant, kept by each of its methods.
LEMMA CircuitStep ==
  ASSUME Circuit!TypeOK, Circuit!ClosedBelowThreshold, Circuit!HalfOpenAfterCooldown,
         Circuit!Next \/ UNCHANGED circuitVars
  PROVE  /\ Circuit!TypeOK' /\ Circuit!ClosedBelowThreshold'
         /\ Circuit!HalfOpenAfterCooldown'
<1> USE DEF Circuit!TypeOK, Circuit!ClosedBelowThreshold, Circuit!HalfOpenAfterCooldown
<1>1. CASE Circuit!GetState
  BY <1>1 DEF Circuit!GetState, Circuit!Observed
<1>2. CASE Circuit!RecordSuccess
  BY <1>2 DEF Circuit!RecordSuccess
<1>3. CASE Circuit!RecordFailure
  BY <1>3 DEF Circuit!RecordFailure, Circuit!UpTo
<1>4. CASE Circuit!Tick
  BY <1>4 DEF Circuit!Tick, Circuit!UpTo
<1>5. CASE UNCHANGED circuitVars
  BY <1>5 DEF circuitVars
<1> QED BY <1>1, <1>2, <1>3, <1>4, <1>5 DEF Circuit!Next

\* What a step does to the calls' own variables keeps their types.
LEMMA CallStep ==
  ASSUME TypeOK, LeakInv, [Next]_vars, Circuit!TypeOK'
  PROVE  TypeOK'
<1> USE DEF TypeOK
<1>1. ASSUME NEW c \in Caller, Call(c)
      PROVE  TypeOK'
  BY <1>1 DEF Call, Refuse, Admit, CountLeak, callVars
<1>2. ASSUME NEW c \in Caller, Settle(c)
      PROVE  TypeOK'
  <2>1. Succeed(c) \/ Reject(c) \/ GiveUp(c) => TypeOK'
    BY DEF Succeed, Reject, GiveUp, Return, CountLeak
  <2>2. Backoff * (attempt[c] + 1) \in Nat
    OBVIOUS
  <2>3. BackOff(c) => TypeOK'
    BY <2>2 DEF BackOff, CountLeak
  <2> QED BY <1>2, <2>1, <2>3 DEF Settle
<1>3. ASSUME NEW c \in Caller, Retry(c)
      PROVE  TypeOK'
  BY <1>3 DEF Retry, CountLeak, LeakInv
<1>4. ASSUME Health \/ Tick \/ BackendChanges
      PROVE  TypeOK'
  BY <1>4 DEF Health, Tick, BackendChanges, CountLeak, callVars
<1>5. CASE UNCHANGED vars
  BY <1>5 DEF vars, Circuit!TypeOK
<1> QED BY <1>1, <1>2, <1>3, <1>4, <1>5 DEF Next

\* What a step does to the count of attempts against an open circuit.
LEMMA LeakStep ==
  ASSUME TypeOK, LeakInv, [Next]_vars
  PROVE  LeakInv'
<1> USE DEF TypeOK, LeakInv, CountLeak
<1>1. ASSUME NEW c \in Caller, Call(c)
      PROVE  LeakInv'
  \* An admitted call finds the circuit not open, so nothing is counted.
  BY <1>1 DEF Call, Refuse, Admit, callVars, Circuit!GetState, Circuit!Observed
<1>2. ASSUME NEW c \in Caller, Settle(c)
      PROVE  LeakInv'
  <2>1. CASE Succeed(c) \/ Reject(c) \/ GiveUp(c)
    BY <2>1 DEF Succeed, Reject, GiveUp, Return
  <2>2. CASE BackOff(c)
    BY <2>2 DEF BackOff, circuitVars
  <2> QED BY <1>2, <2>1, <2>2 DEF Settle
<1>3. ASSUME NEW c \in Caller, Retry(c)
      PROVE  LeakInv'
  BY <1>3 DEF Retry, circuitVars
<1>4. ASSUME Health \/ Tick \/ BackendChanges
      PROVE  LeakInv'
  BY <1>4 DEF Health, Tick, BackendChanges, callVars
<1>5. CASE UNCHANGED vars
  BY <1>5 DEF vars
<1> QED BY <1>1, <1>2, <1>3, <1>4, <1>5 DEF Next

\* GuardInv is inductive.
THEOREM GuardInductive == Spec => []GuardInv
<1>1. Init => GuardInv
  BY DEF Init, GuardInv, TypeOK, ClosedBelowThreshold, LeakInv, Circuit!Init,
         Circuit!TypeOK, Circuit!ClosedBelowThreshold, Circuit!HalfOpenAfterCooldown
<1>2. ASSUME GuardInv, [Next]_vars
      PROVE  GuardInv'
  <2>1. Circuit!Next \/ UNCHANGED circuitVars
    BY <1>2, StepOfCircuit DEF vars, circuitVars
  <2>2. /\ Circuit!TypeOK' /\ Circuit!ClosedBelowThreshold'
        /\ Circuit!HalfOpenAfterCooldown'
    BY <1>2, <2>1, CircuitStep DEF GuardInv, TypeOK, ClosedBelowThreshold
  <2> QED BY <1>2, <2>2, CallStep, LeakStep DEF GuardInv, ClosedBelowThreshold
<1> QED BY <1>1, <1>2, PTL DEF Spec

\* The circuit is closed exactly while fewer than Threshold failures were
\* recorded since the last success, for any number of overlapping calls.
THEOREM ClosedIffBelowThreshold == Spec => []ClosedBelowThreshold
BY GuardInductive, PTL DEF GuardInv

\* However many callers there are and however long the circuit stays open,
\* each of them starts at most MaxRetries attempts against it.
THEOREM LeakIsBounded == Spec => []LeakBound
<1>1. GuardInv => LeakBound
  BY DEF GuardInv, LeakInv, LeakBound
<1> QED BY <1>1, GuardInductive, PTL

\* What the state says adds nothing to the count and the clock: a call is
\* refused exactly when the abstract guard is shut.
LEMMA RefusedWhenShut ==
  ASSUME GuardInv
  PROVE  Circuit!Observed = "open" <=> Guard!Shut
BY DEF GuardInv, TypeOK, ClosedBelowThreshold, Circuit!TypeOK, Circuit!ClosedBelowThreshold,
       Circuit!HalfOpenAfterCooldown, Circuit!Observed, Guard!Shut

\* Each step of the provider is one of the guard, or none.
LEMMA StepOfGuard ==
  ASSUME GuardInv, Next
  PROVE  Guard!Next \/ UNCHANGED Guard!guardVars
<1> USE DEF Guard!guardVars
<1>1. TypeOK /\ (state = "half-open" => failures = Threshold)
  BY DEF GuardInv, TypeOK, ClosedBelowThreshold, Circuit!TypeOK, Circuit!ClosedBelowThreshold
<1>2. ASSUME NEW c \in Caller, Refuse(c)
      PROVE  UNCHANGED Guard!guardVars
  BY <1>2 DEF Refuse, Circuit!GetState, callVars, InFlight
<1>3. ASSUME NEW c \in Caller, Admit(c)
      PROVE  Guard!Begin(c)
  BY <1>1, <1>3, RefusedWhenShut DEF Admit, Circuit!GetState, InFlight, TypeOK, Guard!Begin
<1>4. ASSUME NEW c \in Caller, pc[c] = "attempting", Return(c)
      PROVE  Guard!Leave(c)
  BY <1>1, <1>4 DEF Return, InFlight, TypeOK, Guard!Leave
<1>5. ASSUME NEW c \in Caller, Succeed(c)
      PROVE  Guard!Served(c)
  BY <1>4, <1>5 DEF Succeed, Circuit!RecordSuccess, Guard!Served
<1>6. ASSUME NEW c \in Caller, pc[c] = "attempting", Return(c), Circuit!RecordFailure
      PROVE  Guard!Charged(c)
  \* A half-open circuit still counts Threshold failures.
  BY <1>1, <1>4, <1>6 DEF Circuit!RecordFailure, Circuit!UpTo, TypeOK, Circuit!TypeOK, Guard!Charged
<1>7. ASSUME NEW c \in Caller, Reject(c)
      PROVE  Guard!Charged(c) \/ Guard!Spared(c)
  BY <1>4, <1>6, <1>7 DEF Reject, circuitVars, Guard!Spared
<1>8. ASSUME NEW c \in Caller, GiveUp(c)
      PROVE  Guard!Charged(c)
  BY <1>6, <1>8 DEF GiveUp
<1>9. ASSUME NEW c \in Caller, BackOff(c) \/ Retry(c)
      PROVE  UNCHANGED Guard!guardVars
  BY <1>1, <1>9 DEF BackOff, Retry, circuitVars, InFlight, TypeOK
<1>10. CASE Health \/ BackendChanges
  BY <1>10 DEF Health, BackendChanges, Circuit!GetState, circuitVars, callVars, InFlight
<1>11. CASE Tick
  BY <1>1, <1>11 DEF Tick, Circuit!Tick, Circuit!UpTo, InFlight, TypeOK, Circuit!TypeOK,
         Guard!Next, Guard!Tick
<1> QED BY <1>2, <1>3, <1>5, <1>7, <1>8, <1>9, <1>10, <1>11 DEF Next, Call, Settle, Guard!Next

\* However the calls overlap and whenever somebody looks at the circuit, its
\* callers get what a count of failures and a clock would give them.
THEOREM GuardsTheLoad == Spec => GuardsLoad
<1>1. Init => Guard!Init
  BY DEF Init, Circuit!Init, InFlight, Guard!Init
<1>2. GuardInv /\ [Next]_vars => [Guard!Next]_(Guard!guardVars)
  <2>1. UNCHANGED vars => UNCHANGED Guard!guardVars
    BY DEF vars, InFlight, Guard!guardVars
  <2> QED BY <2>1, StepOfGuard
<1> QED BY <1>1, <1>2, GuardInductive, PTL DEF Spec, GuardsLoad, Guard!Spec

\* No call is admitted as long as the circuit stays open.
THEOREM OpenCircuitSheds == Spec => OpenShedsLoad
<1>1. GuardInv /\ [Next]_vars
        => [state = "open" /\ state' = "open" => InFlight' \subseteq InFlight]_vars
  <2> SUFFICES ASSUME TypeOK, Next, state = "open", state' = "open"
               PROVE  InFlight' \subseteq InFlight
    BY DEF GuardInv
  <2>1. ASSUME NEW c \in Caller, Call(c)
        PROVE  InFlight' \subseteq InFlight
    BY <2>1 DEF Call, Refuse, Admit, callVars, InFlight, Circuit!GetState, Circuit!Observed
  <2>2. ASSUME NEW c \in Caller, Settle(c) \/ Retry(c)
        PROVE  InFlight' \subseteq InFlight
    BY <2>2 DEF Settle, Succeed, Reject, BackOff, GiveUp, Retry, Return, InFlight, TypeOK
  <2>3. CASE Health \/ Tick \/ BackendChanges
    BY <2>3 DEF Health, Tick, BackendChanges, callVars, InFlight
  <2> QED BY <2>1, <2>2, <2>3 DEF Next
<1> QED BY <1>1, GuardInductive, PTL DEF Spec, OpenShedsLoad
=============================================================================
