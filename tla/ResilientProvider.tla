-------------------------- MODULE ResilientProvider --------------------------
(***************************************************************************)
(* ResilientProvider of engines/provider/src/index.ts: chat() and models() *)
(* go through guarded(), which asks the circuit, runs withRetry() around   *)
(* the inner provider and records the outcome.  Several callers share one  *)
(* instance; between two awaits a call runs without interruption, so each  *)
(* action below is the code from one await to the next.                    *)
(*                                                                         *)
(* The inner provider is the environment: `backend' says what an attempt   *)
(* that ends now gets, and may change between any two attempts.            *)
(***************************************************************************)
EXTENDS Integers

CONSTANTS
  Caller,      \* concurrent users of the instance, one call each at a time
  MaxRetries,  \* cfg.maxRetries
  Backoff,     \* cfg.retryBackoffMs, in ticks
  Threshold,
  Cooldown

ASSUME ProviderAssumption ==
  /\ MaxRetries \in Nat
  /\ Backoff \in Nat
  /\ Threshold \in Nat \ {0}
  /\ Cooldown \in Nat

VARIABLES
  failures, state, elapsed,   \* this.circuit
  pc,        \* where each caller's guarded() stands
  attempt,   \* the loop counter i of its withRetry()
  probing,   \* the callers whose local constant `probing' is true
  wait,      \* ticks left of its sleep()
  backend,   \* what the inner provider answers now
  leaked     \* history: attempts each caller started since the circuit opened

circuitVars == <<failures, state, elapsed>>
callVars == <<pc, attempt, probing, wait>>
vars == <<failures, state, elapsed, pc, attempt, probing, wait, backend, leaked>>

Circuit == INSTANCE CircuitBreaker

\* serving: the attempt returns; rejecting: it throws a non-transient error
\* (401, 404, ...); failing: it throws one isTransientError() accepts.
Backend == {"serving", "rejecting", "failing"}

Init ==
  /\ Circuit!Init
  /\ pc = [c \in Caller |-> "idle"]
  /\ attempt = [c \in Caller |-> 0]
  /\ probing = {}
  /\ wait = [c \in Caller |-> 0]
  /\ backend = "serving"
  /\ leaked = [c \in Caller |-> 0]

InFlight == {c \in Caller : pc[c] # "idle"}

\* The history variable counts from the step that opens the circuit.
CountLeak(starting) ==
  leaked' = [c \in Caller |->
               IF state = "open" /\ state' = "open"
                 THEN leaked[c] + (IF c \in starting THEN 1 ELSE 0)
                 ELSE 0]

\* assertCanPass() throws: the call never reaches the inner provider.
Refuse(c) ==
  /\ pc[c] = "idle"
  /\ Circuit!Observed = "open"
  /\ Circuit!GetState
  /\ UNCHANGED <<callVars, backend>>
  /\ CountLeak({})

\* Mutant of Admit: nobody asks the circuit.
AdmitUnchecked(c) ==
  /\ pc[c] = "idle"
  /\ Circuit!GetState
  /\ pc' = [pc EXCEPT ![c] = "attempting"]
  /\ probing' = IF Circuit!Observed = "half-open" THEN probing \union {c} ELSE probing
  /\ UNCHANGED <<attempt, wait, backend>>
  /\ CountLeak({c})

\* assertCanPass() lets it through (turning an expired open circuit
\* half-open); the second getState() fixes `probing', and the first attempt
\* starts.
Admit(c) ==
  /\ pc[c] = "idle"
  /\ Circuit!Observed # "open"
  /\ Circuit!GetState
  /\ pc' = [pc EXCEPT ![c] = "attempting"]
  /\ probing' = IF Circuit!Observed = "half-open" THEN probing \union {c} ELSE probing
  /\ UNCHANGED <<attempt, wait, backend>>
  /\ CountLeak({c})

\* guarded() returns or throws; its locals are gone.
Return(c) ==
  /\ pc' = [pc EXCEPT ![c] = "idle"]
  /\ attempt' = [attempt EXCEPT ![c] = 0]
  /\ probing' = probing \ {c}
  /\ UNCHANGED <<wait, backend>>

\* Mutant of Succeed: a success is only recorded by a closed circuit.
SucceedWhenClosed(c) ==
  /\ pc[c] = "attempting"
  /\ backend = "serving"
  /\ IF state = "closed" THEN Circuit!RecordSuccess ELSE UNCHANGED circuitVars
  /\ Return(c)
  /\ CountLeak({})

\* await fn() resolves: recordSuccess(), whenever the call was admitted.
Succeed(c) ==
  /\ pc[c] = "attempting"
  /\ backend = "serving"
  /\ Circuit!RecordSuccess
  /\ Return(c)
  /\ CountLeak({})

\* A non-transient error is thrown at once and counts only if the call was
\* admitted half-open.
Reject(c) ==
  /\ pc[c] = "attempting"
  /\ backend = "rejecting"
  /\ IF c \in probing THEN Circuit!RecordFailure ELSE UNCHANGED circuitVars
  /\ Return(c)
  /\ CountLeak({})

\* A transient error before the last attempt: sleep(retryBackoffMs * (i + 1)).
BackOff(c) ==
  /\ pc[c] = "attempting"
  /\ backend = "failing"
  /\ attempt[c] < MaxRetries
  /\ pc' = [pc EXCEPT ![c] = "sleeping"]
  /\ wait' = [wait EXCEPT ![c] = Backoff * (attempt[c] + 1)]
  /\ UNCHANGED <<circuitVars, attempt, probing, backend>>
  /\ CountLeak({})

\* A transient error on the last attempt: one failure for the whole call.
GiveUp(c) ==
  /\ pc[c] = "attempting"
  /\ backend = "failing"
  /\ attempt[c] >= MaxRetries
  /\ Circuit!RecordFailure
  /\ Return(c)
  /\ CountLeak({})

\* Mutant of Retry: the loop counter stays.
RetryForever(c) ==
  /\ pc[c] = "sleeping"
  /\ wait[c] = 0
  /\ pc' = [pc EXCEPT ![c] = "attempting"]
  /\ UNCHANGED <<circuitVars, attempt, probing, wait, backend>>
  /\ CountLeak({c})

\* sleep() ends and the next attempt starts; the circuit is not asked again.
Retry(c) ==
  /\ pc[c] = "sleeping"
  /\ wait[c] = 0
  /\ pc' = [pc EXCEPT ![c] = "attempting"]
  /\ attempt' = [attempt EXCEPT ![c] = @ + 1]
  /\ UNCHANGED <<circuitVars, probing, wait, backend>>
  /\ CountLeak({c})

\* health() and getCircuitState() report the state, and may change it.
Health ==
  /\ Circuit!GetState
  /\ UNCHANGED <<callVars, backend>>
  /\ CountLeak({})

Tick ==
  /\ Circuit!Tick
  /\ wait' = [c \in Caller |-> IF wait[c] > 0 THEN wait[c] - 1 ELSE 0]
  /\ UNCHANGED <<pc, attempt, probing, backend>>
  /\ CountLeak({})

BackendChanges ==
  /\ backend' \in Backend \ {backend}
  /\ UNCHANGED <<circuitVars, callVars>>
  /\ CountLeak({})

Settle(c) == Succeed(c) \/ Reject(c) \/ BackOff(c) \/ GiveUp(c)
Call(c) == Refuse(c) \/ Admit(c)

Next ==
  \/ \E c \in Caller : Call(c) \/ Settle(c) \/ Retry(c)
  \/ Health
  \/ Tick
  \/ BackendChanges

Spec == Init /\ [][Next]_vars

\* Time passes, a sleeping call is woken, and every attempt ends (the inner
\* providers abort the request on timeoutMs).
Fairness ==
  /\ WF_vars(Tick)
  /\ \A c \in Caller : WF_vars(Settle(c)) /\ WF_vars(Retry(c))

\* The callers, moreover, do not stop calling.
Demand == \A c \in Caller : WF_vars(Call(c))

FairSpec == Spec /\ Fairness
DemandSpec == FairSpec /\ Demand

-----------------------------------------------------------------------------
Guard == INSTANCE LoadGuard WITH
           count <- failures, clock <- elapsed, inside <- InFlight

(* Properties.                                                             *)

\* Every variable keeps its type; an idle caller has no call left over, and
\* withRetry never gets past attempt MaxRetries + 1.
TypeOK ==
  /\ Circuit!TypeOK
  /\ pc \in [Caller -> {"idle", "attempting", "sleeping"}]
  /\ attempt \in [Caller -> 0..MaxRetries]
  /\ probing \subseteq Caller
  /\ wait \in [Caller -> Nat]
  /\ backend \in Backend
  /\ leaked \in [Caller -> Nat]
  /\ \A c \in Caller : pc[c] = "idle" => attempt[c] = 0 /\ c \notin probing

\* recordSuccess and recordFailure come from calls that overlap and settle
\* in any order, yet the circuit is closed exactly while fewer than
\* Threshold failures were recorded since the last success.
ClosedBelowThreshold == Circuit!ClosedBelowThreshold

\* To its callers the provider is a guard that knows nothing but a count of
\* failures and a clock (LoadGuard).  What the code has beside them makes no
\* difference to anyone: the state, which goes stale until somebody looks,
\* the looks themselves (a refused call, health(), getCircuitState()), when
\* they come, and the retries of the calls they come between.
GuardsLoad == Guard!Spec

\* Calls admitted earlier keep retrying against an open circuit, because
\* withRetry never asks it again.  Each caller starts at most MaxRetries
\* attempts in an open period, however long it lasts and however often late
\* failures restart the cooldown.
LeakBound == \A c \in Caller : leaked[c] <= MaxRetries

\* While the circuit stays open, calls end but none begins: the load on the
\* provider can only shrink.
OpenShedsLoad ==
  [][state = "open" /\ state' = "open" => InFlight' \subseteq InFlight]_vars

\* "Ms to stay open before half-open probe" (resilience.ts): an open circuit
\* is left only once the cooldown is over.
StaysOpenForCooldown ==
  [][state = "open" /\ elapsed < Cooldown => state' = "open"]_vars

\* guarded() always comes back: retries and sleeps end.
CallsSettle == \A c \in Caller : pc[c] # "idle" ~> pc[c] = "idle"

\* Late failures may restart the cooldown of an open circuit, but not for
\* ever: it is probed again.
OpenIsProbed == state = "open" ~> state # "open"

\* Once the backend only serves, the circuit closes and stays closed.
Recovers == <>[](backend = "serving") => <>[](state = "closed")
=============================================================================
