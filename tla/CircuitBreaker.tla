--------------------------- MODULE CircuitBreaker ---------------------------
(***************************************************************************)
(* The class CircuitBreaker of engines/provider/src/resilience.ts on its   *)
(* own: whoever holds one may call its methods in any order.               *)
(*                                                                         *)
(* Two data abstractions.  The code only ever compares `failures' with the *)
(* threshold, so the counter stops there; and it only ever asks whether    *)
(* now() - openedAt has reached the cooldown, so `elapsed' is that         *)
(* difference, stopped at Cooldown.                                        *)
(***************************************************************************)
EXTENDS Integers

CONSTANTS
  Threshold,  \* circuitFailureThreshold, at least 1
  Cooldown    \* circuitCooldownMs, in ticks of the model's clock

VARIABLES
  failures,   \* recorded failures since the last recorded success
  state,      \* the private field; getState() may answer otherwise
  elapsed     \* time since the circuit last opened

CircuitState == {"closed", "open", "half-open"}

Init ==
  /\ failures = 0
  /\ state = "closed"
  /\ elapsed = Cooldown      \* openedAt = 0: long ago

UpTo(limit, n) == IF n < limit THEN n ELSE limit

\* Mutant of Observed: the cooldown is never looked at.
ObservedFrozen == state

\* What getState() returns, and what it leaves in `state': an open circuit
\* turns half-open only when somebody looks at it after the cooldown.
Observed == IF state = "open" /\ elapsed >= Cooldown THEN "half-open" ELSE state

\* Mutant of GetState: turning half-open, the circuit forgets its failures.
GetStateForgetting ==
  /\ state' = Observed
  /\ failures' = IF state' = state THEN failures ELSE 0
  /\ UNCHANGED elapsed

GetState ==
  /\ state' = Observed
  /\ UNCHANGED <<failures, elapsed>>

\* Mutant of RecordSuccess: it closes the circuit and keeps the count.
RecordSuccessKeepingCount ==
  /\ state' = "closed"
  /\ UNCHANGED <<failures, elapsed>>

RecordSuccess ==
  /\ failures' = 0
  /\ state' = "closed"
  /\ UNCHANGED elapsed

\* A failure never clears `open'; in the states open and half-open, and at
\* the threshold, it (re)starts the cooldown.
RecordFailure ==
  /\ failures' = UpTo(Threshold, failures + 1)
  /\ IF state = "half-open" \/ failures + 1 >= Threshold
       THEN state' = "open" /\ elapsed' = 0
       ELSE UNCHANGED <<state, elapsed>>

\* now() moves on.
Tick ==
  /\ elapsed' = UpTo(Cooldown, elapsed + 1)
  /\ UNCHANGED <<failures, state>>

Next == GetState \/ RecordSuccess \/ RecordFailure \/ Tick

-----------------------------------------------------------------------------
TypeOK ==
  /\ failures \in 0..Threshold
  /\ state \in CircuitState
  /\ elapsed \in 0..Cooldown

\* The circuit is closed exactly while fewer than Threshold failures were
\* recorded since the last success, whatever the order of the calls: a
\* half-open circuit has not forgotten why it opened, so recordFailure
\* reopens it even without its half-open test.
ClosedBelowThreshold == (state = "closed") <=> (failures < Threshold)

\* Only the end of a cooldown turns it half-open, and no failure leaves it so.
HalfOpenAfterCooldown == state = "half-open" => elapsed = Cooldown
=============================================================================
