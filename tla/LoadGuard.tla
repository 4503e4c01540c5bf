------------------------------ MODULE LoadGuard ------------------------------
(***************************************************************************)
(* What the callers of a guarded provider are promised, without a circuit: *)
(* no call begins within Cooldown of a failure that was at least the       *)
(* Threshold-th since the last success, and any other call may.  There are *)
(* no states, nobody looks at anything, and neither retries nor sleeps     *)
(* count.  ResilientProvider implements it.                                *)
(***************************************************************************)
EXTENDS Integers

CONSTANTS Caller, Threshold, Cooldown

VARIABLES
  count,    \* failures charged since the last success, up to Threshold
  clock,    \* time since a charge last reached Threshold, up to Cooldown
  inside    \* the callers whose call is under way

guardVars == <<count, clock, inside>>

Init ==
  /\ count = 0
  /\ clock = Cooldown
  /\ inside = {}

Shut == count = Threshold /\ clock < Cooldown

Begin(c) ==
  /\ c \notin inside
  /\ ~Shut
  /\ inside' = inside \union {c}
  /\ UNCHANGED <<count, clock>>

\* A call under way ends; the first success forgives every failure.
Leave(c) == c \in inside /\ inside' = inside \ {c}

Served(c) == Leave(c) /\ count' = 0 /\ UNCHANGED clock

Charged(c) ==
  /\ Leave(c)
  /\ count' = IF count < Threshold THEN count + 1 ELSE count
  /\ clock' = IF count' = Threshold THEN 0 ELSE clock

\* It ends with an error that is nobody's fault.
Spared(c) == Leave(c) /\ UNCHANGED <<count, clock>>

Tick ==
  /\ clock' = IF clock < Cooldown THEN clock + 1 ELSE clock
  /\ UNCHANGED <<count, inside>>

Next ==
  \/ \E c \in Caller : Begin(c) \/ Served(c) \/ Charged(c) \/ Spared(c)
  \/ Tick

Spec == Init /\ [][Next]_guardVars
=============================================================================
