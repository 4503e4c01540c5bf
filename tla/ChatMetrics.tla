----------------------------- MODULE ChatMetrics -----------------------------
(***************************************************************************)
(* chatWithMetrics() of engines/status/src/index.ts, the entry point of    *)
(* the CLI and the MCP server: a chat, and one line about it in the event  *)
(* log.  The line of a success is appended inside the try block, the line  *)
(* of a failure by the catch block.  Calls of several processes overlap.   *)
(***************************************************************************)
EXTENDS EventLog

CONSTANT Call

VARIABLES
  pc,        \* where each call stands
  served,    \* the calls their provider answered
  recorded,  \* history: the line each call wrote without an error
  result     \* what each call came to

vars == <<rows, tail, tears, pc, served, recorded, result>>

Init ==
  /\ InitLog
  /\ pc = [c \in Call |-> "new"]
  /\ served = {}
  /\ recorded = [c \in Call |-> "none"]
  /\ result = [c \in Call |-> "none"]

Row(c, ok) == [call |-> c, ok |-> ok]

\* getProvider() throws for an unknown id, before the try block.
Unknown(c) ==
  /\ pc[c] = "new"
  /\ pc' = [pc EXCEPT ![c] = "done"]
  /\ result' = [result EXCEPT ![c] = "error"]
  /\ UNCHANGED <<logVars, served, recorded>>

\* p.chat(request)
Ask(c) ==
  /\ pc[c] = "new"
  /\ pc' = [pc EXCEPT ![c] = "asked"]
  /\ UNCHANGED <<logVars, served, recorded, result>>

\* The provider answers, and the line is appended.
Answer(c) ==
  /\ pc[c] = "asked"
  /\ RecordMetricEvent(Row(c, TRUE))
  /\ pc' = [pc EXCEPT ![c] = "done"]
  /\ served' = served \union {c}
  /\ recorded' = [recorded EXCEPT ![c] = "ok"]
  /\ result' = [result EXCEPT ![c] = "answer"]

\* The provider answers, but the line cannot be appended: the catch block
\* takes over, and the answer is lost.
AnswerLost(c) ==
  /\ pc[c] = "asked"
  /\ RecordThrows(Row(c, TRUE))
  /\ pc' = [pc EXCEPT ![c] = "failing"]
  /\ served' = served \union {c}
  /\ UNCHANGED <<recorded, result>>

\* The provider fails.
Reject(c) ==
  /\ pc[c] = "asked"
  /\ pc' = [pc EXCEPT ![c] = "failing"]
  /\ UNCHANGED <<logVars, served, recorded, result>>

\* Mutant of RecordFailure: the line is written once more.
RecordFailureTwice(c) ==
  /\ pc[c] = "failing"
  /\ rows' = Append(With(Row(c, FALSE)), Row(c, FALSE))
  /\ tail' = "ended"
  /\ UNCHANGED <<tears, served>>
  /\ pc' = [pc EXCEPT ![c] = "done"]
  /\ recorded' = [recorded EXCEPT ![c] = "failed"]
  /\ result' = [result EXCEPT ![c] = "error"]

\* The catch block appends its line and throws the error it caught ...
RecordFailure(c) ==
  /\ pc[c] = "failing"
  /\ RecordMetricEvent(Row(c, FALSE))
  /\ pc' = [pc EXCEPT ![c] = "done"]
  /\ recorded' = [recorded EXCEPT ![c] = "failed"]
  /\ result' = [result EXCEPT ![c] = "error"]
  /\ UNCHANGED served

\* ... or the error of its own append.
FailureLost(c) ==
  /\ pc[c] = "failing"
  /\ RecordThrows(Row(c, FALSE))
  /\ pc' = [pc EXCEPT ![c] = "done"]
  /\ result' = [result EXCEPT ![c] = "error"]
  /\ UNCHANGED <<served, recorded>>

\* The process dies, maybe within an append.
Die(c) ==
  /\ pc[c] \in {"asked", "failing"}
  /\ \/ UNCHANGED <<logVars, served>>
     \/ pc[c] = "asked" /\ Tear(Row(c, TRUE)) /\ served' = served \union {c}
     \/ pc[c] = "failing" /\ Tear(Row(c, FALSE)) /\ UNCHANGED served
  /\ pc' = [pc EXCEPT ![c] = "dead"]
  /\ UNCHANGED <<recorded, result>>

Next ==
  \E c \in Call :
    \/ Unknown(c) \/ Ask(c) \/ Answer(c) \/ AnswerLost(c) \/ Reject(c)
    \/ RecordFailure(c) \/ FailureLost(c) \/ Die(c)

Spec == Init /\ [][Next]_vars

-----------------------------------------------------------------------------
(* Properties.                                                             *)

\* Every variable keeps its type; a caller has its answer only after the line.
TypeOK ==
  /\ rows \in Seq([call : Call, ok : BOOLEAN])
  /\ tail \in Ending
  /\ tears \in Nat
  /\ pc \in [Call -> {"new", "asked", "failing", "done", "dead"}]
  /\ served \subseteq Call
  /\ recorded \in [Call -> {"none", "ok", "failed"}]
  /\ result \in [Call -> {"none", "answer", "error"}]
  /\ \A c \in Call : result[c] = "answer" => recorded[c] = "ok"

\* The snapshot counts lines, so no call may have two that parse: even one
\* whose first line was torn and who then records a failure.
CountedOnce ==
  \A i, k \in DOMAIN rows : rows[i].call = rows[k].call => i = k

\* A broken append costs one other line at most: of the calls whose line was
\* written without an error, no more are missing than appends broke off.
TearCostsOneLine ==
  Cardinality({c \in Call :
    recorded[c] # "none" /\ \A i \in DOMAIN rows : rows[i].call # c}) <= tears

\* The log counts calls: each at most once, and none of those recorded is
\* missing but for the appends that broke off.
CallsAreCounted == CountedOnce /\ TearCostsOneLine

\* "Wire MCP + CLI through chatWithMetrics (success and failure)" and "warns
\* on chat errors" (docs/adr/0019): a line says failure only for a call its
\* provider did not serve.
FailedWasNotServed ==
  \A i \in DOMAIN rows : ~rows[i].ok => rows[i].call \notin served
=============================================================================
