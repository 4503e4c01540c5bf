----------------------------- MODULE Visibility -----------------------------
(***************************************************************************)
(* correlateVisibility() (engines/visibility/src/index.ts): one snapshot   *)
(* of a stored run and of the executions in the event log.  The run is     *)
(* loaded first; an await later, while other processes run agents, store   *)
(* their runs and write other lines to the log, the executions are listed  *)
(* and the trail is built.                                                 *)
(***************************************************************************)
EXTENDS EventLog

CONSTANTS
  Run,
  Agent,
  PrefixOf,   \* pairs of agents: the id of the second begins with that of the first
  Bodies,     \* the runs there may be: agents that ran, those with a step,
              \* decisions.  A pipeline gives a step to each of its agents; a
              \* caller may hand over any run.
  Limit,      \* listAgentExecutions: rows at most,
  TailLines,  \* and the lines its maxBytes hold
  MaxOthers, MaxTears   \* bounds

VARIABLES
  stage, file, index, indexTail, failed, indexTears,   \* the run store
  body,        \* what each run consists of
  executed,    \* how many of its agents have run, with their line appended
  caught,      \* the runs that stand in the catch block of runWorkflow
  pc, anchor,  \* where the call stands, and the run it is about
  run,         \* what it correlates: a body, or NoRun
  lookup,      \* runLookup
  executions,  \* agentExecutions, by their place in the log
  cut          \* history: the log was longer than what the call read of it

Store == INSTANCE RunStore WITH
  Failures <- {<<>>}, AttentionId <- LAMBDA f : f, Window <- 1, MaxItems <- 1,
  tail <- indexTail, tears <- indexTears

storeVars == <<stage, file, index, indexTail, failed, indexTears>>
runVars == <<storeVars, body, executed, caught>>
callVars == <<pc, anchor, run, lookup, executions, cut>>
seeVars == <<logVars, runVars, callVars>>

NoRun == [agentIds |-> <<>>, steps |-> <<>>, decisions |-> 0]

\* The lines of the log: executions, each of some run (the file does not say of
\* which), and the lines of chats, tools and checks of CI.
Execution(r, a) == [kind |-> "agent.execution", run |-> r, agent |-> a]
OtherLine == [kind |-> "other", run |-> "none", agent |-> "none"]

Init ==
  /\ InitLog
  /\ Store!Init
  /\ body = [r \in Run |-> NoRun]
  /\ executed = [r \in Run |-> 0]
  /\ caught = {}
  /\ pc = "idle" /\ anchor = "none" /\ run = NoRun /\ lookup = "none"
  /\ executions = <<>> /\ cut = FALSE

-----------------------------------------------------------------------------
(* The other processes; one that dies takes no further step.               *)

\* The request and what will run for it.
StartRun(r) ==
  /\ body[r] = NoRun
  /\ \E b \in Bodies :
       /\ ToSet(b.agentIds) \subseteq ToSet(b.steps)
       /\ body' = [body EXCEPT ![r] = b]
  /\ UNCHANGED <<logVars, storeVars, executed, caught, callVars>>

Running(r) == stage[r] = "new" /\ executed[r] < Len(body[r].agentIds)
Line(r) == Execution(r, body[r].agentIds[executed[r] + 1])

RecordFails(row) == RecordThrows(row) /\ tears' <= MaxTears

\* recordAgentExecution of the agent whose turn it is.
Record(r) ==
  /\ RecordMetricEvent(Line(r))
  /\ executed' = [executed EXCEPT ![r] = @ + 1]

\* Mutant of RunAgent: the line is left to the background.
RunAgentUnrecorded(r) ==
  /\ Running(r) /\ r \notin caught
  /\ executed' = [executed EXCEPT ![r] = @ + 1]
  /\ UNCHANGED <<logVars, storeVars, body, caught, callVars>>

\* An agent runs and its line is appended, or one of the two throws.
RunAgent(r) ==
  /\ Running(r) /\ r \notin caught
  /\ \/ Record(r) /\ UNCHANGED caught
     \/ RecordFails(Line(r)) /\ caught' = caught \union {r} /\ UNCHANGED executed
  /\ UNCHANGED <<storeVars, body, callVars>>

\* The catch block appends a line of its own; if that throws as well, so does
\* runWorkflow, and the run is not stored.
AgentCaught(r) ==
  /\ r \in caught
  /\ \/ Record(r) /\ UNCHANGED stage
     \/ /\ RecordFails(Line(r)) /\ UNCHANGED executed
        /\ stage' = [stage EXCEPT ![r] = "lost"]
  /\ caught' = caught \ {r}
  /\ UNCHANGED <<file, index, indexTail, failed, indexTears, body, callVars>>

\* recordMetricEvent of a chat, a tool or a check of CI.
RecordOther ==
  /\ Cardinality({k \in DOMAIN rows : rows[k] = OtherLine}) < MaxOthers
  /\ RecordMetricEvent(OtherLine) \/ RecordFails(OtherLine)
  /\ UNCHANGED <<runVars, callVars>>

\* persistPipelineRun, once every agent has run.
StoreRun(r) ==
  /\ body[r] # NoRun
  /\ \/ executed[r] = Len(body[r].agentIds) /\ Store!Begin(r, <<>>)
     \/ Store!WriteFile(r) \/ Store!TearFile(r)
  /\ UNCHANGED <<logVars, body, executed, caught, callVars>>

-----------------------------------------------------------------------------
(* One call.                                                               *)

\* The run is the caller's, or loaded; one that does not load is reported as
\* unavailable.
Lookup(r) ==
  /\ pc = "idle"
  /\ anchor' = r
  /\ \/ /\ Store!Loads(r)
        /\ run' = body[r] /\ lookup' = "provided"
     \/ /\ ~Store!Loads(r)
        /\ run' = NoRun /\ lookup' = "unavailable"
     \/ \E given \in Bodies : run' = given /\ lookup' = "given"
  /\ pc' = "looked"
  /\ UNCHANGED <<logVars, runVars, executions, cut>>

\* A run of another id was handed over.
Mismatch ==
  /\ pc = "idle" /\ pc' = "rejected"
  /\ UNCHANGED <<logVars, runVars, anchor, run, lookup, executions, cut>>

\* The last n members of a set of places, or all of them.
Newest(places, n) ==
  {some \in SUBSET places :
    /\ IF Cardinality(places) <= n THEN some = places ELSE Cardinality(some) = n
    /\ \A k \in some, m \in places \ some : m < k}

\* listAgentExecutions, after the await of getOperationalState: of the lines
\* at the end of the file, whoever wrote them, the executions; and of these
\* the newest.
ListAgentExecutions ==
  /\ pc = "looked"
  /\ LET Read == {k \in DOMAIN rows : k > Len(rows) - TailLines}
     IN  \E shown \in Newest({k \in Read : rows[k].kind = "agent.execution"}, Limit) :
           executions' = [k \in shown |-> rows[k]]
  /\ cut' = (Len(rows) > TailLines)
  /\ pc' = "done"
  /\ UNCHANGED <<logVars, runVars, anchor, run, lookup>>

Next ==
  \/ \E r \in Run : StartRun(r) \/ RunAgent(r) \/ AgentCaught(r) \/ StoreRun(r) \/ Lookup(r)
  \/ RecordOther
  \/ Mismatch \/ ListAgentExecutions

Spec == Init /\ [][Next]_seeVars

\* buildTrail as a set, its policies left out.  A label "agent:x" contains
\* "agent:y" if x begins with y: such an agent gets no row of its own after a
\* step, or another selected agent, of the name x.
Trail ==
  LET Holds(x, y) == x = y \/ <<y, x>> \in PrefixOf
      Labelled(i) ==
        \/ \E k \in DOMAIN run.steps : Holds(run.steps[k], run.agentIds[i])
        \/ \E j \in 1..(i - 1) : Holds(run.agentIds[j], run.agentIds[i])
      Row(kind, agent) == [kind |-> kind, run |-> anchor, agent |-> agent]
  IN  UNION {
        {Row("pipeline.step", a) : a \in ToSet(run.steps)},
        {Row("selected", run.agentIds[i]) : i \in {j \in DOMAIN run.agentIds : ~Labelled(j)}},
        {Row("decision", "none") : k \in 1..run.decisions},
        {executions[k] : k \in DOMAIN executions}}

-----------------------------------------------------------------------------
(* Properties.                                                             *)

\* A trail tells what the agents of its run did.  In the snapshot of a run that
\* was loaded every execution of the run is there, unless the list is full, the
\* log was longer than what is read of it, or the line went with an append that
\* broke off, each of which costs one execution at most.  (The lines come before
\* the run is stored and are read after it was loaded; the catch block writes
\* again what did not get through.)
TrailTells ==
  pc = "done" /\ lookup = "provided" =>
    LET missing == {i \in DOMAIN run.agentIds : Execution(anchor, run.agentIds[i]) \notin Trail}
    IN  \/ cut
        \/ Cardinality(DOMAIN executions) >= Limit
        \/ Cardinality(missing) <= tears
=============================================================================
