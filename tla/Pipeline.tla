------------------------------ MODULE Pipeline ------------------------------
(***************************************************************************)
(* runPipeline() of packages/pipeline/src/index.ts with the workflow it    *)
(* awaits (engines/orchestration/src/index.ts), the quality gate, the      *)
(* decision ledger and the run store.  Several requests are under way at   *)
(* once, in one process or in several that share an AIOS_HOME; an action   *)
(* is the code from one await to the next.                                 *)
(*                                                                         *)
(* What the engines before the workflow find out is an input: the intent,  *)
(* the plugins, the workspace, and whether there are context snippets;     *)
(* there always are policies, because loadPolicies() merges the defaults   *)
(* in.  The skill catalog is read after the workflow, as it is by then.    *)
(* Each append to the metrics file may fail, whatever became of the last;  *)
(* one that throws may leave a part of its line, which the next one joins: *)
(* what a reader finds is EventLog's and Visibility's, here the appends    *)
(* that returned are counted.                                              *)
(***************************************************************************)
EXTENDS QualityGate, Skills, FiniteSets, Integers

CONSTANTS
  Run,          \* requests, named by the runId they will get
  Workloads,    \* what may come in: functions from requests to what the
                \* engines before the workflow find out about each
  Catalogs,     \* the skill catalogs there may be, unless they do not parse
  Window,
  MaxItems

\* What selectWorkflowPlugins() returns: no plugin comes twice.
Plugins ==
  {list \in Seq(AgentId) : \A i, k \in DOMAIN list : list[i] = list[k] => i = k}

\* The intent, the plugins, the skills asked for, whether a workspace is known
\* and whether there are snippets, and whether AIOS_PERSIST_RUNS is on.
Request ==
  [kind : IntentKind, plugins : Plugins, skillIds : Seq(STRING),
   workspace : BOOLEAN, context : BOOLEAN, persist : BOOLEAN]

ASSUME PipelineAssumption ==
  /\ \A load \in Workloads :
       /\ DOMAIN load \subseteq Run
       /\ \A r \in DOMAIN load : load[r] \in Request
  /\ \A catalog \in Catalogs : \A i \in DOMAIN catalog :
       catalog[i].failurePolicy \in FailurePolicy
  /\ Window \in Nat \ {0}
  /\ MaxItems \in Nat \ {0}

VARIABLES
  pc,         \* where each runPipeline() stands
  request,    \* what it found out about the request
  todo,       \* the places, in the list of plugins, of those still to run
  results, ran, skipped,   \* the arrays of runWorkflow(), the last as a set
  verdict,    \* what the gate said
  ledger,     \* PipelineRun.decisions
  events,     \* the agent.execution lines each request appended without an error
  returned,   \* history: what each plugin's run() came to
  stage, file, index, tail, failed, tears   \* the run store

flowVars == <<pc, request, todo, results, ran, skipped, verdict, ledger, events, returned>>
storeVars == <<stage, file, index, tail, failed, tears>>
vars == <<flowVars, storeVars>>

\* A failed or denied decision is told apart by its subject and value, which
\* attentionId() leaves as they are (see RunStore for what it does else).
Store == INSTANCE RunStore WITH
  Failures <- Seq({"agent", "gate", "skill"} \X STRING),
  AttentionId <- LAMBDA f : f

NoVerdict == [passed |-> FALSE, blockers |-> {}]

Init ==
  /\ pc = [r \in Run |-> "new"]
  /\ request \in Workloads
  /\ todo = [r \in Run |-> {}]
  /\ results = [r \in Run |-> <<>>]
  /\ ran = [r \in Run |-> <<>>]
  /\ skipped = [r \in Run |-> {}]
  /\ verdict = [r \in Run |-> NoVerdict]
  /\ ledger = [r \in Run |-> <<>>]
  /\ events = [r \in Run |-> <<>>]
  /\ returned = [r \in Run |-> <<>>]
  /\ Store!Init

-----------------------------------------------------------------------------
(* The workflow.                                                           *)

\* shouldRunAgent for each plugin of a request: the places of those to run.
ShouldRun(r) ==
  {i \in DOMAIN request[r].plugins : request[r].plugins[i] \in AgentsForIntent(request[r].kind)}

\* An engine throws before the workflow: the registry, the policies or the
\* repository cannot be read.
RejectEarly(r) ==
  /\ r \in DOMAIN request
  /\ pc[r] = "new"
  /\ pc' = [pc EXCEPT ![r] = "rejected"]
  /\ UNCHANGED <<request, todo, results, ran, skipped, verdict, ledger, events, returned, storeVars>>

\* Up to the first plugin's await.  Which plugins are skipped depends on the
\* intent alone, so the loop over them is split here.
Start(r) ==
  /\ r \in DOMAIN request
  /\ pc[r] = "new"
  /\ todo' = [todo EXCEPT ![r] = ShouldRun(r)]
  /\ skipped' = [skipped EXCEPT ![r] =
                   {request[r].plugins[i] : i \in DOMAIN request[r].plugins \ ShouldRun(r)}]
  /\ pc' = [pc EXCEPT ![r] = "working"]
  /\ UNCHANGED <<request, results, ran, verdict, ledger, events, returned, storeVars>>

\* What a plugin's run() may come to; "bare" is ok, with no finding.  (The
\* four built-in runners always come back ok with one.)
Outcome == {"ok", "bare", "bad", "throws"}

\* The plugin whose turn it is.
Turn(r) == request[r].plugins[Min(todo[r])]

Enriched(r, outcome) ==
  [agent |-> Turn(r), ok |-> outcome \in {"ok", "bare"},
   injected |-> TRUE, domain |-> outcome # "bare"]

OrchestrationError(r) ==
  [agent |-> Turn(r), ok |-> FALSE, injected |-> FALSE, domain |-> TRUE]

\* The plugin's turn ends with these results pushed and this line recorded.
Push(r, pushed) ==
  /\ results' = [results EXCEPT ![r] = @ \o pushed]
  /\ ran' = [ran EXCEPT ![r] = @ \o [i \in DOMAIN pushed |-> Turn(r)]]
  /\ todo' = [todo EXCEPT ![r] = @ \ {Min(@)}]

\* Mutant of RecordAgentExecution: every execution is a success.
RecordSuccessOnly(r, success) ==
  events' = [events EXCEPT ![r] = Append(@, [agent |-> Turn(r), success |-> TRUE])]

RecordAgentExecution(r, success) ==
  events' = [events EXCEPT ![r] = Append(@, [agent |-> Turn(r), success |-> success])]

Settle(r, outcome) ==
  /\ pc[r] = "working"
  /\ todo[r] # {}
  /\ returned' = [returned EXCEPT ![r] = Append(@, [agent |-> Turn(r), outcome |-> outcome])]
  /\ UNCHANGED <<request, skipped, verdict, ledger, storeVars>>

\* await plugin.run() resolves, and the outcome is recorded.
AgentDone(r, outcome) ==
  /\ Settle(r, outcome)
  /\ outcome # "throws"
  /\ Push(r, <<Enriched(r, outcome)>>)
  /\ RecordAgentExecution(r, Enriched(r, outcome).ok)
  /\ UNCHANGED pc

\* Mutant of Caught: the catch block pushes no result of its own.
CaughtSilently(r, outcome) == IF outcome = "throws" THEN <<>> ELSE <<Enriched(r, outcome)>>

\* What the catch block finds pushed already: run() threw before the push,
\* or recordAgentExecution() threw after it.
Caught(r, outcome) ==
  (IF outcome = "throws" THEN <<>> ELSE <<Enriched(r, outcome)>>) \o <<OrchestrationError(r)>>

AgentCaught(r, outcome) ==
  /\ Settle(r, outcome)
  /\ Push(r, Caught(r, outcome))
  /\ RecordAgentExecution(r, FALSE)
  /\ UNCHANGED pc

\* recordAgentExecution() throws in the catch block too: runWorkflow() and
\* runPipeline() reject.
AgentAborts(r, outcome) ==
  /\ Settle(r, outcome)
  /\ Push(r, Caught(r, outcome))
  /\ pc' = [pc EXCEPT ![r] = "aborted"]
  /\ UNCHANGED events

-----------------------------------------------------------------------------
(* The gate, the ledger and the store.                                     *)

\* find() by agent id.
Find(list, a) == list[SelectInSeq(list, LAMBDA x : x.agent = a)]

\* Mutant of AgentSteps: results are looked up from the end.
AgentStepsByLast(ids, found, left) ==
  LET ResultOf(a) == found[SelectLastInSeq(found, LAMBDA x : x.agent = a)]
  IN  [i \in DOMAIN ids |-> [agent |-> ids[i], status |-> IF ResultOf(ids[i]).ok THEN "ok" ELSE "fail"]]
      \o SetToSeq({[agent |-> a, status |-> "skip"] : a \in left})

\* buildPipelineRun: one step per entry of `ran', its status looked up by
\* agent id in the results; then one per skipped agent, whose order shows
\* only where it is printed.
AgentSteps(ids, found, left) ==
  [i \in DOMAIN ids |-> [agent |-> ids[i], status |-> IF Find(found, ids[i]).ok THEN "ok" ELSE "fail"]]
  \o SetToSeq({[agent |-> a, status |-> "skip"] : a \in left})

Decided(subject, value, outcome) == [subject |-> subject, value |-> value, outcome |-> outcome]

\* The checks of the skill packs that hold; the repository is always known.
Met(req) ==
  {"repoPath"} \union (IF req.workspace THEN {"workspaceId"} ELSE {})
               \union (IF req.context THEN {"context"} ELSE {})

\* An agent's decision looks up the first step with its id.
AgentDecision(a, steps) ==
  Decided("agent", a, IF Find(steps, a).status = "fail" THEN "failed" ELSE "selected")

\* buildDecisionLedger: skills, agents and gate.  Intent, policy and route
\* cannot fail and are left out.
Ledger(req, ids, found, left, catalog, passed) ==
  ResolveSkillDecisions(req.skillIds, catalog, Met(req))
  \o [i \in DOMAIN ids |-> AgentDecision(ids[i], AgentSteps(ids, found, left))]
  \o SetToSeq({Decided("agent", a, "skipped") : a \in left})
  \o <<Decided("gate", IF passed THEN "pass" ELSE "fail", IF passed THEN "passed" ELSE "failed")>>

\* The subject and value of each of these decisions.
Subjects(decisions) == [i \in DOMAIN decisions |-> <<decisions[i].subject, decisions[i].value>>]

\* Mutant of FailuresIn: a failed decision is no failure.
DenialsIn(decisions) ==
  At(Subjects(decisions), {i \in DOMAIN decisions : decisions[i].outcome = "denied"})

\* The decisions skimDecisionFailures() will look for.
FailuresIn(decisions) ==
  At(Subjects(decisions), {i \in DOMAIN decisions : decisions[i].outcome \in {"failed", "denied"}})

\* No write executor is part of runPipeline().
ActAvailable == FALSE

\* runWorkflow() has resolved; up to the first write of the run store.  The
\* catalog is only read if skills were asked for.
Finish(r, catalog) ==
  /\ pc[r] = "working"
  /\ todo[r] = {}
  /\ LET v == EvaluateQuality(results[r], request[r].kind, request[r].context, ActAvailable)
         decisions == Ledger(request[r], ran[r], results[r], skipped[r], catalog, v.passed)
     IN  /\ verdict' = [verdict EXCEPT ![r] = v]
         /\ ledger' = [ledger EXCEPT ![r] = decisions]
         /\ \/ /\ request[r].persist
               /\ pc' = [pc EXCEPT ![r] = "persisting"]
               /\ Store!Begin(r, FailuresIn(decisions))
            \/ /\ ~request[r].persist
               /\ pc' = [pc EXCEPT ![r] = "answered"]
               /\ UNCHANGED storeVars
  /\ UNCHANGED <<request, todo, results, ran, skipped, events, returned>>

\* loadSkills() finds a catalog that does not parse: the plugins ran, but
\* runPipeline() rejects.
RejectLate(r) ==
  /\ pc[r] = "working"
  /\ todo[r] = {}
  /\ request[r].skillIds # <<>>
  /\ pc' = [pc EXCEPT ![r] = "rejected"]
  /\ UNCHANGED <<request, todo, results, ran, skipped, verdict, ledger, events, returned, storeVars>>

\* persistPipelineRun() goes on, or throws: runPipeline() answers either way.
Persist(r) ==
  /\ pc[r] = "persisting"
  /\ Store!Persist(r)
  /\ pc' = [pc EXCEPT ![r] = IF stage'[r] = "filed" THEN "persisting" ELSE "answered"]
  /\ UNCHANGED <<request, todo, results, ran, skipped, verdict, ledger, events, returned>>

\* The process dies.
Crash(r) ==
  /\ pc' = [pc EXCEPT ![r] = "dead"]
  /\ \/ pc[r] = "working" /\ UNCHANGED storeVars
     \/ pc[r] = "persisting" /\ (Store!TearFile(r) \/ Store!TearRow(r) \/ Store!Abandon(r))
  /\ UNCHANGED <<request, todo, results, ran, skipped, verdict, ledger, events, returned>>

Next ==
  \E r \in Run :
    \/ RejectEarly(r) \/ Start(r)
    \/ \E outcome \in Outcome :
         AgentDone(r, outcome) \/ AgentCaught(r, outcome) \/ AgentAborts(r, outcome)
    \/ \E catalog \in Catalogs : Finish(r, catalog)
    \/ RejectLate(r)
    \/ Persist(r)
    \/ Crash(r)

Spec == Init /\ [][Next]_vars

-----------------------------------------------------------------------------
(* Properties.                                                             *)

\* Every variable keeps its type; a request that is over has run every
\* scheduled plugin, unless it was aborted or died.
TypeOK ==
  /\ pc \in [Run -> {"new", "working", "persisting", "answered", "aborted", "rejected", "dead"}]
  /\ request \in Workloads
  /\ \A r \in Run :
       /\ r \in DOMAIN request => todo[r] \subseteq DOMAIN request[r].plugins
       /\ ran[r] \in Seq(AgentId)
       /\ skipped[r] \subseteq AgentId
       /\ Len(results[r]) = Len(ran[r])
       /\ pc[r] \in {"persisting", "answered"} => todo[r] = {}
  /\ Store!TypeOK

Over(r) == pc[r] \in {"persisting", "answered"}

OutcomesOf(r, a) == {returned[r][i].outcome : i \in {j \in DOMAIN returned[r] : returned[r][j].agent = a}}

\* One append told of the agent, and that it succeeded.
ToldOnce(r, a) ==
  \E i \in DOMAIN events[r] :
    /\ events[r][i].success
    /\ {k \in DOMAIN events[r] : events[r][k].agent = a} = {i}

\* The verdict of a whole run, from the outside: it passes exactly when the
\* intent is one the pipeline can serve, there was context if the project is
\* to be analysed, and each agent the intent calls for came back ok with a
\* finding, which one append told.
VerdictExact ==
  \A r \in Run : Over(r) =>
    (verdict[r].passed <=>
       /\ request[r].kind \notin ActIntentKind \union {"unknown"}
       /\ request[r].kind = "analyze.project" => request[r].context
       /\ \A a \in AgentsForIntent(request[r].kind) :
            /\ OutcomesOf(r, a) = {"ok"}
            /\ ToldOnce(r, a))

\* In a plugin's turn one append to the metrics returns, whichever of the two
\* recordAgentExecution() calls made it, and one of success only if the plugin
\* came back ok.  (The line of it is lost to readers if it joins what an append
\* that threw had left: see Visibility.)
MetricsTellOutcome ==
  \A r \in Run : pc[r] # "aborted" =>
    /\ Len(events[r]) = Len(returned[r])
    /\ \A i \in DOMAIN events[r] :
         /\ events[r][i].agent = returned[r][i].agent
         /\ events[r][i].success => returned[r][i].outcome \in {"ok", "bare"}

\* An agent's decision in the ledger is failed exactly when the agent itself
\* failed, however many results were pushed for it; and every plugin has one.
LedgerTellsOutcome ==
  \A r \in Run : Over(r) =>
    /\ \A i \in DOMAIN ledger[r] : ledger[r][i].subject = "agent" =>
         LET outcomes == OutcomesOf(r, ledger[r][i].value)
         IN  CASE ledger[r][i].outcome = "skipped"  -> outcomes = {}
               [] ledger[r][i].outcome = "failed"   -> outcomes \subseteq {"bad", "throws"}
               [] ledger[r][i].outcome = "selected" -> outcomes \subseteq {"ok", "bare"}
    /\ {request[r].plugins[i] : i \in DOMAIN request[r].plugins} =
         {ledger[r][i].value : i \in {j \in DOMAIN ledger[r] : ledger[r][j].subject = "agent"}}

\* Attention, from the plugins to the skim: while it is not full it shows
\* exactly the gates and agents that failed in a run of its window, each with
\* such a run, and no skill that nobody asked for.
FailuresShow ==
  LET rows == ToSet(Store!Listed(Window))
      Shown == Store!Skim
      Fails(r) ==
        (IF verdict[r].passed THEN {} ELSE {<<"gate", "fail">>})
          \union {<<"agent", a>> : a \in
                    {b \in ToSet(ran[r]) : OutcomesOf(r, b) \subseteq {"bad", "throws"}}}
  IN  Cardinality(Shown) < MaxItems =>
        /\ {x.id : x \in Shown} \ ({"skill"} \X STRING) = UNION {Fails(r) : r \in rows}
        /\ \A x \in Shown :
             IF x.id[1] = "skill" THEN x.id[2] \in ToSet(request[x.run].skillIds)
                                  ELSE x.id \in Fails(x.run)

\* "Auditors can answer intent -> route -> skill -> agent -> gate from one
\* persisted run" (ADR-0034): if the gate blocks on agentsOk, the ledger
\* names an agent that failed.
LedgerExplainsGate ==
  \A r \in Run : Over(r) /\ "agentsOk" \in verdict[r].blockers =>
    \E i \in DOMAIN ledger[r] : ledger[r][i].subject = "agent" /\ ledger[r][i].outcome = "failed"
=============================================================================
