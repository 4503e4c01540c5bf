----------------------------- MODULE QualityGate -----------------------------
(***************************************************************************)
(* engines/decision/src/index.ts: which agents an intent schedules; the    *)
(* plugin list engines/orchestration/src/index.ts picks them from; and     *)
(* evaluateQuality() of engines/quality-gate/src/index.ts, as runPipeline  *)
(* calls it.  A result is abstracted to what the checks look at:           *)
(*   agent     who returned it                                             *)
(*   ok        its ok flag                                                 *)
(*   injected  its findings include policies.injected                      *)
(*   domain    it has a finding of its own, beside those the pipeline adds *)
(***************************************************************************)
EXTENDS SequencesExt

IntentKind ==
  {"analyze.project", "explain.code", "review.change", "implement.feature",
   "fix.bug", "audit.security", "unknown"}

\* impliesActIntent: the request asks for a change of the code.
ActIntentKind == {"implement.feature", "fix.bug"}

BuiltinPlugins == <<"architecture", "appsec", "docs", "qa">>

AgentId == ToSet(BuiltinPlugins)

AgentsForIntent(kind) ==
  CASE kind \in {"analyze.project", "implement.feature"}              -> AgentId
    [] kind = "explain.code"                            -> {"architecture", "docs"}
    [] kind \in {"review.change", "fix.bug", "audit.security"}
                                            -> {"architecture", "appsec", "qa"}
    [] kind = "unknown"                                               -> {}

\* selectWorkflowPlugins: a registry that lists agents selects the ones with
\* a runner, in its order and once each; if none is left, or the registry
\* cannot be read (names = <<>>), the built-in list takes its place.
PluginsFromRegistry(names) ==
  LET known == SelectSeq(names, LAMBDA a : a \in AgentId)
      once  == FoldLeft(LAMBDA seen, a : IF Contains(seen, a) THEN seen ELSE Append(seen, a),
                        <<>>, known)
  IN  IF once = <<>> THEN BuiltinPlugins ELSE once

-----------------------------------------------------------------------------
(* The quality gate.                                                       *)

Checks(results, kind, hasContext, actAvailable) ==
  LET isUnknown == kind = "unknown"
      all       == {results[i] : i \in DOMAIN results}
      ranIds    == {r.agent : r \in all}
  IN  [agentsOk          |-> \A r \in all : r.ok,
       knownIntent       |-> ~isUnknown,
       agentsScheduled   |-> isUnknown \/ AgentsForIntent(kind) \subseteq ranIds,
       nonEmptyRun       |-> isUnknown \/ results # <<>>,
       contextPresent    |-> kind = "analyze.project" => hasContext,
       policiesInjected  |-> \A r \in all : r.injected,
       hasDomainFindings |-> \A r \in all : r.domain,
       actAvailable      |-> kind \in ActIntentKind => actAvailable]

EvaluateQuality(results, kind, hasContext, actAvailable) ==
  LET checks   == Checks(results, kind, hasContext, actAvailable)
      blockers == {c \in DOMAIN checks : ~checks[c]}
  IN  [passed |-> blockers = {}, blockers |-> blockers]
=============================================================================
