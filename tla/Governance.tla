----------------------------- MODULE Governance -----------------------------
(***************************************************************************)
(* The governance journal .aios/governance/decisions.jsonl and its audit   *)
(* (engines/governance/src/index.ts).  A decision is what the audit looks  *)
(* at: its verdict, whether its kind is a known one, the policies it names.*)
(***************************************************************************)
EXTENDS Policy, EventLog

\* KNOWN_DECISION_KINDS; a blank kind is recorded as a note.
KnownKinds == {"policy", "adr", "release", "exception", "note", "audit"}
NormalizeKind(kind) == IF kind = "" THEN "note" ELSE kind

\* PLATFORM_CORE_MUST_IDS
PlatformCoreMustIds ==
  {"official-docs", "trade-offs", "no-overengineering", "resource-first",
   "git-flow-sandbox", "conventional-commits", "agents-as-plugins",
   "docs-language-en"}

\* The row recordDecision() makes of its input.
Decision(input) ==
  [verdict   |-> IF input.verdict = "none" THEN "info" ELSE input.verdict,
   kind      |-> NormalizeKind(input.kind),
   policyIds |-> input.policyIds \ {""}]

\* recordDecision throws before it writes.
Refused(input) ==
  \/ input.summary = ""
  \/ Decision(input).verdict \notin {"pass", "fail", "info"}

\* recordDecision: one line.  The append may throw, or die, within it.
RecordDecision(input) ==
  IF Refused(input) THEN UNCHANGED logVars
  ELSE RecordMetricEvent(Decision(input)) \/ Tear(Decision(input))

\* Mutant of ListDecisions: the oldest rows are listed.
ListOldestDecisions(limit) ==
  Reverse(SubSeq(rows, 1, IF limit > Len(rows) THEN Len(rows) ELSE limit))

\* listDecisions: slice(-limit), newest first.  slice(-0) is the whole list.
ListDecisions(limit) ==
  LET from == IF limit = 0 \/ limit > Len(rows) THEN 1 ELSE Len(rows) - limit + 1
  IN  Reverse(SubSeq(rows, from, Len(rows)))

Finding(id, severity) == [id |-> id, severity |-> severity, of |-> "home"]

\* auditGovernance on the rules loaded and the decisions listed; docs is
\* "skipped" where the caller leaves the documentation out.  The findings are
\* a set: their order, by severity, is presentation.
AuditGovernance(rules, listed, docs) ==
  LET must == ToSet(MustIds(rules))
      When(condition, id, severity) == IF condition THEN {Finding(id, severity)} ELSE {}
      found == UNION {
        When(must = {}, "gov-no-must", "warn"),
        When(must # {} /\ ~PlatformCoreMustIds \subseteq must, "gov-missing-core-must", "warn"),
        When(listed = <<>>, "gov-no-decisions", "info"),
        When(\E i \in DOMAIN listed : listed[i].verdict = "fail", "gov-fail-verdicts", "error"),
        When(\E i \in DOMAIN listed : ~listed[i].policyIds \subseteq IdsOf(rules),
             "gov-unknown-policy-ref", "warn"),
        When(\E i \in DOMAIN listed : NormalizeKind(listed[i].kind) \notin KnownKinds,
             "gov-unknown-kind", "info"),
        When(docs = "errors", "gov-docs-drift", "warn")}
  IN  [findings |-> found,
       ok       |-> ~\E f \in found : f.severity = "error",
       count    |-> Len(listed)]
=============================================================================
