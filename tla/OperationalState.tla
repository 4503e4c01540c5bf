--------------------------- MODULE OperationalState ---------------------------
(***************************************************************************)
(* getGovernanceStatus() (engines/status/src/index.ts) and the             *)
(* getOperationalState() built on it (engines/operational-state).  A call  *)
(* reads the files of the home directory one after the other, with awaits  *)
(* in between, and some of them twice, while other processes record        *)
(* decisions and the operator edits workspaces and policies.               *)
(***************************************************************************)
EXTENDS Governance, FiniteSets

CONSTANTS
  Workspace,
  PolicyFiles,   \* what policies/aios.policies.json may be edited to
  Inputs,        \* decisions others record
  Surroundings,  \* what else a status may find: whether the provider answers,
                 \* whose memory there is, how chats and agents fared, which
                 \* decisions of runs failed
  DecisionLimit, \* newest decisions the audit looks at
  MaxDecisions, MaxEdits   \* bounds

VARIABLES
  workspaces,   \* the registry: each id is absent, or a sound or broken row
  policyFile,   \* the policy file, or NoFile
  pc,           \* where the call stands
  asked,        \* the workspace it was asked to focus on, or "none"
  listed,       \* the workspaces it listed
  mustIds,      \* the must-policies it read
  report,       \* what it has found so far
  been,         \* history: how the home was since the call began
  edits         \* history: number of edits during the call

home == <<logVars, workspaces, policyFile, edits>>
call == <<pc, asked, listed, mustIds, report>>
stateVars == <<rows, tail, tears, workspaces, policyFile, edits, pc, asked, listed, mustIds, report, been>>

NoFile == [json |-> FALSE, rules |-> <<>>, absent |-> TRUE]
NoFocus == [id |-> "none", ok |-> FALSE]
NoReport ==
  [attention |-> {}, focus |-> NoFocus, count |-> 0, ok |-> FALSE]

\* A failed decision is among the newest, those the audit looks at.
AnyFailed ==
  \E i \in DOMAIN rows :
    i > Len(rows) - DecisionLimit /\ rows[i].verdict = "fail"

\* The most getOperationalState() counts of them.
CountLimit == 10000

Glimpse ==
  [failing |-> AnyFailed, count |-> Len(rows), workspaces |-> workspaces, policies |-> policyFile]

Init ==
  /\ InitLog
  /\ workspaces = [w \in Workspace |-> "absent"]
  /\ policyFile = NoFile
  /\ pc = "idle" /\ asked = "none" /\ listed = workspaces
  /\ mustIds = <<>> /\ report = NoReport /\ been = {} /\ edits = 0

\* loadPolicies({ cwd: homePath })
Load ==
  LoadPolicies([p \in {"file"} |-> policyFile],
               ResolveConfigPath("none", "none",
                                 IF policyFile.absent THEN "none" ELSE "file"),
               TRUE)

Registered(w) == listed[w] # "absent"

-----------------------------------------------------------------------------
(* What others do.                                                         *)

Watched == been' = IF pc = "idle" THEN been ELSE been \union {Glimpse'}

Record(input) ==
  /\ Len(rows) < MaxDecisions
  /\ RecordDecision(input)
  /\ tears' <= 1
  /\ UNCHANGED <<workspaces, policyFile, edits, call>>
  /\ Watched

Edit ==
  /\ edits < MaxEdits
  /\ edits' = IF pc = "idle" THEN 0 ELSE edits + 1
  /\ \/ /\ \E w \in Workspace, s \in {"absent", "sound", "broken"} :
              workspaces' = [workspaces EXCEPT ![w] = s]
        /\ UNCHANGED policyFile
     \/ policyFile' \in PolicyFiles /\ UNCHANGED workspaces
  /\ UNCHANGED <<logVars, call>>
  /\ Watched

-----------------------------------------------------------------------------
(* One call.                                                               *)

Item(id, severity, of) == [id |-> id, severity |-> severity, of |-> of]

\* buildAttention: its findings, again as a set.
BuildAttention(s, findings) ==
  LET registered == {w \in Workspace : Registered(w)}
      When(condition, id, severity) ==
        IF condition THEN {Item(id, severity, "home")} ELSE {}
  IN  UNION {
        When(~s.provider, "provider-down", "warn"),
        When(registered = {}, "no-workspaces", "warn"),
        {Item("workspace-bad", "error", w) : w \in {v \in registered : listed[v] = "broken"}},
        When(mustIds = <<>>, "no-must-policies", "warn"),
        When(registered # {} /\ s.memories \intersect registered = {}, "no-memory", "info"),
        When(s.chats = "none", "metrics-stub", "info"),
        When(s.chats = "errors", "provider-chat-errors", "warn"),
        When(s.agentErrors, "agent-execution-errors", "warn"),
        {f \in findings : f.id \notin {"gov-no-must", "gov-no-decisions", "gov-unknown-kind"}},
        s.decisions}

Reject ==
  /\ pc' = "rejected"
  /\ UNCHANGED <<home, asked, listed, mustIds, report, been>>

\* listValidatedWorkspaces and loadPolicies, up to the await of the
\* provider's health.
Begin(focus) ==
  /\ pc = "idle"
  /\ \/ ~Load.ok /\ Reject
     \/ /\ Load.ok
        /\ pc' = "health"
        /\ asked' = focus
        /\ listed' = workspaces
        /\ mustIds' = MustIds(Load.rules)
        /\ been' = {Glimpse}
        /\ UNCHANGED <<home, report>>

\* The rest of the status, up to the await of the agent catalog: memory,
\* metrics, a first audit, the skim of the run store.
Assess(s) ==
  /\ pc = "health"
  /\ \/ ~Load.ok /\ Reject
     \/ /\ Load.ok
        /\ report' = [report EXCEPT !.attention =
             BuildAttention(s,
               AuditGovernance(Load.rules, ListDecisions(DecisionLimit), "skipped").findings)]
        /\ pc' = "catalog"
        /\ UNCHANGED <<home, asked, listed, mustIds, been>>

\* The catalog cannot be listed.
CatalogThrows == pc = "catalog" /\ Reject

Sole == {w \in Workspace : Registered(w)}

\* The focus: the workspace asked for, looked up anew but judged by the
\* listing, and taken for sound where the listing did not have it; or the
\* only workspace listed.
Focus ==
  /\ pc = "catalog"
  /\ report' = [report EXCEPT !.focus =
       CASE asked # "none" /\ workspaces[asked] # "absent" ->
              [id |-> asked, ok |-> Registered(asked) => listed[asked] = "sound"]
         [] asked = "none" /\ Cardinality(Sole) = 1 ->
              [id |-> CHOOSE w \in Sole : TRUE, ok |-> \E w \in Sole : listed[w] = "sound"]
         [] OTHER -> NoFocus]
  /\ pc' = "count"
  /\ UNCHANGED <<home, asked, listed, mustIds, been>>

\* listDecisions, after the probe of git
Count ==
  /\ pc = "count"
  /\ report' = [report EXCEPT !.count = Len(ListDecisions(CountLimit))]
  /\ pc' = "audit"
  /\ UNCHANGED <<home, asked, listed, mustIds, been>>

\* The second audit, and the state is returned.
AuditAgain ==
  /\ pc = "audit"
  /\ \/ ~Load.ok /\ Reject
     \/ /\ Load.ok
        /\ report' = [report EXCEPT !.ok =
             AuditGovernance(Load.rules, ListDecisions(DecisionLimit), "skipped").ok]
        /\ pc' = "done"
        /\ UNCHANGED <<home, asked, listed, mustIds, been>>

Others == Edit \/ \E input \in Inputs : Record(input)

Next ==
  \/ pc \notin {"done", "rejected"} /\ Others
  \/ \E focus \in Workspace \union {"none"} : Begin(focus)
  \/ \E s \in Surroundings : Assess(s)
  \/ CatalogThrows \/ Focus \/ Count \/ AuditAgain

Spec == Init /\ [][Next]_stateVars

-----------------------------------------------------------------------------
(* Properties.                                                             *)

Shows(id) == \E item \in report.attention : item.id = id

\* Every part of a returned state was true at some moment of its call,
\* whatever was recorded or edited meanwhile: that a decision stands failed
\* (health and governance read the journal twice), how many there are up to
\* the limit, that the focus is sound.  One gap is the code's: a workspace registered after
\* the listing is reported sound though nothing validated it.
ReportWasTrue ==
  pc = "done" =>
    /\ \E g \in been : g.failing = Shows("gov-fail-verdicts")
    /\ \E g \in been : g.failing = ~report.ok
    /\ \E g \in been :
         report.count = IF g.count > CountLimit THEN CountLimit ELSE g.count
    /\ report.focus.ok =>
         \E g \in been : g.workspaces[report.focus.id] = "sound"
                         \/ listed[report.focus.id] = "absent"

\* The must-rules of a home: those of its file, and the built-in ones that
\* the file does not name.
MustBind ==
  {r.id : r \in {q \in ToSet(policyFile.rules) : q.severity = "must"}}
  \union (IdsOf(DefaultPolicies) \ IdsOf(policyFile.rules))

\* In a home that stands still the two audits of a call agree, and a state
\* that is ok and counts no more decisions than the audit looks at leaves no
\* failed decision anywhere; the must-rules it reports are those that bind,
\* whatever the file adds, takes over or weakens, and the focus is as it is.
StillHomeAgrees ==
  pc = "done" /\ Cardinality(been) = 1 =>
    /\ report.ok = ~Shows("gov-fail-verdicts")
    /\ report.ok /\ report.count <= DecisionLimit =>
         \A i \in DOMAIN rows : rows[i].verdict # "fail"
    /\ ToSet(mustIds) = MustBind
    /\ report.focus.id # "none" => (report.focus.ok <=> workspaces[report.focus.id] = "sound")
=============================================================================
