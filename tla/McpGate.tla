------------------------------- MODULE McpGate -------------------------------
(***************************************************************************)
(* The wrapper around every tool of the MCP server (apps/mcp/src/index.ts) *)
(* with authorizeMcpTool() of packages/shared and authorizeSkillTool() of  *)
(* engines/prompt: privilege and consent first, then the skill packs, then *)
(* the body of the tool, and a line in the event log for each decision.    *)
(*                                                                         *)
(* Calls of several server processes overlap; within one the wrapper runs  *)
(* without an await up to the body.  The operator edits the policies and   *)
(* the skill catalog meanwhile.                                            *)
(***************************************************************************)
EXTENDS EventLog, Skills

CONSTANTS
  Call,
  Requests,   \* what may be called: a tool, the skillIds among its arguments,
              \* and the environment of the server
  Catalogs    \* the skill catalogs there may be, unless they do not parse

ASSUME McpAssumption ==
  /\ \A req \in Requests :
       req.skillIds \in Seq(STRING) /\ req.env.skillIds \in Seq(STRING)
  /\ \A catalog \in Catalogs : catalog \in Seq(ToSet(catalog))

VARIABLES
  consent,   \* is `mcp-safe-write-consent' a must-policy?
  request,   \* the calls
  pc,        \* where the wrapper stands
  reason,    \* what authorizeMcpTool() said
  ran,       \* the calls whose tool body was entered
  judged,    \* history: the value of `consent' each call was judged by
  lost       \* history: calls one of whose lines could not be written

callVars == <<request, pc, reason, ran, judged, lost>>
vars == <<logVars, consent, callVars>>

PrivilegeRank ==
  [READ_ONLY |-> 0, SAFE_WRITE |-> 1, CONTROLLED_EXECUTION |-> 2, PRIVILEGED |-> 3,
   HUMAN_APPROVAL_REQUIRED |-> 4]
Privilege == DOMAIN PrivilegeRank

\* A tool nobody classified needs PRIVILEGED.
PrivilegeForMcpTool(tool) ==
  CASE tool \in {"aios_contract_version", "aios_compile_prompt", "aios_list_workspaces",
                 "aios_workspace_validate", "aios_build_knowledge", "aios_memory_recall",
                 "aios_load_policies", "aios_provider_health", "aios_provider_models",
                 "aios_list_agents", "aios_governance_status", "aios_audit_docs",
                 "aios_search_pkb", "aios_governance_audit", "aios_operational_state",
                 "aios_visibility", "aios_get_run_decisions"} -> "READ_ONLY"
    [] tool \in {"aios_export_obsidian", "aios_pkb_rebuild_vectors", "aios_memory_remember",
                 "aios_memory_clear", "aios_workspace_upsert",
                 "aios_governance_record"} -> "SAFE_WRITE"
    [] tool \in {"aios_run_pipeline", "aios_run_across_workspaces",
                 "aios_provider_chat"} -> "CONTROLLED_EXECUTION"
    [] OTHER -> "PRIVILEGED"

SafeWriteConsentTools ==
  {"aios_memory_clear", "aios_export_obsidian", "aios_pkb_rebuild_vectors"}

\* AIOS_MCP_PRIVILEGE, if it is one.
ResolveCallerPrivilege(env) ==
  IF env.privilege \in Privilege THEN env.privilege ELSE "CONTROLLED_EXECUTION"

\* Mutant of AuthorizeMcpTool: consent is asked of whoever has no higher rank.
AuthorizeByRank(req, must) ==
  LET required == PrivilegeForMcpTool(req.tool)
      caller   == ResolveCallerPrivilege(req.env)
  IN  CASE PrivilegeRank[caller] < PrivilegeRank[required] -> "insufficient-privilege"
        [] required = "PRIVILEGED" /\ ~req.env.allowPrivileged -> "privileged-not-enabled"
        [] must /\ req.tool \in SafeWriteConsentTools /\ ~req.env.allowSafeWrite
             /\ caller = required -> "mcp-safe-write-consent"
        [] OTHER -> "allowed"

\* authorizeMcpTool: the first rule that applies.
AuthorizeMcpTool(req, must) ==
  LET required == PrivilegeForMcpTool(req.tool)
      caller   == ResolveCallerPrivilege(req.env)
  IN  IF required = "HUMAN_APPROVAL_REQUIRED" THEN "human-approval-required"
      ELSE IF PrivilegeRank[caller] < PrivilegeRank[required] THEN "insufficient-privilege"
      ELSE IF required = "PRIVILEGED" /\ ~req.env.allowPrivileged THEN "privileged-not-enabled"
      ELSE IF must /\ req.tool \in SafeWriteConsentTools /\ ~req.env.allowSafeWrite
        THEN "mcp-safe-write-consent"
      ELSE "allowed"

\* Mutant of EffectiveSkillIds: a call without skillIds is bound by none.
SkillIdsOfCall(req) ==
  IF req.skillIds = <<>> THEN <<>> ELSE NormalizeIds(req.env.skillIds \o req.skillIds)

\* AIOS_MCP_SKILL_IDS, then the skillIds of the call.
EffectiveSkillIds(req) == NormalizeIds(req.env.skillIds \o req.skillIds)

Init ==
  /\ InitLog
  /\ consent \in BOOLEAN
  /\ request \in [Call -> Requests]
  /\ pc = [c \in Call |-> "new"]
  /\ reason = [c \in Call |-> "none"]
  /\ ran = {}
  /\ judged = [c \in Call |-> FALSE]
  /\ lost = {}

\* The operator edits the policies file.
EditPolicies ==
  /\ consent' = ~consent
  /\ UNCHANGED <<logVars, callVars>>

\* The policies are read, and the decision is made.
Authorize(c) ==
  /\ pc[c] = "new"
  /\ pc' = [pc EXCEPT ![c] = "judged"]
  /\ reason' = [reason EXCEPT ![c] = AuthorizeMcpTool(request[c], consent)]
  /\ judged' = [judged EXCEPT ![c] = consent]
  /\ UNCHANGED <<logVars, consent, request, ran, lost>>

\* loadPolicies() throws: the call fails, and no line is written.
Unreadable(c) ==
  /\ pc[c] = "new"
  /\ pc' = [pc EXCEPT ![c] = "failed"]
  /\ UNCHANGED <<logVars, consent, request, reason, ran, judged, lost>>

Line(c, allowed) == [call |-> c, allowed |-> allowed]

\* auditMcpDecision: whether its line can be written changes nothing else.
AuditMcpDecision(c, allowed) ==
  \/ RecordMetricEvent(Line(c, allowed)) /\ UNCHANGED lost
  \/ RecordThrows(Line(c, allowed)) /\ lost' = lost \union {c}

\* Mutant of Audit: denials are not written.
AuditAllowed(c) ==
  /\ pc[c] = "judged"
  /\ IF reason[c] = "allowed" THEN AuditMcpDecision(c, TRUE) ELSE UNCHANGED <<logVars, lost>>
  /\ pc' = [pc EXCEPT ![c] = IF reason[c] = "allowed" THEN "authorized" ELSE "denied"]
  /\ UNCHANGED <<consent, request, reason, ran, judged>>

Audit(c) ==
  /\ pc[c] = "judged"
  /\ AuditMcpDecision(c, reason[c] = "allowed")
  /\ pc' = [pc EXCEPT ![c] = IF reason[c] = "allowed" THEN "authorized" ELSE "denied"]
  /\ UNCHANGED <<consent, request, reason, ran, judged>>

\* The packs allow the tool: its body is entered.
Enter(c, catalog) ==
  /\ pc[c] = "authorized"
  /\ AuthorizeSkillTool(request[c].tool, EffectiveSkillIds(request[c]), catalog)
  /\ pc' = [pc EXCEPT ![c] = "running"]
  /\ ran' = ran \union {c}
  /\ UNCHANGED <<logVars, consent, request, reason, judged, lost>>

\* They do not: a second line is due.
DeniedBySkill(c, catalog) ==
  /\ pc[c] = "authorized"
  /\ ~AuthorizeSkillTool(request[c].tool, EffectiveSkillIds(request[c]), catalog)
  /\ pc' = [pc EXCEPT ![c] = "skill denied"]
  /\ UNCHANGED <<logVars, consent, request, reason, ran, judged, lost>>

\* The catalog does not parse: authorizeSkillTool() throws, and the one line
\* written so far says the call was allowed.
CatalogThrows(c) ==
  /\ pc[c] = "authorized"
  /\ EffectiveSkillIds(request[c]) # <<>>
  /\ pc' = [pc EXCEPT ![c] = "failed"]
  /\ UNCHANGED <<logVars, consent, request, reason, ran, judged, lost>>

AuditSkillDenial(c) ==
  /\ pc[c] = "skill denied"
  /\ AuditMcpDecision(c, FALSE)
  /\ pc' = [pc EXCEPT ![c] = "denied"]
  /\ UNCHANGED <<consent, request, reason, ran, judged>>

\* The body returns or throws; the server answers either way.
Return(c) ==
  /\ pc[c] = "running"
  /\ pc' = [pc EXCEPT ![c] = "answered"]
  /\ UNCHANGED <<logVars, consent, request, reason, ran, judged, lost>>

\* The server dies, maybe within an append.
Die(c) ==
  /\ pc[c] \in {"judged", "authorized", "skill denied", "running"}
  /\ \/ UNCHANGED logVars
     \/ pc[c] = "judged" /\ Tear(Line(c, reason[c] = "allowed"))
     \/ pc[c] = "skill denied" /\ Tear(Line(c, FALSE))
  /\ pc' = [pc EXCEPT ![c] = "dead"]
  /\ UNCHANGED <<consent, request, reason, ran, judged, lost>>

Next ==
  \/ EditPolicies
  \/ \E c \in Call :
       \/ Authorize(c) \/ Unreadable(c) \/ Audit(c)
       \/ \E catalog \in Catalogs : Enter(c, catalog) \/ DeniedBySkill(c, catalog)
       \/ CatalogThrows(c) \/ AuditSkillDenial(c) \/ Return(c) \/ Die(c)

Spec == Init /\ [][Next]_vars

-----------------------------------------------------------------------------
(* Properties.                                                             *)

Reasons ==
  {"none", "allowed", "human-approval-required", "insufficient-privilege",
   "privileged-not-enabled", "mcp-safe-write-consent"}

\* Every variable keeps its type, and only a call that authorizeMcpTool()
\* allowed gets past the wrapper's first check.
TypeOK ==
  /\ rows \in Seq([call : Call, allowed : BOOLEAN])
  /\ tail \in Ending
  /\ tears \in Nat
  /\ consent \in BOOLEAN
  /\ request \in [Call -> Requests]
  /\ pc \in [Call -> {"new", "judged", "authorized", "skill denied", "running",
                      "answered", "denied", "failed", "dead"}]
  /\ reason \in [Call -> Reasons]
  /\ judged \in [Call -> BOOLEAN]
  /\ lost \subseteq Call
  /\ ran \subseteq {c \in Call : reason[c] = "allowed"}
  /\ \A c \in Call : pc[c] \in {"authorized", "skill denied", "running", "answered"} =>
       reason[c] = "allowed"

\* No body of a tool is entered that the environment of the server does not
\* grant (ADR-0024), by any order of calls and edits of the policies: each
\* rank has its tools, a tool of rank PRIVILEGED also needs its own switch,
\* and so does a consent tool if consent was a must-policy when it was called.
PrivilegeBinds ==
  \A c \in ran :
    LET caller   == ResolveCallerPrivilege(request[c].env)
        required == PrivilegeForMcpTool(request[c].tool)
    IN  /\ caller = "READ_ONLY" => required = "READ_ONLY"
        /\ caller = "SAFE_WRITE" => required \in {"READ_ONLY", "SAFE_WRITE"}
        /\ required = "PRIVILEGED" =>
             /\ caller \in {"PRIVILEGED", "HUMAN_APPROVAL_REQUIRED"}
             /\ request[c].env.allowPrivileged
        /\ judged[c] /\ request[c].tool \in SafeWriteConsentTools =>
             request[c].env.allowSafeWrite

\* A call that the environment or its own arguments bind to skills (ADR-0026)
\* enters its body only if a catalog had a pack of one of those names that
\* allows the tool: leaving skillIds out of the call frees it of nothing.
SkillsBind ==
  \A c \in ran :
    LET ids == ToSet(request[c].env.skillIds \o request[c].skillIds) \ {""}
    IN  ids # {} =>
          \E catalog \in Catalogs : \E pack \in ToSet(catalog) :
            pack.id \in ids /\ request[c].tool \in pack.allowedTools

\* The places of a call's lines in the event log.
LinesOf(c) == {i \in DOMAIN rows : rows[i].call = c}

OneLine(c, allowed) ==
  \E i \in DOMAIN rows : LinesOf(c) = {i} /\ rows[i].allowed = allowed

\* Allowed, and then denied by the skill packs.
Retracted(c) ==
  \E i, k \in DOMAIN rows :
    i < k /\ LinesOf(c) = {i, k} /\ rows[i].allowed /\ ~rows[k].allowed

\* What the event log should say of a call that was answered or denied.
Told(c) ==
  IF c \in ran THEN OneLine(c, TRUE)
  ELSE IF reason[c] = "allowed" THEN Retracted(c)
  ELSE OneLine(c, FALSE)

\* The event log ends each call's lines with what became of it, however the
\* calls overlap, unless an append of its own threw; an append that broke off
\* spoils this for at most one other call.
LinesTell ==
  Cardinality({c \in Call \ lost :
                 /\ pc[c] \in {"running", "answered", "denied"}
                 /\ ~Told(c)}) <= tears
=============================================================================
