---------------------------- MODULE Documentation ----------------------------
(***************************************************************************)
(* auditDocumentation() of engines/documentation/src/index.ts: what of the *)
(* canonical documents a repository has, with the inventory of its Prompt  *)
(* Knowledge Base.  A repository is the set of its files, the entries of   *)
(* docs/prompts/index.yaml, and the engines in it.                         *)
(***************************************************************************)
EXTENDS FiniteSets, Integers

CONSTANTS
  Adrs,   \* files under docs/adr
  Assets, \* files under docs/prompts/by-domain
  Repos   \* repositories: [files, index, readable, engines]

VARIABLES
  repo,   \* the repository that was audited
  audit   \* what came of it

docVars == <<repo, audit>>

CanonicalDocs ==
  {"README.md", "CHANGELOG.md", "AGENTS.md", "docs/FOUNDATION.md", "docs/VISION.md",
   "docs/ROADMAP.md", "docs/architecture/overview.md",
   "docs/architecture/system-guide.md", "policies/aios.policies.json"}
ExpectedAdrs == {"0001", "0002", "0003"}
PkbCanonical == {"docs/prompts/README.md", "docs/prompts/pkb-evolution.md", "docs/prompts/index.yaml"}

Finding(id, severity, path) == [id |-> id, severity |-> severity, path |-> path]
When(condition, id, severity) ==
  IF condition THEN {Finding(id, severity, "none")} ELSE {}
\* Mutant of Missing: only the first missing path is reported.
MissingFirst(paths, files, id, severity) ==
  {Finding(id, severity, p) : p \in {q \in paths \ files : q = CHOOSE x \in paths \ files : TRUE}}

Missing(paths, files, id, severity) ==
  {Finding(id, severity, p) : p \in paths \ files}

\* parsePkbIndexPaths on an index that can be read, as paths of files
Indexed(r) ==
  IF "docs/prompts/index.yaml" \in r.files /\ r.readable THEN r.index ELSE {}

\* auditPkbInventory
AuditPkbInventory(r) ==
  LET there == "docs/prompts/index.yaml" \in r.files
      orphans == (r.files \intersect Assets) \ r.index
  IN  UNION {
        Missing(PkbCanonical, r.files, "pkb-missing", "warn"),
        IF there /\ ~r.readable
          THEN {Finding("pkb-index-unreadable", "warn", "docs/prompts/index.yaml")} ELSE {},
        Missing(Indexed(r), r.files, "pkb-index-missing", "warn"),
        When(there /\ r.readable, "pkb-index-count", "info"),
        When(there /\ r.readable /\ orphans # {}, "pkb-orphan-assets", "info")}

\* The documents no repository may be without
Grave == {"README.md", "docs/FOUNDATION.md"}

\* auditDocumentation
AuditDocumentation(r) ==
  LET files == r.files
      known == CanonicalDocs \union ExpectedAdrs \union PkbCanonical \union Indexed(r)
      phase3 == {"documentation", "governance"} \subseteq r.engines
      found == UNION {
        Missing(CanonicalDocs \intersect Grave, files, "missing", "error"),
        Missing(CanonicalDocs \ Grave, files, "missing", "warn"),
        Missing(ExpectedAdrs, files, "missing-adr", "warn"),
        When(files \intersect Adrs = {}, "no-adrs", "error"),
        When(files \intersect Adrs # {}, "adr-count", "info"),
        When("docs/architecture/system-guide.md" \in files /\ "documentation" \in r.engines,
             "engine-documentation", "info"),
        When(~phase3, "engines-phase3", "info"),
        Missing({"policies/aios.policies.json"}, files, "policies-missing", "error"),
        AuditPkbInventory(r)}
  IN  [present  |-> known \intersect files,
       missing  |-> known \ files,
       findings |-> found,
       ok       |-> ~\E f \in found : f.severity = "error"]

NoAudit == [present |-> {}, missing |-> {}, findings |-> {}, ok |-> FALSE]
NoRepo == [files |-> {}, index |-> {}, readable |-> FALSE, engines |-> {}]

DocInit == repo = NoRepo /\ audit = NoAudit

AuditDocs ==
  /\ audit = NoAudit
  /\ \E r \in Repos : repo' = r /\ audit' = AuditDocumentation(r)

DocSpec == DocInit /\ [][AuditDocs]_docVars

-----------------------------------------------------------------------------
(* Properties.                                                             *)

\* An audit accounts for every path it knows of: it is present or missing, one
\* that is missing has a finding and no other has but an index that cannot be read,
\* an asset on disk that a readable index leaves out is told of, and the audit is ok exactly for a
\* repository with its README, its FOUNDATION, its policies and an ADR.
AuditAccounts ==
  audit # NoAudit =>
    /\ audit.present \subseteq repo.files
    /\ audit.missing \intersect repo.files = {}
    /\ audit.missing =
         {f.path : f \in {g \in audit.findings : g.id # "pkb-index-unreadable"}} \ {"none"}
    /\ \A a \in repo.files \intersect Assets :
         Indexed(repo) # {} => a \in audit.present \/ \E f \in audit.findings : f.id = "pkb-orphan-assets"
    /\ audit.ok <=> /\ {"README.md", "docs/FOUNDATION.md", "policies/aios.policies.json"} \subseteq repo.files
                     /\ repo.files \intersect Adrs # {}
=============================================================================
