-------------------------------- MODULE Skills --------------------------------
(***************************************************************************)
(* Skill packs (engines/prompt/src: skills.ts, skill-verify.ts and         *)
(* skill-gate.ts).  A catalog is a list of packs [id, allowedTools,        *)
(* checks, failurePolicy]; `checks' are the check: tokens of a pack, its   *)
(* free text is left out.                                                  *)
(***************************************************************************)
EXTENDS SequencesExt, Places

FailurePolicy == {"fail", "skip", "retry"}
KnownChecks == {"workspaceId", "repoPath", "context"}

Known(catalog, id) == \E i \in DOMAIN catalog : catalog[i].id = id

\* new Map(catalog): of two packs with one id the last counts.
PackOf(catalog, id) == catalog[SelectLastInSeq(catalog, LAMBDA pack : pack.id = id)]

\* Each id once, where it came first; blank ones are dropped.
NormalizeIds(ids) ==
  At(ids, {i \in DOMAIN ids : ids[i] # "" /\ \A k \in 1..i - 1 : ids[k] # ids[i]})

\* verifySkillPack, where `met' are the known checks that hold: a check
\* nobody knows fails.
VerifySkillPack(pack, met) ==
  IF pack.checks \subseteq KnownChecks \intersect met THEN "passed"
  ELSE IF pack.failurePolicy = "skip" THEN "skipped"
  ELSE "failed"

SkillDecided(id, outcome) == [subject |-> "skill", value |-> id, outcome |-> outcome]

\* The skill decisions of a run: one that says so if no skill was asked for.
ResolveSkillDecisions(ids, catalog, met) ==
  LET Decide(id) ==
        SkillDecided(id, IF Known(catalog, id)
                           THEN VerifySkillPack(PackOf(catalog, id), met)
                           ELSE "skipped")
      asked == NormalizeIds(ids)
  IN  IF ids = <<>> THEN <<SkillDecided("none", "skipped")>>
      ELSE [i \in DOMAIN asked |-> Decide(asked[i])]

\* authorizeSkillTool: without ids anything goes, otherwise one of the packs
\* that resolve must allow the tool.
AuthorizeSkillTool(tool, ids, catalog) ==
  \/ ids = <<>>
  \/ \E i \in DOMAIN ids :
       /\ Known(catalog, ids[i])
       /\ tool \in PackOf(catalog, ids[i]).allowedTools
=============================================================================
