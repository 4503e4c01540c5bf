------------------------------- MODULE Policy -------------------------------
(***************************************************************************)
(* The policy engine (engines/policy/src/index.ts): which file the rules   *)
(* come from, how they are merged with the built-in ones, and which bind.  *)
(* A rule is its id and severity; the description is wording.              *)
(***************************************************************************)
EXTENDS SequencesExt, Places

Severity == {"must", "should", "may"}

IdsOf(rules) == {rules[i].id : i \in DOMAIN rules}

\* DEFAULT_POLICIES
DefaultPolicies ==
  [i \in 1..5 |->
    [id |-> <<"official-docs", "trade-offs", "no-overengineering",
              "justify-decisions", "no-abandoned-libs">>[i],
     severity |-> "must"]]

\* Mutant of MergePolicies: what the overlay names is not taken from the base.
MergePoliciesStacked(base, overlay) == base \o overlay

\* mergePolicies: the overlay replaces by id, and comes last.
MergePolicies(base, overlay) ==
  At(base, {i \in DOMAIN base : base[i].id \notin IdsOf(overlay)}) \o overlay

\* resolveConfigPath: an explicit path, then AIOS_POLICIES_PATH, then the file
\* found upwards.  Each is "none" where it is not given or not found.
ResolveConfigPath(explicit, env, upwards) ==
  IF explicit # "none" THEN explicit ELSE IF env # "none" THEN env ELSE upwards

\* assertRule, parsePolicyFile: one bad rule spoils the file.
Parses(file) ==
  /\ file.json
  /\ \A i \in DOMAIN file.rules :
       file.rules[i].id # "" /\ file.rules[i].severity \in Severity

\* loadPolicies: ok is FALSE where it throws.
LoadPolicies(disk, path, mergeDefaults) ==
  CASE path = "none" -> [ok |-> TRUE, source |-> "defaults", rules |-> DefaultPolicies]
    [] path # "none" /\ (path \notin DOMAIN disk \/ ~Parses(disk[path])) ->
         [ok |-> FALSE, source |-> "none", rules |-> <<>>]
    [] OTHER ->
         [ok |-> TRUE,
          source |-> IF mergeDefaults THEN "merged" ELSE "file",
          rules |-> IF mergeDefaults
                      THEN MergePolicies(DefaultPolicies, disk[path].rules)
                      ELSE disk[path].rules]

\* applyPolicies(rules).mustIds
MustIds(rules) ==
  LET must == At(rules, {i \in DOMAIN rules : rules[i].severity = "must"})
  IN  [i \in DOMAIN must |-> must[i].id]
=============================================================================
