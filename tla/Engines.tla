------------------------------- MODULE Engines -------------------------------
(***************************************************************************)
(* The modules about what a home and a repository hold besides its         *)
(* journals, side by side: the agent registry, remote agents, dependency   *)
(* trees, the index of prompts, the context of a prompt, the knowledge     *)
(* graph and its export, the audit of documents.  Each behaviour is one of *)
(* one of them: "part" says which, the variables of the others stay.       *)
(***************************************************************************)
EXTENDS SequencesExt, FiniteSetsExt, Integers

CONSTANTS
  Tree, Dir, Agent, Builtin, Saved, Ttl, MaxFill, MaxClock, MaxEdits,   \* of AgentRegistry
  Remote, Resolver, MaxMs,                                       \* of RemoteAgents
  Name, RequestSets, MaxDepths,                                  \* of DependencyTree
  PromptRepo, Doc, Topic, FirstDocs, Rebuild, MaxDocEdits,       \* of PkbIndex
  Path, Trait, Limits, Texts, TooLarge, Suffix, MaxChanges,      \* of ContextGather
  Repositories,                                                  \* of Knowledge
  MaxNodes, MaxEdges, MaxAdrFiles, MaxPolicyFiles,               \* and its caps
  Layouts, Slug, Numeral, Exporter, MaxLayouts,                  \* of ObsidianExport
  Adrs, Assets, Repos                                            \* of Documentation

\* The directories under agents/ are numbered, and so are the documents, in
\* path order; what the models say of a directory, of a document or of no
\* rebuild and no path is no remote's, rebuild's or document's name.
ASSUME EnginesAssumption ==
  /\ Dir = 1..Cardinality(Dir) /\ Cardinality(Dir) \in Nat
  /\ Ttl \in Nat \ {0} /\ MaxFill \in Nat
  /\ IsFiniteSet(Resolver)
  /\ MaxMs \in Nat
  /\ Remote \intersect {"none", "empty", "cloning"} = {}
  /\ Doc \subseteq Nat
  /\ "none" \notin Rebuild /\ "none" \notin Topic
  /\ FirstDocs \subseteq
       [PromptRepo -> [Doc -> [topic : Topic \union {"none"}, says : BOOLEAN]]]
  /\ \A r \in Repos : "none" \notin r.index

\* The paths of a repository are compared by their place in the order of
\* strings, and no two are the same.
ASSUME ContextAssumption ==
  /\ IsFiniteSet(Path)
  /\ Trait \in [Path -> [name : Nat, priority : Nat, kind : STRING, inScope : BOOLEAN,
                        anchor : BOOLEAN, linked : BOOLEAN, denied : BOOLEAN, deep : BOOLEAN]]
  /\ \A p, q \in Path : Trait[p].name = Trait[q].name => p = q
  /\ Limits \in [{"tight", "standard", "wide"} -> [snippets : Nat, perFile : Nat, total : Nat]]
  /\ Texts \subseteq [size : Nat, hostile : BOOLEAN]
  /\ Suffix \in Nat

VARIABLES
  part,
  clock, catalogFile, savedFile, agentsDir, cached, at, found, reading, asked, was, agentEdits,
  ms, temp, kept, phase, wants, born, manifest, refused,
  registry, resolved,
  docs, indexFile, vectors, step, repoPath, left, read, lastDelete, late, touched, missed, docEdits,
  disk, stage, limits, queue, ranked, snippets, still, changes,
  graph,
  repository, vault, index, plan, names, doing, alone, layouts,
  repo, audit

-----------------------------------------------------------------------------
Agents == INSTANCE AgentRegistry
Remotes == INSTANCE RemoteAgents
Trees == INSTANCE DependencyTree
Prompts == INSTANCE PkbIndex
Context == INSTANCE ContextGather
Vault == INSTANCE ObsidianExport
Docs == INSTANCE Documentation

NoGraph == [nodes |-> <<>>, edges |-> <<>>, signals |-> {}]

\* A repository is lists of file names and, for a bucket, of packages, each with
\* its dependencies; caps are numbers.
ASSUME GraphAssumption ==
  /\ MaxNodes \in Nat /\ MaxEdges \in Nat
  /\ MaxAdrFiles \in Nat /\ MaxPolicyFiles \in Nat
  /\ \A r \in Repositories \union Layouts :
       /\ r.docs \in Seq(STRING) /\ r.adrs \in Seq(STRING) /\ r.globs \in Seq(STRING)
       /\ r.policies \in Seq(STRING) /\ r.infra \in Seq(STRING)
       /\ r.hintDeps \in Seq([name : STRING, hints : SUBSET STRING])
       /\ \A b \in DOMAIN r.dirs :
            /\ r.dirs[b] \in Seq([dir : STRING, name : STRING, deps : SUBSET STRING])
            /\ \A i \in DOMAIN r.dirs[b] : IsFiniteSet(r.dirs[b][i].deps)

\* There are finitely many names, agents request agents of these, and a depth
\* is a number.
ASSUME TreeAssumption ==
  /\ IsFiniteSet(Name) /\ MaxDepths \subseteq Nat
  /\ \A s \in RequestSets : \A r \in s : r.name \in Name

\* The notes of a repository have names, and numbers that differ make them
\* differ.
ASSUME VaultAssumption ==
  /\ Layouts # {}
  /\ \A r \in Layouts : \A n \in ToSet(Vault!BuildKnowledgeGraph(r).nodes) : Slug[n.id] \in Seq(STRING)
  /\ Numeral \in [2..MaxNodes + 2 -> STRING] /\ IsInjective(Numeral)

\* A graph is built, once.
BuildGraph ==
  /\ graph = NoGraph
  /\ \E r \in Repositories : graph' = Vault!BuildKnowledgeGraph(r)

-----------------------------------------------------------------------------
agents == <<clock, catalogFile, savedFile, agentsDir, cached, at, found, reading, asked,
            was, agentEdits>>
remotes == <<ms, temp, kept, phase, wants, born, manifest, refused>>
trees == <<registry, resolved>>
prompts == <<docs, indexFile, vectors, step, repoPath, left, read, lastDelete, late, touched,
             missed, docEdits>>
context == <<disk, stage, limits, queue, ranked, snippets, still, changes>>
notes == <<repository, vault, index, plan, names, doing, alone, layouts>>
audits == <<repo, audit>>

EnginesInit ==
  /\ part \in {"agents", "remotes", "trees", "prompts", "context", "graph", "vault", "docs"}
  /\ Agents!AgentsInit /\ Remotes!RemoteInit /\ Trees!TreeInit /\ Prompts!PkbInit
  /\ Context!ContextInit /\ graph = NoGraph /\ Vault!VaultInit /\ Docs!DocInit
  /\ part # "prompts" => docs = CHOOSE d \in FirstDocs : TRUE

AgentsPart ==
  /\ part = "agents" /\ Agents!AgentsNext
  /\ UNCHANGED <<part, remotes, trees, prompts, context, graph, notes, audits>>
RemotesPart ==
  /\ part = "remotes" /\ Remotes!RemoteNext
  /\ UNCHANGED <<part, agents, trees, prompts, context, graph, notes, audits>>
TreesPart ==
  /\ part = "trees" /\ Trees!TreeNext
  /\ UNCHANGED <<part, agents, remotes, prompts, context, graph, notes, audits>>
PromptsPart ==
  /\ part = "prompts" /\ Prompts!PkbNext
  /\ UNCHANGED <<part, agents, remotes, trees, context, graph, notes, audits>>
ContextPart ==
  /\ part = "context" /\ Context!ContextNext
  /\ UNCHANGED <<part, agents, remotes, trees, prompts, graph, notes, audits>>
GraphPart ==
  /\ part = "graph" /\ BuildGraph
  /\ UNCHANGED <<part, agents, remotes, trees, prompts, context, notes, audits>>
VaultPart ==
  /\ part = "vault" /\ Vault!VaultNext
  /\ UNCHANGED <<part, agents, remotes, trees, prompts, context, graph, audits>>
DocsPart ==
  /\ part = "docs" /\ Docs!AuditDocs
  /\ UNCHANGED <<part, agents, remotes, trees, prompts, context, graph, notes>>

EnginesNext ==
  \/ AgentsPart \/ RemotesPart \/ TreesPart \/ PromptsPart
  \/ ContextPart \/ GraphPart \/ VaultPart \/ DocsPart

enginesVars == <<part, agents, remotes, trees, prompts, context, graph, notes, audits>>
EnginesSpec == EnginesInit /\ [][EnginesNext]_enginesVars

-----------------------------------------------------------------------------
\* No answer takes a local agent from a manifest gone for longer than the
\* cache keeps it, and rows and trees of one answer are of the same agents:
\* see AgentRegistry.
CacheTells == part = "agents" => Agents!CacheTells

\* A remote agent's manifest is its own: see RemoteAgents.
OwnManifest == part = "remotes" => Remotes!OwnManifest

\* A dependency tree tells the truth about the graph: see DependencyTree.
TreeTellsGraph == part = "trees" => Trees!TreeTellsGraph

\* A rebuilt index is whole, and a search of it complete: see PkbIndex.
IndexWhole == part = "prompts" => Prompts!IndexWhole

\* The snippets of a prompt are the best within its budget: see ContextGather.
BestWithinBudget == part = "context" => Context!BestWithinBudget

\* The graph that buildKnowledgeGraph() returns hangs together: see Knowledge.
GraphHangsTogether == graph # NoGraph => Vault!HangsTogether(graph)

\* The notes and links of an export mean what they say: see ObsidianExport.
VaultTells == part = "vault" => Vault!VaultTells

\* The audit of the documents accounts for all it knows: see Documentation.
AuditAccounts == part = "docs" => Docs!AuditAccounts
=============================================================================
