------------------------------ MODULE Knowledge ------------------------------
(***************************************************************************)
(* buildKnowledgeGraph() of engines/knowledge/src/index.ts: the graph of a *)
(* repository, from the names of its files and directories.  A repository  *)
(* is what the walk finds, in the order it finds it; where it meets a file *)
(* in the place of a directory it throws, and there is no graph.           *)
(***************************************************************************)
EXTENDS SequencesExt, Places

CONSTANTS
  MaxNodes, MaxEdges,          \* the caps a caller passes
  MaxAdrFiles, MaxPolicyFiles  \* MAX_ADR_FILES and MAX_POLICY_FILES

\* A node is known by its id, <<kind, key>>.  deps are the workspace
\* dependencies its package.json names.
Node(kind, key, label, deps) ==
  [id |-> <<kind, key>>, label |-> label, deps |-> deps]
File(kind, key) == Node(kind, key, key, {})

Project == <<"project", "root">>

Has(g, id) == \E i \in DOMAIN g.nodes : g.nodes[i].id = id

\* addNode: the first of an id stays.
AddNode(g, node) ==
  IF Has(g, node.id) THEN g ELSE [g EXCEPT !.nodes = Append(@, node)]

\* addEdge
AddEdge(g, from, to, kind) ==
  IF from = to \/ <<from, to, kind>> \in ToSet(g.edges) THEN g
  ELSE [g EXCEPT !.edges = Append(@, <<from, to, kind>>)]

Signal(g, condition, signal) ==
  IF condition THEN [g EXCEPT !.signals = @ \union {signal}] ELSE g

Link(g, from, node, kind) == AddEdge(AddNode(g, node), from, node.id, kind)

Full(g) == Len(g.nodes) >= MaxNodes
FirstOf(n, s) == SubSeq(s, 1, IF n < Len(s) THEN n ELSE Len(s))

\* One file after the other, under the project.
LinkFiles(g, kind, files, how) ==
  FoldLeft(LAMBDA h, file : Link(h, Project, File(kind, file), how), g, files)

\* docs/adr: a node for the directory, and one for each of the first files.
AddAdrs(g, repo) ==
  LET adr == File("doc", "docs/adr")
      add(h, file) == IF Full(h) THEN h
                      ELSE AddEdge(Link(h, Project, File("doc", file), "documents"),
                                   adr.id, <<"doc", file>>, "contains")
  IN  IF ~repo.hasAdrs THEN g
      ELSE Signal(FoldLeft(add, Link(g, Project, adr, "documents"), FirstOf(MaxAdrFiles, repo.adrs)),
                  Len(repo.adrs) > MaxAdrFiles, "capped:adrFiles")

\* extraBucketsFromGlobs, after the default buckets
DefaultBuckets == <<"packages", "engines", "apps">>
Buckets(repo) ==
  LET extra == {i \in DOMAIN repo.globs : repo.globs[i] \notin ToSet(DefaultBuckets)}
  IN  DefaultBuckets \o At(repo.globs, extra)

\* listDirs
Kids(repo, bucket) == IF bucket \in DOMAIN repo.dirs THEN repo.dirs[bucket] ELSE <<>>

\* The packages and engines in a bucket, while there is room.
AddBucket(g, repo, bucket) ==
  LET kids == Kids(repo, bucket)
      node == File("module", bucket)
      kind == IF bucket = "engines" THEN "engine" ELSE "package"
      add(h, kid) == IF Full(h) THEN h
                     ELSE Link(h, node.id, Node(kind, <<bucket, kid.dir>>, kid.name, kid.deps), "contains")
  IN  IF kids = <<>> THEN g
      ELSE FoldLeft(add, Link(g, Project, node, "contains"), kids)

AddBuckets(g, repo) == FoldLeft(LAMBDA h, bucket : AddBucket(h, repo, bucket), g, Buckets(repo))

\* The last package or engine of a name: where a dependency on it leads.
NodesNamed(g, name) ==
  {i \in DOMAIN g.nodes : g.nodes[i].id[1] \in {"package", "engine"} /\ g.nodes[i].label = name}
LastNamed(g, name) == CHOOSE i \in NodesNamed(g, name) : \A j \in NodesNamed(g, name) : j <= i

\* addWorkspaceDependsOn
AddDependsOn(h, g, n) ==
  LET add(k, name) == IF NodesNamed(g, name) = {} THEN k
                      ELSE AddEdge(k, n.id, g.nodes[LastNamed(g, name)].id, "depends_on")
  IN  FoldLeft(add, h, SetToSeq(n.deps))
AddWorkspaceDependsOn(g) == FoldLeft(LAMBDA h, n : AddDependsOn(h, g, n), g, g.nodes)

\* The policy files, while there is room.
AddPolicies(g, repo) ==
  LET add(h, file) == IF Full(h) THEN h ELSE Link(h, Project, File("policy", file), "documents")
  IN  Signal(FoldLeft(add, g, FirstOf(MaxPolicyFiles, repo.policies)),
             Len(repo.policies) > MaxPolicyFiles, "capped:policyFiles")

\* A dependency whose name hints at an API or a database.
Hint(h, dep, kind) ==
  IF kind \in dep.hints THEN Link(h, Project, File(kind, dep.name), "depends_on") ELSE h

\* The registry of workspaces, the files of the infrastructure, and the
\* dependencies that hint at an API or a database: room or not.
AddHints(g, repo) ==
  LET registry == IF repo.registry THEN Link(g, Project, File("workspace", "registry"), "contains") ELSE g
      infra == LinkFiles(registry, "infra", repo.infra, "contains")
  IN  FoldLeft(LAMBDA h, dep : Hint(Hint(h, dep, "api"), dep, "database"), infra, repo.hintDeps)

\* Mutant of Cap: nodes are cut without a word.
CapSilently(g) ==
  [nodes |-> FirstOf(MaxNodes, g.nodes), edges |-> FirstOf(MaxEdges, g.edges),
   signals |-> g.signals]

\* The lists are cut to the caps: nodes and edges each on their own.
Cap(g) ==
  [nodes   |-> FirstOf(MaxNodes, g.nodes),
   edges   |-> FirstOf(MaxEdges, g.edges),
   signals |-> g.signals
     \union {s \in {"capped:maxNodes"} : Len(g.nodes) > MaxNodes}
     \union {s \in {"capped:maxEdges"} : Len(g.edges) > MaxEdges}]

\* buildKnowledgeGraph
BuildKnowledgeGraph(repo) ==
  LET project == [nodes |-> <<Node("project", "root", "root", {})>>, edges |-> <<>>, signals |-> {}]
      docs == LinkFiles(project, "doc", repo.docs, "documents")
  IN  Cap(AddHints(AddPolicies(AddWorkspaceDependsOn(AddBuckets(AddAdrs(docs, repo), repo)), repo), repo))

-----------------------------------------------------------------------------
(* Properties.                                                             *)

\* A graph hangs together: no node and no edge in it twice, none that leads
\* to itself; both ends of an edge are there unless it says that nodes were
\* cut off, and every node is reached by an edge unless it says that edges
\* were.
HangsTogether(g) ==
  /\ Len(g.nodes) <= MaxNodes /\ Len(g.edges) <= MaxEdges
  /\ \A i, j \in DOMAIN g.nodes : g.nodes[i].id = g.nodes[j].id => i = j
  /\ IsInjective(g.edges)
  /\ \A i \in DOMAIN g.edges : g.edges[i][1] # g.edges[i][2]
  /\ "capped:maxNodes" \notin g.signals =>
       \A i \in DOMAIN g.edges : Has(g, g.edges[i][1]) /\ Has(g, g.edges[i][2])
  /\ "capped:maxEdges" \notin g.signals =>
       \A i \in DOMAIN g.nodes : g.nodes[i].id # Project =>
         \E k \in DOMAIN g.edges : g.edges[k][2] = g.nodes[i].id
=============================================================================
