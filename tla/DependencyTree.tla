---------------------------- MODULE DependencyTree ----------------------------
(***************************************************************************)
(* resolveDependencyTree() of packages/agent-registry/src/dependency-tree. *)
(* A tree is the set of its nodes, each with the path from the root to it, *)
(* itself included, and the issues found there.                            *)
(***************************************************************************)
EXTENDS SequencesExt, Integers, FiniteSets

CONSTANTS
  Name,       \* names an agent may depend on
  RequestSets, \* what an agent may request: agents of a version, or of "any"
  MaxDepths   \* what maxDepth may be

VARIABLES
  registry,   \* the agents listed: for each its version and what it requests
  resolved    \* the last answer, and what was asked

treeVars == <<registry, resolved>>

NoTree == [root |-> "none", maxDepth |-> 0, nodes |-> {}]

TreeInit == registry = <<>> /\ resolved = NoTree

\* buildAgentIndex: of two agents of a name the last one counts.
BuildAgentIndex(agents) == agents

Leaf(here, issue, name) == [path |-> here, issues |-> {<<issue, name>>}]

\* Mutant of WalkNode: the depth is looked at before the cycle.
WalkNodeDepthFirst(root, index, maxDepth) ==
  LET walk[here \in Seq(DOMAIN index) \ {<<>>}] ==
        LET path == Front(here)
            name == Last(here)
        IN  IF Len(path) >= maxDepth THEN {Leaf(here, "max_depth", name)}
            ELSE IF \E i \in DOMAIN path : path[i] = name THEN {Leaf(here, "cycle", name)}
            ELSE {[path |-> here, issues |-> {}]} \union
                 UNION {IF r.name \in DOMAIN index THEN walk[Append(here, r.name)]
                        ELSE {Leaf(Append(here, r.name), "missing", r.name)} :
                        r \in index[name].requests}
  IN  walk[<<root>>]

\* walkNode, on the path from the root to each name: one that is on the path
\* already is a cycle, one beyond the depth is cut off, one not in the index is
\* missing; and the parent tells of a version that is not the one requested.
WalkNode(root, index, maxDepth) ==
  LET walk[here \in Seq(DOMAIN index) \ {<<>>}] ==
        LET path == Front(here)
            name == Last(here)
            requests == index[name].requests
        IN  IF \E i \in DOMAIN path : path[i] = name THEN {Leaf(here, "cycle", name)}
            ELSE IF Len(path) >= maxDepth THEN {Leaf(here, "max_depth", name)}
            ELSE {[path |-> here, issues |->
                     {<<"version_mismatch", r.name>> :
                        r \in {q \in requests : /\ q.name \in DOMAIN index
                                                /\ q.version \notin {"any", index[q.name].version}}}]}
                 \union UNION {
                   IF r.name \in DOMAIN index THEN walk[Append(here, r.name)]
                   ELSE {Leaf(Append(here, r.name), "missing", r.name)} :
                   r \in requests}
  IN  walk[<<root>>]

\* The agents are listed ...
ListAgentsForTree(agents) ==
  registry = <<>> /\ registry' = agents /\ UNCHANGED resolved

\* ... and a tree is resolved, unless its root is not among them.
ResolveDependencyTree(root, maxDepth) ==
  /\ registry # <<>> /\ resolved = NoTree
  /\ resolved' = [root |-> root, maxDepth |-> maxDepth, nodes |->
       LET index == BuildAgentIndex(registry)
       IN  IF root \notin DOMAIN index THEN {} ELSE WalkNode(root, index, maxDepth)]
  /\ UNCHANGED registry

\* formatDependencyIssues, without the order of its lines
FormatDependencyIssues(nodes) == UNION {n.issues : n \in nodes}

Agents == UNION {[s -> [version : {"1"}, requests : RequestSets]] : s \in (SUBSET Name) \ {{}}}

TreeNext ==
  \/ \E agents \in Agents : ListAgentsForTree(agents)
  \/ \E root \in Name, maxDepth \in MaxDepths : ResolveDependencyTree(root, maxDepth)

TreeSpec == TreeInit /\ [][TreeNext]_treeVars

-----------------------------------------------------------------------------
(* Properties.                                                             *)

Requested(names) ==
  {r.name : r \in UNION {registry[a].requests : a \in names \intersect DOMAIN registry}}

\* The names themselves, and those they lead to.
Reached(names) ==
  LET within[n \in 0..Cardinality(Name)] ==
        IF n = 0 THEN names
        ELSE LET nearer == within[n - 1] IN nearer \union Requested(nearer)
  IN  within[Cardinality(Name)]

\* A tree tells the truth about the graph of the agents.  With room for every
\* name none of it is cut off; and unless it says that something was, it has a
\* cycle exactly if the graph has one that the root leads to, it names as
\* missing what the root leads to and nobody listed, and it tells of every
\* request on the way for a version that is not there.
TreeTellsGraph ==
  resolved.nodes # {} =>
    LET root == resolved.root
        issues == FormatDependencyIssues(resolved.nodes)
        cut == \E i \in issues : i[1] = "max_depth"
        reached == Reached({root})
    IN  /\ resolved.maxDepth >= Cardinality(Name) => ~cut
        /\ ~cut =>
             /\ (\E i \in issues : i[1] = "cycle") <=> (\E n \in reached : n \in Reached(Requested({n})))
             /\ {i[2] : i \in {j \in issues : j[1] = "missing"}} = reached \ DOMAIN registry
             /\ {i[2] : i \in {j \in issues : j[1] = "version_mismatch"}} =
                  {n \in DOMAIN registry :
                     \E a \in reached \intersect DOMAIN registry : \E r \in registry[a].requests :
                       r.name = n /\ r.version \notin {"any", registry[n].version}}
=============================================================================
