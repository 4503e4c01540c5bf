---------------------------- MODULE ObsidianExport ----------------------------
(***************************************************************************)
(* exportObsidian() of engines/visibility/src/export-obsidian.ts: the      *)
(* knowledge graph as notes in a vault, one file after the other.  Exports *)
(* of several processes may write to one vault, and nothing is ever        *)
(* deleted from it.  The graph of the repository changes in between.       *)
(***************************************************************************)
EXTENDS Knowledge, FiniteSets

CONSTANTS
  Layouts,   \* what the repository may look like
  Slug,      \* the parts a dash separates in what noteBasename makes of an id
  Numeral,   \* the part that each number from 2 on makes
  Exporter,  \* calls
  MaxLayouts \* bound

VARIABLES
  repository,  \* its graph
  vault,       \* the note in each file: the node, and the nodes it links to
  index,       \* the notes index.md lists, and the node of each
  plan,        \* the notes an export has still to write
  names,       \* the file it gave to each node
  doing,       \* where it stands
  alone,       \* history: no other export was on with it, or came after it
  layouts      \* history: how often the repository has changed

vaultVars == <<repository, vault, index, plan, names, doing, alone, layouts>>

Graphs == {BuildKnowledgeGraph(r) : r \in Layouts}

VaultInit ==
  /\ repository = CHOOSE g \in Graphs : TRUE
  /\ vault = <<>>
  /\ index = <<>>
  /\ plan = [e \in Exporter |-> <<>>]
  /\ names = [e \in Exporter |-> <<>>]
  /\ doing = [e \in Exporter |-> "new"]
  /\ alone = [e \in Exporter |-> TRUE]
  /\ layouts = 0

\* The repository changes.
ChangeLayout ==
  /\ layouts < MaxLayouts
  /\ layouts' = layouts + 1
  /\ repository' \in Graphs \ {repository}
  /\ UNCHANGED <<vault, index, plan, names, doing, alone>>

\* noteBasename: ids that differ in other characters than letters and digits
\* get the same name.  A name is the sequence of its parts.
NoteBasename(id) == Slug[id]

\* Mutant of FreeName: the name is not checked against those in use.
NameUnchecked(used, base) == base

\* A name in use gets a number, from 2 on, until it is free.
FreeName(used, base) ==
  IF base \notin used THEN base
  ELSE LET free == {i \in 2..Cardinality(used) + 2 : Append(base, Numeral[i]) \notin used}
       IN  Append(base, Numeral[CHOOSE i \in free : \A j \in free : i <= j])

\* basenameById
BasenameById(nodes) ==
  FoldLeft(LAMBDA given, n : [id \in DOMAIN given \union {n.id} |->
             IF id = n.id THEN FreeName({given[k] : k \in DOMAIN given}, NoteBasename(id))
             ELSE given[id]],
           <<>>, nodes)

\* filterGraph: everything, or the nodes a scope matches and the edges
\* between them.
FilterGraph(g, scope) ==
  IF scope = "none" THEN g
  ELSE LET keep == {i \in DOMAIN g.nodes : g.nodes[i].id[1] = scope}
           kept == {g.nodes[i].id : i \in keep}
           between == {i \in DOMAIN g.edges : {g.edges[i][1], g.edges[i][2]} \subseteq kept}
       IN  [g EXCEPT !.nodes = At(@, keep), !.edges = At(@, between)]

\* nodeMarkdown: a link to each neighbour that has a note, by its name.
NodeMarkdown(node, edges, given) ==
  LET near == {edges[i][2] : i \in {k \in DOMAIN edges : edges[k][1] = node.id}}
              \union {edges[i][1] : i \in {k \in DOMAIN edges : edges[k][2] = node.id}}
  IN  [node |-> node.id, links |-> [id \in near \intersect DOMAIN given |-> given[id]]]

Go(e, to) == doing' = [doing EXCEPT ![e] = to]

\* Where the notes may go: resolveObsidianOutDir and assertSafeObsidianOutDir
\* throw for a relative directory that leaves the home, and for docs/adr and
\* policies.
OutDirs == {"none", "inside", "absolute", "outside", "canonical"}
SafeOutDir(outDir) == outDir \notin {"outside", "canonical"}

\* The call, up to its first write; other exports may be on.
BeginExport(e, outDir, scope, otherRun) ==
  /\ doing[e] = "new"
  /\ IF ~SafeOutDir(outDir) \/ otherRun
     THEN Go(e, "rejected") /\ UNCHANGED <<plan, names, alone>>
     ELSE LET g == FilterGraph(repository, scope)
              given == BasenameById(g.nodes)
          IN  /\ names' = [names EXCEPT ![e] = given]
              /\ plan' = [plan EXCEPT ![e] =
                   [i \in DOMAIN g.nodes |->
                      [file |-> given[g.nodes[i].id],
                       note |-> NodeMarkdown(g.nodes[i], g.edges, given)]]]
              /\ Go(e, "writing")
              /\ alone' = [x \in Exporter |->
                   IF x = e THEN \A y \in Exporter : doing[y] # "writing"
                   ELSE alone[x] /\ doing[x] = "new"]
  /\ UNCHANGED <<repository, vault, index, layouts>>

\* writeRelative: one note, over the one that has its name.
WriteNote(e) ==
  /\ doing[e] = "writing" /\ plan[e] # <<>>
  /\ LET next == Head(plan[e]) IN
       vault' = [f \in DOMAIN vault \union {next.file} |->
                   IF f = next.file THEN next.note ELSE vault[f]]
  /\ plan' = [plan EXCEPT ![e] = Tail(@)]
  /\ UNCHANGED <<repository, index, names, doing, alone, layouts>>

\* The index, and the result.
WriteIndex(e) ==
  /\ doing[e] = "writing" /\ plan[e] = <<>>
  /\ index' = names[e]
  /\ Go(e, "exported")
  /\ UNCHANGED <<repository, vault, plan, names, alone, layouts>>

\* A write throws, or the process dies.
BreakOff(e) ==
  /\ doing[e] = "writing"
  /\ Go(e, "brokenOff")
  /\ plan' = [plan EXCEPT ![e] = <<>>]
  /\ UNCHANGED <<repository, vault, index, names, alone, layouts>>

VaultNext ==
  \/ ChangeLayout
  \/ \E e \in Exporter :
       \/ \E outDir \in OutDirs, scope \in {"none", "package"}, otherRun \in BOOLEAN :
            BeginExport(e, outDir, scope, otherRun)
       \/ WriteNote(e) \/ WriteIndex(e) \/ BreakOff(e)

VaultSpec == VaultInit /\ [][VaultNext]_vaultVars

-----------------------------------------------------------------------------
(* Properties.                                                             *)

\* An export that no other disturbs leaves a vault in which every node of its
\* graph has a note of its own and a link in the index, and a link of such a
\* note leads to the note of the node it means: also where the names of nodes
\* collide, where the graph was cut off, and where the vault holds the notes
\* of an earlier export that broke off.
VaultTells ==
  \A e \in Exporter :
    doing[e] = "exported" /\ alone[e] =>
      /\ index = names[e]
      /\ \A id \in DOMAIN index :
           /\ index[id] \in DOMAIN vault
           /\ LET note == vault[index[id]] IN
                /\ note.node = id
                /\ \A to \in DOMAIN note.links : vault[note.links[to]].node = to
=============================================================================
