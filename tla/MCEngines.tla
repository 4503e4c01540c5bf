------------------------------ MODULE MCEngines ------------------------------
(* TLC instance of Engines.                                                *)
EXTENDS Engines

\* A saved registry with a row that has no manifest, and one that takes the
\* name of a built-in agent.
SomeSaved == {<<"own", "nameless", "docs">>}

Request(n, v) == [name |-> n, version |-> v]

\* Any agents of any version, and some of a version nobody has.
SomeRequestSets ==
  {{Request(n, "any") : n \in s} : s \in SUBSET Name}
    \union {{Request("b", "2")}, {Request("c", "2"), Request("a", "any")},
            {Request("a", "2"), Request("b", "any")}}

\* Documents of one path in two repositories, and of different paths; some say
\* what is searched for.
SomeDocs ==
  LET doc(says) == [topic |-> "security", says |-> says]
      none == [topic |-> "none", says |-> FALSE]
  IN  {[p1 |-> <<doc(TRUE), doc(FALSE)>>, p2 |-> <<doc(TRUE), none>>],
       [p1 |-> <<doc(TRUE), none>>, p2 |-> <<none, doc(TRUE)>>]}

-----------------------------------------------------------------------------
Shape(name, kind, priority, traits) ==
  [name |-> name, kind |-> kind, priority |-> priority,
   inScope |-> "inScope" \in traits, anchor |-> "anchor" \in traits,
   linked |-> "linked" \in traits, denied |-> "denied" \in traits, deep |-> "deep" \in traits]

SomeTrait ==
  [readme |-> Shape(1, "doc", 90, {"anchor"}),
   pkg    |-> Shape(2, "manifest", 60, {"linked"}),
   code   |-> Shape(3, "code", 40, {"inScope", "deep"}),
   other  |-> Shape(4, "code", 40, {"inScope"}),
   env    |-> Shape(5, "doc", 50, {"inScope", "denied"}),
   bin    |-> Shape(6, "none", 0, {"inScope"})]

\* A text of size 2 is cut in the tight and the standard tier and not in the
\* wide one; totals that are and are not used up.
SomeLimits ==
  [tight    |-> [snippets |-> 1, perFile |-> 1, total |-> 3],
   standard |-> [snippets |-> 3, perFile |-> 1, total |-> 4],
   wide     |-> [snippets |-> 3, perFile |-> 2, total |-> 5]]

Text(size, hostile) == [size |-> size, hostile |-> hostile]
SomeTexts == {Text(1, FALSE), Text(3, FALSE), Text(4, FALSE), Text(2, TRUE)}

SomePath == DOMAIN SomeTrait

-----------------------------------------------------------------------------
Kid(dir, name, deps) == [dir |-> dir, name |-> name, deps |-> deps]

\* Packages that depend on each other, on themselves, on one of two of a name,
\* on none there is; buckets, ADRs, policies and hints below and above the caps.
SomeRepositories ==
  LET kids == {<<>>, <<Kid("a", "a", {})>>, <<Kid("a", "a", {}), Kid("b", "b", {"a"})>>,
               <<Kid("a", "x", {"x"}), Kid("b", "x", {"x", "y"})>>}
  IN  [docs : {<<>>, <<"README.md", "AGENTS.md">>},
       hasAdrs : BOOLEAN, adrs : {<<>>, <<"1", "2", "3">>},
       globs : {<<>>, <<"tools", "tools", "apps">>},
       dirs : [{"packages", "tools"} -> kids],
       policies : {<<>>, <<"p", "q">>}, registry : BOOLEAN,
       infra : {<<>>, <<"Dockerfile">>},
       hintDeps : {<<>>, <<[name |-> "prisma-hono", hints |-> {"api", "database"}]>>}]

-----------------------------------------------------------------------------
\* Names that collide ("a b" with "a-b"), that collide with a name that was
\* given a number ("a b-2"), and a graph that is cut off.
SomeLayouts ==
  LET of(files, kids, policies, infra) ==
        [docs |-> files, hasAdrs |-> FALSE, adrs |-> <<>>, globs |-> <<>>,
         dirs |-> [b \in {"packages"} |-> kids], policies |-> policies,
         registry |-> FALSE, infra |-> infra, hintDeps |-> <<>>]
      readme == <<"README.md">>
  IN  {of(<<>>, <<Kid("a b", "x", {}), Kid("a-b", "y", {"x"})>>, <<>>, <<>>),
       of(readme, <<Kid("a-b", "y", {"x"}), Kid("a b", "x", {}), Kid("a b-2", "z", {"y"})>>, <<>>, <<>>),
       of(readme, <<Kid("a b", "x", {})>>, <<"p">>, <<>>),
       of(readme, <<Kid("a b", "x", {})>>, <<"p">>, <<"Dockerfile", "docker-compose.yml">>)}

SomeSlug ==
  LET ids == {n.id : n \in UNION {ToSet(Vault!BuildKnowledgeGraph(r).nodes) : r \in SomeLayouts}}
  IN  [id \in ids |->
         IF id[1] # "package" THEN <<id[1], id[2]>>
         ELSE IF id[2][2] = "a b-2" THEN <<"package", "packages", "ab", "2">>
         ELSE <<"package", "packages", "ab">>]

SomeNumeral == [i \in 2..MaxNodes + 2 |-> ToString(i)]

-----------------------------------------------------------------------------
SomeAdrs == {"0001", "0002", "0003"}
SomeAssets == {"a", "b", "c"}
Known == {"README.md", "CHANGELOG.md", "AGENTS.md", "docs/FOUNDATION.md", "docs/VISION.md",
          "docs/ROADMAP.md", "docs/architecture/overview.md",
          "docs/architecture/system-guide.md", "policies/aios.policies.json",
          "docs/prompts/README.md", "docs/prompts/pkb-evolution.md", "docs/prompts/index.yaml"}
         \union SomeAdrs

\* All documents but none, one or two of them, or but the ADRs; assets on disk
\* and in the index, and the two engines of phase 3 or not.
SomeRepos ==
  LET but == (UNION {kSubset(n, Known) : n \in 0..2}) \union {SomeAdrs, SomeAdrs \union {"README.md"}}
  IN  {[files |-> (Known \ m) \union a, index |-> i, readable |-> b, engines |-> e] :
         m \in but, a \in SUBSET {"a", "b"}, i \in SUBSET {"a", "c"}, b \in BOOLEAN,
         e \in {{}, {"documentation"}, {"documentation", "governance"}}}
=============================================================================
