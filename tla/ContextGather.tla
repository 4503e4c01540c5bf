---------------------------- MODULE ContextGather ----------------------------
(***************************************************************************)
(* gatherContext() of engines/context/src/index.ts: the snippets of a      *)
(* repository that go into a prompt.  The files are listed first, ranked   *)
(* and then read one after the other, and may change in between: the text  *)
(* of a file is its size and whether the hygiene check finds anything.     *)
(***************************************************************************)
EXTENDS SequencesExt, FiniteSets, Integers

CONSTANTS
  Path,       \* files of the repository
  Trait,      \* of each: its kind, its priority, whether it is in the scope,
              \* an anchor of the project, linked to the scope, denied, deep
  Limits,     \* the limits of each tier: [snippets, perFile, total]
  TooLarge,   \* files of this size are not read
  Suffix,     \* the size of the mark that a text was cut
  Texts,      \* texts a file may have
  MaxChanges  \* bound

Boost == 55         \* KG_SCORE_BOOST
Gone == [size |-> -1, hostile |-> FALSE]

VARIABLES
  disk,       \* the text of each file, or Gone
  stage,      \* where the call stands
  limits,     \* the limits of its budget
  queue,      \* the candidates it has still to read, best first
  ranked,     \* all of them
  snippets,   \* what it has taken: [path, bytes]
  still,      \* history: files that have not changed since the listing
  changes     \* history: number of changes

contextVars == <<disk, stage, limits, queue, ranked, snippets, still, changes>>

ContextInit ==
  /\ disk = [p \in Path |-> [size |-> 1, hostile |-> FALSE]]
  /\ stage = "new"
  /\ limits = [snippets |-> 0, perFile |-> 0, total |-> 0]
  /\ queue = <<>> /\ ranked = <<>> /\ snippets = <<>>
  /\ still = Path
  /\ changes = 0

ChangeFile ==
  /\ stage \in {"new", "reading"} /\ changes < MaxChanges
  /\ changes' = changes + 1
  /\ \E p \in Path, t \in Texts \union {Gone} :
       /\ t # disk[p]
       /\ disk' = [disk EXCEPT ![p] = t]
       /\ still' = still \ {p}
  /\ UNCHANGED <<stage, limits, queue, ranked, snippets>>

\* resolveContextBudget
Large == {"implement.feature", "fix.bug", "review.change", "audit.security"}
ResolveContextBudget(intent, risk, cost) ==
  CASE cost = "low" \/ intent = "unknown" \/ risk = "high" -> "tight"
    [] OTHER -> IF intent \in Large THEN "wide" ELSE "standard"

\* validateContextScope: the root, or a directory under it.
Scopes == {".", "directory", "absolute", "escape", "missing"}
ValidateContextScope(scope) == scope \in {".", "directory"}

\* The files listed: those of the scope, and for a directory the anchors of
\* the project and what the knowledge graph links to it.
Listed(scope) ==
  {p \in Path : disk[p] # Gone /\
     (\/ scope = "." \/ Trait[p].inScope
      \/ Trait[p].anchor \/ Trait[p].linked)}

\* The candidates: no denied path, a known kind, no code deep in the tree
\* unless asked for.
Candidates(scope, denySecrets) ==
  {p \in Listed(scope) :
     /\ denySecrets => ~Trait[p].denied
     /\ Trait[p].kind # "none"
     /\ ~(scope = "." /\ Trait[p].kind = "code" /\ Trait[p].deep)}

Score(p, scope) ==
  Trait[p].priority + IF scope # "." /\ Trait[p].linked THEN Boost ELSE 0

\* Which of two candidates is read first; the order of paths breaks ties.
Better(p, q, scope) ==
  \/ Score(p, scope) > Score(q, scope)
  \/ Score(p, scope) = Score(q, scope) /\ Trait[p].name < Trait[q].name

\* candidates.sort()
Ranked(paths, scope) ==
  [n \in 1..Cardinality(paths) |->
     CHOOSE p \in paths : Cardinality({q \in paths : Better(q, p, scope)}) = n - 1]

\* The listing.
Gather(scope, budget, denySecrets) ==
  /\ stage = "new"
  /\ IF ~ValidateContextScope(scope)
     THEN stage' = "done" /\ UNCHANGED <<limits, queue, ranked, still>>
     ELSE /\ ranked' = Ranked(Candidates(scope, denySecrets), scope)
          /\ queue' = ranked'
          /\ limits' = Limits[budget]
          /\ stage' = "reading"
          /\ still' = Path
  /\ UNCHANGED <<disk, snippets, changes>>

\* The bytes of the snippets taken.
Bytes(list) ==
  LET upto[n \in 0..Len(list)] == IF n = 0 THEN 0 ELSE upto[n - 1] + list[n].bytes
  IN  upto[Len(list)]
Total == Bytes(snippets)

\* truncate: what is cut gets a mark, which comes on top.
Truncate(size) == IF size <= limits.perFile THEN size ELSE limits.perFile + Suffix

\* A file that cannot be read, is too large, or hostile in what is left of it.
PassedOver(text) ==
  text = Gone \/ text.size > TooLarge \/ text.hostile

\* Mutant of ReadNext: a text that does not fit is passed over.
ReadNextThatFits ==
  /\ stage = "reading" /\ queue # <<>> /\ Len(snippets) < limits.snippets
  /\ LET p == Head(queue)
         bytes == Truncate(disk[p].size)
     IN  snippets' = IF PassedOver(disk[p]) \/ Total + bytes > limits.total THEN snippets
                     ELSE Append(snippets, [path |-> p, bytes |-> bytes])
  /\ queue' = Tail(queue)
  /\ UNCHANGED <<disk, stage, limits, ranked, still, changes>>

\* The next candidate: passed over, taken, or the end of it all, if there is
\* no room for it.
ReadNext ==
  /\ stage = "reading" /\ queue # <<>> /\ Len(snippets) < limits.snippets
  /\ LET p == Head(queue)
         bytes == Truncate(disk[p].size)
         fits == Total + bytes <= limits.total
     IN  /\ snippets' = IF PassedOver(disk[p]) \/ ~fits THEN snippets
                        ELSE Append(snippets, [path |-> p, bytes |-> bytes])
         /\ queue' = IF PassedOver(disk[p]) \/ fits THEN Tail(queue) ELSE <<>>
  /\ UNCHANGED <<disk, stage, limits, ranked, still, changes>>

\* No candidates left, or no room for one more snippet.
EndGather ==
  /\ stage = "reading" /\ (queue = <<>> \/ Len(snippets) >= limits.snippets)
  /\ stage' = "done"
  /\ UNCHANGED <<disk, limits, queue, ranked, snippets, still, changes>>

Intents == {"unknown", "explain", "fix.bug"}

ContextNext ==
  \/ ChangeFile \/ ReadNext \/ EndGather
  \/ \E scope \in Scopes, intent \in Intents, risk \in {"low", "high"},
        cost \in {"low", "any"}, denySecrets \in BOOLEAN :
       Gather(scope, ResolveContextBudget(intent, risk, cost), denySecrets)

ContextSpec == ContextInit /\ [][ContextNext]_contextVars

-----------------------------------------------------------------------------
(* Properties.                                                             *)

Taken == {snippets[i].path : i \in DOMAIN snippets}

\* The snippets stay within their budget, and they are the best there are: a
\* candidate that has not changed and may be shown is left out only when a
\* budget is used up by better ones, and never for the sake of a worse one.
\* In a repository that stands still the first one left out would not have fit.
BestWithinBudget ==
  /\ Len(snippets) <= limits.snippets /\ Total <= limits.total
  /\ \A i \in DOMAIN ranked : \A j \in DOMAIN ranked :
       i < j /\ ranked[j] \in Taken /\ ranked[i] \in still /\ ~PassedOver(disk[ranked[i]])
         => ranked[i] \in Taken
  /\ stage = "done" /\ still = Path =>
       \A i \in DOMAIN ranked :
         /\ ~PassedOver(disk[ranked[i]]) /\ ranked[i] \notin Taken
         /\ \A j \in 1..i - 1 : PassedOver(disk[ranked[j]]) \/ ranked[j] \in Taken
         => \/ Len(snippets) = limits.snippets
            \/ Total + Truncate(disk[ranked[i]].size) > limits.total
=============================================================================
