-------------------------- MODULE AcrossWorkspaces --------------------------
(***************************************************************************)
(* runAcrossWorkspaces() of packages/pipeline/src/index.ts: one pipeline   *)
(* after the other for the workspaces of the registry.  The registry is    *)
(* read once for the list of them, and again by each pipeline to find its  *)
(* repository, while other processes write it.                             *)
(***************************************************************************)
EXTENDS WorkspaceRegistry

CONSTANT Cwd   \* where a pipeline runs that finds no workspace

VARIABLES
  turn,     \* "new", "running" or "done"
  registry, \* the file that was read, and is named to every pipeline
  targets,  \* the rows still to run
  results,  \* one for each row run: its id, where it ran, or None, and
            \* whether the registry had no row then
  seen      \* history: ids with their paths in the registry since the call began

acrossVars == <<turn, registry, targets, results, seen>>
allVars == <<vars, acrossVars>>

AcrossInit ==
  /\ Init
  /\ turn = "new" /\ registry = "home"
  /\ targets = {} /\ results = {} /\ seen = {}

\* loadWorkspaces, and the rows asked for; an id nobody registered is passed
\* over.
AcrossStart(f, ids) ==
  /\ turn = "new"
  /\ file[f].kind \in {"absent", "whole"}
  /\ turn' = "running"
  /\ registry' = f
  /\ targets' = {r \in file[f].rows : r.id \in ids}
  /\ seen' = PathsOf(file[f].rows)
  /\ UNCHANGED <<vars, results>>

\* Mutant of RepoOf: an unknown id is the default workspace.
RepoOfDefaulting(rows, id) ==
  IF rows = {} THEN Cwd
  ELSE IF Known(rows, id) THEN Resolve(rows, id).path
  ELSE IF DefaultId(rows) # None THEN Resolve(rows, DefaultId(rows)).path
  ELSE Cwd

\* The repository runPipeline finds for an id, or None where it throws:
\* resolveWorkspace() does for an id it does not know, but not if the registry
\* has no rows at all.
RepoOf(rows, id) ==
  IF rows = {} THEN Cwd ELSE IF Known(rows, id) THEN Resolve(rows, id).path ELSE None

\* The next pipeline: what it throws is caught, and is its result.
RunTarget(r) ==
  /\ turn = "running"
  /\ r \in targets
  /\ targets' = targets \ {r}
  /\ results' = results \union
       {[id |-> r.id, empty |-> file[registry].rows = {},
         repo |-> IF file[registry].kind \in {"absent", "whole"}
                  THEN RepoOf(file[registry].rows, r.id) ELSE None]}
  /\ UNCHANGED <<vars, turn, registry, seen>>

AcrossEnd ==
  /\ turn = "running" /\ targets = {}
  /\ turn' = "done"
  /\ UNCHANGED <<vars, registry, targets, results, seen>>

\* What others write meanwhile; their listings change nothing here.
Others ==
  /\ turn # "done"
  /\ \E p \in Process : Writes(p)
  /\ seen' = IF turn = "running" THEN seen \union PathsOf(file'[registry].rows) ELSE seen
  /\ UNCHANGED <<turn, registry, targets, results>>

AcrossNext ==
  \/ Others
  \/ \E f \in File, ids \in SUBSET Id : AcrossStart(f, ids)
  \/ \E r \in targets : RunTarget(r)
  \/ AcrossEnd

AcrossSpec == AcrossInit /\ [][AcrossNext]_allVars

-----------------------------------------------------------------------------
(* Properties.                                                             *)

\* A workspace has one result, and a pipeline that is reported for it ran in
\* a repository that the registry had for it while the call was on, whoever
\* writes to it meanwhile.  One gap is the code's: from a registry that has
\* lost its last row, the pipelines still to come run where the process is.
RunsWhatItNames ==
  /\ \A x, y \in results : x.id = y.id => x = y
  /\ \A x \in results :
       x.repo # None /\ ~x.empty => <<x.id, x.repo>> \in seen

=============================================================================
