------------------------------ MODULE Journals ------------------------------
(***************************************************************************)
(* The modules about the files of the home directory side by side: the run *)
(* store, chats in the event log, the snapshot of the log, the operational *)
(* state over the journal of decisions, the correlation of runs with their *)
(* executions, and runs across the workspaces of the registry.  Each       *)
(* behaviour is one of one of them: "part" says which, the variables of    *)
(* the others stay as they are.  What several of them call the log is one  *)
(* variable here.                                                          *)
(***************************************************************************)
EXTENDS RunStore

CONSTANTS
  Call,                            \* of ChatMetrics
  Workspace, PolicyFiles, Inputs, Surroundings,       \* of OperationalState
  DecisionLimit, MaxDecisions, MaxEdits,
  Lines, DayTicks, WeekDays, MonthDays, Horizon, MaxLines,   \* of Metrics
  SeenRun, Agent, PrefixOf, Bodies, Limit, TailLines,        \* of Visibility
  MaxOthers, MaxTears,
  Process, Id, Path, None, Initial, EnvSet, Failing, Cwd     \* of AcrossWorkspaces

\* A reader of the log takes so many rows and lines; a run tells its agents.
ASSUME SeeAssumption ==
  /\ Limit \in Nat
  /\ TailLines \in Nat
  /\ \A b \in Bodies : b.agentIds \in Seq(Agent)

VARIABLES
  part,
  rows, logTail, logTears,                                   \* a log
  chatPc, served, recorded, result,                          \* ChatMetrics
  workspaces, policyFile, statePc, asked, listed, mustIds,   \* OperationalState
  report, been, edits,
  lines,                                                     \* Metrics
  seenStage, seenFile, seenIndex, seenTail, seenFailed, seenTears,  \* Visibility
  body, executed, caught, seePc, anchor, run, lookup, executions, cut,
  registryFile, registryPc, out, target, todo, rowsListed, held, disturbed,   \* AcrossWorkspaces
  turn, registry, targets, results, seen

-----------------------------------------------------------------------------
Chat == INSTANCE ChatMetrics WITH tail <- logTail, tears <- logTears, pc <- chatPc

State == INSTANCE OperationalState WITH tail <- logTail, tears <- logTears, pc <- statePc

\* The audit lists one decision or more, and fewer than are counted (20, and
\* 10000); the ids of its findings are not those of the decisions of runs
\* (attentionId).  A file that is not there has no rules.
ASSUME StateAssumption ==
  /\ IsFiniteSet(Workspace)
  /\ DecisionLimit \in Nat \ {0} /\ DecisionLimit < State!CountLimit
  /\ \A s \in Surroundings : \A d \in s.decisions : d.id # "gov-fail-verdicts"
  /\ \A f \in PolicyFiles :
       /\ f.rules \in Seq([id : STRING, severity : STRING])
       /\ f.absent => f.rules = <<>>

Snap == INSTANCE Metrics

\* A line has the fields of its kind; a day has some length, and a month more
\* days than a week.
ASSUME LinesAssumption ==
  /\ DayTicks \in Nat \ {0} /\ WeekDays \in Nat \ {0} /\ MonthDays \in Nat /\ WeekDays < MonthDays
  /\ Horizon \in Nat
  /\ Lines \subseteq
       [kind : {"provider.chat"}, name : STRING, ok : BOOLEAN,
        prompt : Nat, completion : Nat, total : Nat]
       \union [kind : {"agent.execution"}, name : STRING, outcome : STRING, ok : BOOLEAN]
       \union [kind : {"delivery.ci"}, name : STRING, conclusion : STRING, base : STRING]
       \union [kind : {"garbage"}]

See == INSTANCE Visibility WITH
  Run <- SeenRun,
  tail <- logTail, tears <- logTears, pc <- seePc,
  stage <- seenStage, file <- seenFile, index <- seenIndex, indexTail <- seenTail,
  failed <- seenFailed, indexTears <- seenTears

Across == INSTANCE AcrossWorkspaces WITH
  file <- registryFile, pc <- registryPc, listed <- rowsListed

\* The registries found at first are those of RegistryAssumption.
ASSUME AcrossAssumption ==
  /\ Initial \subseteq SUBSET Across!Row
  /\ \A registered \in Initial : Across!UniqueIds(registered) /\ Across!OneDefault(registered)
  /\ EnvSet \subseteq Process
  /\ Failing \subseteq Process

-----------------------------------------------------------------------------
logOf == <<rows, logTail, logTears>>
chatOf == <<chatPc, served, recorded, result>>
stateOf == <<workspaces, policyFile, statePc, asked, listed, mustIds, report, been, edits>>
seeOf == <<seenStage, seenFile, seenIndex, seenTail, seenFailed, seenTears,
           body, executed, caught, seePc, anchor, run, lookup, executions, cut>>

acrossOf == <<registryFile, registryPc, out, target, todo, rowsListed, held, disturbed,
              turn, registry, targets, results, seen>>

HomeInit ==
  /\ part \in {"store", "chat", "state", "snapshot", "visibility", "across"}
  /\ Init /\ Chat!Init /\ State!Init /\ Snap!Init /\ See!Init /\ Across!AcrossInit
  /\ part # "across" => registryFile = [f \in Across!File |-> Across!Absent]

StorePart ==
  part = "store" /\ Next /\ UNCHANGED <<part, logOf, chatOf, stateOf, lines, seeOf, acrossOf>>
ChatPart ==
  part = "chat" /\ Chat!Next /\ UNCHANGED <<part, storeVars, stateOf, lines, seeOf, acrossOf>>
StatePart ==
  part = "state" /\ State!Next /\ UNCHANGED <<part, storeVars, chatOf, lines, seeOf, acrossOf>>
SnapshotPart ==
  part = "snapshot" /\ Snap!Next /\ UNCHANGED <<part, storeVars, logOf, chatOf, stateOf, seeOf, acrossOf>>
VisibilityPart ==
  part = "visibility" /\ See!Next /\ UNCHANGED <<part, storeVars, chatOf, stateOf, lines, acrossOf>>

AcrossPart ==
  part = "across" /\ Across!AcrossNext /\ UNCHANGED <<part, storeVars, logOf, chatOf, stateOf, lines, seeOf>>

HomeNext == StorePart \/ ChatPart \/ StatePart \/ SnapshotPart \/ VisibilityPart \/ AcrossPart

homeVars == <<part, storeVars, logOf, chatOf, stateOf, lines, seeOf, acrossOf>>
HomeSpec == HomeInit /\ [][HomeNext]_homeVars

-----------------------------------------------------------------------------
\* Calls of chatWithMetrics() are counted once, and a broken append costs one
\* line: see ChatMetrics.
CallsAreCounted == part = "chat" => Chat!CallsAreCounted

\* What getOperationalState() reports was true during its call: see
\* OperationalState.
ReportWasTrue == part = "state" => State!ReportWasTrue

\* The two audits of one call agree where nothing changes: see
\* OperationalState.
StillHomeAgrees == part = "state" => State!StillHomeAgrees

\* The totals, rows and daily series of a snapshot agree: see Metrics.
SnapshotAddsUp == part = "snapshot" => Snap!SnapshotAddsUp

\* A trail tells what became of its run: see Visibility.
TrailTells == part = "visibility" => See!TrailTells

\* A run across workspaces ran where its results say: see AcrossWorkspaces.
RunsWhatItNames == part = "across" => Across!RunsWhatItNames
=============================================================================
