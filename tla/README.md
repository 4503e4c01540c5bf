# AIOS: a verification project

TLA+ models of AIOS, the "AI operating system" of this repository: what its
engines promise, checked with TLC on small instances and, for the results
marked so below, proved with TLAPS for every value of the constants.  Every
definition is translated from the source; `PROJECT.json` maps each to its lines.

## The system

AIOS is a TypeScript monorepo with no database and no daemon of its own.  A
request (CLI, MCP tool, console action) runs through one Node process:

    request -> intent -> policy -> context, knowledge, memory
            -> workflow of agent plugins -> quality gate -> PipelineRun -> run store

Several such processes share one home directory (`AIOS_HOME`), and the files in
it are the only state that outlives a request.  Nothing locks them.  Inside a
process several requests interleave at their `await`s.

| Component | State | Operations | Hard behaviour | What makes it correct |
|---|---|---|---|---|
| Provider resilience (`engines/provider`) | circuit: failures, state, openedAt; per call: attempt | chat, models, health | overlapping calls settle in any order; retries sleep | the circuit counts what happened; an open circuit sheds load, is probed again, recovers |
| Model routing and failover (`packages/shared`, `engines/provider`) | position in the chain | routeModel, chatWithRouteFailover | order of rules and overrides; which errors hop | sensitive work stays local; each binding tried once, in order; first answer wins |
| Memory (`engines/memory`) | `{workspace}.json` | remember, recall, clear | read, modify, write with no lock; truncating writes; crashes | bounded; ordered; refused content stays out; nothing lost without overlap |
| Run store (`engines/status/src/run-store.ts`) | `{runId}.json`, `index.jsonl` | persist, load, list, skim | two writes, either may break off | listed runs load; a broken append is contained |
| Metrics (`engines/status`) | `events.jsonl` | record, snapshot, render | appends from everywhere, throwing | one line per execution, true to its outcome |
| Workflow, gate, ledger (`engines/orchestration`, `quality-gate`, `packages/pipeline`) | results, ran, skipped; the run | runWorkflow, evaluateQuality, runPipeline | a failing append in the middle of the loop | the verdict means what it says; the ledger explains it |
| Workspace registry (`engines/workspace`, `packages/pipeline`) | `aios.workspaces.json` | upsert, remove, resolve, runAcrossWorkspaces | read, modify, write with no lock; read and write paths decided apart; listing re-reads | at most one default; ids unique; nothing else lost; a run is in the workspace its result names |
| Governance, operational state (`engines/governance`, `policy`, `operational-state`, `status`) | the journal of decisions; policy file | record, list, audit, state | windows over the newest rows; one report reads the files several times | nothing open disappears unnoticed; a report was true |
| MCP server (`apps/mcp`, `packages/shared`) | none of its own | tool wrapper | policies and skills change between calls; audit appends fail | no body is entered that the environment does not grant; the log tells what became of each call |
| Agent registry (`packages/agent-registry`) | registry file, cache, temporary checkouts | list, resolve, dependency tree | stale cache, slow scans, shared directories, cycles | answers are no older than the cache keeps them; a manifest is its own; trees tell the truth |
| Documentation (`engines/documentation`) | SQLite table | rebuild, search, audit | rebuild without a transaction; two at once | a rebuilt index is whole; the audit accounts for every path |
| Skill packs (`engines/prompt`) | the catalog file | resolve, verify, tool gate | duplicate, unknown and blank ids; read late | skills only ever narrow what a call may do |
| Context (`engines/context`) | none | gatherContext | files change between listing and reading; three budgets | the snippets are the best within the budget |
| Knowledge graph and its export (`engines/knowledge`, `engines/visibility`) | the vault | build, export | caps; names that collide; two exports at once | the graph hangs together; notes and links mean what they say |
| Correlation (`engines/visibility`) | none | correlateVisibility | run and executions read at different moments | the trail of a run is complete |
| Intent, agent plugins, CLI, console | none | text matching, dispatch, rendering | none | not modelled |

## Modules

| Module | Models | Extends or uses |
|---|---|---|
| `Places` | what a filter, a search or a slice leaves of a list: the elements at some of its places | |
| `CircuitBreaker` | the class `CircuitBreaker` alone | |
| `LoadGuard` | what the callers of a guarded provider are promised, with no circuit in it | |
| `ResilientProvider` | `guarded()` and `withRetry()` of overlapping callers | instances `Circuit` of CircuitBreaker, `Guard` of LoadGuard |
| `MemoryStore` | remember, recall and clear of several processes on one file; `applyFifoRetention`, rollups | Places |
| `QualityGate` | intent matrix, plugin selection, `evaluateQuality` | |
| `RunStore` | run files, index, readers, skim | Places |
| `Skills` | catalog lookup, checks of a pack, decisions of a run, tool gate: operators | Places |
| `Pipeline` | runWorkflow, gate, ledger, persistence of overlapping requests | QualityGate, Skills; instance `Store` of RunStore |
| `McpGate` | the wrapper around the tools of the MCP server, called by several processes | EventLog, Skills |
| `Registry` | what the workspace registry promises one process alone | |
| `WorkspaceRegistry` | upsert, remove and validated listing of several processes | instance `Abstract` of Registry |
| `AcrossWorkspaces` | `runAcrossWorkspaces` over a registry that others write | WorkspaceRegistry |
| `Routing` | task profile, capability class, bindings, fallbacks: operators | Places |
| `RouteFailover` | one chat over the decided chain, with its retries | Routing |
| `EventLog` | the metrics file: appends that may break off | |
| `ChatMetrics` | `chatWithMetrics()` of several calls on that file | EventLog |
| `Metrics` | the snapshot of that file, its daily series, the Prometheus samples | |
| `Policy` | which rules are loaded, how they merge, which bind: operators | Places |
| `Governance` | the journal of decisions and its audit: operators and one append | Policy, EventLog |
| `OperationalState` | a status and state report over a home that changes | Governance |
| `Visibility` | the correlation of one run, while others append and store | EventLog; instance `Store` of RunStore |
| `AgentRegistry` | the listings behind one answer: cache, saved registry, local scan | |
| `RemoteAgents` | agents from git and npm, their checkouts and cache | |
| `DependencyTree` | `walkNode`, on every graph of a few agents | |
| `PkbIndex` | rebuilds of the vector index, searches, edits | |
| `Documentation` | the audit of the documents, with its inventory of prompts | |
| `ContextGather` | the snippets of a prompt | |
| `Knowledge` | `buildKnowledgeGraph`: operators | |
| `ObsidianExport` | exports of several processes to one vault | Knowledge |
| `Journals` | the modules about the files of a home, side by side | RunStore; instances of ChatMetrics, OperationalState, Metrics, Visibility, AcrossWorkspaces |
| `Engines` | the modules about what a home and a repository hold besides, side by side | instances of AgentRegistry, RemoteAgents, DependencyTree, PkbIndex, ContextGather, ObsidianExport, Documentation |
| `MC*` | constants and symmetry sets for TLC | the module they instantiate |
| `PlacesProofs` | lemmas about lists and their places | Places, TLAPS |
| `*Proofs` | the theorems: `ProviderProofs`, `MemoryStoreProofs`, `JournalsProofs`, `PipelineProofs`, `WorkspaceRegistryProofs`, `McpGateProofs`, `EnginesProofs` | the modules they are about, PlacesProofs |

`Journals` and `Engines` are sums: a variable `part`, chosen in the initial
state, says which module a behaviour is of; the variables of the others keep
their initial values.  The modules of a sum do not interact in them, and each
property is about the states of one part.  Where modules do interact, one is an
instance in the other (the run store in `Pipeline` and `Visibility`) or is
extended by it (the event log, the rules of policies).

Each state machine has one action per piece of code that runs without
interruption: from one await to the next for what shares a process, from one
file system call to the next for what shares files.  Definitions called "mutant" in a
comment are not part of the model: each is a small bug in the definition it
stands before, and shows that the property it is listed with in `PROJECT.json`
can tell.

### Provider

`failures`, `state` and `elapsed` are the circuit's fields; `elapsed` stands
for `now() - openedAt` and stops at the cooldown, `failures` at the threshold,
since the code only compares them.  `pc`, `attempt`, `probing`, `wait` are the
locals of each caller's `guarded()`.  `assertCanPass()` and the second
`getState()` are one action (`Admit` or `Refuse`), as there is no await between
them.  A caller has one call at a time; more callers give more overlap.  The
model is about one `ResilientProvider` instance.  `getProvider()` builds a new
one for each use in the CLI, MCP server and console, so there a circuit never
outlives a call; the overlap arises for integrators who keep an instance, which
the class is written for.

### Memory

`remember()` is `Read`, `Truncate` (`O_TRUNC`), `Fill`; `clearMemory()` is
`ClearCheck`, `Unlink`.  `Fail` stands for a crash or a throwing write at any of
these points.  A writer whose file was unlinked fills a file nobody can reach
(`orphan`); two writers that both have the file open may leave garbage.  An
entry is abstracted to the notes a reader finds in it.  `log` is the file one
process alone would have; `disturbed` says that calls overlapped or a write
broke off.  The hygiene patterns are a set of refused notes.  A list filtered
by a condition is what stands at the places where it holds (`At` of `Places`):
the prover can follow that, and no recursion.

### Pipeline and run store

`todo` holds the places, in the list of plugins, of those still to run, the
least of them next (`Turn`); `skipped` is a set, since nothing depends on its
order.  The list of plugins is any that `selectWorkflowPlugins()` can return: of
known agents, none of them twice.  `Start` is everything up to the first plugin's await, unless one of the engines
throws (`RejectEarly`).  `AgentDone`, `AgentCaught` and `AgentAborts` are one
plugin's turn (recorded, caught by the `catch` block, or rejected by it).
`events` are the appends to the metrics that returned: one that throws may leave
a part of its line, which the next line joins, the catch block's included, and
neither parses then.  The gate and the ledger do not read the file; what its
readers find is the matter of `EventLog` and `Visibility`, which tear and join.
The skim of Attention is a set of items, each with the place of its failure: the
first of each id, newest run first, and at most `MaxItems` of them.  Failures may
share an id, since `attentionId()` replaces characters and cuts: `AttentionId` is
any operator in `RunStore`, and the identity where `Pipeline` uses it, whose
agents and skills are taken to have short and plain names.
`Finish` is gate, skills, ledger and the time stamp of the run; the skill
catalog is read there, after the plugins ran, so a broken one rejects the request
late (`RejectLate`).  The actions of the store are the two writes.  `index` holds the
rows that parse; `tail` says whether the file ends in a whole line, a fragment
or a row without its newline, because the next append joins the last two.  The
built-in plugins always come back ok; the loop and the gate are written for any
`PluginRunner`, and the model lets one fail, throw or return no finding.

### Workspace registry

`UpsertRead` and `RemoveRead` are the calls up to `writeRegistry()`; `Truncate`
and `Fill` are its `writeFileSync`, which `Fail` may break off.  A registry is a
set of rows.  There are two files: "home", which `walkUpFind` finds or
`defaultRegistryPath()` names, and "env", which `AIOS_WORKSPACES_PATH` names for
the processes in `EnvSet`.  `ListRow` looks each id up anew, as
`validateWorkspace()` does; `held` keeps what a listing could have found, so that
`ListingTells` can say whose paths its rows show, whatever others write
meanwhile.  `disturbed` says that calls overlapped, a write
broke off, or a process with a file of its own wrote; until then the home file
implements `Registry`, a catalogue of paths with one default.

`AcrossWorkspaces` adds one call of `runAcrossWorkspaces()` to all this.
`AcrossStart` reads the list of workspaces; `RunTarget` is one pipeline, which
looks its repository up in the registry as it is by then.  What the pipeline
does there is `Pipeline`'s matter: here a result is where it ran.

### Routing and failover

`Routing` states the decision as operators on a task and an environment, with
the overrides in the order of the code.  `RouteFailover` keeps the loop
variables of `chatWithRouteFailover()` (`hop`) and of the provider's
`withRetry()` (`tries`); an attempt ends in an answer or one of four kinds of
error, which is all that `isTransientError` and `isFailoverEligibleError` tell
apart.  What `parseRouteFallbackChain()` leaves of a list is what stands at the places
it keeps.  The circuit breaker is left out: each hop builds a new provider, whose
breaker cannot open before its one call ends.

### Event log and chat metrics

`EventLog` is `events.jsonl` with `appendFileSync`, which may break off within
the line (`tail` as in the run store) or throw before its first byte.
`ChatMetrics` is `chatWithMetrics()`: ask, then append a line of success inside
the `try`, or one of failure in the `catch`.

### MCP server

`Authorize` reads the policies and decides, `Audit` writes the line, `Enter` and
`DeniedBySkill` are the skill gate, `AuditSkillDenial` the second line.  Within
one process these run without interruption; they are separate actions because
other processes append to the same log and the operator edits policies and
catalog between them.  The catalog is an input of the step that reads it;
`consent` is a variable, because `judged` remembers what each call was judged
by.  `lost` marks the calls one of whose appends threw.

### Governance and operational state

`RecordDecision` is one append to the journal, which may break off like any
other.  `ListDecisions` is `slice(-limit)` as JavaScript has it: a limit of 0
lists everything.  `AuditGovernance` gives all seven findings, as a set.
`OperationalState` follows one call from await to await: `Begin` lists the
workspaces and reads the policies, `Assess` takes the provider's health and what
else is around (an input) and audits, `Focus`, `Count` and `AuditAgain` read the
registry and the journal anew.  `been` keeps how the home was at each moment of
the call, so that `ReportWasTrue` can say that each part of a report was true at
one of them; `StillHomeAgrees` is about the homes where nothing changed.

### Metrics

The file is a sequence of lines with a time of their own, which the caller may
choose, the future included.  `Snapshot(now)` is one fold over them, as in
`loadMetricsSnapshot()`.  `WeekAddsUp` compares two counts that the code makes
differently: 7 times 24 hours by the clock, and seven days of UTC.

### Visibility and export

A pipeline's process runs its agents, appends a line for each and then stores
the run (`RunAgent`, `StoreRun`).  An append may throw, having written a part of
its line or nothing: the catch block of `runWorkflow()` then appends again
(`AgentCaught`), and only if that throws too is the run lost.  A process that
dies takes no further step, so a torn append after which its run stands still is
a crash.  The log is shared: `RecordOther` is a line of a chat, a tool or a check
of CI.  `Lookup` and `ListAgentExecutions` are the two reads of
`correlateVisibility()`, with an await between; the second takes the last
`TailLines` lines, of those the executions, and of those the newest `Limit`.
The model's lines say of which run they are, the file's do not.  In `ObsidianExport`,
`BeginExport` is everything up to the first write, `WriteNote` one file, and
`BreakOff` a crash or a failing write.  A name is the sequence of its parts
between dashes, so that the name made by numbering one node may be the plain
name of another.

### Agent registry

`AgentRegistry` follows the listings of one answer: one for its rows, and then
one for each tree, all at the same time.  A listing is a chain of lookups and
reads (`LookUpCatalog`, `ReadCatalog`, `ReadSaved`, `LookUpLocal`, `ScanDir` per
directory, `StoreScan`), and files are edited in between.  `was` keeps when each
manifest was in its directory.  A read takes at most `MaxFill` ticks, which is
an assumption: without it nothing bounds how old an answer is.  In
`RemoteAgents` each git command is a step or two, on a directory named after the
millisecond the call began in.  `DependencyTree` is the recursion itself, on
every graph over its names.

### Documentation

`PkbIndex` has one action for each SQL statement of a rebuild; there is no
transaction in the code.  `Busy` is any statement that finds the database
locked, after which the catch block leaves the rows as they are.  The index is
the home's, while each rebuild and each search names a repository: `docs` and
`repoPath` are by repository, `vectors` is not, and its rows are keyed by the
path within whichever repository they come from.  A search asks the index if its
file exists, whatever is in it and whosever it is (`SearchPkbIndex` has no
repository).  `IndexWhole` says what the last rebuild to delete the rows, and
that answered ok, is worth: all of its own repository, and nothing else unless
another rebuild was `late`.  `Documentation` is a function
of the repository, tried on many repositories.

### Context and knowledge

`Gather` lists and ranks: the candidate at a place of the ranking has as many
better ones as there are places before it.  `ReadNext` reads one file.  What the patterns on paths
and texts tell is a trait of a file or a text.  `Knowledge` builds the graph
with folds over the files in the order of the walk; room is checked at each of
the places where the code checks it, and nowhere else.  A repository is one the
walk gets through: a file where it reads a directory (knowledge/src/index.ts:70,
136, 143) makes it throw, and there is no graph to say anything of.

## Runs

| Run | Question | Bounds |
|---|---|---|
| `provider` | What does the circuit count, how much load leaks while it is open, do stale states and looks at them make a difference to a caller? Do calls settle, is an open circuit probed, does it recover? | 3 callers (two late calls against a third that opens), 2 retries, threshold 3, cooldown 2 ticks: all orders of late results |
| `provider_cooldown` (violated) | Does the circuit stay open for its cooldown? | 2 callers |
| `memory` | Cap, order, the undisturbed file, refused content in rollups, how much one call forgets | 2 processes, one of which compresses, 4 notes and a refused one, cap 2: eviction happens twice, a rollup is rolled up again |
| `journals` | Run store: what may the index name, what may a broken append cost, what does Attention show? Chats: is each counted once? State: was a report true, do its parts agree in a home that stands still? Snapshot: do the counts add up? Correlation: is the trail of a run complete? Runs across workspaces: did each run where its result says? | store: 3 runs, a window of 2 and an item limit of 3, so both are exceeded, two failures with one id; chat: 3 calls; state: 1 workspace, 3 decisions with an audit window of 1, 1 edit, policy files that break, add and weaken; snapshot: all files of 2 lines out of 6, times over 7 ticks in days of 2, a week of 2 days; correlation: 2 runs of up to 2 agents, 1 line of another writer, 2 broken appends, 3 rows listed out of the last 4 lines, so each limit is met with and without the other; across: 1 process that writes meanwhile, 2 workspaces, 2 paths |
| `pipeline` | What do a verdict, an append to the metrics and a decision stand for? Does Attention show exactly what failed in the listed runs? | one request of all seven intents, built-in plugins and a registry with a duplicate, an unknown and missing agents, every outcome of plugin and append; two stored requests with up to two agents, with and without skills, and crashes; item limit 5, since the property is about a skim that is not full (its limits are those of `journals`) |
| `pipeline_ledger` (violated) | Does the ledger explain a gate that blocks on its agents? | one request |
| `registry` | Can two defaults or two rows of one id come about? Does a listing that reads the file again and again mix up workspaces? Is the file a catalogue as long as calls do not overlap? | 2 processes, 2 ids, 2 paths, registries of none to two rows, one process with a file of its own, one that breaks off |
| `registry_env` (violated) | Does an upsert keep the other workspaces? | 1 process, 3 ids |
| `route` | Is the class the documented one, does sensitive work stay local, who is asked in which order, does the call end? | all 7 intents with every risk, privilege, budget and override; two environments that bind every class; two chats over 4 fallback lists (none, duplicate and unknown providers, the primary among them, the local one last), with 1 retry |
| `mcp_gate` | Which bodies may be entered, what does the log say of each call? | 2 calls (one append spoils the line of another); a read, a consent tool, a run and a PRIVILEGED tool, callers below, at and above the rank needed, with and without the switches; session and call skills; catalogs that allow, deny and are empty |
| `engines` | Are answers of the agent registry fresh and of one piece, is a manifest its own, do trees tell the truth, is a rebuilt index whole, is the context the best within its budget, does the graph hang together, do notes and links mean what they say, does the audit account for every path? | agents: 3 listings, a cache of 2 ticks, reads of 1, 2 edits; remotes: 3 calls in 2 milliseconds, so that two or all three share one; trees: every graph over 3 names with versions, depths 0, 1 and 3; prompts: 2 repositories with up to 2 documents each, under the same and under different paths, 2 rebuilds, an edit; context: 6 files, 3 tiers, 2 changes; graph: all repositories over and under each cap; vault: 2 exports, 4 repositories with colliding names; docs: all documents but up to two |
| `chat_failed` (violated) | Is a chat recorded as failed one that was not answered? | 2 calls |

Requests share nothing but the run store and the metrics file, to which each
only adds lines of its own; all intents are therefore tried by one request alone,
and two requests show the interplay.  Processes and requests come
and go, and the bounded supply of notes, edits and runs ends: the safety runs do
not check deadlock.

Bounds on edits are small where an edit matters only by coming between two
particular steps of a call.  The caps of the code (7 and 30 days, 500
lines, 10 000 decisions, an hour of cache) are scaled down so that they are
exceeded, and stay in the order the code has them in.

Type invariants are not properties of runs: they are part of the invariants that
are proved, and of the inductive ones TLC was asked about first.  Where several
facts are sides of one promise they are one property: `StaysBoundedLog` (cap,
order, what one call may forget), `AsksInTurn` (each binding once, giving up
last), `CallsAreCounted`, `SnapshotAddsUp`, `TrailTells`, `CacheTells`.

## Fairness

Two runs need it, and all of it is weak fairness.  In `provider`, `FairSpec`
assumes that time passes (`Tick`), that a sleeping call is woken (`setTimeout`)
and that an attempt ends, which the adapters see to by aborting a request after
`timeoutMs`; per caller.  `DemandSpec` adds that callers do not stop calling:
without a caller nobody looks at an open circuit, and it stays open.  The
backend is not assumed to recover; `Recovers` says what follows if it does.  In
`route`, `FairSpec` assumes that the current attempt ends, for the same reason.

## Proofs

- `PlacesProofs`, a library.  What `At` returns of a list (`AtPlaces`,
  `AtElements`, `AtLength`), by numbering the places (`Numbered`); a set of naturals has a
  least element (`HasLeast`), which stands in for induction, since a theorem
  with a predicate for a parameter cannot be used; in a loop within a loop some
  place comes first (`FirstPlace`), and what a scan of such places keeps,
  one of each kind up to a limit, tells of all it passes (`FirstNewTells`); the
  function behind `FoldLeft` exists whatever the steps are (`FoldThereIs`), and
  what a fold begins with and each step of it keeps, it ends with (`FoldKeeps`).
  Names that all differ are no more than there are (`DifferBound`), and where a
  path leads, one does that comes by no name twice (`SimplePath`); a part of a
  path is one, and so are two that meet (`PartOfPath`, `PathAfterPath`).
- `ProviderProofs`, on two modules that share no variable: the provider and the
  failover over a chain of them.
  - `GuardInductive`, `LeakIsBounded`: `GuardInv` adds to types and the
    circuit's own invariant that, while the circuit stays open, a call in flight
    has started no more attempts than its loop counter shows.  That is what makes
    `LeakBound` inductive: the bound alone says nothing about calls still to be
    retried.  The circuit's part is proved once per method (`CircuitStep`), and
    every step of the provider is shown to be such a method or a stutter
    (`StepOfCircuit`).  `GuardsTheLoad` is the refinement of `LoadGuard`, under
    the mapping of its count, clock and calls to `failures`, `elapsed` and the
    calls in flight: a call is refused exactly when the guard is shut
    (`RefusedWhenShut`), because a circuit that is not closed has counted
    `Threshold` failures and a half-open one has its cooldown behind it; then
    each step is one of the guard or none (`StepOfGuard`).  `OpenCircuitSheds`, that no call is admitted while
    the circuit stays open, has no run of its own: what leaks is the question of
    `LeakBound`.
  - `SensitiveStaysLocal`: the chain of a sensitive request is one local binding
    (`SensitiveChain`), so the loop never leaves its first position.
    `ClassesAreDocumented`: the inference of risk, complexity and class comes to
    the table (`ClassOfTask`), and the primary leads the chain.
    `FailoverAsksInTurn`: no binding stands in the chain twice (`ChainDiffers`),
    and `TurnInv` says that some map from attempts to bindings never goes beyond
    `hop`, gives each binding one run of retries of which the last `tries` ones
    are of the current binding, and shows an error that hops for each binding
    left behind.
- `MemoryStoreProofs`.  Two theorems about retention for any list of rows, and
  - `SerialStore`: as long as nothing is disturbed at most one process is inside
    a call, what it read is what is there, and only a writer leaves the file
    empty;
  - `NoRollupOfRefused` and `BoundedLog`, from one invariant (`StoreInv`): the
    file, and what a call in progress has read of it, are within the cap, their
    single notes were accepted before and stand in that order, and no rollup in
    them covers refused content.  Retention keeps that (`Retained`): what it thins
    or rolls up tells less or the same (`ThinnedTold`, `SafeRows`), and a note that is
    new goes last (`ToldNewest`).  How many notes one call forgets is counted
    apart (`OneForgotten`).
- `JournalsProofs`, on the modules of the journals.
  - `ListedRunsLoad` (`StoreInv`): a run in the index is past its writes, so its
    file is whole and nobody touches it again.
  - `TearsCostOneRow` (`TearInv`): the property counts the runs a reader misses,
    and is not inductive, because the next append may still lose its row to the
    fragment before it.  `TearInv` charges that row in advance, while the file
    lacks the end of a line, and says that a whole row without its newline is of
    a run whose own append broke off.  `OneMore` is the one step of counting.
  - `EveryCallCountedOnce` (`ChatInv`): the same argument for the event log, with
    what each call may have written so far.
  - `ReportsWereTrue` (`StateInv`): from its listing on, a call remembers the home
    as it is and as it was listed, and each part of the report, once it is there,
    is of such a moment.  What an audit says is followed into the findings
    (`AuditTells`, `AttentionTells`).
  - `StillHomesAgree` (`StillInv`, with `StateInv`): in a home that stands still
    all readings are of one home (`SameAt`); what binds is then the same for the
    report and both audits (`MustIdsBind`), and the decisions they see are windows
    on one journal of which the smaller is the end of the larger.
  - `AttentionShowsNewest`: places of failures, by run and within it, are scanned
    in the order of `FirstNewTells`, so the skim has one item of each id,
    the newest, and leaves one out only when it is full.
  - `TrailsTellTheirRuns` (`SeeInv`): a run that loads executed all its agents, so
    each had its line appended once without an error.  `Unseen` counts the
    executions whose line no longer stands, against the writes that broke off;
    a line stands (`Standing`) if no later append can join it, so the line that
    lacks only its newline does not, and the next append, be it the catch
    block's, another run's or a chat's, loses one execution at most, which
    `SeeInv` has charged in advance (`LogGrows`, `LogTears`, `FewUnseen`).  A
    call that reads the whole log shows every line that stands (`ReadAll`).
  - `SnapshotsAddUp` (`SnapInv`, which says only what the lines are): a sum, in
    whatever order it is taken, is a number of pairs (`TotalIsPairs`), so a row
    that grows makes the sum grow as much (`TotalGrows`, `FieldGrows`).  What one
    line does to totals, rows and columns is one lemma for each kind
    (`ChatLineAdded`, `AgentLineAdded`, `CheckLineAdded`, `OtherLineAdded`), and
    `SnapTells`, which counts the lines taken in so far, is kept along the pass
    (`LineTells`, `SnapshotTells`).  That a week by the clock is seven columns and
    what is left of the eighth day is arithmetic for any length of a day
    (`DaysBetween`, `WeekByTheClock`).
  - `EachRunsWhatItNames`: `AcrossRunsWhatItNames`, below, as the property of the
    part in the sum.
- `PipelineProofs`.  `TurnTells` and `TurnTraces` say what one plugin's turn adds
  to results and metrics, by how it ended; `FlowInv` that the turns taken are of
  the plugins that should run and are not left, no two of one plugin, and that
  results and lines are those of the turns.  `MetricsTold` follows.  `DoneInv`
  adds that verdict and ledger are what gate and ledger made of the results, by
  some catalog; `VerdictIsExact` then takes the gate apart, and `LedgerTells` the
  ledger (`AgentsOfLedger`, `DecisionOfAgent`), whose lists of decisions are
  concatenated.  That a plugin comes once in the list of plugins is needed for
  all three.  `AttentionShowsFailures` joins the pipeline to the run store:
  `FilesInv` is the store's own invariant, kept by every step since each is one
  of the store or none (`StoreMoves`, `FilesStep`); `StoredInv` says that what
  is filed of a run are the failures of its ledger, which does not change any
  more; and an item of the skim is then a failure of a ledger and back
  (`ShownOfStore`).
- `WorkspaceRegistryProofs`.  `RegistryStaysSound`, from `SingleDefault` and
  `IdsAreUnique`.  The files alone are not inductive: a process writes what it
  computed earlier, from a file that has changed since.  `IInv` therefore also
  says that every list on its way to a file is sound, and `UpsertedSound` that an
  upsert makes a sound list of a sound one.
  - `SerialCallsImplementRegistry` is the refinement of `Registry`: until
    something is disturbed one process is busy at most, and what it writes is
    what it read with one row changed (`SerialInv`).  Each such write is then one
    step of the catalogue (`UpsertRegisters`, `RemovalDeregisters`), every other
    step stutters (`SerialStep`).
  - `ListingsTell` (`ListInv`): a listing that is under way has seen all that its
    file has had since it began (`WitnessStep`), the rows it still has to
    validate have ids of their own, and none of them is listed yet.
  - `AcrossRunsWhatItNames`: what the registry holds during the call has been
    seen (`ResultsTrue`), so a repository found there has been registered; that a
    workspace has one result follows from the unique ids of the registry, whose
    `IInv` is part of the invariant.
- `McpGateProofs`.
  - `PrivilegeAlwaysBinds` and `SkillsAlwaysBind`: `AllowedBinds` shows what
    `authorizeMcpTool()` grants by its table, `SkillAllows` what the skill gate
    does, through the normalised ids (`NormalIds`) and the lookup of a pack
    (`PackIsThere`).  `GateInv` says that each call past a check was granted by
    it, under the policies and some catalog of that moment.
  - `LinesAlwaysTell` (`LinesInv`): the argument of `TearInv` once more, with
    lines that are rewritten by none and a call that has several.
- `EnginesProofs`, on the eight modules side by side there.
  - `ManifestsAreOwn` (`RemoteInv`): who shares a millisecond with nobody finds
    its directory as it left it, and of two that share one, each finds what one
    of the two wanted.
  - `AuditsAccount`: the audit is a function of the repository, so it is enough
    to show that it is right for each (`AuditFindings`).
  - `IndexStaysWhole` (`PkbInv`): while its repository is not edited, the last
    rebuild to delete lacks only what it has left to write: a row that another
    one has put in its place makes it fail, not answer ok; and who still writes
    is itself or one of the `late`.
  - `CacheAlwaysTells` (`AgentInv`): every entry of the cache is of manifests
    that were there when its scan began or later, so is what each scan has read;
    and from the listing of the rows on, for as long as its entry lasts, the
    listings of the trees find their agents in that entry.
  - `SnippetsAreBest` (`ContextInv`): the ranking has each candidate once
    (`RankedOnce`: better is a strict order, so the ranks are numbers without a
    gap), and there is a place in it up to which all that may be shown is taken,
    beyond which nothing is, and from which the queue goes on, unless the next
    one did not fit (`ReadUpTo`).  The bytes taken are a recursive sum, which
    exists and grows by what is added (`SumThereIs`, `BytesAdd`).
  - `GraphsHangTogether`: until its lists are cut the graph is `Whole`, without a
    condition on signals.  A link to a node that is there keeps it so
    (`NodeLinked`), an edge between two that are there does (`EdgeAdded`); each
    loop of `buildKnowledgeGraph` is a fold of such links (`FilesLinked`,
    `AdrsAdded`, ..., `HintsAdded`), some of which also keep the node they link
    to.  `CapHangsTogether` then shows what cutting the lists can lose.
  - `TreesTell` (`TreeInv`): the nodes of a tree are the ends of the paths that
    the walk goes (`WalkIsPaths`, by the walk of least room left that would
    differ); the names within reach are those a path leads to (`ReachedIsLed`).
    A path without a name twice is walked unless the tree says it was cut off
    (`PathIsWalked`), so each cycle, missing agent and version that does not fit
    is told of on some path (`TreeTruth`).
  - `VaultsTell` (`VaultInv`): of as many numbers as there are names and one more
    one makes a name that is free (`FreeNameIsFree`), so every node of the graph
    gets a name of its own (`AllNamed`, by a fold); while an export that no other
    disturbs goes on, each of these nodes has its note in the vault or still in
    the plan (`AloneTells`), and a note that is written goes over none that is
    meant (`WriteNoteStep`).

The proofs assume of the constants, in the modules that declare them:

- limits are naturals, and the circuit's threshold, the rollup batch, the windows
  and the life of a cache entry at least 1, as `resolveResilience` and the
  constants of the code have them (`ProviderAssumption`, `StoreAssumption`,
  `RunStoreAssumption`, `PipelineAssumption`, `FailoverAssumption`,
  `EnginesAssumption`, `ContextAssumption`, `GraphAssumption`, `TreeAssumption`,
  `SeeAssumption`, `StateAssumption`); a day has some length, and a month more
  days than a week, which has one (`LinesAssumption`: 24 hours, 7 and 30); and an
  audit lists fewer decisions than are counted (20 and 10 000:
  `DecisionLimit < CountLimit` of `StateAssumption`), without which the two
  figures of a report need not agree;
- a registry written by hand is sound to begin with (`RegistryAssumption`,
  `AcrossAssumption`);
- inputs are what the callers' types allow (`PipelineAssumption`,
  `McpAssumption`, `FailoverAssumption`: a `RouteRequest` and any environment;
  `RunStoreAssumption`, `SeeAssumption`, `StateAssumption`, `GraphAssumption`:
  failures, agents, rules and files come in lists, a package has finitely many
  dependencies, a policy file that is not there has no rules, and a document
  that is there has a topic (`EnginesAssumption`);
  `LinesAssumption`: a recorder appends a chat, an execution or a check with the
  fields of its kind, or what does not parse);
- agents request agents whose names are among finitely many (`TreeAssumption`);
- a repository there is, its nodes have names, and numbers that differ make them
  differ, as decimals do (`VaultAssumption`);
- there are finitely many workspaces, remote calls and files, no two files have
  the same path, directories and documents are numbered, and what marks "no
  agent", "no rebuild", "no topic" or "no path" is not the name of one (`StateAssumption`, `EnginesAssumption`); the id of the finding that
  decisions failed is not an id of a decision, which start with `gov-` and a time
  (`StateAssumption`).

Model-checked only: liveness (`CallsSettle`, `OpenIsProbed` and `Recovers` of the
provider, `Settles` of the route), since the prover does not handle ENABLED.

## Where code and documentation differ

1. `provider_cooldown`: a success that was under way when the circuit opened
   closes it at once, in spite of "Ms to stay open before half-open probe".
2. `pipeline_ledger`: a metrics line that cannot be written makes a second,
   failed result of a plugin that came back ok.  The gate blocks on it, and no
   decision of the ledger says why, in spite of ADR-0034.
3. `registry_env`: with `AIOS_WORKSPACES_PATH` naming a file that does not exist,
   `upsertWorkspace()` reads no rows and writes its one row over the home
   registry.
4. `chat_failed`: the success of a chat is recorded inside the `try`; if the
   append throws, the answer is lost and the chat recorded as failed.

Known limits that follow from the code and have no run of their own:
overlapping processes, or a crash in a write, lose notes `remember()` had stored
(`SerialIsBoundedLog` says what holds without overlap); index rows follow the
order of the appends and not of their time stamps, in spite of "Newest-last
list" (run-store.ts:92); a PRIVILEGED request that names a low or medium risk
is routed by its intent, because the privilege only counts where no risk is
given, while the table of ADR-0031 has no such condition; a tool call whose skill
catalog does not parse fails with a line in the log that says it was allowed; a
body may still run after consent became a must-policy, if it was judged before;
a workspace registered while a state report is under way is reported sound
though nothing validated it (operational-state/src/index.ts:103); a decision
that failed leaves the attention list once newer ones have pushed it out of the
audit's window, and an export, a rebuild of the index, or three clones
of one millisecond may take each other's files (`VaultTells`, `IndexWhole` and
`OwnManifest` say when they do not); of two failures that share an id Attention
shows one (decision-attention.ts:22); a rebuild may answer ok with rows of an
overlapping one missing; a semantic search is answered with the rows of
whichever repository was indexed last, although it names another, since
searchPkbIndex() reads all rows and not the path that a rebuild leaves in `meta`
(pkb-vectors.ts:182), and the rows of two repositories whose rebuilds overlap
stay mixed; a registry that loses its last
row during a run across workspaces lets the remaining pipelines run in the
directory of the process, under the workspace's name (workspace/src/index.ts:137);
an empty manifest under `agents/` makes every listing
throw, for an hour after it was removed, if it was cached; an agent whose id is
the beginning of another's, or occurs so in the detail of a step, gets no row of
its own in a trail (visibility/src/index.ts:79); the executions of a run are
pushed out of its trail by whatever else writes to the log, the chats and tools
included, although the list is not full (status/src/index.ts:655); the first text that
does not fit ends the context, although a smaller one behind it would.

## Not modelled

- Text: the intent engine (weighted patterns on one request), the heuristics of
  the agent plugins, prompt assembly, hygiene patterns, scoring of documents,
  notes and reports.  What a pattern finds is an input where a model needs it.
- The health score, a weighted sum, and the gauge of the runtime contract.
- The note of a run in an export, and the policies in a trail.
- The CLI, the console and the transport of the MCP server: they call the engines
  and keep nothing.
- HTTP adapters, git, SQLite and the file system: external, as the code uses them.

## What could come next

- The parts of the code the components table leaves out or `PROJECT.json` calls
  partly modelled: the server of the console and its safe actions, the HTTP of the
  provider adapters, the engines' views that only read and render.

Runs are kept few by sharing: a module joins an existing run where their
questions are about the same kind of state (`Journals`, `Engines`).
