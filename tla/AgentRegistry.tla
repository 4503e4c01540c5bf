---------------------------- MODULE AgentRegistry ----------------------------
(***************************************************************************)
(* The agent registry (packages/agent-registry/src/index.ts) as the MCP    *)
(* tool aios_list_agents and the CLI use it: one AgentRegistry object      *)
(* lists the agents for the rows of its answer, and then again, once for   *)
(* every row and all at the same time, for the dependency trees.  The      *)
(* community catalog and the local agents are answered from a cache for an *)
(* hour, the saved registry is read every time, and others edit the files. *)
(***************************************************************************)
EXTENDS Sequences, Integers, FiniteSets

CONSTANTS
  Tree,       \* the listings made for the trees
  Dir,        \* the directories under agents/
  Agent,      \* names of agents
  Builtin,    \* those that are built in
  Saved,      \* what the saved registry may be edited to: sequences of names
  Ttl,        \* CACHE_TTL_MS, in ticks of the clock
  MaxFill, MaxClock, MaxEdits   \* bounds

Nameless == "nameless"   \* a row without a manifest, or an empty one: its name cannot be read
Sources == {"community", "local"}
Listing == {"rows"} \union Tree

VARIABLES
  clock,
  catalogFile,   \* the community catalog: [ok, rows], not ok if missing or malformed
  savedFile,     \* the saved registry, likewise
  agentsDir,     \* the manifest in each directory: a row, or <<>> if none parses
  cached,        \* the cache: for each source [rows, stamp], or NoEntry
  at,            \* where each listing stands
  found,         \* the agents a listing has so far: entries by name
  reading,       \* of the scan of each listing, the directories read and their rows
  asked,         \* history: when a listing looked up each source
  was,           \* history: the rows of local agents and when they were there
  agentEdits     \* history: number of edits

agentVars == <<clock, catalogFile, savedFile, agentsDir, cached, at, found,
               reading, asked, was, agentEdits>>
files == <<catalogFile, savedFile, agentsDir, agentEdits>>

NoEntry == [rows |-> <<>>, stamp |-> -1]
NoFileYet == [ok |-> FALSE, rows |-> <<>>]

NoScanYet == [dirs |-> 0, rows |-> <<>>]

Row(name, source, edition) == [name |-> name, source |-> source, edition |-> edition]

\* Each row replaces the agent of its name.  via tells what file it is from.
Put(map, rowSeq, via) ==
  LET last(n) == CHOOSE i \in DOMAIN rowSeq :
                   rowSeq[i].name = n /\ \A j \in DOMAIN rowSeq : rowSeq[j].name = n => j <= i
      names   == {rowSeq[i].name : i \in DOMAIN rowSeq}
  IN  [n \in names \union DOMAIN map |->
         IF n \in names THEN [row |-> rowSeq[last(n)], via |-> via] ELSE map[n]]

\* initBuiltinAgents
InitBuiltinAgents == [n \in Builtin |-> [row |-> Row(n, "builtin", 0), via |-> "builtin"]]

Present == {<<clock, d, agentsDir[d]>> : d \in Dir}

AgentsInit ==
  /\ clock = 0
  /\ catalogFile = NoFileYet
  /\ savedFile = NoFileYet
  /\ agentsDir = [d \in Dir |-> <<>>]
  /\ cached = [s \in Sources |-> NoEntry]
  /\ at = [c \in Listing |-> "new"]
  /\ found = [c \in Listing |-> InitBuiltinAgents]
  /\ reading = [c \in Listing |-> NoScanYet]
  /\ asked = [c \in Listing |-> [s \in Sources |-> 0]]
  /\ was = Present
  /\ agentEdits = 0

-----------------------------------------------------------------------------
(* The files and the clock.                                                *)

Seen == was' = was \union Present'

\* Somebody edits one of the files.
EditFile ==
  /\ agentEdits < MaxEdits
  /\ agentEdits' = agentEdits + 1
  /\ \/ /\ catalogFile' \in {NoFileYet} \union
             {[ok |-> TRUE, rows |-> <<Row(n, "community", agentEdits')>>] : n \in Agent}
        /\ UNCHANGED <<savedFile, agentsDir>>
     \/ /\ savedFile' \in {NoFileYet} \union
             {[ok |-> TRUE, rows |-> [i \in DOMAIN s |-> Row(s[i], "npm", agentEdits')]] : s \in Saved}
        /\ UNCHANGED <<catalogFile, agentsDir>>
     \/ /\ \E d \in Dir, n \in Agent \union {Nameless} :
             agentsDir' = [agentsDir EXCEPT ![d] = <<Row(n, "local", agentEdits')>>]
        /\ UNCHANGED <<catalogFile, savedFile>>
     \/ /\ \E d \in Dir : agentsDir' = [agentsDir EXCEPT ![d] = <<>>]
        /\ UNCHANGED <<catalogFile, savedFile>>
  /\ UNCHANGED <<clock, cached, at, found, reading, asked>>
  /\ Seen

\* No read takes longer than MaxFill.
Tick ==
  /\ clock < MaxClock
  /\ \A c \in Listing :
       /\ at[c] = "readCatalog" => clock - asked[c]["community"] < MaxFill
       /\ at[c] \in {"scan", "store"} => clock - asked[c]["local"] < MaxFill
  /\ clock' = clock + 1
  /\ UNCHANGED <<catalogFile, savedFile, agentsDir, cached, at, found, reading, asked, agentEdits>>
  /\ Seen

-----------------------------------------------------------------------------
(* The cache.                                                              *)

\* getCache: an entry, if it is not too old.
GetCache(s) ==
  IF cached[s] # NoEntry /\ clock - cached[s].stamp < Ttl
  THEN cached[s] ELSE NoEntry

\* setCache: its time stamp is that of the end of the read.
SetCache(s, rowSeq) == [cached EXCEPT ![s] = [rows |-> rowSeq, stamp |-> clock]]

-----------------------------------------------------------------------------
(* listAgents: the built-in agents, then each source over the ones before. *)

Move(c, to) == at' = [at EXCEPT ![c] = to]
Merge(c, rowSeq, via) == found' = [found EXCEPT ![c] = Put(@, rowSeq, via)]
Ask(c, s) == asked' = [asked EXCEPT ![c][s] = clock]

\* The listings for the trees start once the rows are there; a workflow lists
\* without the community.
StartListing(c) ==
  /\ at[c] = "new"
  /\ c \in Tree => at["rows"] = "listed"
  /\ Move(c, "community") \/ Move(c, "saved")
  /\ UNCHANGED <<files, clock, cached, found, reading, asked, was>>

\* resolveFromCommunity, up to its read: an answer from the cache, or none.
LookUpCatalog(c) ==
  /\ at[c] = "community"
  /\ LET hit == GetCache("community") IN
       IF hit # NoEntry
       THEN Merge(c, hit.rows, "community") /\ Move(c, "saved") /\ UNCHANGED <<cached, asked>>
       ELSE /\ cached' = [cached EXCEPT !["community"] = NoEntry]
            /\ Move(c, "readCatalog")
            /\ Ask(c, "community")
            /\ UNCHANGED found
  /\ UNCHANGED <<files, clock, reading, was>>

\* The catalog is read.  A catalog that is missing or does not parse is no
\* agents, and nothing is cached.
ReadCatalog(c) ==
  /\ at[c] = "readCatalog"
  /\ Move(c, "saved")
  /\ Merge(c, catalogFile.rows, "community")
  /\ cached' = IF catalogFile.ok THEN SetCache("community", catalogFile.rows) ELSE cached
  /\ asked' = [asked EXCEPT ![c]["community"] = 0]
  /\ UNCHANGED <<files, clock, reading, was>>

\* The saved registry is read: its rows up to the first that has no manifest,
\* where the loop throws into the catch block.
ReadSaved(c) ==
  /\ at[c] = "saved"
  /\ LET whole == savedFile.rows
         bad == {i \in DOMAIN whole : whole[i].name = Nameless}
         cut == IF bad = {} THEN Len(whole)
                ELSE (CHOOSE i \in bad : \A j \in bad : i <= j) - 1
     IN  Merge(c, SubSeq(whole, 1, cut), "saved")
  /\ Move(c, "local")
  /\ UNCHANGED <<files, clock, cached, reading, asked, was>>

\* listAgents throws on an agent without a manifest.
EndListing(c, rowSeq) ==
  IF \E i \in DOMAIN rowSeq : rowSeq[i].name = Nameless
  THEN Move(c, "failed") /\ UNCHANGED found
  ELSE Move(c, "listed") /\ Merge(c, rowSeq, "local")

\* Mutant of LookUpLocal: a hit renews its entry.
LookUpLocalRenewing(c) ==
  /\ at[c] = "local"
  /\ Ask(c, "local")
  /\ LET hit == GetCache("local") IN
       IF hit # NoEntry
       THEN EndListing(c, hit.rows) /\ cached' = SetCache("local", hit.rows)
       ELSE /\ cached' = [cached EXCEPT !["local"] = NoEntry]
            /\ Move(c, "scan")
            /\ UNCHANGED found
  /\ UNCHANGED <<files, clock, reading, was>>

\* resolveFromLocal, up to its scan.
LookUpLocal(c) ==
  /\ at[c] = "local"
  /\ Ask(c, "local")
  /\ LET hit == GetCache("local") IN
       IF hit # NoEntry
       THEN EndListing(c, hit.rows) /\ UNCHANGED cached
       ELSE /\ cached' = [cached EXCEPT !["local"] = NoEntry]
            /\ Move(c, "scan")
            /\ UNCHANGED found
  /\ UNCHANGED <<files, clock, reading, was>>

\* The scan reads the manifest of one directory after the other: one that is
\* not there or does not parse is skipped, an empty one is not.
ScanDir(c) ==
  /\ at[c] = "scan"
  /\ reading[c].dirs < Cardinality(Dir)
  /\ reading' = [reading EXCEPT ![c] = [dirs |-> @.dirs + 1,
                                       rows |-> @.rows \o agentsDir[@.dirs + 1]]]
  /\ UNCHANGED <<files, clock, cached, at, found, asked, was>>

\* The rows of the directories are cached and answered.
StoreScan(c) ==
  /\ at[c] = "scan"
  /\ reading[c].dirs = Cardinality(Dir)
  /\ cached' = SetCache("local", reading[c].rows)
  /\ EndListing(c, reading[c].rows)
  /\ reading' = [reading EXCEPT ![c] = NoScanYet]
  /\ UNCHANGED <<files, clock, asked, was>>

\* There is no directory, or it cannot be read: no agents, and nothing cached.
NoScan(c) ==
  /\ at[c] = "scan"
  /\ Move(c, "listed")
  /\ reading' = [reading EXCEPT ![c] = NoScanYet]
  /\ UNCHANGED <<files, clock, cached, found, asked, was>>

\* saveRegistry: the file is cut, then written with the agents of a listing
\* that are neither built in nor of the community.
SaveRegistry(c) ==
  /\ at[c] = "listed" /\ at["rows"] = "listed"
  /\ agentEdits < MaxEdits
  /\ agentEdits' = agentEdits + 1
  /\ LET kept == {n \in DOMAIN found[c] : found[c][n].row.source \notin {"builtin", "community"}}
         in == CHOOSE f \in [1..Cardinality(kept) -> kept] : \A n \in kept : \E i \in DOMAIN f : f[i] = n
     IN  savedFile' \in {NoFileYet, [ok |-> TRUE, rows |-> [i \in DOMAIN in |-> found[c][in[i]].row]]}
  /\ UNCHANGED <<catalogFile, agentsDir, clock, cached, at, found, reading, asked, was>>

AgentsNext ==
  \/ EditFile \/ Tick
  \/ \E c \in Listing :
       \/ StartListing(c) \/ LookUpCatalog(c) \/ ReadCatalog(c) \/ ReadSaved(c)
       \/ LookUpLocal(c) \/ ScanDir(c) \/ StoreScan(c) \/ NoScan(c) \/ SaveRegistry(c)

AgentsSpec == AgentsInit /\ [][AgentsNext]_agentVars

-----------------------------------------------------------------------------
(* Properties.                                                             *)

\* An agent whose manifest an answer takes from agents/ was there: not gone
\* for longer than the hour of the cache and the time a scan may take, even
\* when a slow scan stores what it read long ago over what a faster one stored.
AnswersFresh ==
  \A c \in Listing : at[c] = "listed" =>
    \A n \in DOMAIN found[c] : found[c][n].via = "local" =>
      \E w \in was : /\ w[1] > asked[c]["local"] - Ttl - MaxFill
                     /\ w[1] <= clock
                     /\ w[3] = <<found[c][n].row>>

Locals(c) == {n \in DOMAIN found[c] : found[c][n].via = "local"}

\* The trees are of the agents in the rows: where the rows show local agents,
\* every listing made within the hour for their trees shows the same ones.
TreesMatchRows ==
  \A c \in Tree :
    at[c] = "listed" /\ Locals("rows") # {}
      /\ asked[c]["local"] - asked["rows"]["local"] < Ttl =>
        /\ Locals(c) = Locals("rows")
        /\ \A n \in Locals(c) : found[c][n] = found["rows"][n]

\* What comes out of the cache is neither too old nor at odds with itself.
CacheTells == AnswersFresh /\ TreesMatchRows
=============================================================================
