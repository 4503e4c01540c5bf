-------------------------- MODULE WorkspaceRegistry --------------------------
(***************************************************************************)
(* The workspace registry (engines/workspace/src/index.ts) and the         *)
(* processes that share it: MCP server, CLI and console.  upsertWorkspace  *)
(* and removeWorkspace read aios.workspaces.json, work on the list and     *)
(* write it back with writeFileSync, which truncates first; nothing locks  *)
(* the file.  listValidatedWorkspaces reads it anew for every row.         *)
(*                                                                         *)
(* A registry is a set of rows: the order of the list only shows in what   *)
(* is printed, as long as no id and no default comes twice.  Names and     *)
(* tags, which are copied along, are left out.                             *)
(***************************************************************************)
EXTENDS FiniteSets

CONSTANTS
  Process,   \* Node processes sharing the registry
  Id, Path,  \* workspace ids and the paths registered for them
  None,      \* no default
  Initial,   \* the registries found at first
  EnvSet,    \* processes run with AIOS_WORKSPACES_PATH
  Failing    \* processes that may die, or whose writes may fail

\* parseRegistry accepts any list; whoever writes one by hand is assumed to
\* give an id one row and to mark one default.
UniqueIds(rows) == \A a, b \in rows : a.id = b.id => a = b
OneDefault(rows) == \A a, b \in rows : a.default /\ b.default => a = b

Row == [id : Id, path : Path, default : BOOLEAN]

ASSUME RegistryAssumption ==
  /\ Initial \subseteq SUBSET Row
  /\ \A rows \in Initial : UniqueIds(rows) /\ OneDefault(rows)
  /\ EnvSet \subseteq Process
  /\ Failing \subseteq Process

VARIABLES
  file,      \* the two registry files
  pc,        \* where each process stands
  out,       \* the rows it is about to write
  target,    \* the file it is about to write
  todo,      \* the rows its listing has yet to validate
  listed,    \* the rows its listing has validated
  held,      \* history: ids with their paths in the file since it began to list
  disturbed  \* history: calls overlapped, a write broke off, or a process
             \* with a registry of its own wrote

vars == <<file, pc, out, target, todo, listed, held, disturbed>>

Busy == {p \in Process : pc[p] # "idle"}

\* "home": the file walkUpFind finds, or defaultRegistryPath() if there is
\* none; "env": the one AIOS_WORKSPACES_PATH names.
File == {"home", "env"}

Absent == [kind |-> "absent", rows |-> {}]
Empty == [kind |-> "empty", rows |-> {}]

Garbage == [kind |-> "garbage", rows |-> {}]
Whole(rows) == [kind |-> "whole", rows |-> rows]

Init ==
  /\ file \in [File -> {Absent} \union {Whole(rows) : rows \in Initial}]
  /\ pc = [p \in Process |-> "idle"]
  /\ out = [p \in Process |-> {}]
  /\ target = [p \in Process |-> "home"]
  /\ todo = [p \in Process |-> {}]
  /\ listed = [p \in Process |-> {}]
  /\ held = [p \in Process |-> {}]
  /\ disturbed = FALSE

\* loadWorkspaces: a missing file is an empty registry, anything that does
\* not parse throws.
Located(p) == IF p \in EnvSet THEN "env" ELSE "home"
Loads(p) == file[Located(p)].kind \in {"absent", "whole"}
Loaded(p) == file[Located(p)].rows

PathsOf(rows) == {<<r.id, r.path>> : r \in rows}

\* What a step leaves in its file is seen by every listing under way.
Witnessed ==
  held' = [p \in Process |->
             IF pc[p] = "listing" THEN held[p] \union PathsOf(file'[Located(p)].rows)
                                  ELSE held[p]]

\* resolveWorkspace: find() by id, or the row marked default.
Known(rows, id) == \E r \in rows : r.id = id
Resolve(rows, id) == CHOOSE r \in rows : r.id = id
DefaultId(rows) ==
  IF \E r \in rows : r.default THEN (CHOOSE r \in rows : r.default).id ELSE None

\* Mutant of Upserted: the entry replaces the row instead of its fields.
UpsertedReplacing(rows, entry) ==
  {[r EXCEPT !.default = @ /\ ~entry.default] : r \in {s \in rows : s.id # entry.id}}
    \union {entry}

\* The list upsertWorkspace writes: a new default unmarks all others; an
\* entry with a known id is merged into its row, which keeps its mark.
Upserted(rows, entry) ==
  LET base == {[r EXCEPT !.default = @ /\ ~entry.default] : r \in rows}
      old  == {r \in base : r.id = entry.id}
  IN  (base \ old)
        \union {[entry EXCEPT !.default = @ \/ \E r \in old : r.default]}

\* upsertWorkspace up to the write.  Where no registry was found the default
\* path is written.
UpsertRead(p, entry) ==
  /\ pc[p] = "idle"
  /\ Loads(p)
  /\ pc' = [pc EXCEPT ![p] = "ready"]
  /\ out' = [out EXCEPT ![p] = Upserted(Loaded(p), entry)]
  /\ target' = [target EXCEPT ![p] =
                  IF file[Located(p)] = Absent THEN "home" ELSE Located(p)]
  /\ disturbed' = (disturbed \/ Busy # {} \/ p \in EnvSet)
  /\ UNCHANGED <<file, todo, listed, held>>

\* removeWorkspace up to the write; an id nobody registered writes nothing.
RemoveRead(p, id) ==
  /\ pc[p] = "idle"
  /\ Loads(p)
  /\ Known(Loaded(p), id)
  /\ pc' = [pc EXCEPT ![p] = "ready"]
  /\ out' = [out EXCEPT ![p] = {r \in Loaded(p) : r.id # id}]
  /\ target' = [target EXCEPT ![p] = Located(p)]
  /\ disturbed' = (disturbed \/ Busy # {} \/ p \in EnvSet)
  /\ UNCHANGED <<file, todo, listed, held>>

\* writeRegistry: writeFileSync opens the file with O_CREAT | O_TRUNC ...
Truncate(p) ==
  /\ pc[p] = "ready"
  /\ pc' = [pc EXCEPT ![p] = "writing"]
  /\ file' = [file EXCEPT ![target[p]] = Empty]
  /\ Witnessed
  /\ UNCHANGED <<out, target, todo, listed, disturbed>>

\* Mutant of Fill: the rows are added to what the file has got by now.
FillMerging(p) ==
  /\ pc[p] = "writing"
  /\ pc' = [pc EXCEPT ![p] = "idle"]
  /\ file' = [file EXCEPT ![target[p]] = Whole(@.rows \union out[p])]
  /\ out' = [out EXCEPT ![p] = {}]
  /\ target' = [target EXCEPT ![p] = "home"]
  /\ Witnessed
  /\ UNCHANGED <<todo, listed, disturbed>>

\* ... and fills it, over the bytes of another writer if one was quicker.
Fill(p) ==
  /\ pc[p] = "writing"
  /\ pc' = [pc EXCEPT ![p] = "idle"]
  /\ \/ file' = [file EXCEPT ![target[p]] = Whole(out[p])]
     \/ file[target[p]] # Empty /\ file' = [file EXCEPT ![target[p]] = Garbage]
  /\ out' = [out EXCEPT ![p] = {}]
  /\ target' = [target EXCEPT ![p] = "home"]
  /\ Witnessed
  /\ UNCHANGED <<todo, listed, disturbed>>

\* The process dies, or its write breaks off.
Fail(p) ==
  /\ p \in Failing
  /\ pc[p] \in {"ready", "writing"}
  /\ pc' = [pc EXCEPT ![p] = "idle"]
  /\ \/ file' = file
     \/ pc[p] = "writing" /\ file' = [file EXCEPT ![target[p]] = Garbage]
  /\ out' = [out EXCEPT ![p] = {}]
  /\ target' = [target EXCEPT ![p] = "home"]
  /\ disturbed' = TRUE
  /\ Witnessed
  /\ UNCHANGED <<todo, listed>>

-----------------------------------------------------------------------------
(* listValidatedWorkspaces.                                                *)

ListStart(p) ==
  /\ pc[p] = "idle"
  /\ Loads(p)
  /\ Loaded(p) # {}
  /\ pc' = [pc EXCEPT ![p] = "listing"]
  /\ todo' = [todo EXCEPT ![p] = Loaded(p)]
  /\ listed' = [listed EXCEPT ![p] = {}]
  /\ held' = [held EXCEPT ![p] = PathsOf(Loaded(p))]
  /\ disturbed' = (disturbed \/ Busy # {})
  /\ UNCHANGED <<file, out, target>>

\* Mutant of ListRow: for an id that is gone the default workspace is checked.
ListRowDefaulting(p, r) ==
  /\ pc[p] = "listing"
  /\ r \in todo[p]
  /\ Loads(p)
  /\ Known(Loaded(p), r.id) \/ DefaultId(Loaded(p)) # None
  /\ LET id == IF Known(Loaded(p), r.id) THEN r.id ELSE DefaultId(Loaded(p))
     IN  listed' = [listed EXCEPT ![p] =
                      @ \union {[id |-> r.id, repoPath |-> r.path,
                                 checked |-> Resolve(Loaded(p), id).path]}]
  /\ todo' = [todo EXCEPT ![p] = @ \ {r}]
  /\ pc' = [pc EXCEPT ![p] = IF todo[p] = {r} THEN "idle" ELSE "listing"]
  /\ UNCHANGED <<file, out, target, held, disturbed>>

\* validateWorkspace(entry.id) looks the id up in the file as it is now and
\* checks the path it finds there.
ListRow(p, r) ==
  /\ pc[p] = "listing"
  /\ r \in todo[p]
  /\ Loads(p)
  /\ Known(Loaded(p), r.id)
  /\ listed' = [listed EXCEPT ![p] =
                  @ \union {[id |-> r.id, repoPath |-> r.path,
                             checked |-> Resolve(Loaded(p), r.id).path]}]
  /\ todo' = [todo EXCEPT ![p] = @ \ {r}]
  /\ pc' = [pc EXCEPT ![p] = IF todo[p] = {r} THEN "idle" ELSE "listing"]
  /\ UNCHANGED <<file, out, target, held, disturbed>>

\* It throws, and the listing with it: the file does not parse any more, the
\* id is gone, or the registry is empty.
ListThrows(p, r) ==
  /\ pc[p] = "listing"
  /\ r \in todo[p]
  /\ ~Loads(p) \/ ~Known(Loaded(p), r.id)
  /\ pc' = [pc EXCEPT ![p] = "idle"]
  /\ todo' = [todo EXCEPT ![p] = {}]
  /\ listed' = [listed EXCEPT ![p] = {}]
  /\ UNCHANGED <<file, out, target, held, disturbed>>

Writes(p) ==
  \/ \E entry \in Row : UpsertRead(p, entry)
  \/ \E id \in Id : RemoveRead(p, id)
  \/ Truncate(p) \/ Fill(p) \/ Fail(p)

Lists(p) ==
  \/ ListStart(p)
  \/ \E r \in todo[p] : ListRow(p, r) \/ ListThrows(p, r)

Next == \E p \in Process : Writes(p) \/ Lists(p)

Spec == Init /\ [][Next]_vars

-----------------------------------------------------------------------------
(* Properties.                                                             *)

\* Every variable keeps its type; only a whole file has rows.
TypeOK ==
  /\ file \in [File -> [kind : {"absent", "empty", "garbage", "whole"}, rows : SUBSET Row]]
  /\ \A f \in File : file[f].kind # "whole" => file[f].rows = {}
  /\ pc \in [Process -> {"idle", "ready", "writing", "listing"}]
  /\ out \in [Process -> SUBSET Row]
  /\ target \in [Process -> File]
  /\ todo \in [Process -> SUBSET Row]
  /\ listed \in [Process -> SUBSET [id : Id, repoPath : Path, checked : Path]]
  /\ held \in [Process -> SUBSET (Id \X Path)]
  /\ disturbed \in BOOLEAN

\* "Se true, demarque default nos demais": whatever overlaps or breaks off,
\* no registry ever has two defaults, so which one resolveWorkspace() finds
\* does not depend on the order of the list.
AtMostOneDefault == \A f \in File : OneDefault(file[f].rows)

\* No registry ever has two rows of one id, so lookups by id are unambiguous.
NoDuplicateIds == \A f \in File : UniqueIds(file[f].rows)

\* The two together: a registry that upsertWorkspace() and removeWorkspace()
\* write, however their calls overlap or break off, is one that lookups can
\* be made in.
RegistrySound == AtMostOneDefault /\ NoDuplicateIds

\* A listing takes its rows from one reading of the registry and the path it
\* validates for each from another, between which others upsert, move and
\* remove workspaces, or break their file.  Yet no workspace gets the verdict
\* on another one's path: both paths of a listed row were registered for its
\* own id while the listing went on, and no id is listed twice.
ListingTells ==
  \A p \in Process :
    /\ \A x \in listed[p] :
         <<x.id, x.repoPath>> \in held[p] /\ <<x.id, x.checked>> \in held[p]
    /\ \A v, w \in listed[p] : v.id = w.id => v = w

\* The home registry as its users see it; a write counts once it began.
Seen ==
  LET writers == {p \in Process : pc[p] = "writing"}
  IN  IF writers # {} THEN out[CHOOSE p \in writers : TRUE] ELSE file["home"].rows

EntriesOf(rows) == [i \in {r.id : r \in rows} |-> Resolve(rows, i).path]

Abstract == INSTANCE Registry WITH entries <- EntriesOf(Seen), default <- DefaultId(Seen)

\* Calls that do not overlap and whose writes succeed find a catalogue with a
\* default: an upsert adds or moves one workspace and keeps the default
\* unless told otherwise, a removal takes one out.
SerialIsRegistry ==
  /\ Abstract!Init
  /\ [][~disturbed' => Abstract!Next]_<<EntriesOf(Seen), DefaultId(Seen)>>

\* upsertWorkspace() "inserts or updates a workspace in the registry": no
\* step loses the rows of two workspaces.
OthersAreKept ==
  [][\E id \in Id : \A r \in Seen : r.id # id => Known(Seen', r.id)]_vars
=============================================================================
