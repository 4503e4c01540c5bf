----------------------------- MODULE RemoteAgents -----------------------------
(***************************************************************************)
(* resolveFromGit() and resolveFromNpm() of the agent registry             *)
(* (packages/agent-registry/src/index.ts).  A repository is cloned into a  *)
(* directory named after the clock, its manifest is read, and the          *)
(* directory is removed, while other calls do the same: those that start   *)
(* in the same millisecond share a directory.                              *)
(***************************************************************************)
EXTENDS Integers, FiniteSets

CONSTANTS
  Remote,    \* repositories and packages
  Resolver,  \* calls
  MaxMs      \* bound: the last millisecond

VARIABLES
  ms,        \* the clock, Date.now()
  temp,      \* what is in the directory of each millisecond
  kept,      \* the cache: for each remote the manifest kept for it, or "none"
  phase,     \* where a call stands
  wants,     \* the remote it asks for
  born,      \* the millisecond it asked in
  manifest,  \* the manifest it has read
  refused    \* history: calls whose clone, checkout or fetch failed of itself

remoteVars == <<ms, temp, kept, phase, wants, born, manifest, refused>>
Ms == 0..MaxMs

RemoteInit ==
  /\ ms = 0
  /\ temp = [t \in Ms |-> "none"]
  /\ kept = [r \in Remote |-> "none"]
  /\ phase = [c \in Resolver |-> "new"]
  /\ wants = [c \in Resolver |-> "none"]
  /\ born = [c \in Resolver |-> -1]
  /\ manifest = [c \in Resolver |-> "none"]
  /\ refused = {}

Goes(c, to) == phase' = [phase EXCEPT ![c] = to]

NextMs == ms < MaxMs /\ ms' = ms + 1 /\ UNCHANGED <<temp, kept, phase, wants, born, manifest, refused>>

\* An entry is kept for an hour.
Expire ==
  /\ \E r \in Remote : kept[r] # "none" /\ kept' = [kept EXCEPT ![r] = "none"]
  /\ UNCHANGED <<ms, temp, phase, wants, born, manifest, refused>>

\* Mutant of TempDir: there is one directory.
TempDirFixed(t) == 0

\* agent-git-<Date.now()>
TempDir(t) == t
DirOf(c) == TempDir(born[c])

\* The cache answers, or the call goes on.
AskRemote(c, r, to) ==
  /\ phase[c] = "new"
  /\ wants' = [wants EXCEPT ![c] = r]
  /\ born' = [born EXCEPT ![c] = ms]
  /\ IF kept[r] # "none"
     THEN manifest' = [manifest EXCEPT ![c] = kept[r]] /\ Goes(c, "answered")
     ELSE Goes(c, to) /\ UNCHANGED manifest
  /\ UNCHANGED <<ms, temp, kept, refused>>

\* resolveFromNpm: the registry answers, or it does not.
FetchNpm(c) ==
  /\ phase[c] = "fetch"
  /\ \/ /\ manifest' = [manifest EXCEPT ![c] = wants[c]]
        /\ kept' = [kept EXCEPT ![wants[c]] = wants[c]]
        /\ Goes(c, "answered")
        /\ UNCHANGED refused
     \/ Goes(c, "failed") /\ refused' = refused \union {c} /\ UNCHANGED <<manifest, kept>>
  /\ UNCHANGED <<ms, temp, wants, born>>

\* mkdir, recursive: a directory that is there will do.
MakeTempDir(c) ==
  /\ phase[c] = "mkdir"
  /\ temp' = [temp EXCEPT ![DirOf(c)] = IF @ = "none" THEN "empty" ELSE @]
  /\ Goes(c, "clone")
  /\ UNCHANGED <<ms, kept, wants, born, manifest, refused>>

\* git clone refuses a directory that is not empty, makes one that is gone ...
BeginClone(c) ==
  /\ phase[c] = "clone"
  /\ IF temp[DirOf(c)] \in {"none", "empty"}
     THEN temp' = [temp EXCEPT ![DirOf(c)] = "cloning"] /\ Goes(c, "cloning")
     ELSE Goes(c, "cleanup") /\ UNCHANGED temp
  /\ UNCHANGED <<ms, kept, wants, born, manifest, refused>>

\* ... and fails if it is removed under it, or if it cannot get the
\* repository or the ref.
EndClone(c) ==
  /\ phase[c] = "cloning"
  /\ \/ /\ temp[DirOf(c)] = "cloning"
        /\ temp' = [temp EXCEPT ![DirOf(c)] = wants[c]]
        /\ Goes(c, "parse")
        /\ UNCHANGED refused
     \/ /\ temp[DirOf(c)] # "cloning"
        /\ Goes(c, "cleanup")
        /\ UNCHANGED <<temp, refused>>
     \/ /\ Goes(c, "cleanup")
        /\ refused' = refused \union {c}
        /\ UNCHANGED temp
  /\ UNCHANGED <<ms, kept, wants, born, manifest>>

\* The manifest is looked for and parsed: whoever's it is.
ParseManifest(c) ==
  /\ phase[c] = "parse"
  /\ IF temp[DirOf(c)] \in Remote
     THEN manifest' = [manifest EXCEPT ![c] = temp[DirOf(c)]] /\ Goes(c, "tags")
     ELSE Goes(c, "cleanup") /\ UNCHANGED manifest
  /\ UNCHANGED <<ms, temp, kept, wants, born, refused>>

\* git tag needs the directory; then the entry is cached.
ReadTags(c) ==
  /\ phase[c] = "tags"
  /\ IF temp[DirOf(c)] = "none"
     THEN Goes(c, "cleanup") /\ UNCHANGED kept
     ELSE kept' = [kept EXCEPT ![wants[c]] = manifest[c]] /\ Goes(c, "cleanupAnswered")
  /\ UNCHANGED <<ms, temp, wants, born, manifest, refused>>

\* finally: rm, recursive and forced
RemoveTempDir(c) ==
  /\ phase[c] \in {"cleanup", "cleanupAnswered"}
  /\ temp' = [temp EXCEPT ![DirOf(c)] = "none"]
  /\ Goes(c, IF phase[c] = "cleanup" THEN "failed" ELSE "answered")
  /\ UNCHANGED <<ms, kept, wants, born, manifest, refused>>

\* The process that made a call dies.
DieResolving(c) ==
  /\ phase[c] \notin {"new", "answered", "failed", "dead"}
  /\ Goes(c, "dead")
  /\ UNCHANGED <<ms, temp, kept, wants, born, manifest, refused>>

RemoteNext ==
  \/ NextMs \/ Expire
  \/ \E c \in Resolver :
       \/ \E r \in Remote : AskRemote(c, r, "mkdir") \/ AskRemote(c, r, "fetch")
       \/ FetchNpm(c) \/ MakeTempDir(c) \/ BeginClone(c) \/ EndClone(c)
       \/ ParseManifest(c) \/ ReadTags(c) \/ RemoveTempDir(c) \/ DieResolving(c)

RemoteSpec == RemoteInit /\ [][RemoteNext]_remoteVars

-----------------------------------------------------------------------------
(* Properties.                                                             *)

Sharing(c) == {d \in Resolver : born[d] = born[c]}

\* A call that shares its millisecond with no other is answered unless git or
\* npm fail, and every answer, from the cache as well, has the manifest of what
\* was asked for as long as no three calls share a millisecond.  (With three,
\* the first can read what the third has cloned after the second, refused,
\* removed the clone of the first.)
OwnManifest ==
  /\ \A c \in Resolver :
       Cardinality(Sharing(c)) = 1 /\ phase[c] = "failed" => c \in refused
  /\ (\A c \in Resolver : phase[c] # "new" => Cardinality(Sharing(c)) <= 2) =>
       \A c \in Resolver : phase[c] = "answered" => manifest[c] = wants[c]
=============================================================================
