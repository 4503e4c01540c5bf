------------------------------ MODULE MemoryStore ------------------------------
(***************************************************************************)
(* The memory file of one workspace (engines/memory/src/index.ts) and the  *)
(* processes that share it: the MCP server, the console and the CLI each   *)
(* run their own Node process on the same AIOS_HOME, and nothing locks the *)
(* file.  remember() reads the file, appends, and writes it back with      *)
(* writeFileSync, which truncates the file when it opens it and fills it   *)
(* afterwards; another process, or a crash, can come in between.           *)
(*                                                                         *)
(* An entry is the list of the notes a reader can still find in it: one    *)
(* for what remember() stored, several for a rollup.  The 200 characters a *)
(* rollup copies of each evicted entry hold a whole (short) note but only  *)
(* the first NestKept lines of an older rollup.                            *)
(***************************************************************************)
EXTENDS SequencesExt, Places

CONSTANTS
  BatchMax,     \* ROLLUP_BATCH_MAX
  NestKept,     \* lines of an older rollup that fit in one snippet
  Process,      \* Node processes sharing the store
  Note,         \* the notes remembered; each is remembered at most once
  Denied,       \* content firstContentHygieneHit() refuses
  Cap,          \* maxEntries
  Compressing   \* processes with AIOS_MEMORY_COMPRESS=1

ASSUME StoreAssumption ==
  /\ BatchMax \in Nat \ {0}
  /\ NestKept \in Nat
  /\ Note # {}
  /\ Cap \in Nat
  /\ Compressing \subseteq Process

VARIABLES
  disk,       \* what the path {workspaceId}.json leads to
  pc,         \* where each process stands
  snap,       \* the entries its readStore() returned
  note,       \* the note it is storing
  orphan,     \* writers whose open file has been unlinked
  taken,      \* history: the notes remember() was called with, in order
  log,        \* history: the store one process alone would have
  disturbed   \* history: calls overlapped, or a write broke off

vars == <<disk, pc, snap, note, orphan, taken, log, disturbed>>

-----------------------------------------------------------------------------
(* applyFifoRetention, and the rollup it builds.                           *)

Least(m, n) == IF m < n THEN m ELSE n

NoteEntry(n) == [kind |-> "note", covers |-> <<n>>]

Snippet(e) ==
  IF e.kind = "rollup" THEN SubSeq(e.covers, 1, Least(NestKept, Len(e.covers)))
                       ELSE e.covers

Rollup(evicted) ==
  [kind   |-> "rollup",
   covers |-> FlattenSeq([i \in 1..Len(evicted) |-> Snippet(evicted[i])])]

Newest(entries, n) ==
  SubSeq(entries, Len(entries) - Least(n, Len(entries)) + 1, Len(entries))

\* One pass of the loop: the oldest rows become a rollup at the newest end,
\* and the slice back to the cap drops the next oldest.  The slice leaves no
\* more than the cap, so there is no second pass.
RollUp(entries, cap) ==
  LET batch == Least(Len(entries) - cap, BatchMax)
      rest  == SubSeq(entries, batch + 1, Len(entries))
  IN  Newest(Append(rest, Rollup(SubSeq(entries, 1, batch))), cap)

\* Mutant of ApplyFifoRetention: off by one at the cap.
RetainOneMore(entries, cap, compressOnEvict) ==
  IF Len(entries) <= cap + 1 THEN entries
  ELSE IF compressOnEvict THEN RollUp(entries, cap)
  ELSE Newest(entries, cap)

ApplyFifoRetention(entries, cap, compressOnEvict) ==
  IF Len(entries) <= cap THEN entries
  ELSE IF compressOnEvict THEN RollUp(entries, cap)
  ELSE Newest(entries, cap)

\* The notes a reader can find in a list of entries.
Findable(entries) == UNION {ToSet(entries[i].covers) : i \in DOMAIN entries}

-----------------------------------------------------------------------------
(* The file.                                                               *)

\* "garbage" is a file two writers filled on top of one another.
Absent == [kind |-> "absent"]
Empty == [kind |-> "empty"]
Garbage == [kind |-> "garbage"]
Store(entries) == [kind |-> "store", entries |-> entries]

Init ==
  /\ disk = Absent
  /\ pc = [p \in Process |-> "idle"]
  /\ snap = [p \in Process |-> <<>>]
  /\ note = [p \in Process |-> CHOOSE n \in Note : TRUE]
  /\ orphan = {}
  /\ taken = <<>>
  /\ log = <<>>
  /\ disturbed = FALSE

\* sanitizeStoredEntries: rows with refused content are skipped.
Safe(entries) ==
  At(entries, {i \in DOMAIN entries : ToSet(entries[i].covers) \cap Denied = {}})

\* readStore: a missing, truncated or unparsable file reads as no entries.
Entries == IF disk.kind = "store" THEN disk.entries ELSE <<>>

\* Mutant of ReadStore: rows are not sanitised on read.
ReadUnsanitised == Entries

ReadStore == Safe(Entries)

\* recall(): newest first.
Recall == Reverse(ReadStore)

Busy == {p \in Process : pc[p] # "idle"}

\* assertMemoryContentAllowed, then readStore.
Read(p, n) ==
  /\ pc[p] = "idle"
  /\ n \notin Denied
  /\ n \notin ToSet(taken)
  /\ pc' = [pc EXCEPT ![p] = "read"]
  /\ snap' = [snap EXCEPT ![p] = ReadStore]
  /\ note' = [note EXCEPT ![p] = n]
  /\ taken' = Append(taken, n)
  /\ disturbed' = (disturbed \/ Busy # {})
  /\ UNCHANGED <<disk, orphan, log>>

\* writeFileSync opens the path with O_CREAT | O_TRUNC.
Truncate(p) ==
  /\ pc[p] = "read"
  /\ pc' = [pc EXCEPT ![p] = "writing"]
  /\ disk' = Empty
  /\ UNCHANGED <<snap, note, orphan, taken, log, disturbed>>

NextStore(entries, p) ==
  ApplyFifoRetention(Append(entries, NoteEntry(note[p])), Cap, p \in Compressing)

\* The bytes go to the file p opened: to nothing reachable if that was
\* unlinked, over another writer's bytes if one filled it first.
Fill(p) ==
  /\ pc[p] = "writing"
  /\ \/ p \in orphan /\ disk' = disk
     \/ p \notin orphan /\ disk' = Store(NextStore(snap[p], p))
     \/ p \notin orphan /\ disk # Empty /\ disk' = Garbage
  /\ pc' = [pc EXCEPT ![p] = "idle"]
  /\ orphan' = orphan \ {p}
  /\ log' = NextStore(Safe(log), p)
  /\ UNCHANGED <<snap, note, taken, disturbed>>

\* The process dies, or the write throws (a full disk): the file stays as
\* it is, truncated if the write had begun.
Fail(p) ==
  /\ pc[p] # "idle"
  /\ pc' = [pc EXCEPT ![p] = "idle"]
  /\ orphan' = orphan \ {p}
  /\ disturbed' = (disturbed \/ pc[p] = "writing")
  /\ UNCHANGED <<disk, snap, note, taken, log>>

\* clearMemory: existsSync, and false if there is no file ...
ClearCheck(p) ==
  /\ pc[p] = "idle"
  /\ disk # Absent
  /\ pc' = [pc EXCEPT ![p] = "clearing"]
  /\ disturbed' = (disturbed \/ Busy # {})
  /\ UNCHANGED <<disk, snap, note, orphan, taken, log>>

\* ... then unlinkSync, which throws if another process was quicker.
Unlink(p) ==
  /\ pc[p] = "clearing"
  /\ pc' = [pc EXCEPT ![p] = "idle"]
  /\ disk' = Absent
  /\ orphan' = orphan \union {q \in Process : pc[q] = "writing"}
  /\ log' = <<>>
  /\ UNCHANGED <<snap, note, taken, disturbed>>

\* A row is rewritten by hand, or by a process with AIOS_CONTENT_HYGIENE=0,
\* to content the others refuse.
Poison(n) ==
  /\ Busy = {}
  /\ n \in Denied \ ToSet(taken)
  /\ disk.kind = "store" /\ disk.entries # <<>>
  /\ LET rows == [disk.entries EXCEPT ![Len(disk.entries)] = NoteEntry(n)]
     IN  /\ disk' = Store(rows)
         /\ log' = IF disturbed THEN log ELSE rows
  /\ taken' = Append(taken, n)
  /\ UNCHANGED <<pc, snap, note, orphan, disturbed>>

Next ==
  \/ \E p \in Process :
       \/ \E n \in Note : Read(p, n)
       \/ Truncate(p) \/ Fill(p) \/ Fail(p) \/ ClearCheck(p) \/ Unlink(p)
  \/ \E n \in Note : Poison(n)

Spec == Init /\ [][Next]_vars

-----------------------------------------------------------------------------
(* Properties.                                                             *)

Entry == [kind : {"note", "rollup"}, covers : Seq(Note)]

\* Every variable keeps its type; only a writer can have an unlinked file.
TypeOK ==
  /\ disk.kind \in {"absent", "empty", "garbage", "store"}
  /\ Entries \in Seq(Entry)
  /\ pc \in [Process -> {"idle", "read", "writing", "clearing"}]
  /\ snap \in [Process -> Seq(Entry)]
  /\ note \in [Process -> Note]
  /\ orphan \subseteq {p \in Process : pc[p] = "writing"}
  /\ taken \in Seq(Note)
  /\ log \in Seq(Entry)
  /\ disturbed \in BOOLEAN

\* Whatever overlaps or breaks off, no file holds more than maxEntries rows.
WithinCap == Len(Entries) <= Cap

\* As long as no two calls overlap and no write breaks off, the file is what
\* one process alone would have written: the bounded log of all notes since
\* the last clearMemory().
SerialIsBoundedLog ==
  ~disturbed /\ (\A p \in Process : pc[p] # "writing") => Entries = log

\* A stale snapshot may drop or bring back rows, but it never puts them out
\* of order: recall() lists the single notes newest first.
OldestFirst ==
  \A i, j \in DOMAIN Entries :
    i < j /\ Entries[i].kind = "note" /\ Entries[j].kind = "note" =>
      \E k, l \in DOMAIN taken :
        k < l /\ taken[k] \in ToSet(Entries[i].covers) /\ taken[l] \in ToSet(Entries[j].covers)

\* Refused content that found its way into the file is never copied into a
\* rollup, where recall() would have to drop the good notes with it.
RollupsClean ==
  \A i \in DOMAIN Entries :
    Entries[i].kind = "rollup" => ToSet(Entries[i].covers) \cap Denied = {}

\* What p's write is about to make of the entries it read.
Forgotten(p) ==
  {n \in Note : \E i \in DOMAIN snap[p] : snap[p][i] = NoteEntry(n)}
    \ Findable(NextStore(snap[p], p))

\* One remember() forgets at most one single note (a rollup takes the place
\* of the second oldest), and from maxEntries = 2 on never the new one.
ForgetsOneAtMost ==
  \A p \in Process : pc[p] = "writing" =>
    /\ \A m, n \in Forgotten(p) : m = n
    /\ Cap >= 2 => note[p] \in Findable(NextStore(snap[p], p))

\* Under any overlap and any crash a store is bounded and in order, and no
\* call is about to take more from it than it may.
StaysBoundedLog == WithinCap /\ OldestFirst /\ ForgetsOneAtMost
=============================================================================
