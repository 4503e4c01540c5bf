------------------------------ MODULE RunStore ------------------------------
(***************************************************************************)
(* The run store under .aios/runs (engines/status/src/run-store.ts) and    *)
(* the skim of it that feeds Attention (decision-attention.ts).            *)
(*                                                                         *)
(* persistPipelineRun() takes a time stamp, writes {runId}.json, and then  *)
(* appends a row to index.jsonl.  Each run is stored once, by whichever    *)
(* process ran it; processes do not coordinate, and one may die, or its    *)
(* disk fill up, before, between or in the middle of the two writes.       *)
(***************************************************************************)
EXTENDS SequencesExt, Places

CONSTANTS
  Run,       \* runs to store; runId is a fresh UUID, so none comes twice
  Failures,  \* what a run's decisions may hold: the subject and value of each
             \* that failed or was denied, in order
  Window,    \* index rows the skim considers
  MaxItems,  \* Attention items it returns
  AttentionId(_)   \* what attentionId() makes of a failure

ASSUME RunStoreAssumption ==
  /\ Window \in Nat \ {0}
  /\ MaxItems \in Nat \ {0}
  /\ \A list \in Failures : list \in Seq(ToSet(list))

VARIABLES
  stage,    \* how far persistPipelineRun() got with each run
  file,     \* {runId}.json
  index,    \* the rows of index.jsonl that parse
  tail,     \* how index.jsonl ends
  failed,   \* per run: its failed and denied decisions
  tears     \* history: appends to index.jsonl that broke off

storeVars == <<stage, file, index, tail, failed, tears>>

Stage == {"new", "stamped", "filed", "kept", "lost"}

Init ==
  /\ stage = [r \in Run |-> "new"]
  /\ file = [r \in Run |-> "absent"]
  /\ index = <<>>
  /\ tail = "ended"
  /\ failed = [r \in Run |-> <<>>]
  /\ tears = 0

\* const at = new Date()
Begin(r, failures) ==
  /\ stage[r] = "new"
  /\ stage' = [stage EXCEPT ![r] = "stamped"]
  /\ failed' = [failed EXCEPT ![r] = failures]
  /\ UNCHANGED <<file, index, tail, tears>>

\* writeFileSync(file)
WriteFile(r) ==
  /\ stage[r] = "stamped"
  /\ stage' = [stage EXCEPT ![r] = "filed"]
  /\ file' = [file EXCEPT ![r] = "whole"]
  /\ UNCHANGED <<index, tail, failed, tears>>

\* ... which may throw or die before the file is whole.
TearFile(r) ==
  /\ stage[r] = "stamped"
  /\ stage' = [stage EXCEPT ![r] = "lost"]
  /\ file' \in {file, [file EXCEPT ![r] = "torn"]}
  /\ UNCHANGED <<index, tail, failed, tears>>

\* A row written after one that lost its end joins it on one line: neither
\* the fragment ("cut") nor a row that lacked only its newline ("open")
\* parses any more, and nor does the new row.
Unbroken == IF tail = "open" THEN Front(index) ELSE index
WithRow(r) == IF tail = "ended" THEN Append(index, r) ELSE Unbroken

\* Mutant of AppendRow: the row may come before the file.
AppendRowEarly(r) ==
  /\ stage[r] \in {"stamped", "filed"}
  /\ stage' = [stage EXCEPT ![r] = "kept"]
  /\ index' = WithRow(r)
  /\ tail' = "ended"
  /\ UNCHANGED <<file, failed, tears>>

\* Mutant of AppendRow: the row is written without its newline.
AppendRowOpen(r) ==
  /\ stage[r] = "filed"
  /\ stage' = [stage EXCEPT ![r] = "kept"]
  /\ index' = WithRow(r)
  /\ tail' = "open"
  /\ UNCHANGED <<file, failed, tears>>

\* appendFileSync(index.jsonl)
AppendRow(r) ==
  /\ stage[r] = "filed"
  /\ stage' = [stage EXCEPT ![r] = "kept"]
  /\ index' = WithRow(r)
  /\ tail' = "ended"
  /\ UNCHANGED <<file, failed, tears>>

\* ... which may break off within the row, or just before its newline.
TearRow(r) ==
  /\ stage[r] = "filed"
  /\ stage' = [stage EXCEPT ![r] = "lost"]
  /\ \/ index' = Unbroken /\ tail' = "cut"
     \/ index' = WithRow(r) /\ tail' = IF tail = "ended" THEN "open" ELSE "cut"
  /\ tears' = tears + 1
  /\ UNCHANGED <<file, failed>>

\* The process dies between two writes, or a write fails before its first byte.
Abandon(r) ==
  /\ stage[r] \in {"stamped", "filed"}
  /\ stage' = [stage EXCEPT ![r] = "lost"]
  /\ UNCHANGED <<file, index, tail, failed, tears>>

Persist(r) == WriteFile(r) \/ TearFile(r) \/ AppendRow(r) \/ TearRow(r) \/ Abandon(r)

Next ==
  \E r \in Run :
    \/ \E failures \in Failures : Begin(r, failures)
    \/ Persist(r)

Spec == Init /\ [][Next]_storeVars

-----------------------------------------------------------------------------
(* Readers.                                                                *)

\* loadPipelineRun: undefined for a file that is missing or does not parse.
Loads(r) == file[r] = "whole"

\* listPipelineRuns({ limit }).
Listed(limit) ==
  SubSeq(index, IF Len(index) > limit THEN Len(index) - limit + 1 ELSE 1, Len(index))

\* Mutant of NewestFirst: the index is read from its start.
OldestFirst == Listed(Window)

NewestFirst == Reverse(Listed(Window))

\* attentionFromRunDecisions, of each run that loads: the places of its
\* failures, by run and decision, and the item of each.
Found ==
  UNION {{n} \X DOMAIN failed[NewestFirst[n]] :
           n \in {m \in DOMAIN NewestFirst : Loads(NewestFirst[m])}}

Item(p) == [id |-> AttentionId(failed[NewestFirst[p[1]]][p[2]]), run |-> NewestFirst[p[1]]]

\* skimDecisionFailures: the newest of each id, which failures may share since
\* attentionId() replaces characters and cuts, and of those the newest MaxItems.
\* It is sorted by severity, and a set here.
Skim == {Item(p) : p \in FirstNew(Found, [p \in Found |-> Item(p).id], MaxItems)}

-----------------------------------------------------------------------------
(* Properties.                                                             *)

\* Every variable keeps its type; the file comes before the row.
TypeOK ==
  /\ stage \in [Run -> Stage]
  /\ file \in [Run -> {"absent", "torn", "whole"}]
  /\ \A r \in Run : stage[r] \in {"filed", "kept"} => file[r] = "whole"
  /\ index \in Seq(Run)
  /\ tail \in {"ended", "cut", "open"}
  /\ failed \in [Run -> Failures \union {<<>>}]
  /\ tears \in Nat

\* A listed run can be opened: whatever breaks off where, no row of the index
\* names a file that is missing or half written.
ListedLoads == \A i \in DOMAIN index : Loads(index[i])

\* A broken append costs at most one more run than its own: of the runs
\* stored without an error, no more are missing from the index than appends
\* broke off.
TearCostsOneRow ==
  Cardinality({r \in Run : stage[r] = "kept" /\ ~Contains(index, r)}) <= tears

\* Attention shows each id with the last run of the window in which a failure of
\* that id occurred, and leaves no failure's id out unless it is full.
SkimShowsNewest ==
  LET rows == Listed(Window)
      Fails(i, id) == \E f \in ToSet(failed[rows[i]]) : AttentionId(f) = id
  IN  /\ \A item \in Skim : \A i \in DOMAIN rows :
           Fails(i, item.id) => \E l \in i..Len(rows) : rows[l] = item.run
      /\ Cardinality(Skim) < MaxItems =>
           \A i \in DOMAIN rows : \A f \in ToSet(failed[rows[i]]) :
             \E item \in Skim : item.id = AttentionId(f)
=============================================================================
