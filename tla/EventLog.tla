------------------------------- MODULE EventLog -------------------------------
(***************************************************************************)
(* .aios/metrics/events.jsonl (engines/status/src/index.ts): every process *)
(* appends lines to it, and readers skip the lines that do not parse.      *)
(***************************************************************************)
EXTENDS SequencesExt, FiniteSets, Integers

VARIABLES
  rows,   \* the lines that parse, oldest first
  tail,   \* how the file ends: in a newline, in a fragment, or just before
          \* the newline of a row that is otherwise whole
  tears   \* history: appends that broke off

logVars == <<rows, tail, tears>>

Ending == {"ended", "cut", "open"}

InitLog == rows = <<>> /\ tail = "ended" /\ tears = 0

\* A line written after one that lost its end joins it, and neither parses.
Unjoined == IF tail = "open" THEN Front(rows) ELSE rows
With(row) == IF tail = "ended" THEN Append(rows, row) ELSE Unjoined

\* recordMetricEvent: appendFileSync.
RecordMetricEvent(row) ==
  /\ rows' = With(row)
  /\ tail' = "ended"
  /\ UNCHANGED tears

\* It breaks off within the line, or just before its newline.
Tear(row) ==
  /\ \/ rows' = Unjoined /\ tail' = "cut"
     \/ rows' = With(row) /\ tail' = IF tail = "ended" THEN "open" ELSE "cut"
  /\ tears' = tears + 1

\* recordMetricEvent throws: nothing was written, or a part of it.
RecordThrows(row) == UNCHANGED logVars \/ Tear(row)
=============================================================================
