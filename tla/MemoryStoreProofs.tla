-------------------------- MODULE MemoryStoreProofs --------------------------
(***************************************************************************)
(* For any processes, notes, cap and rollup settings: calls that do not    *)
(* overlap leave the file exactly as one process alone would.  And, for    *)
(* any list of entries, what retention keeps of it.                        *)
(***************************************************************************)
EXTENDS MemoryStore, PlacesProofs

-----------------------------------------------------------------------------
(* Retention.                                                              *)

LEMMA NewestIsSuffix ==
  ASSUME NEW S, NEW s \in Seq(S), NEW n \in Nat
  PROVE  /\ Len(Newest(s, n)) = Least(n, Len(s))
         /\ \A i \in 1..Least(n, Len(s)) :
              Newest(s, n)[i] = s[Len(s) - Least(n, Len(s)) + i]
<1> DEFINE k == Least(n, Len(s))
           m == Len(s) - k + 1
<1>1. k \in Nat /\ k <= Len(s) /\ m \in Int /\ Len(s) \in Int
  BY DEF Least
<1>2. \A i \in m..Len(s) : s[i] \in S
  BY <1>1
<1>3. /\ Len(SubSeq(s, m, Len(s))) = IF m <= Len(s) THEN Len(s) - m + 1 ELSE 0
      /\ \A i \in 1..Len(s) - m + 1 : SubSeq(s, m, Len(s))[i] = s[m + i - 1]
  <2> HIDE DEF m
  <2> QED BY <1>1, <1>2, SubSeqProperties
<1> QED BY <1>1, <1>3 DEF Newest

\* What one rollup pass leaves: the newest row is next to last.
LEMMA RollUpResult ==
  ASSUME NEW S, NEW entries \in Seq(S), NEW cap \in Nat, Len(entries) > cap
  PROVE  /\ Len(RollUp(entries, cap)) <= cap
         /\ cap >= 2 => /\ Len(RollUp(entries, cap)) = cap
                        /\ RollUp(entries, cap)[cap - 1] = entries[Len(entries)]
<1>1. PICK batch : batch = Least(Len(entries) - cap, BatchMax)
  OBVIOUS
<1>2. PICK rollup : rollup = Rollup(SubSeq(entries, 1, batch))
  OBVIOUS
<1>3. PICK rest : rest = SubSeq(entries, batch + 1, Len(entries))
  OBVIOUS
<1>4. PICK list : list = Append(rest, rollup)
  OBVIOUS
<1>5. RollUp(entries, cap) = Newest(list, cap)
  BY <1>1, <1>2, <1>3, <1>4 DEF RollUp
<1>6. batch \in 1..Len(entries) /\ batch <= Len(entries) - cap
  BY <1>1, StoreAssumption DEF Least
<1>7. PICK T : T = S \union {rollup}
  OBVIOUS
<1>8. /\ rest \in Seq(T)
      /\ Len(rest) = Len(entries) - batch
      /\ \A i \in 1..Len(entries) - batch : rest[i] = entries[batch + i]
  <2>1. \A i \in (batch + 1)..Len(entries) : entries[i] \in T
    BY <1>6, <1>7
  <2> QED BY <1>3, <1>6, <2>1, SubSeqProperties
<1>9. /\ list \in Seq(T)
      /\ Len(list) = Len(rest) + 1
      /\ \A i \in 1..Len(rest) : list[i] = rest[i]
  BY <1>4, <1>7, <1>8, AppendProperties
<1>10. PICK k : k = Least(cap, Len(list))
  OBVIOUS
<1>11. /\ Len(Newest(list, cap)) = k
       /\ \A i \in 1..k : Newest(list, cap)[i] = list[Len(list) - k + i]
  BY <1>9, <1>10, NewestIsSuffix
<1>12. k \in Nat /\ k <= cap /\ (cap >= 2 => k = cap)
  BY <1>6, <1>8, <1>9, <1>10 DEF Least
<1>13. ASSUME cap >= 2
       PROVE  Newest(list, cap)[cap - 1] = entries[Len(entries)]
  <2>1. Newest(list, cap)[cap - 1] = list[Len(list) - cap + (cap - 1)]
    BY <1>11, <1>12, <1>13
  <2>2. Len(list) - cap + (cap - 1) = Len(rest)
    BY <1>8, <1>9
  <2>3. Len(rest) \in 1..Len(rest) /\ Len(rest) = Len(entries) - batch
    BY <1>6, <1>8, <1>13
  <2>4. list[Len(rest)] = rest[Len(entries) - batch]
    BY <1>9, <2>3
  <2>5. rest[Len(entries) - batch] = entries[batch + (Len(entries) - batch)]
    BY <1>8, <2>3
  <2>6. batch + (Len(entries) - batch) = Len(entries)
    BY <1>6
  <2> QED BY <2>1, <2>2, <2>4, <2>5, <2>6
<1> QED BY <1>5, <1>11, <1>12, <1>13

\* Whatever the file held, retention leaves at most maxEntries rows.
THEOREM RetentionWithinCap ==
  ASSUME NEW S, NEW entries \in Seq(S), NEW cap \in Nat, NEW c
  PROVE  Len(ApplyFifoRetention(entries, cap, c)) <= cap
<1>1. CASE Len(entries) <= cap
  BY <1>1 DEF ApplyFifoRetention
<1>2. ASSUME Len(entries) > cap
      PROVE  Len(Newest(entries, cap)) <= cap
  <2>1. Len(Newest(entries, cap)) = Least(cap, Len(entries))
    BY NewestIsSuffix
  <2>2. Least(cap, Len(entries)) = cap
    BY <1>2 DEF Least
  <2> QED BY <2>1, <2>2
<1>3. ASSUME Len(entries) > cap
      PROVE  Len(RollUp(entries, cap)) <= cap
  BY <1>3, RollUpResult
<1> QED BY <1>1, <1>2, <1>3 DEF ApplyFifoRetention

\* The row just appended is among the rows kept, as soon as two may be kept.
\* (With maxEntries = 1 and rollups, the one row kept is the rollup.)
THEOREM NewestRowSurvives ==
  ASSUME NEW S, NEW entries \in Seq(S), Len(entries) > 0,
         NEW cap \in Nat, cap >= 2, NEW c
  PROVE  LET kept == ApplyFifoRetention(entries, cap, c)
         IN  \E i \in 1..Len(kept) : kept[i] = entries[Len(entries)]
<1>1. CASE Len(entries) <= cap
  BY <1>1 DEF ApplyFifoRetention
<1>2. ASSUME Len(entries) > cap
      PROVE  LET kept == Newest(entries, cap)
             IN  \E i \in 1..Len(kept) : kept[i] = entries[Len(entries)]
  <2>1. /\ Len(Newest(entries, cap)) = cap
        /\ Newest(entries, cap)[cap] = entries[Len(entries)]
    <3>1. Least(cap, Len(entries)) = cap /\ Len(entries) \in Nat
      BY <1>2 DEF Least
    <3>2. /\ Len(Newest(entries, cap)) = cap
          /\ \A i \in 1..cap : Newest(entries, cap)[i] = entries[Len(entries) - cap + i]
      <4> DEFINE k == Least(cap, Len(entries))
      <4>1. /\ Len(Newest(entries, cap)) = k
            /\ \A i \in 1..k : Newest(entries, cap)[i] = entries[Len(entries) - k + i]
        BY NewestIsSuffix
      <4>2. k = cap
        BY <3>1
      <4> HIDE DEF k
      <4> QED BY <4>1, <4>2
    <3>3. Newest(entries, cap)[cap] = entries[Len(entries) - cap + cap]
      BY <3>2
    <3>4. Len(entries) - cap + cap = Len(entries)
      BY <3>1
    <3> QED BY <3>2, <3>3, <3>4
  <2> QED BY <2>1
<1>3. ASSUME Len(entries) > cap
      PROVE  LET kept == RollUp(entries, cap)
             IN  \E i \in 1..Len(kept) : kept[i] = entries[Len(entries)]
  <2>1. /\ Len(RollUp(entries, cap)) = cap
        /\ RollUp(entries, cap)[cap - 1] = entries[Len(entries)]
    BY <1>3, RollUpResult
  <2> QED BY <2>1
<1> QED BY <1>1, <1>2, <1>3 DEF ApplyFifoRetention

-----------------------------------------------------------------------------
(* The file.                                                               *)

\* While nothing was disturbed: one process at a time is inside a call, what
\* it read is what is there, and only a writer leaves the file truncated.
SerialInv ==
  /\ disturbed \in BOOLEAN
  /\ pc \in [Process -> {"idle", "read", "writing", "clearing"}]
  /\ snap = [p \in Process |-> snap[p]]
  /\ ~disturbed =>
       /\ \A p, q \in Busy : p = q
       /\ orphan = {}
       /\ \A p \in Process :
            /\ pc[p] = "writing" => disk = Empty
            /\ pc[p] \in {"read", "writing"} => snap[p] = Safe(log)
       /\ (\A p \in Process : pc[p] # "writing") => Entries = log

\* Calls that never overlap and never break off leave in the file exactly
\* the bounded log one process alone would have written.
THEOREM SerialStore == Spec => []SerialIsBoundedLog
<1> USE DEF Busy, Entries, Empty, Absent, Garbage, Store
<1>1. ASSUME Init
      PROVE  SerialInv
  <2>1. disturbed \in BOOLEAN /\ disk = Absent /\ log = <<>> /\ orphan = {}
    BY <1>1 DEF Init
  <2>2. pc \in [Process -> {"idle", "read", "writing", "clearing"}]
    BY <1>1 DEF Init
  <2>3. snap = [p \in Process |-> snap[p]]
    BY <1>1 DEF Init
  <2>4. \A p \in Process : pc[p] = "idle"
    BY <1>1 DEF Init
  <2>5. Entries = log
    BY <2>1
  <2> QED BY <2>1, <2>2, <2>3, <2>4, <2>5 DEF SerialInv
<1>2. ASSUME SerialInv, [Next]_vars
      PROVE  SerialInv'
  <2> USE <1>2 DEF SerialInv
  <2>1. ASSUME NEW p \in Process, NEW n \in Note, Read(p, n)
        PROVE  SerialInv'
    BY <2>1 DEF Read, ReadStore
  <2>2. ASSUME NEW p \in Process, Truncate(p)
        PROVE  SerialInv'
    BY <2>2 DEF Truncate
  <2>3. ASSUME NEW p \in Process, Fill(p)
        PROVE  SerialInv'
    BY <2>3 DEF Fill
  <2>4. ASSUME NEW p \in Process, Fail(p)
        PROVE  SerialInv'
    BY <2>4 DEF Fail
  <2>5. ASSUME NEW p \in Process, ClearCheck(p)
        PROVE  SerialInv'
    BY <2>5 DEF ClearCheck
  <2>6. ASSUME NEW p \in Process, Unlink(p)
        PROVE  SerialInv'
    BY <2>6 DEF Unlink
  <2>7. ASSUME NEW n \in Note, Poison(n)
        PROVE  SerialInv'
    BY <2>7 DEF Poison
  <2>8. CASE UNCHANGED vars
    <3>1. Safe(log)' = Safe(log)
      <4>1. log' = log
        BY <2>8 DEF vars
      <4> QED BY <4>1, Zenon
    <3>2. Entries' = Entries
      BY <2>8 DEF vars
    <3> QED BY <2>8, <3>1, <3>2 DEF vars
  <2> QED BY <2>1, <2>2, <2>3, <2>4, <2>5, <2>6, <2>7, <2>8 DEF Next
<1>3. SerialInv => SerialIsBoundedLog
  BY DEF SerialInv, SerialIsBoundedLog
<1> QED BY <1>1, <1>2, <1>3, PTL DEF Spec

-----------------------------------------------------------------------------
(* The file under any overlap: what a write makes of the rows it starts    *)
(* from, which are at most one too many.                                   *)

\* A rollup of one row has what is copied of that row.
LEMMA RollupOfOne ==
  ASSUME NEW e
  PROVE  Rollup(<<e>>) = [kind |-> "rollup", covers |-> Snippet(e)]
<1>1. PICK list : list = [i \in 1..Len(<<e>>) |-> Snippet(<<e>>[i])]
  OBVIOUS
<1>2. list = [i \in 1..1 |-> Snippet(e)]
  BY <1>1
<1>3. Len(list) = 1 /\ list[1] = Snippet(e)
  BY <1>2
<1> DEFINE Flat(g) == g = [i \in 1..Len(list) |-> IF i = 1 THEN list[i] ELSE g[i - 1] \o list[i]]
<1>4. PICK f : f = [i \in 1..1 |-> Snippet(e)]
  OBVIOUS
<1>5. Flat(f)
  <2>1. \A i \in 1..1 : i = 1
    OBVIOUS
  <2> QED BY <1>3, <1>4, <2>1
<1>6. \A g : Flat(g) => g[1] = Snippet(e)
  <2> SUFFICES ASSUME NEW g, Flat(g) PROVE g[1] = Snippet(e)
    OBVIOUS
  <2>1. 1 \in 1..Len(list)
    BY <1>3
  <2> QED BY <1>3, <2>1
<1>7. FlattenSeq(list) = (CHOOSE g : Flat(g))[1]
  BY <1>3 DEF FlattenSeq
<1>8. Flat(CHOOSE g : Flat(g))
  BY <1>5
<1> HIDE DEF Flat
<1>9. FlattenSeq(list) = Snippet(e)
  BY <1>6, <1>7, <1>8
<1> QED BY <1>1, <1>9 DEF Rollup

\* What is copied of a row is some of what it covers.
LEMMA SnippetOfEntry ==
  ASSUME NEW e \in Entry
  PROVE  /\ Snippet(e) \in Seq(Note)
         /\ ToSet(Snippet(e)) \subseteq ToSet(e.covers)
         /\ e.kind = "note" => Snippet(e) = e.covers
<1>1. e.covers \in Seq(Note) /\ Len(e.covers) \in Nat
  BY DEF Entry
<1>2. PICK n : n = Least(NestKept, Len(e.covers))
  OBVIOUS
<1>3. n \in Nat /\ n <= Len(e.covers)
  BY <1>1, <1>2, StoreAssumption DEF Least
<1>4. PICK s : s = SubSeq(e.covers, 1, n)
  OBVIOUS
<1>5. s \in Seq(Note) /\ Len(s) = n /\ \A i \in 1..n : s[i] = e.covers[i]
  BY <1>1, <1>3, <1>4
<1>6. ToSet(s) \subseteq ToSet(e.covers)
  <2>1. \A i \in 1..n : s[i] = e.covers[i] /\ i \in DOMAIN e.covers
    BY <1>1, <1>3, <1>5
  <2>2. DOMAIN s = 1..n
    BY <1>5
  <2> QED BY <2>1, <2>2 DEF ToSet
<1>7. CASE e.kind = "rollup"
  <2>1. Snippet(e) = s
    BY <1>2, <1>4, <1>7 DEF Snippet
  <2> QED BY <1>5, <1>6, <1>7, <2>1
<1>8. CASE e.kind # "rollup"
  BY <1>1, <1>8 DEF Snippet
<1> QED BY <1>7, <1>8

\* The newest rows of a list with one too many.
LEMMA NewestDropsFirst ==
  ASSUME NEW S, NEW rows \in Seq(S), NEW n \in Nat, Len(rows) = n + 1,
         NEW kept, kept = Newest(rows, n)
  PROVE  kept \in Seq(S) /\ Len(kept) = n /\ \A i \in 1..n : kept[i] = rows[i + 1]
<1>1. Least(n, Len(rows)) = n
  BY DEF Least
<1>2. kept = SubSeq(rows, 2, n + 1)
  <2>1. Len(rows) - n + 1 = 2
    OBVIOUS
  <2> QED BY <1>1, <2>1 DEF Newest
<1>3. \A i \in 2..n + 1 : rows[i] \in S
  OBVIOUS
<1>4. /\ kept \in Seq(S)
      /\ Len(kept) = IF 2 <= n + 1 THEN (n + 1) - 2 + 1 ELSE 0
      /\ \A i \in 1..(n + 1) - 2 + 1 : kept[i] = rows[2 + i - 1]
  BY <1>2, <1>3, SubSeqProperties
<1> QED BY <1>4

\* What retention makes of a list with one row too many: without rollups the
\* first row goes, with rollups the first becomes one and the second goes.
Shifted(kept, rows, c) ==
  IF c THEN /\ \A i \in 1..Len(kept) - 1 : kept[i] = rows[i + 2]
            /\ \A i \in 1..Len(kept) : i = Len(kept) =>
                 kept[i] = [kind |-> "rollup", covers |-> Snippet(rows[1])]
       ELSE \A i \in 1..Len(kept) : kept[i] = rows[i + 1]

LEMMA OneTooMany ==
  ASSUME NEW S, NEW rows \in Seq(S), NEW cap \in Nat, Len(rows) = cap + 1,
         NEW c \in BOOLEAN, NEW kept, kept = ApplyFifoRetention(rows, cap, c)
  PROVE  /\ \E T : kept \in Seq(T)
         /\ Len(kept) = cap /\ Shifted(kept, rows, c)
<1>2. ASSUME ~c
      PROVE  /\ kept \in Seq(S) /\ Len(kept) = cap
             /\ \A i \in 1..cap : kept[i] = rows[i + 1]
  <2>1. kept = Newest(rows, cap)
    BY <1>2 DEF ApplyFifoRetention
  <2> QED BY <2>1, NewestDropsFirst
<1>3. ASSUME c
      PROVE  /\ \E T : kept \in Seq(T)
             /\ Len(kept) = cap
             /\ \A i \in 1..cap - 1 : kept[i] = rows[i + 2]
             /\ cap # 0 => kept[cap] = [kind |-> "rollup", covers |-> Snippet(rows[1])]
  <2>1. PICK rollup : rollup = [kind |-> "rollup", covers |-> Snippet(rows[1])]
    OBVIOUS
  <2>2. Least(Len(rows) - cap, BatchMax) = 1
    BY StoreAssumption DEF Least
  <2>3. SubSeq(rows, 1, 1) = <<rows[1]>>
    <3>1. PICK first : first = SubSeq(rows, 1, 1)
      OBVIOUS
    <3>2. rows[1] \in S /\ \A i \in 1..1 : rows[i] \in S
      OBVIOUS
    <3>3. first \in Seq(S) /\ Len(first) = 1 /\ \A i \in 1..1 : first[i] = rows[1]
      BY <3>1, <3>2
    <3>4. <<rows[1]>> \in Seq(S) /\ Len(<<rows[1]>>) = 1 /\ \A i \in 1..1 : <<rows[1]>>[i] = rows[1]
      BY <3>2
    <3>5. first = <<rows[1]>>
      BY <3>3, <3>4, SeqEqual
    <3> QED BY <3>1, <3>5
  <2>4. PICK rest : rest = SubSeq(rows, 2, Len(rows))
    OBVIOUS
  <2>5. PICK list : list = Append(rest, rollup)
    OBVIOUS
  <2>6. kept = Newest(list, cap)
    <3>1. Rollup(SubSeq(rows, 1, 1)) = rollup
      BY <2>1, <2>3, RollupOfOne
    <3>2. kept = RollUp(rows, cap)
      BY <1>3 DEF ApplyFifoRetention
    <3> QED BY <2>2, <2>4, <2>5, <3>1, <3>2 DEF RollUp
  <2>7. rest \in Seq(S) /\ Len(rest) = cap /\ \A i \in 1..cap : rest[i] = rows[i + 1]
    BY <2>4
  <2>8. PICK T : T = S \union {rollup}
    OBVIOUS
  <2>9. rest \in Seq(T) /\ rollup \in T
    BY <2>7, <2>8
  <2>10. /\ list \in Seq(T) /\ Len(list) = cap + 1
         /\ \A i \in 1..cap : list[i] = rows[i + 1]
         /\ list[cap + 1] = rollup
    BY <2>5, <2>7, <2>9, AppendProperties
  <2>11. kept \in Seq(T) /\ Len(kept) = cap
    BY <2>6, <2>10, NewestDropsFirst
  <2>12. \A i \in 1..cap : kept[i] = list[i + 1]
    BY <2>6, <2>10, NewestDropsFirst
  <2>13. \A i \in 1..cap - 1 : kept[i] = rows[i + 2]
    <3> SUFFICES ASSUME NEW i \in 1..cap - 1 PROVE kept[i] = rows[i + 2]
      OBVIOUS
    <3>1. i \in 1..cap /\ i + 1 \in 1..cap /\ (i + 1) + 1 = i + 2
      OBVIOUS
    <3> QED BY <2>10, <2>12, <3>1
  <2>14. cap # 0 => kept[cap] = rollup
    BY <2>10, <2>12
  <2> QED BY <2>1, <2>11, <2>13, <2>14
<1> QED BY <1>2, <1>3 DEF Shifted

\* Single notes of a list of rows were taken, and in the order of the rows.
Told(rows, order) ==
  \A i \in 1..Len(rows) : rows[i].kind = "note" =>
    /\ \E k \in 1..Len(order) : rows[i] = NoteEntry(order[k])
    /\ \A j \in 1..i - 1 : rows[j].kind = "note" =>
         \E k, l \in 1..Len(order) :
           k < l /\ rows[j] = NoteEntry(order[k]) /\ rows[i] = NoteEntry(order[l])

\* No row holds refused content.
Clean(rows) == \A i \in 1..Len(rows) : ToSet(rows[i].covers) \cap Denied = {}

\* The single notes of one list come from places of another, in order.
Thins(kept, rows, nth) ==
  \A i \in 1..Len(kept) : kept[i].kind = "note" =>
    /\ nth[i] \in 1..Len(rows) /\ kept[i] = rows[nth[i]]
    /\ \A j \in 1..i - 1 : kept[j].kind = "note" => nth[j] < nth[i]

LEMMA ThinnedTold ==
  ASSUME NEW kept, NEW rows, NEW nth, NEW order,
         Len(kept) \in Nat, Len(rows) \in Nat, Thins(kept, rows, nth), Told(rows, order)
  PROVE  Told(kept, order)
<1> SUFFICES ASSUME NEW i \in 1..Len(kept), kept[i].kind = "note"
             PROVE  /\ \E k \in 1..Len(order) : kept[i] = NoteEntry(order[k])
                    /\ \A j \in 1..i - 1 : kept[j].kind = "note" =>
                         \E k, l \in 1..Len(order) :
                           k < l /\ kept[j] = NoteEntry(order[k]) /\ kept[i] = NoteEntry(order[l])
  BY DEF Told
<1>1. nth[i] \in 1..Len(rows) /\ kept[i] = rows[nth[i]]
  BY DEF Thins
<1>2. \E k \in 1..Len(order) : kept[i] = NoteEntry(order[k])
  BY <1>1 DEF Told
<1>3. ASSUME NEW j \in 1..i - 1, kept[j].kind = "note"
      PROVE  \E k, l \in 1..Len(order) :
               k < l /\ kept[j] = NoteEntry(order[k]) /\ kept[i] = NoteEntry(order[l])
  <2>1. j \in 1..Len(kept) /\ nth[j] < nth[i]
    BY <1>3 DEF Thins
  <2>2. nth[j] \in 1..Len(rows) /\ kept[j] = rows[nth[j]]
    BY <1>3, <2>1 DEF Thins
  <2>3. nth[j] \in 1..nth[i] - 1
    BY <1>1, <2>1, <2>2
  <2>4. PICK a, b : a = nth[i] /\ b = nth[j]
    OBVIOUS
  <2>5. a \in 1..Len(rows) /\ b \in 1..a - 1 /\ rows[a].kind = "note" /\ rows[b].kind = "note"
    BY <1>1, <1>3, <2>2, <2>3, <2>4
  <2>6. \E k, l \in 1..Len(order) :
          k < l /\ rows[b] = NoteEntry(order[k]) /\ rows[a] = NoteEntry(order[l])
    BY <2>5 DEF Told
  <2> QED BY <1>1, <2>2, <2>4, <2>6
<1> QED BY <1>2, <1>3

\* A later note does not change what was told.
LEMMA ToldLater ==
  ASSUME NEW rows, NEW order \in Seq(Note), NEW n \in Note, Told(rows, order)
  PROVE  Told(rows, Append(order, n))
<1>1. PICK more : more = Append(order, n)
  OBVIOUS
<1>2. /\ Len(order) \in Nat /\ Len(more) = Len(order) + 1
      /\ \A k \in 1..Len(order) : k \in 1..Len(more) /\ more[k] = order[k]
  BY <1>1
<1>3. ASSUME NEW i \in 1..Len(rows), rows[i].kind = "note"
      PROVE  \E k \in 1..Len(more) : rows[i] = NoteEntry(more[k])
  <2>1. PICK k \in 1..Len(order) : rows[i] = NoteEntry(order[k])
    BY <1>3 DEF Told
  <2> QED BY <1>2, <2>1
<1>4. ASSUME NEW i \in 1..Len(rows), rows[i].kind = "note",
             NEW j \in 1..i - 1, rows[j].kind = "note"
      PROVE  \E k, l \in 1..Len(more) :
               k < l /\ rows[j] = NoteEntry(more[k]) /\ rows[i] = NoteEntry(more[l])
  <2>1. PICK k, l \in 1..Len(order) :
          k < l /\ rows[j] = NoteEntry(order[k]) /\ rows[i] = NoteEntry(order[l])
    BY <1>4 DEF Told
  <2> QED BY <1>2, <2>1
<1>5. Told(rows, more)
  BY <1>3, <1>4 DEF Told
<1> QED BY <1>1, <1>5

\* A row for the newest note, put at the end in place of the last row or
\* after it, keeps the order.
LEMMA ToldNewest ==
  ASSUME NEW rows, NEW more, NEW order \in Seq(Note), NEW n \in Note,
         Len(rows) \in Nat, Told(rows, order), Len(more) \in {Len(rows), Len(rows) + 1},
         \A i \in 1..Len(more) - 1 : more[i] = rows[i],
         \A i \in 1..Len(more) : i = Len(more) => more[i] = NoteEntry(n)
  PROVE  Told(more, Append(order, n))
<1>1. PICK later : later = Append(order, n)
  OBVIOUS
<1>2. /\ Len(order) \in Nat /\ Len(later) = Len(order) + 1 /\ later[Len(order) + 1] = n
      /\ \A k \in 1..Len(order) : later[k] = order[k]
  BY <1>1
<1>3. Told(rows, later)
  BY <1>1, ToldLater
<1> SUFFICES ASSUME NEW i \in 1..Len(more), more[i].kind = "note"
             PROVE  /\ \E k \in 1..Len(later) : more[i] = NoteEntry(later[k])
                    /\ \A j \in 1..i - 1 : more[j].kind = "note" =>
                         \E k, l \in 1..Len(later) :
                           k < l /\ more[j] = NoteEntry(later[k]) /\ more[i] = NoteEntry(later[l])
  BY <1>1 DEF Told
<1>4. \A j \in 1..i - 1 : j \in 1..Len(rows) /\ more[j] = rows[j]
  OBVIOUS
<1>5. CASE i = Len(more)
  <2>1. Len(later) \in 1..Len(later) /\ more[i] = NoteEntry(later[Len(later)])
    BY <1>2, <1>5
  <2>2. ASSUME NEW j \in 1..i - 1, more[j].kind = "note"
        PROVE  \E k, l \in 1..Len(later) :
                 k < l /\ more[j] = NoteEntry(later[k]) /\ more[i] = NoteEntry(later[l])
    <3>1. PICK k \in 1..Len(order) : more[j] = NoteEntry(order[k])
      BY <1>4, <2>2 DEF Told
    <3>2. k \in 1..Len(later) /\ k < Len(later) /\ more[j] = NoteEntry(later[k])
      BY <1>2, <3>1
    <3> QED BY <2>1, <3>2
  <2> QED BY <2>1, <2>2
<1>6. CASE i # Len(more)
  <2>1. i \in 1..Len(rows) /\ more[i] = rows[i]
    BY <1>6
  <2> QED BY <1>3, <1>4, <2>1 DEF Told
<1> QED BY <1>5, <1>6

\* readStore() returns rows of the file, in order, with no refused content.
LEMMA SafeRows ==
  ASSUME NEW rows \in Seq(Entry), NEW safe, safe = Safe(rows)
  PROVE  /\ safe \in Seq(Entry) /\ Len(safe) <= Len(rows)
         /\ Clean(safe)
         /\ \A order : Told(rows, order) => Told(safe, order)
<1>1. PICK n : n = Len(rows)
  OBVIOUS
<1>2. PICK places : places = {i \in DOMAIN rows : ToSet(rows[i].covers) \cap Denied = {}}
  OBVIOUS
<1>3. safe = At(rows, places)
  BY <1>2, Zenon DEF Safe
<1>4. n \in Nat /\ DOMAIN rows = 1..n /\ \A i \in 1..n : rows[i] \in Entry
  BY <1>1
<1>5. /\ places \subseteq DOMAIN rows
      /\ \A i \in places : ToSet(rows[i].covers) \cap Denied = {}
  BY <1>2, Zenon
<1>6. places \in SUBSET (1..n) /\ \A i \in places : rows[i] \in Entry
  BY <1>4, <1>5
<1>7. At(rows, places) \in Seq(Entry) /\ \E nth : Keeps(At(rows, places), rows, places, nth)
  BY <1>4, <1>6, AtPlaces
<1>8. PICK nth : Keeps(safe, rows, places, nth)
  BY <1>3, <1>7
<1>9. safe \in Seq(Entry) /\ Len(safe) \in Nat
  BY <1>3, <1>7
<1>10. Len(safe) <= n
  BY <1>3, <1>4, <1>6, AtLength
<1>11. /\ \A i \in 1..Len(safe) : nth[i] \in places /\ safe[i] = rows[nth[i]]
       /\ \A j, i \in 1..Len(safe) : j < i => nth[j] < nth[i]
  BY <1>8 DEF Keeps
<1>12. Clean(safe)
  BY <1>5, <1>11 DEF Clean
<1>13. Thins(safe, rows, nth)
  <2>1. ASSUME NEW i \in 1..Len(safe)
        PROVE  nth[i] \in 1..Len(rows) /\ safe[i] = rows[nth[i]]
    BY <1>1, <1>6, <1>11
  <2>2. ASSUME NEW i \in 1..Len(safe), NEW j \in 1..i - 1
        PROVE  nth[j] < nth[i]
    <3>1. j \in 1..Len(safe) /\ j < i
      BY <1>9
    <3> QED BY <1>11, <3>1
  <2> QED BY <2>1, <2>2 DEF Thins
<1>14. \A order : Told(rows, order) => Told(safe, order)
  BY <1>1, <1>4, <1>9, <1>13, ThinnedTold
<1> QED BY <1>1, <1>9, <1>10, <1>12, <1>14

\* Of rows with at most one too many, retention leaves a bounded list of
\* rows that still says no more than it may, in order.
LEMMA Retained ==
  ASSUME NEW rows \in Seq(Entry), NEW cap \in Nat, Len(rows) <= cap + 1,
         NEW c \in BOOLEAN, NEW kept, kept = ApplyFifoRetention(rows, cap, c)
  PROVE  /\ kept \in Seq(Entry) /\ Len(kept) <= cap
         /\ Clean(rows) => Clean(kept)
         /\ \A order : Told(rows, order) => Told(kept, order)
<1>1. CASE Len(rows) <= cap
  BY <1>1 DEF ApplyFifoRetention
<1>2. CASE Len(rows) = cap + 1
  <2>1. (\E T : kept \in Seq(T)) /\ Len(kept) = cap /\ Shifted(kept, rows, c)
    BY <1>2, OneTooMany
  <2>2. \A i \in 1..cap + 1 : rows[i] \in Entry
    BY <1>2
  <2>3. PICK shift : shift = IF c THEN 2 ELSE 1
    OBVIOUS
  <2>4. PICK rollup : rollup = [kind |-> "rollup", covers |-> Snippet(rows[1])]
    OBVIOUS
  <2>5. ASSUME NEW i \in 1..cap
        PROVE  \/ i + shift \in 1..cap + 1 /\ kept[i] = rows[i + shift]
               \/ kept[i] = rollup
    <3>1. CASE ~c
      BY <2>1, <2>3, <3>1 DEF Shifted
    <3>2. CASE c /\ i = cap
      BY <2>1, <2>4, <3>2 DEF Shifted
    <3>3. CASE c /\ i # cap
      <4>1. i \in 1..cap - 1 /\ i + 2 \in 1..cap + 1
        BY <3>3
      <4> QED BY <2>1, <2>3, <3>3, <4>1 DEF Shifted
    <3> QED BY <3>1, <3>2, <3>3
  <2>6. cap > 0 => rollup \in Entry /\ ToSet(rollup.covers) \subseteq ToSet(rows[1].covers)
    <3> SUFFICES ASSUME cap > 0
                 PROVE  rollup \in Entry /\ ToSet(rollup.covers) \subseteq ToSet(rows[1].covers)
      OBVIOUS
    <3>1. rows[1] \in Entry
      BY <2>2
    <3>2. Snippet(rows[1]) \in Seq(Note) /\ ToSet(Snippet(rows[1])) \subseteq ToSet(rows[1].covers)
      BY <3>1, SnippetOfEntry
    <3>3. "rollup" \in {"note", "rollup"}
      OBVIOUS
    <3>4. [kind |-> "rollup", covers |-> Snippet(rows[1])] \in Entry
      BY <3>2, <3>3, Zenon DEF Entry
    <3> QED BY <2>4, <3>2, <3>4
  <2>7. kept \in Seq(Entry)
    <3>1. \A i \in 1..cap : kept[i] \in Entry
      BY <2>2, <2>5, <2>6
    <3>2. PICK T : kept \in Seq(T)
      BY <2>1
    <3>3. kept \in [1..cap -> T]
      <4>1. kept \in [1..Len(kept) -> T]
        BY <3>2, LenProperties
      <4> QED BY <2>1, <4>1
    <3>4. kept \in [1..cap -> Entry]
      BY <3>1, <3>3
    <3> QED BY <3>4
  <2>8. ASSUME Clean(rows)
        PROVE  Clean(kept)
    <3>1. \A i \in 1..cap + 1 : ToSet(rows[i].covers) \cap Denied = {}
      BY <1>2, <2>8 DEF Clean
    <3>2. cap > 0 => ToSet(rollup.covers) \cap Denied = {}
      BY <2>6, <3>1
    <3>3. \A i \in 1..cap : ToSet(kept[i].covers) \cap Denied = {}
      BY <2>5, <3>1, <3>2
    <3> QED BY <2>1, <3>3 DEF Clean
  <2>9. \A order : Told(rows, order) => Told(kept, order)
    <3>1. PICK nth : nth = [i \in 1..cap |-> i + shift]
      OBVIOUS
    <3>2. rollup.kind # "note"
      BY <2>4
    <3>3. Thins(kept, rows, nth)
      <4>1. ASSUME NEW i \in 1..cap, kept[i].kind = "note"
            PROVE  nth[i] \in 1..Len(rows) /\ kept[i] = rows[nth[i]]
        BY <1>2, <2>5, <3>1, <3>2, <4>1
      <4>2. ASSUME NEW i \in 1..cap, NEW j \in 1..i - 1
            PROVE  nth[j] < nth[i]
        <5>1. j \in 1..cap /\ j < i /\ shift \in Nat
          BY <2>3
        <5> QED BY <3>1, <5>1
      <4> QED BY <2>1, <4>1, <4>2 DEF Thins
    <3> QED BY <1>2, <2>1, <3>3, ThinnedTold
  <2> QED BY <2>1, <2>7, <2>8, <2>9
<1>3. Len(rows) \in Nat
  OBVIOUS
<1> QED BY <1>1, <1>2, <1>3

\* What a file may hold, when these notes have been taken.
FileTells(rows, order) ==
  /\ Len(rows) <= Cap
  /\ Told(rows, order)
  /\ \A i \in 1..Len(rows) :
       rows[i].kind = "rollup" => ToSet(rows[i].covers) \cap Denied = {}

\* What a call that stores n may have read.
CallTells(rows, n, order) ==
  /\ Len(rows) <= Cap
  /\ Clean(Append(rows, NoteEntry(n)))
  /\ Told(Append(rows, NoteEntry(n)), order)

LEMMA NoteRow ==
  ASSUME NEW n \in Note
  PROVE  /\ NoteEntry(n) \in Entry /\ NoteEntry(n).kind = "note"
         /\ ToSet(NoteEntry(n).covers) = {n}
<1>1. "note" \in {"note", "rollup"} /\ <<n>> \in Seq(Note)
  OBVIOUS
<1>2. [kind |-> "note", covers |-> <<n>>] \in Entry
  BY <1>1, Zenon DEF Entry
<1>3. NoteEntry(n) \in Entry /\ NoteEntry(n).covers = <<n>> /\ NoteEntry(n).kind = "note"
  BY <1>2 DEF NoteEntry
<1>4. ToSet(<<n>>) = {n}
  BY DEF ToSet
<1> QED BY <1>3, <1>4

\* The first half of a call: readStore().
LEMMA CallBegins ==
  ASSUME NEW rows \in Seq(Entry), NEW order \in Seq(Note), FileTells(rows, order),
         NEW n \in Note, n \notin Denied
  PROVE  Safe(rows) \in Seq(Entry) /\ CallTells(Safe(rows), n, Append(order, n))
<1>1. PICK safe : safe = Safe(rows)
  OBVIOUS
<1>2. PICK more : more = Append(safe, NoteEntry(n))
  OBVIOUS
<1>3. /\ safe \in Seq(Entry) /\ Len(safe) <= Len(rows) /\ Clean(safe)
      /\ Told(rows, order) => Told(safe, order)
  BY <1>1, SafeRows
<1>4. Len(safe) \in Nat /\ Len(rows) \in Nat /\ Len(safe) <= Cap
  <2>1. Len(rows) <= Cap
    BY DEF FileTells
  <2> QED BY <1>3, <2>1, StoreAssumption
<1>5. /\ ToSet(NoteEntry(n).covers) = {n} /\ Len(more) = Len(safe) + 1
      /\ \A i \in 1..Len(safe) : more[i] = safe[i]
      /\ more[Len(safe) + 1] = NoteEntry(n)
  <2>1. NoteEntry(n) \in Entry /\ ToSet(NoteEntry(n).covers) = {n}
    BY NoteRow
  <2> QED BY <1>2, <1>3, <2>1, AppendProperties
<1>6. Clean(more)
  <2> SUFFICES ASSUME NEW i \in 1..Len(more) PROVE ToSet(more[i].covers) \cap Denied = {}
    BY DEF Clean
  <2>1. CASE i = Len(safe) + 1
    BY <1>5, <2>1
  <2>2. CASE i \in 1..Len(safe)
    BY <1>3, <1>5, <2>2 DEF Clean
  <2> QED BY <1>4, <1>5, <2>1, <2>2
<1>7. Told(more, Append(order, n))
  <2>1. Told(safe, order)
    BY <1>3 DEF FileTells
  <2>2. /\ \A i \in 1..Len(more) - 1 : more[i] = safe[i]
        /\ \A i \in 1..Len(more) : i = Len(more) => more[i] = NoteEntry(n)
    BY <1>4, <1>5
  <2> QED BY <1>4, <1>5, <2>1, <2>2, ToldNewest
<1> QED BY <1>1, <1>2, <1>3, <1>4, <1>6, <1>7 DEF CallTells

\* The second half: what retention leaves is written.
LEMMA CallEnds ==
  ASSUME NEW rows \in Seq(Entry), NEW order, NEW n \in Note, CallTells(rows, n, order),
         NEW c \in BOOLEAN
  PROVE  LET kept == ApplyFifoRetention(Append(rows, NoteEntry(n)), Cap, c)
         IN  kept \in Seq(Entry) /\ FileTells(kept, order)
<1>1. PICK more : more = Append(rows, NoteEntry(n))
  OBVIOUS
<1>2. PICK kept : kept = ApplyFifoRetention(more, Cap, c)
  OBVIOUS
<1>3. more \in Seq(Entry) /\ Len(more) <= Cap + 1 /\ Clean(more) /\ Told(more, order)
  <2>1. more \in Seq(Entry) /\ Len(more) = Len(rows) + 1 /\ Len(rows) \in Nat
    <3>1. NoteEntry(n) \in Entry
      BY NoteRow
    <3> QED BY <1>1, <3>1, AppendProperties
  <2> QED BY <1>1, <2>1, StoreAssumption DEF CallTells
<1>4. /\ kept \in Seq(Entry) /\ Len(kept) <= Cap
      /\ Clean(more) => Clean(kept)
      /\ Told(more, order) => Told(kept, order)
  BY <1>2, <1>3, StoreAssumption, Retained
<1>5. FileTells(kept, order)
  BY <1>3, <1>4 DEF FileTells, Clean
<1> QED BY <1>1, <1>2, <1>4, <1>5

\* A row changed from outside.
LEMMA LastRowChanged ==
  ASSUME NEW rows \in Seq(Entry), NEW last \in Nat \ {0}, last = Len(rows),
         NEW order \in Seq(Note), FileTells(rows, order), NEW n \in Note,
         NEW more, Len(more) = last,
         \A j \in 1..last : more[j] = IF j = last THEN NoteEntry(n) ELSE rows[j]
  PROVE  FileTells(more, Append(order, n))
<1>1. NoteEntry(n).kind = "note"
  BY NoteRow
<1>2. Told(more, Append(order, n))
  <2>1. /\ \A i \in 1..Len(more) - 1 : more[i] = rows[i]
        /\ \A i \in 1..Len(more) : i = Len(more) => more[i] = NoteEntry(n)
    OBVIOUS
  <2> QED BY <2>1, ToldNewest DEF FileTells
<1>3. \A i \in 1..last :
        more[i].kind = "rollup" => ToSet(more[i].covers) \cap Denied = {}
  BY <1>1 DEF FileTells
<1> QED BY <1>2, <1>3 DEF FileTells

\* The inductive invariant: the file, and what a call in progress has read,
\* hold at most maxEntries rows, tell the single notes in the order they
\* were taken in, and no call takes refused content further.
StoreInv ==
  /\ TypeOK
  /\ Len(log) <= Cap
  /\ FileTells(Entries, taken)
  /\ \A p \in Process :
       pc[p] \in {"read", "writing"} => CallTells(snap[p], note[p], taken)

LEMMA NothingTells ==
  ASSUME NEW order
  PROVE  <<>> \in Seq(Entry) /\ Len(<<>>) <= Cap /\ FileTells(<<>>, order)
<1>1. Len(<<>>) = 0 /\ 1..0 = {} /\ <<>> \in Seq(Entry)
  OBVIOUS
<1>2. 0 <= Cap
  BY StoreAssumption
<1> QED BY <1>1, <1>2 DEF FileTells, Told

\* One more note, and what was told before still is.
LEMMA TellsLater ==
  ASSUME NEW rows, NEW n, NEW order \in Seq(Note), NEW m \in Note
  PROVE  /\ FileTells(rows, order) => FileTells(rows, Append(order, m))
         /\ CallTells(rows, n, order) => CallTells(rows, n, Append(order, m))
BY ToldLater DEF FileTells, CallTells

\* What writing does to the file and to the log of the calls.
LEMMA StoreFilled ==
  ASSUME StoreInv, NEW p \in Process, pc[p] = "writing"
  PROVE  /\ NextStore(snap[p], p) \in Seq(Entry)
         /\ FileTells(NextStore(snap[p], p), taken)
         /\ NextStore(Safe(log), p) \in Seq(Entry)
         /\ Len(NextStore(Safe(log), p)) <= Cap
<1>1. /\ snap[p] \in Seq(Entry) /\ note[p] \in Note /\ log \in Seq(Entry)
      /\ (p \in Compressing) \in BOOLEAN /\ CallTells(snap[p], note[p], taken)
  BY DEF StoreInv, TypeOK
<1>2. NextStore(snap[p], p) \in Seq(Entry) /\ FileTells(NextStore(snap[p], p), taken)
  BY <1>1, CallEnds DEF NextStore
<1>3. PICK safe : safe = Safe(log)
  OBVIOUS
<1>4. safe \in Seq(Entry) /\ Len(safe) <= Len(log)
  BY <1>1, <1>3, SafeRows
<1>5. PICK more : more = Append(safe, NoteEntry(note[p]))
  OBVIOUS
<1>6. more \in Seq(Entry) /\ Len(more) <= Cap + 1
  <2>1. NoteEntry(note[p]) \in Entry
    BY <1>1, NoteRow
  <2>2. more \in Seq(Entry) /\ Len(more) = Len(safe) + 1
    BY <1>4, <1>5, <2>1, AppendProperties
  <2>3. Len(log) <= Cap /\ Len(log) \in Nat /\ Len(safe) \in Nat
    BY <1>1, <1>4 DEF StoreInv
  <2> QED BY <1>4, <2>2, <2>3, StoreAssumption
<1>7. PICK kept : kept = ApplyFifoRetention(more, Cap, p \in Compressing)
  OBVIOUS
<1>8. kept \in Seq(Entry) /\ Len(kept) <= Cap
  BY <1>1, <1>6, <1>7, StoreAssumption, Retained
<1>9. NextStore(Safe(log), p) = kept
  BY <1>3, <1>5, <1>7 DEF NextStore
<1> QED BY <1>2, <1>8, <1>9

\* The calls in progress, other than the one that moves, are where they were.
LEMMA OthersTell ==
  ASSUME StoreInv, NEW p \in Process,
         \A q \in Process \ {p} :
           pc'[q] = pc[q] /\ snap'[q] = snap[q] /\ note'[q] = note[q],
         taken' = taken \/ \E n \in Note : taken' = Append(taken, n),
         pc'[p] \in {"read", "writing"} => CallTells(snap'[p], note'[p], taken')
  PROVE  \A q \in Process :
           pc'[q] \in {"read", "writing"} => CallTells(snap'[q], note'[q], taken')
<1> SUFFICES ASSUME NEW q \in Process \ {p}, pc[q] \in {"read", "writing"}
             PROVE  CallTells(snap[q], note[q], taken')
  OBVIOUS
<1>1. CallTells(snap[q], note[q], taken) /\ taken \in Seq(Note)
  BY DEF StoreInv, TypeOK
<1> QED BY <1>1, TellsLater

\* Every step keeps it.
LEMMA StoreInductive == Spec => []StoreInv
<1> USE DEF Entries, Empty, Absent, Garbage, Store
<1>1. ASSUME Init
      PROVE  StoreInv
  <2>1. /\ Entries = <<>> /\ log = <<>> /\ taken = <<>> /\ orphan = {}
        /\ \A p \in Process : pc[p] = "idle"
    BY <1>1 DEF Init
  <2>2. note \in [Process -> Note]
    BY <1>1, StoreAssumption DEF Init
  <2>3. TypeOK
    <3>1. <<>> \in Seq(Entry) /\ <<>> \in Seq(Note)
      OBVIOUS
    <3>2. disk.kind = "absent" /\ disturbed = FALSE
      BY <1>1 DEF Init
    <3>3. /\ pc \in [Process -> {"idle", "read", "writing", "clearing"}]
          /\ snap \in [Process -> Seq(Entry)]
      BY <1>1, <3>1 DEF Init
    <3>4. \A v : v = <<>> => v \in Seq(Entry) /\ v \in Seq(Note)
      BY <3>1
    <3> HIDE DEF Entries
    <3> QED BY <2>1, <2>2, <3>2, <3>3, <3>4 DEF TypeOK
  <2>4. Len(log) <= Cap /\ FileTells(Entries, taken)
    BY <2>1, NothingTells
  <2> QED BY <2>1, <2>3, <2>4 DEF StoreInv
<1>2. ASSUME StoreInv, [Next]_vars
      PROVE  StoreInv'
  <2>0. /\ TypeOK /\ Len(log) <= Cap /\ FileTells(Entries, taken) /\ taken \in Seq(Note)
        /\ Entries \in Seq(Entry) /\ log \in Seq(Entry)
    BY <1>2 DEF StoreInv, TypeOK
  <2>1. ASSUME NEW p \in Process, NEW n \in Note, Read(p, n)
        PROVE  StoreInv'
    <3>1. /\ n \notin Denied /\ taken' = Append(taken, n)
          /\ UNCHANGED <<disk, orphan, log>> /\ pc' = [pc EXCEPT ![p] = "read"]
          /\ snap' = [snap EXCEPT ![p] = Safe(Entries)] /\ note' = [note EXCEPT ![p] = n]
          /\ pc[p] = "idle" /\ disturbed' = (disturbed \/ Busy # {})
      BY <2>1, Zenon DEF Read, ReadStore
    <3>2. Safe(Entries) \in Seq(Entry) /\ CallTells(Safe(Entries), n, taken')
      BY <2>0, <3>1, CallBegins
    <3>3. Entries' = Entries
      BY <3>1
    <3>4. TypeOK'
      BY <2>0, <3>1, <3>2, <3>3 DEF TypeOK
    <3>5. FileTells(Entries, taken')
      BY <2>0, <3>1, TellsLater
    <3>6. \A q \in Process :
            pc'[q] \in {"read", "writing"} => CallTells(snap'[q], note'[q], taken')
      <4>1. snap'[p] = Safe(Entries) /\ note'[p] = n
        BY <2>0, <3>1 DEF TypeOK
      <4>2. \A q \in Process \ {p} :
              pc'[q] = pc[q] /\ snap'[q] = snap[q] /\ note'[q] = note[q]
        BY <2>0, <3>1 DEF TypeOK
      <4> QED BY <1>2, <3>1, <3>2, <4>1, <4>2, OthersTell
    <3> QED BY <2>0, <3>1, <3>3, <3>4, <3>5, <3>6 DEF StoreInv
  <2>2. ASSUME NEW p \in Process, Truncate(p)
        PROVE  StoreInv'
    <3>1. Entries' = <<>> /\ UNCHANGED <<snap, note, orphan, taken, log, disturbed>>
      BY <2>2 DEF Truncate
    <3>2. TypeOK'
      BY <2>0, <2>2, <3>1, NothingTells DEF TypeOK, Truncate
    <3>3. FileTells(Entries', taken')
      BY <3>1, NothingTells
    <3>4. \A q \in Process :
            pc'[q] \in {"read", "writing"} => CallTells(snap'[q], note'[q], taken')
      <4>1. \A q \in Process : pc'[q] \in {"read", "writing"} => pc[q] \in {"read", "writing"}
        BY <2>0, <2>2 DEF TypeOK, Truncate
      <4> QED BY <1>2, <3>1, <4>1 DEF StoreInv
    <3> QED BY <2>0, <3>1, <3>2, <3>3, <3>4 DEF StoreInv
  <2>3. ASSUME NEW p \in Process, Fill(p)
        PROVE  StoreInv'
    <3>1. /\ pc[p] = "writing" /\ pc' = [pc EXCEPT ![p] = "idle"] /\ orphan' = orphan \ {p}
          /\ log' = NextStore(Safe(log), p) /\ UNCHANGED <<snap, note, taken, disturbed>>
      BY <2>3, Zenon DEF Fill
    <3>2. /\ NextStore(snap[p], p) \in Seq(Entry)
          /\ FileTells(NextStore(snap[p], p), taken)
          /\ log' \in Seq(Entry) /\ Len(log') <= Cap
      BY <1>2, <3>1, StoreFilled
    <3>3. \/ disk' = disk
          \/ disk' = [kind |-> "store", entries |-> NextStore(snap[p], p)]
          \/ disk' = [kind |-> "garbage"]
      BY <2>3, Zenon DEF Fill
    <3>4. \/ disk' = disk /\ Entries' = Entries
          \/ disk'.kind = "store" /\ Entries' = NextStore(snap[p], p)
          \/ disk'.kind = "garbage" /\ Entries' = <<>>
      BY <3>3
    <3>5. Entries' \in Seq(Entry) /\ FileTells(Entries', taken)
      BY <2>0, <3>2, <3>4, NothingTells
    <3>6. TypeOK'
      BY <2>0, <3>1, <3>2, <3>4, <3>5 DEF TypeOK
    <3>7. \A q \in Process :
            pc'[q] \in {"read", "writing"} => CallTells(snap'[q], note'[q], taken')
      <4>1. \A q \in Process : pc'[q] \in {"read", "writing"} => pc[q] \in {"read", "writing"}
        BY <2>0, <3>1 DEF TypeOK
      <4> QED BY <1>2, <3>1, <4>1 DEF StoreInv
    <3> QED BY <3>1, <3>2, <3>5, <3>6, <3>7 DEF StoreInv
  <2>4. ASSUME NEW p \in Process, Fail(p) \/ ClearCheck(p)
        PROVE  StoreInv'
    <3>1. UNCHANGED <<disk, snap, note, taken, log>> /\ Entries' = Entries
      BY <2>4 DEF Fail, ClearCheck
    <3>2. TypeOK'
      BY <2>0, <2>4, <3>1 DEF TypeOK, Fail, ClearCheck
    <3>3. \A q \in Process : pc'[q] \in {"read", "writing"} => pc[q] \in {"read", "writing"}
      BY <2>0, <2>4 DEF TypeOK, Fail, ClearCheck
    <3> QED BY <1>2, <2>0, <3>1, <3>2, <3>3 DEF StoreInv
  <2>5. ASSUME NEW p \in Process, Unlink(p)
        PROVE  StoreInv'
    <3>1. /\ Entries' = <<>> /\ log' = <<>> /\ UNCHANGED <<snap, note, taken, disturbed>>
      BY <2>5 DEF Unlink
    <3>2. TypeOK'
      BY <2>0, <2>5, <3>1, NothingTells DEF TypeOK, Unlink
    <3>3. FileTells(Entries', taken') /\ Len(log') <= Cap
      BY <3>1, NothingTells
    <3>4. \A q \in Process : pc'[q] \in {"read", "writing"} => pc[q] \in {"read", "writing"}
      BY <2>0, <2>5 DEF TypeOK, Unlink
    <3> QED BY <1>2, <3>1, <3>2, <3>3, <3>4 DEF StoreInv
  <2>6. ASSUME NEW n \in Note, Poison(n)
        PROVE  StoreInv'
    <3>1. PICK rows : rows = disk.entries
      OBVIOUS
    <3>2. PICK last : last = Len(rows)
      OBVIOUS
    <3>3. PICK more : more = [rows EXCEPT ![last] = NoteEntry(n)]
      OBVIOUS
    <3>4. /\ rows # <<>> /\ rows = Entries /\ Entries' = more /\ disk'.kind = "store"
          /\ log' = IF disturbed THEN log ELSE more
          /\ taken' = Append(taken, n) /\ UNCHANGED <<pc, snap, note, orphan, disturbed>>
      BY <2>6, <3>1, <3>2, <3>3 DEF Poison
    <3>5. last \in Nat \ {0} /\ last \in 1..Len(rows) /\ rows \in Seq(Entry)
      BY <2>0, <3>2, <3>4, EmptySeq
    <3>6. /\ more \in Seq(Entry) /\ Len(more) = last
          /\ \A j \in 1..last : more[j] = IF j = last THEN NoteEntry(n) ELSE rows[j]
      <4>1. NoteEntry(n) \in Entry
        BY NoteRow
      <4> QED BY <3>2, <3>3, <3>5, <4>1, ExceptSeq
    <3>7. FileTells(Entries', taken')
      <4>1. taken \in Seq(Note) /\ FileTells(rows, taken)
        BY <2>0, <3>4 DEF TypeOK
      <4>2. FileTells(more, Append(taken, n))
        BY <3>2, <3>5, <3>6, <4>1, LastRowChanged
      <4> QED BY <3>4, <4>2
    <3>8. Len(log') <= Cap /\ log' \in Seq(Entry)
      BY <2>0, <3>4, <3>6, <3>7 DEF FileTells
    <3>9. TypeOK'
      BY <2>0, <3>4, <3>6, <3>8 DEF TypeOK
    <3>10. \A q \in Process : pc[q] = "idle"
      BY <2>6 DEF Poison, Busy
    <3> QED BY <3>4, <3>7, <3>8, <3>9, <3>10 DEF StoreInv
  <2>7. CASE UNCHANGED vars
    <3>1. UNCHANGED <<disk, pc, snap, note, orphan, taken, log, disturbed>> /\ Entries' = Entries
      BY <2>7 DEF vars
    <3>2. TypeOK'
      BY <2>0, <3>1 DEF TypeOK
    <3> QED BY <1>2, <3>1, <3>2 DEF StoreInv
  <2> QED BY <1>2, <2>1, <2>2, <2>3, <2>4, <2>5, <2>6, <2>7 DEF Next
<1> QED BY <1>1, <1>2, PTL DEF Spec

\* No two rows with a single note can be found no more.
OneLost(rows, kept) ==
  \A i, j \in 1..Len(rows) : \A m, o \in Note :
    /\ rows[i] = NoteEntry(m) /\ m \notin Findable(kept)
    /\ rows[j] = NoteEntry(o) /\ o \notin Findable(kept)
    => i = j

\* The row that is forgotten is the oldest, or with rollups the second one.
LEMMA OneForgotten ==
  ASSUME NEW rows \in Seq(Entry), NEW n \in Note, Len(rows) <= Cap,
         NEW c \in BOOLEAN, NEW kept,
         kept = ApplyFifoRetention(Append(rows, NoteEntry(n)), Cap, c)
  PROVE  /\ OneLost(rows, kept)
         /\ Cap >= 2 => n \in Findable(kept)
<1>1. PICK more : more = Append(rows, NoteEntry(n))
  OBVIOUS
<1>2. /\ more \in Seq(Entry) /\ Len(rows) \in Nat /\ Len(more) = Len(rows) + 1
      /\ \A i \in 1..Len(rows) : more[i] = rows[i]
      /\ more[Len(rows) + 1] = NoteEntry(n)
  <2>1. NoteEntry(n) \in Entry
    BY NoteRow
  <2> QED BY <1>1, <2>1, AppendProperties
<1>3. kept = ApplyFifoRetention(more, Cap, c) /\ kept \in Seq(Entry)
  <2>1. Len(more) <= Cap + 1
    BY <1>2, StoreAssumption
  <2>2. kept = ApplyFifoRetention(more, Cap, c)
    BY <1>1
  <2> QED BY <1>2, <2>1, <2>2, StoreAssumption, Retained
<1>4. \A i \in 1..Len(kept), m \in Note : m \in ToSet(kept[i].covers) => m \in Findable(kept)
  <2>1. DOMAIN kept = 1..Len(kept)
    BY <1>3, LenProperties
  <2> QED BY <2>1 DEF Findable
<1>5. \A i \in 1..Len(kept), m \in Note : kept[i] = NoteEntry(m) => m \in Findable(kept)
  BY <1>4, NoteRow
<1>6. Cap >= 2 => n \in Findable(kept)
  <2> SUFFICES ASSUME Cap >= 2 PROVE n \in Findable(kept)
    OBVIOUS
  <2>1. \E i \in 1..Len(kept) : kept[i] = more[Len(more)]
    BY <1>2, <1>3, StoreAssumption, NewestRowSurvives
  <2>2. more[Len(more)] = NoteEntry(n)
    BY <1>2
  <2> QED BY <1>5, <2>1, <2>2
<1>7. ASSUME Len(more) <= Cap, NEW i \in 1..Len(rows), NEW m \in Note, rows[i] = NoteEntry(m)
      PROVE  m \in Findable(kept)
  <2>1. kept = more
    BY <1>3, <1>7 DEF ApplyFifoRetention
  <2>2. i \in 1..Len(kept) /\ kept[i] = NoteEntry(m)
    BY <1>2, <1>7, <2>1
  <2> QED BY <1>5, <2>2
<1>8. ASSUME Len(more) = Cap + 1, NEW i \in 1..Len(rows), NEW m \in Note, rows[i] = NoteEntry(m),
             m \notin Findable(kept)
      PROVE  i = IF c THEN 2 ELSE 1
  <2>1. Len(kept) = Cap /\ Shifted(kept, more, c)
    BY <1>2, <1>3, <1>8, StoreAssumption, OneTooMany
  <2>2. i \in 1..Cap /\ Cap \in Nat /\ more[i] = NoteEntry(m)
    BY <1>2, <1>8, StoreAssumption
  <2>3. ASSUME ~c, i # 1 PROVE FALSE
    <3>1. i - 1 \in 1..Len(kept) /\ (i - 1) + 1 = i
      BY <2>1, <2>2, <2>3
    <3>2. kept[i - 1] = more[(i - 1) + 1]
      BY <2>1, <2>3, <3>1 DEF Shifted
    <3> QED BY <1>5, <1>8, <2>2, <3>1, <3>2
  <2>4. ASSUME c, i = 1 PROVE FALSE
    <3>1. Cap \in 1..Len(kept) /\ Cap = Len(kept)
      BY <2>1, <2>2
    <3>2. kept[Cap] = [kind |-> "rollup", covers |-> Snippet(more[1])]
      BY <2>1, <2>4, <3>1 DEF Shifted
    <3>3. Snippet(NoteEntry(m)) = NoteEntry(m).covers
      BY NoteRow, SnippetOfEntry
    <3>4. m \in ToSet(kept[Cap].covers)
      <4>1. kept[Cap].covers = NoteEntry(m).covers
        <5>1. more[1] = NoteEntry(m)
          BY <2>2, <2>4
        <5> QED BY <3>2, <3>3, <5>1
      <4>2. ToSet(NoteEntry(m).covers) = {m}
        BY NoteRow
      <4> QED BY <4>1, <4>2
    <3> QED BY <1>4, <1>8, <3>1, <3>4
  <2>5. ASSUME c, i # 1, i # 2 PROVE FALSE
    <3>1. i - 2 \in 1..Len(kept) - 1 /\ i - 2 \in 1..Len(kept) /\ (i - 2) + 2 = i
      BY <2>1, <2>2, <2>5
    <3>2. kept[i - 2] = more[(i - 2) + 2]
      BY <2>1, <2>5, <3>1 DEF Shifted
    <3> QED BY <1>5, <1>8, <2>2, <3>1, <3>2
  <2> QED BY <2>3, <2>4, <2>5
<1>9. Len(more) <= Cap \/ Len(more) = Cap + 1
  BY <1>2, StoreAssumption
<1>10. OneLost(rows, kept)
  BY <1>7, <1>8, <1>9 DEF OneLost
<1> QED BY <1>6, <1>10

\* Refused content that found its way into the file stays a single row: no
\* rollup of any process ever takes it up.
THEOREM NoRollupOfRefused == Spec => []RollupsClean
<1>1. StoreInv => RollupsClean
  <2> SUFFICES ASSUME StoreInv PROVE RollupsClean
    OBVIOUS
  <2>1. Entries \in Seq(Entry) /\ FileTells(Entries, taken)
    BY DEF StoreInv, TypeOK
  <2>2. DOMAIN Entries = 1..Len(Entries)
    BY <2>1, LenProperties
  <2> QED BY <2>1, <2>2 DEF FileTells, RollupsClean
<1> QED BY <1>1, StoreInductive, PTL

\* Whatever calls overlap, break off or lose their file, the store holds at
\* most maxEntries rows, tells the single notes in the order they were taken
\* in, and a call in progress is about to forget at most one of them.
THEOREM BoundedLog == Spec => []StaysBoundedLog
<1>1. StoreInv => WithinCap
  BY DEF StoreInv, FileTells, WithinCap
<1>2. StoreInv => OldestFirst
  <2> SUFFICES ASSUME StoreInv, NEW i \in DOMAIN Entries, NEW j \in DOMAIN Entries, i < j,
                      Entries[i].kind = "note", Entries[j].kind = "note"
               PROVE  \E k, l \in DOMAIN taken :
                        k < l /\ taken[k] \in ToSet(Entries[i].covers)
                              /\ taken[l] \in ToSet(Entries[j].covers)
    BY DEF OldestFirst
  <2>1. /\ DOMAIN Entries = 1..Len(Entries) /\ DOMAIN taken = 1..Len(taken)
        /\ \A k \in 1..Len(taken) : taken[k] \in Note
        /\ Len(Entries) \in Nat
    <3>1. Entries \in Seq(Entry) /\ taken \in Seq(Note)
      BY DEF StoreInv, TypeOK
    <3> QED BY <3>1, LenProperties
  <2>2. Told(Entries, taken)
    BY DEF StoreInv, FileTells
  <2>3. i \in 1..j - 1 /\ j \in 1..Len(Entries)
    BY <2>1
  <2>4. PICK k, l \in 1..Len(taken) :
          k < l /\ Entries[i] = NoteEntry(taken[k]) /\ Entries[j] = NoteEntry(taken[l])
    BY <2>2, <2>3 DEF Told
  <2>5. taken[k] \in ToSet(Entries[i].covers) /\ taken[l] \in ToSet(Entries[j].covers)
    BY <2>1, <2>4, NoteRow
  <2> QED BY <2>1, <2>4, <2>5
<1>3. StoreInv => ForgetsOneAtMost
  <2> SUFFICES ASSUME StoreInv, NEW p \in Process, pc[p] = "writing"
               PROVE  /\ \A m, o \in Forgotten(p) : m = o
                      /\ Cap >= 2 => note[p] \in Findable(NextStore(snap[p], p))
    BY DEF ForgetsOneAtMost
  <2>1. /\ snap[p] \in Seq(Entry) /\ note[p] \in Note /\ (p \in Compressing) \in BOOLEAN
        /\ Len(snap[p]) <= Cap
    BY DEF StoreInv, TypeOK, CallTells
  <2>2. PICK kept : kept = NextStore(snap[p], p)
    OBVIOUS
  <2>3. kept = ApplyFifoRetention(Append(snap[p], NoteEntry(note[p])), Cap, p \in Compressing)
    BY <2>2 DEF NextStore
  <2>4. OneLost(snap[p], kept) /\ (Cap >= 2 => note[p] \in Findable(kept))
    BY <2>1, <2>3, OneForgotten
  <2>5. DOMAIN snap[p] = 1..Len(snap[p])
    BY <2>1, LenProperties
  <2>6. \A m \in Forgotten(p) :
          m \in Note /\ m \notin Findable(kept) /\ \E i \in 1..Len(snap[p]) : snap[p][i] = NoteEntry(m)
    BY <2>2, <2>5 DEF Forgotten
  <2>7. \A m, o \in Note : NoteEntry(m) = NoteEntry(o) => m = o
    BY NoteRow
  <2> QED BY <2>2, <2>4, <2>6, <2>7 DEF OneLost
<1> QED BY <1>1, <1>2, <1>3, StoreInductive, PTL DEF StaysBoundedLog
=============================================================================
