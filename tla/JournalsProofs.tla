--------------------------- MODULE JournalsProofs ---------------------------
(***************************************************************************)
(* What holds of the files of the home directory for any runs, calls,      *)
(* decisions and limits, whatever overlaps and breaks off where.           *)
(***************************************************************************)
EXTENDS Journals, PlacesProofs

\* What is left of a list without its last row.
LEMMA FrontOfSeq ==
  ASSUME NEW S, NEW s \in Seq(S), Len(s) > 0
  PROVE  /\ Front(s) \in Seq(S)
         /\ Len(Front(s)) = Len(s) - 1
         /\ \A i \in 1..Len(s) - 1 : Front(s)[i] = s[i]
<1>1. Len(s) \in Nat /\ Len(s) - 1 \in Int /\ 1 \in Int
  BY LenProperties
<1>2. \A i \in 1..Len(s) - 1 : s[i] \in S
  BY <1>1, ElementOfSeq
<1>3. /\ SubSeq(s, 1, Len(s) - 1) \in Seq(S)
      /\ Len(SubSeq(s, 1, Len(s) - 1)) = IF 1 <= Len(s) - 1 THEN Len(s) - 1 - 1 + 1 ELSE 0
      /\ \A i \in 1..(Len(s) - 1 - 1 + 1) : SubSeq(s, 1, Len(s) - 1)[i] = s[1 + i - 1]
  BY <1>1, <1>2, SubSeqProperties
<1>4. \A n \in Nat : n > 0 => n - 1 - 1 + 1 = n - 1 /\ (~(1 <= n - 1) => n - 1 = 0)
  OBVIOUS
<1>5. \A i \in 1..Len(s) - 1 : 1 + i - 1 = i
  BY <1>1
<1>6. \A i \in 1..Len(s) - 1 : Front(s)[i] = s[i]
  BY <1>1, <1>3, <1>4, <1>5, Zenon DEF Front
<1>7. Len(Front(s)) = Len(s) - 1
  BY <1>1, <1>3, <1>4, Zenon DEF Front
<1> QED BY <1>3, <1>6, <1>7 DEF Front

\* A set that gains one element at most grows by one at most.
LEMMA OneMore ==
  ASSUME NEW M, IsFiniteSet(M), NEW x, NEW N, N \subseteq M \union {x}
  PROVE  /\ IsFiniteSet(N)
         /\ Cardinality(N) \in Nat /\ Cardinality(M) \in Nat
         /\ Cardinality(N) <= Cardinality(M) + 1
         /\ N \subseteq M => Cardinality(N) <= Cardinality(M)
<1>1. Cardinality(M) \in Nat
  BY FS_CardinalityType
<1>2. /\ IsFiniteSet(M \union {x})
      /\ Cardinality(M \union {x}) \in Nat
      /\ Cardinality(M \union {x}) <= Cardinality(M) + 1
  BY <1>1, FS_AddElement, FS_CardinalityType
<1>3. IsFiniteSet(N) /\ Cardinality(N) <= Cardinality(M \union {x})
  BY <1>2, FS_Subset
<1>4. Cardinality(N) \in Nat
  BY <1>3, FS_CardinalityType
<1>5. N \subseteq M => Cardinality(N) <= Cardinality(M)
  BY FS_Subset
<1> QED BY <1>1, <1>2, <1>3, <1>4, <1>5

-----------------------------------------------------------------------------
(* The run store.                                                          *)

\* A row is written after its file is whole, and a run past that point has
\* its file left alone; so is a run whose row is in the index.
StoreInv ==
  /\ stage \in [Run -> Stage]
  /\ file \in [Run -> {"absent", "torn", "whole"}]
  /\ index \in Seq(Run)
  /\ \A r \in Run : stage[r] \in {"filed", "kept"} => Loads(r)
  /\ \A i \in 1..Len(index) : stage[index[i]] \in {"kept", "lost"} /\ Loads(index[i])

\* What the index can become: rows only go from its end, and the row that
\* comes is that of the run at hand.
LEMMA RowsOfIndex ==
  ASSUME index \in Seq(Run), NEW r \in Run
  PROVE  /\ Unbroken \in Seq(Run) /\ WithRow(r) \in Seq(Run)
         /\ \A i \in 1..Len(Unbroken) : i \in 1..Len(index) /\ Unbroken[i] = index[i]
         /\ \A i \in 1..Len(WithRow(r)) :
              \/ i \in 1..Len(index) /\ WithRow(r)[i] = index[i]
              \/ WithRow(r)[i] = r
BY DEF Unbroken, WithRow, Front

\* What keeps the invariant: no file of another run changes, this run's file
\* stays whole once it is, and the index is cut or gains this run.
LEMMA IndexStep ==
  ASSUME StoreInv, NEW r \in Run, Loads(r),
         NEW s \in {"kept", "lost"}, stage' = [stage EXCEPT ![r] = s],
         file' = file, index' \in {Unbroken, WithRow(r), index}
  PROVE  StoreInv'
<1> USE DEF StoreInv, Stage, Loads
<1>1. index' \in Seq(Run)
  BY RowsOfIndex
<1>2. \A i \in 1..Len(index') :
        (i \in 1..Len(index) /\ index'[i] = index[i]) \/ index'[i] = r
  BY RowsOfIndex
<1>3. stage' \in [Run -> Stage] /\ stage'[r] = s
  OBVIOUS
<1>4. ASSUME NEW i \in 1..Len(index')
      PROVE  stage'[index'[i]] \in {"kept", "lost"} /\ file'[index'[i]] = "whole"
  <2>1. CASE index'[i] = r
    BY <1>3, <2>1
  <2>2. CASE i \in 1..Len(index) /\ index'[i] = index[i]
    BY <2>2
  <2> QED BY <1>2, <2>1, <2>2
<1> QED BY <1>1, <1>3, <1>4

LEMMA StoreStep ==
  ASSUME StoreInv, [Next]_storeVars
  PROVE  StoreInv'
<1> USE DEF Stage, Loads
<1>1. ASSUME NEW r \in Run, NEW failures \in Failures, Begin(r, failures)
      PROVE  StoreInv'
  BY <1>1 DEF Begin, StoreInv
<1>2. ASSUME NEW r \in Run, WriteFile(r)
      PROVE  StoreInv'
  BY <1>2 DEF WriteFile, StoreInv
<1>3. ASSUME NEW r \in Run, TearFile(r)
      PROVE  StoreInv'
  BY <1>3 DEF TearFile, StoreInv
<1>4. ASSUME NEW r \in Run, AppendRow(r)
      PROVE  StoreInv'
  BY <1>4, IndexStep DEF AppendRow, StoreInv
<1>5. ASSUME NEW r \in Run, TearRow(r)
      PROVE  StoreInv'
  BY <1>5, IndexStep DEF TearRow, StoreInv
<1>6. ASSUME NEW r \in Run, Abandon(r)
      PROVE  StoreInv'
  BY <1>6 DEF Abandon, StoreInv
<1>7. CASE UNCHANGED storeVars
  BY <1>7 DEF storeVars, StoreInv
<1> QED BY <1>1, <1>2, <1>3, <1>4, <1>5, <1>6, <1>7 DEF Next, Persist

\* A listed run can be opened: whatever breaks off where, no row of index.jsonl
\* names a file that is missing or half written.
THEOREM ListedRunsLoad == Spec => []ListedLoads
<1>1. Init => StoreInv
  BY DEF Init, StoreInv, Stage
<1>2. StoreInv /\ [Next]_storeVars => StoreInv'
  BY StoreStep
<1>3. StoreInv => ListedLoads
  BY DEF StoreInv, ListedLoads
<1> QED BY <1>1, <1>2, <1>3, PTL DEF Spec

\* The runs a reader of the index misses.
Missing == {r \in Run : stage[r] = "kept" /\ ~Contains(index, r)}

\* A broken append is paid for twice at most: by its own run, which is not
\* counted, and by the next row, still to come while the file lacks the end of
\* a line.  A row that lacks its newline is of a run whose append broke off,
\* so that nobody misses it when it goes.
TearInv ==
  /\ StoreInv
  /\ tail \in {"ended", "cut", "open"}
  /\ tears \in Nat
  /\ tail = "open" => Len(index) > 0 /\ stage[index[Len(index)]] = "lost"
  /\ IsFiniteSet(Missing)
  /\ Cardinality(Missing) + (IF tail = "ended" THEN 0 ELSE 1) <= tears

\* No other run's row goes with an append, and it is there if the file was
\* in order.
LEMMA RowsStay ==
  ASSUME TearInv, NEW r \in Run
  PROVE  /\ \A s \in Run : stage[s] = "kept" =>
              /\ Contains(Unbroken, s) <=> Contains(index, s)
              /\ r # s => (Contains(WithRow(r), s) <=> Contains(index, s))
         /\ tail = "ended" =>
              /\ Len(WithRow(r)) > 0
              /\ WithRow(r)[Len(WithRow(r))] = r
<1> USE DEF Contains, TearInv, StoreInv
<1>1. ASSUME NEW s \in Run, stage[s] = "kept"
      PROVE  Contains(Unbroken, s) <=> Contains(index, s)
  <2>1. CASE tail # "open"
    BY <2>1 DEF Unbroken
  <2>2. CASE tail = "open"
    <3>1. index \in Seq(Run) /\ Len(index) \in Nat /\ Len(index) > 0
      BY <2>2
    <3>2. /\ Len(Unbroken) = Len(index) - 1
          /\ \A i \in 1..Len(index) - 1 : Unbroken[i] = index[i]
      BY <2>2, <3>1, FrontOfSeq DEF Unbroken
    <3>3. index[Len(index)] # s
      BY <1>1, <2>2
    <3> QED BY <3>1, <3>2, <3>3
  <2> QED BY <2>1, <2>2
<1>2. ASSUME tail = "ended"
      PROVE  /\ Len(WithRow(r)) > 0 /\ WithRow(r)[Len(WithRow(r))] = r
             /\ \A s \in Run : r # s => (Contains(WithRow(r), s) <=> Contains(index, s))
  <2>1. index \in Seq(Run) /\ WithRow(r) = Append(index, r)
    BY <1>2 DEF WithRow
  <2> QED BY <2>1
<1>3. ASSUME tail # "ended"
      PROVE  WithRow(r) = Unbroken
  BY <1>3 DEF WithRow
<1> HIDE DEF Contains, TearInv, StoreInv
<1>4. CASE tail = "ended"
  BY <1>1, <1>2, <1>4
<1>5. CASE tail # "ended"
  BY <1>1, <1>3, <1>5
<1> QED BY <1>4, <1>5

LEMMA TearStep ==
  ASSUME TearInv, [Next]_storeVars, StoreInv'
  PROVE  TearInv'
<1> USE DEF Stage, TearInv, Loads
\* Nobody's row or status of a run stored goes, and nothing is torn.
<1>1. ASSUME NEW r \in Run, stage[r] # "kept", stage[r] # "lost",
             NEW s \in Stage \ {"kept"}, stage' = [stage EXCEPT ![r] = s],
             UNCHANGED <<index, tail, tears>>
      PROVE  TearInv'
  <2>1. Missing' = Missing
    BY <1>1 DEF Missing, StoreInv
  <2>2. tail = "open" => stage'[index[Len(index)]] = "lost"
    BY <1>1 DEF StoreInv
  <2> QED BY <1>1, <2>1, <2>2
<1>2. ASSUME NEW r \in Run, NEW failures \in Failures, Begin(r, failures)
      PROVE  TearInv'
  BY <1>1, <1>2 DEF Begin
<1>3. ASSUME NEW r \in Run, WriteFile(r)
      PROVE  TearInv'
  BY <1>1, <1>3 DEF WriteFile
<1>4. ASSUME NEW r \in Run, TearFile(r)
      PROVE  TearInv'
  BY <1>1, <1>4 DEF TearFile
<1>5. ASSUME NEW r \in Run, Abandon(r)
      PROVE  TearInv'
  BY <1>1, <1>5 DEF Abandon
<1>6. ASSUME NEW r \in Run, AppendRow(r)
      PROVE  TearInv'
  <2>1. /\ stage[r] = "filed" /\ stage' = [stage EXCEPT ![r] = "kept"]
        /\ index' = WithRow(r) /\ tail' = "ended" /\ tears' = tears
    BY <1>6 DEF AppendRow
  <2>2. CASE tail = "ended"
    <3>1. Contains(index', r)
      <4>1. Len(index') > 0 /\ index'[Len(index')] = r
        BY <2>1, <2>2, RowsStay
      <4>2. Len(index') \in 1..Len(index')
        BY <2>1, <4>1, RowsOfIndex DEF StoreInv
      <4> QED BY <4>1, <4>2, Zenon DEF Contains
    <3>2. \A s \in Run : s # r /\ stage[s] = "kept" =>
            (Contains(index', s) <=> Contains(index, s))
      BY <2>1, RowsStay
    <3>3. stage \in [Run -> Stage] /\ stage[r] = "filed"
      BY <2>1 DEF StoreInv
    <3> HIDE DEF TearInv
    <3>4. ASSUME NEW s \in Run
          PROVE  (stage'[s] = "kept" /\ ~Contains(index', s))
                   <=> (stage[s] = "kept" /\ ~Contains(index, s))
      <4>1. CASE s = r
        BY <2>1, <3>1, <3>3, <4>1
      <4>2. CASE s # r
        BY <2>1, <3>2, <3>3, <4>2
      <4> QED BY <4>1, <4>2
    <3>5. Missing' = Missing
      BY <3>4, Zenon DEF Missing
    <3> QED BY <2>1, <2>2, <3>5 DEF TearInv
  <2>3. CASE tail # "ended"
    <3>1. Missing' \subseteq Missing \union {r}
      BY <2>1, <2>3, RowsStay DEF Missing, TearInv, StoreInv, WithRow
    <3> HIDE DEF TearInv
    <3>2. IsFiniteSet(Missing)
      BY DEF TearInv
    <3>3. /\ IsFiniteSet(Missing')
          /\ Cardinality(Missing') \in Nat /\ Cardinality(Missing) \in Nat
          /\ Cardinality(Missing') <= Cardinality(Missing) + 1
      BY <3>1, <3>2, OneMore
    <3> QED BY <2>1, <2>3, <3>3 DEF TearInv
  <2> QED BY <2>2, <2>3
<1>7. ASSUME NEW r \in Run, TearRow(r)
      PROVE  TearInv'
  <2>1. /\ stage[r] = "filed" /\ stage' = [stage EXCEPT ![r] = "lost"]
        /\ tears' = tears + 1
        /\ \/ index' = Unbroken /\ tail' = "cut"
           \/ index' = WithRow(r) /\ tail' = IF tail = "ended" THEN "open" ELSE "cut"
    BY <1>7 DEF TearRow
  <2>2. Missing' = Missing
    BY <2>1, RowsStay DEF Missing, StoreInv
  <2>3. Cardinality(Missing) \in Nat
    BY FS_CardinalityType
  <2>4. tail' = "open" => Len(index') > 0 /\ stage'[index'[Len(index')]] = "lost"
    BY <2>1, RowsStay DEF StoreInv
  <2> QED BY <2>1, <2>2, <2>3, <2>4
<1>8. CASE UNCHANGED storeVars
  <2>1. Missing' = Missing
    BY <1>8 DEF storeVars, Missing
  <2> QED BY <1>8, <2>1 DEF storeVars
<1> QED BY <1>2, <1>3, <1>4, <1>5, <1>6, <1>7, <1>8 DEF Next, Persist

\* A broken append to index.jsonl costs at most one more run than its own.
THEOREM TearsCostOneRow == Spec => []TearCostsOneRow
<1>1. Init => TearInv
  <2>1. Init => Missing = {}
    BY DEF Init, Missing
  <2> QED BY <2>1, FS_EmptySet DEF Init, TearInv, StoreInv, Stage, Loads
<1>2. TearInv /\ [Next]_storeVars => TearInv'
  BY StoreStep, TearStep DEF TearInv
<1>3. TearInv => TearCostsOneRow
  BY FS_CardinalityType DEF TearInv, TearCostsOneRow, Missing
<1> QED BY <1>1, <1>2, <1>3, PTL DEF Spec

-----------------------------------------------------------------------------
(* What Attention shows of the runs.                                       *)

\* A reader takes the end of the index, and the newest of it first.
LEMMA WindowOfIndex ==
  ASSUME index \in Seq(Run)
  PROVE  LET rowsOf == Listed(Window)
         IN  /\ rowsOf \in Seq(Run) /\ Len(rowsOf) \in Nat
             /\ \A i \in 1..Len(rowsOf) : \E k \in 1..Len(index) : rowsOf[i] = index[k]
             /\ DOMAIN NewestFirst = 1..Len(rowsOf)
             /\ \A n \in 1..Len(rowsOf) : NewestFirst[n] = rowsOf[(Len(rowsOf) - n) + 1]
<1> DEFINE from == IF Len(index) > Window THEN Len(index) - Window + 1 ELSE 1
           rowsOf == Listed(Window)
<1>1. Len(index) \in Nat /\ Window \in Nat
  BY LenProperties, RunStoreAssumption
<1>2. from \in Nat \ {0}
  BY <1>1
<1>3. rowsOf = SubSeq(index, from, Len(index))
  BY DEF Listed
<1> HIDE DEF rowsOf
<1>4. \A i \in from..Len(index) : index[i] \in Run
  BY <1>1, <1>2, ElementOfSeq
<1>5. /\ rowsOf \in Seq(Run)
      /\ Len(rowsOf) = IF from <= Len(index) THEN Len(index) - from + 1 ELSE 0
      /\ \A i \in 1..Len(index) - from + 1 : rowsOf[i] = index[from + i - 1]
  BY <1>1, <1>2, <1>3, <1>4, SubSeqProperties
<1>6. ASSUME NEW i \in 1..Len(rowsOf)
      PROVE  \E k \in 1..Len(index) : rowsOf[i] = index[k]
  <2>1. from + i - 1 \in 1..Len(index) /\ i \in 1..Len(index) - from + 1
    BY <1>1, <1>2, <1>5
  <2> QED BY <1>5, <2>1
<1>7. Len(rowsOf) \in Nat
  BY <1>5, LenProperties
<1>8. NewestFirst = [n \in 1..Len(rowsOf) |-> rowsOf[(Len(rowsOf) - n) + 1]]
  BY Zenon DEF NewestFirst, Reverse, rowsOf
<1> QED BY <1>5, <1>6, <1>7, <1>8 DEF rowsOf

FailedType == failed \in [Run -> Failures \union {<<>>}]

\* What failed in a run is a list.
LEMMA FailuresAreLists ==
  ASSUME FailedType, NEW r \in Run
  PROVE  DOMAIN failed[r] = 1..Len(failed[r]) /\ Len(failed[r]) \in Nat
<1>1. failed[r] \in Seq(ToSet(failed[r]))
  <2>1. CASE failed[r] = <<>>
    BY <2>1
  <2>2. CASE failed[r] \in Failures
    BY <2>2, RunStoreAssumption
  <2> QED BY <2>1, <2>2 DEF FailedType
<1> QED BY <1>1, LenProperties

\* Each failure of the window has its place, and what is shown is that of
\* some of them.
LEMMA FailuresHavePlaces ==
  ASSUME StoreInv, FailedType
  PROVE  LET rowsOf == Listed(Window)
         IN  /\ Found \in SUBSET (Nat \X Nat) /\ IsFiniteSet(Found)
             /\ \A p \in Found : /\ p[1] \in 1..Len(rowsOf)
                                 /\ Item(p).run = rowsOf[(Len(rowsOf) - p[1]) + 1]
             /\ \A i \in 1..Len(rowsOf) : \A f : Contains(failed[rowsOf[i]], f) =>
                  \E p \in Found : p[1] = (Len(rowsOf) - i) + 1 /\ Item(p).id = AttentionId(f)
<1> DEFINE rowsOf == Listed(Window)
           n == Len(rowsOf)
<1>1. /\ rowsOf \in Seq(Run) /\ n \in Nat
      /\ \A i \in 1..n : \E k \in 1..Len(index) : rowsOf[i] = index[k]
      /\ DOMAIN NewestFirst = 1..n
      /\ \A m \in 1..n : NewestFirst[m] = rowsOf[(n - m) + 1]
  BY WindowOfIndex DEF StoreInv
<1> HIDE DEF rowsOf
<1>2. \A i \in 1..n : rowsOf[i] \in Run /\ Loads(rowsOf[i])
  BY <1>1, ElementOfSeq DEF StoreInv
<1>3. \A m \in 1..n : (n - m) + 1 \in 1..n
  BY <1>1
<1>4. \A m \in 1..n : NewestFirst[m] \in Run /\ Loads(NewestFirst[m])
  BY <1>1, <1>2, <1>3
<1>5. \A r \in Run : /\ DOMAIN failed[r] = 1..Len(failed[r]) /\ Len(failed[r]) \in Nat
                     /\ IsFiniteSet(DOMAIN failed[r])
  BY FailuresAreLists, FS_Interval
<1> DEFINE Of(m) == {m} \X DOMAIN failed[NewestFirst[m]]
<1>6. Found = UNION {Of(m) : m \in 1..n}
  <2>1. {m \in DOMAIN NewestFirst : Loads(NewestFirst[m])} = 1..n
    BY <1>1, <1>4
  <2> QED BY <2>1, Zenon DEF Found
<1>7. \A m \in 1..n : IsFiniteSet(Of(m)) /\ Of(m) \in SUBSET (Nat \X Nat)
  <2> SUFFICES ASSUME NEW m \in 1..n
               PROVE  IsFiniteSet(Of(m)) /\ Of(m) \in SUBSET (Nat \X Nat)
    OBVIOUS
  <2>1. IsFiniteSet({m}) /\ IsFiniteSet(DOMAIN failed[NewestFirst[m]])
    BY <1>4, <1>5, FS_Singleton
  <2>2. IsFiniteSet(Of(m))
    BY <2>1, FS_Product
  <2>3. DOMAIN failed[NewestFirst[m]] \subseteq Nat
    BY <1>4, <1>5
  <2> QED BY <2>2, <2>3
<1>8. IsFiniteSet(Found)
  <2> DEFINE of == [m \in 1..n |-> Of(m)]
             T == {Of(m) : m \in 1..n}
  <2>1. IsFiniteSet(1..n)
    BY <1>1, FS_Interval
  <2>2. of \in Surjection(1..n, T)
    BY DEF Surjection
  <2>3. IsFiniteSet(T)
    BY <2>1, <2>2, FS_Surjection
  <2>4. \A U \in T : IsFiniteSet(U)
    BY <1>7
  <2> QED BY <1>6, <2>3, <2>4, FS_UNION
<1>9. Found \in SUBSET (Nat \X Nat)
  BY <1>6, <1>7
<1>10. ASSUME NEW p \in Found
       PROVE  p[1] \in 1..n /\ Item(p).run = rowsOf[(n - p[1]) + 1]
  <2>1. PICK m \in 1..n : p \in Of(m)
    BY <1>6
  <2>2. p[1] = m
    BY <2>1
  <2> QED BY <1>1, <2>2 DEF Item
<1>11. ASSUME NEW i \in 1..n, NEW f, Contains(failed[rowsOf[i]], f)
       PROVE  \E p \in Found : p[1] = (n - i) + 1 /\ Item(p).id = AttentionId(f)
  <2>1. PICK k \in 1..Len(failed[rowsOf[i]]) : failed[rowsOf[i]][k] = f
    BY <1>11 DEF Contains
  <2>2. PICK m : m = (n - i) + 1
    OBVIOUS
  <2>3. m \in 1..n /\ (n - m) + 1 = i
    BY <1>1, <2>2
  <2>4. NewestFirst[m] = rowsOf[i]
    BY <1>1, <2>3
  <2>5. k \in DOMAIN failed[NewestFirst[m]]
    BY <1>2, <1>5, <2>1, <2>4
  <2>6. <<m, k>> \in Of(m)
    BY <2>5
  <2>7. <<m, k>> \in Found
    BY <1>6, <2>3, <2>6
  <2>8. Item(<<m, k>>).id = AttentionId(f)
    BY <2>1, <2>4 DEF Item
  <2> QED BY <2>2, <2>7, <2>8
<1> QED BY <1>8, <1>9, <1>10, <1>11 DEF rowsOf

\* What is shown is the newest of its kind, and is all unless it is full.
LEMMA SkimOfFailures ==
  ASSUME StoreInv, FailedType
  PROVE  SkimShowsNewest
<1> PICK rowsOf : rowsOf = Listed(Window)
  OBVIOUS
<1> DEFINE n == Len(rowsOf)
           ids == [p \in Found |-> Item(p).id]
<1> PICK kept : kept = FirstNew(Found, ids, MaxItems)
  OBVIOUS
<1>1. rowsOf \in Seq(Run) /\ n \in Nat /\ DOMAIN rowsOf = 1..n
  BY WindowOfIndex, LenProperties DEF StoreInv
<1>2. /\ Found \in SUBSET (Nat \X Nat) /\ IsFiniteSet(Found)
      /\ \A p \in Found : p[1] \in 1..n /\ Item(p).run = rowsOf[(n - p[1]) + 1]
      /\ \A i \in 1..n : \A f : Contains(failed[rowsOf[i]], f) =>
           \E p \in Found : p[1] = (n - i) + 1 /\ Item(p).id = AttentionId(f)
  BY FailuresHavePlaces
<1>3. /\ FirstsTell(kept, Found, ids, MaxItems) /\ IsFiniteSet(kept)
      /\ \A p, q \in kept : ids[p] = ids[q] => p = q
  BY <1>2, RunStoreAssumption, FirstNewTells
<1>4. Skim = {Item(p) : p \in kept}
  BY Zenon DEF Skim
<1>5. kept \subseteq Found
  BY <1>3 DEF FirstsTell
<1>6. \A p \in kept, q \in Found : ids[q] = ids[p] => ~Before(q, p)
  BY <1>3 DEF FirstsTell
<1>7. ASSUME NEW p \in kept, NEW i \in 1..n, NEW f, Contains(failed[rowsOf[i]], f),
             AttentionId(f) = Item(p).id
      PROVE  \E l \in i..n : rowsOf[l] = Item(p).run
  <2>1. PICK q \in Found : q[1] = (n - i) + 1 /\ Item(q).id = Item(p).id
    BY <1>2, <1>7
  <2>2. ~Before(q, p)
    BY <1>5, <1>6, <2>1
  <2>3. p[1] \in 1..n /\ ~(q[1] < p[1])
    BY <1>2, <1>5, <2>2 DEF Before
  <2>4. (n - p[1]) + 1 \in i..n
    BY <1>1, <2>1, <2>3
  <2> QED BY <1>2, <1>5, <2>4
<1>8. ASSUME Cardinality(Skim) < MaxItems, NEW i \in 1..n, NEW f, Contains(failed[rowsOf[i]], f)
      PROVE  \E item \in Skim : item.id = AttentionId(f)
  <2>1. Cardinality(kept) = Cardinality(Skim)
    <3> DEFINE item == [p \in kept |-> Item(p)]
    <3>1. item \in Bijection(kept, Skim)
      <4>1. \A p, q \in kept : item[p] = item[q] => p = q
        BY <1>3, <1>5
      <4>2. item \in [kept -> Skim] /\ \A x \in Skim : \E p \in kept : item[p] = x
        BY <1>4
      <4> QED BY <4>1, <4>2 DEF Bijection, Injection, Surjection, IsInjective
    <3>2. ExistsBijection(kept, Skim)
      BY <3>1 DEF ExistsBijection
    <3> QED BY <1>3, <3>2, FS_Bijection
  <2>2. \A p \in Found : \E q \in kept : ids[q] = ids[p]
    BY <1>3, <1>8, <2>1 DEF FirstsTell
  <2>3. PICK p \in Found : Item(p).id = AttentionId(f)
    BY <1>2, <1>8
  <2>4. PICK q \in kept : ids[q] = ids[p]
    BY <2>2
  <2> QED BY <1>4, <1>5, <2>3, <2>4
<1>9. \A i \in 1..n : \A f \in ToSet(failed[rowsOf[i]]) : Contains(failed[rowsOf[i]], f)
  <2> SUFFICES ASSUME NEW i \in 1..n, NEW f \in ToSet(failed[rowsOf[i]])
               PROVE  Contains(failed[rowsOf[i]], f)
    OBVIOUS
  <2>1. PICK r \in Run : r = rowsOf[i]
    BY <1>1, ElementOfSeq
  <2> QED BY <2>1, FailuresAreLists DEF ToSet, Contains
<1>10. \A item \in Skim : \A i \in DOMAIN rowsOf :
         (\E f \in ToSet(failed[rowsOf[i]]) : AttentionId(f) = item.id) =>
            \E l \in i..Len(rowsOf) : rowsOf[l] = item.run
  <2> SUFFICES ASSUME NEW item \in Skim, NEW i \in 1..n, NEW f \in ToSet(failed[rowsOf[i]]),
                      AttentionId(f) = item.id
               PROVE  \E l \in i..n : rowsOf[l] = item.run
    BY <1>1
  <2>1. PICK p \in kept : item = Item(p)
    BY <1>4
  <2>2. Contains(failed[rowsOf[i]], f)
    BY <1>9
  <2> QED BY <1>7, <2>1, <2>2
<1>11. Cardinality(Skim) < MaxItems =>
         \A i \in DOMAIN rowsOf : \A f \in ToSet(failed[rowsOf[i]]) :
           \E item \in Skim : item.id = AttentionId(f)
  BY <1>1, <1>8, <1>9
<1> QED BY <1>10, <1>11, Zenon DEF SkimShowsNewest

\* Attention shows each id with the last run of the window in which a failure of
\* that id occurred, and leaves no failure's id out unless it is full
\* (skimDecisionFailures).
THEOREM AttentionShowsNewest == Spec => []SkimShowsNewest
<1>1. Init => StoreInv /\ FailedType
  BY DEF Init, StoreInv, Stage, FailedType
<1>2. StoreInv /\ FailedType /\ [Next]_storeVars => StoreInv' /\ FailedType'
  <2> SUFFICES ASSUME StoreInv, FailedType, [Next]_storeVars
               PROVE  FailedType'
    BY StoreStep
  <2>1. ASSUME NEW r \in Run, NEW failures \in Failures, Begin(r, failures)
        PROVE  FailedType'
    BY <2>1 DEF Begin, FailedType
  <2>2. ASSUME NEW r \in Run, Persist(r)
        PROVE  failed' = failed
    BY <2>2 DEF Persist, WriteFile, TearFile, AppendRow, TearRow, Abandon
  <2> QED BY <2>1, <2>2 DEF Next, storeVars, FailedType
<1>3. StoreInv /\ FailedType => SkimShowsNewest
  BY SkimOfFailures
<1> QED BY <1>1, <1>2, <1>3, PTL DEF Spec

-----------------------------------------------------------------------------
(* The event log, and the chats that write to it.                          *)

\* What is left of the log when a line joins one that lost its end, and what
\* a line makes of it.
LEMMA LogRows ==
  ASSUME NEW S, rows \in Seq(S), NEW row \in S, logTail = "open" => Len(rows) > 0
  PROVE  /\ Chat!Unjoined \in Seq(S)
         /\ \A i \in 1..Len(Chat!Unjoined) : i \in 1..Len(rows) /\ Chat!Unjoined[i] = rows[i]
         /\ logTail # "open" => Chat!Unjoined = rows
         /\ logTail = "open" =>
              \A i \in 1..Len(rows) : i # Len(rows) =>
                i \in 1..Len(Chat!Unjoined) /\ Chat!Unjoined[i] = rows[i]
         /\ logTail = "open" => Len(rows) \notin 1..Len(Chat!Unjoined)
         /\ Chat!With(row) = IF logTail = "ended" THEN Append(rows, row) ELSE Chat!Unjoined
<1>1. CASE logTail = "open"
  <2>1. /\ Chat!Unjoined \in Seq(S) /\ Len(Chat!Unjoined) = Len(rows) - 1
        /\ \A i \in 1..Len(rows) - 1 : Chat!Unjoined[i] = rows[i]
    BY <1>1, FrontOfSeq DEF Chat!Unjoined, Chat!Front, Front
  <2>2. Len(rows) \in Nat
    BY LenProperties
  <2> QED BY <1>1, <2>1, <2>2 DEF Chat!With
<1>2. CASE logTail # "open"
  BY <1>2 DEF Chat!Unjoined, Chat!With
<1> QED BY <1>1, <1>2

\* The calls that wrote their line and have none.
Uncounted ==
  {c \in Call : recorded[c] # "none" /\ \A i \in DOMAIN rows : rows[i].call # c}

ChatPc == {"new", "asked", "failing", "done", "dead"}

\* A call has no line before its provider answered.  One that still has to
\* write its line may have left one without a newline, the last of the log:
\* it goes when the next line joins it.  A broken append takes one line of
\* another call with it at most, still to come while the log lacks the end
\* of a line.
ChatInv ==
  /\ rows \in Seq([call : Call, ok : BOOLEAN])
  /\ logTail \in {"ended", "cut", "open"}
  /\ logTears \in Nat
  /\ chatPc \in [Call -> ChatPc]
  /\ recorded \in [Call -> {"none", "ok", "failed"}]
  /\ \A c \in Call : chatPc[c] \in {"new", "asked", "failing"} => recorded[c] = "none"
  /\ \A i, k \in 1..Len(rows) : rows[i].call = rows[k].call => i = k
  /\ \A i \in 1..Len(rows) : chatPc[rows[i].call] \notin {"new", "asked"}
  /\ \A i \in 1..Len(rows) :
       chatPc[rows[i].call] = "failing" => logTail = "open" /\ i = Len(rows)
  /\ logTail = "open" => Len(rows) > 0 /\ recorded[rows[Len(rows)].call] = "none"
  /\ IsFiniteSet(Uncounted)
  /\ Cardinality(Uncounted) + (IF logTail = "ended" THEN 0 ELSE 1) <= logTears

\* A step that writes nothing.
LEMMA ChatQuiet ==
  ASSUME ChatInv, NEW c \in Call, NEW to \in ChatPc \ {"new"},
         \/ chatPc[c] = "new"
         \/ chatPc[c] = "asked" /\ to # "asked"
         \/ chatPc[c] = "failing" /\ to \notin {"asked", "failing"},
         chatPc' = [chatPc EXCEPT ![c] = to],
         UNCHANGED <<rows, logTail, logTears, recorded>>
  PROVE  ChatInv'
<1>1. Uncounted' = Uncounted
  BY DEF Uncounted
<1>2. \A i \in 1..Len(rows) : rows[i].call \in Call
  <2>1. rows \in Seq([call : Call, ok : BOOLEAN])
    BY DEF ChatInv
  <2>2. \A i \in 1..Len(rows) : rows[i] \in [call : Call, ok : BOOLEAN]
    BY <2>1, ElementOfSeq
  <2> QED BY <2>2
<1>3. /\ chatPc' \in [Call -> ChatPc] /\ chatPc'[c] = to
      /\ \A d \in Call : d # c => chatPc'[d] = chatPc[d]
  BY DEF ChatInv, ChatPc
<1>4. \A d \in Call : chatPc'[d] \in {"new", "asked", "failing"} => recorded[d] = "none"
  BY <1>3 DEF ChatInv
<1>5. \A i \in 1..Len(rows) : chatPc'[rows[i].call] \notin {"new", "asked"}
  BY <1>2, <1>3 DEF ChatInv
<1>6. \A i \in 1..Len(rows) :
        chatPc'[rows[i].call] = "failing" => logTail = "open" /\ i = Len(rows)
  BY <1>2, <1>3 DEF ChatInv
<1> QED BY <1>1, <1>3, <1>4, <1>5, <1>6 DEF ChatInv

\* A step that writes the line of its call, or breaks off in it.
LEMMA ChatWrites ==
  ASSUME ChatInv, NEW c \in Call, NEW ok \in BOOLEAN, NEW to \in {"failing", "done", "dead"},
         \/ chatPc[c] = "asked"
         \/ chatPc[c] = "failing" /\ to # "failing",
         chatPc' = [chatPc EXCEPT ![c] = to],
         \/ /\ Chat!RecordMetricEvent(Chat!Row(c, ok)) /\ to = "done"
            /\ \E how \in {"ok", "failed"} : recorded' = [recorded EXCEPT ![c] = how]
         \/ Chat!Tear(Chat!Row(c, ok)) /\ recorded' = recorded
  PROVE  ChatInv'
<1> DEFINE row == Chat!Row(c, ok)
           Line == [call : Call, ok : BOOLEAN]
<1>1. row \in Line /\ row.call = c
  BY DEF Chat!Row
<1>2. /\ rows \in Seq(Line) /\ Len(rows) \in Nat
      /\ \A i \in 1..Len(rows) : rows[i] \in Line /\ rows[i].call \in Call
  <2>1. rows \in Seq(Line)
    BY DEF ChatInv
  <2>2. \A i \in 1..Len(rows) : rows[i] \in Line
    BY <2>1, ElementOfSeq
  <2> QED BY <2>1, <2>2, LenProperties
<1> HIDE DEF row, Line
\* Of rows that are or were there, one stays or the last one goes.
<1>3. /\ Chat!Unjoined \in Seq(Line)
      /\ \A i \in 1..Len(Chat!Unjoined) : i \in 1..Len(rows) /\ Chat!Unjoined[i] = rows[i]
      /\ logTail # "open" => Chat!Unjoined = rows
      /\ logTail = "open" =>
           \A i \in 1..Len(rows) : i # Len(rows) =>
             i \in 1..Len(Chat!Unjoined) /\ Chat!Unjoined[i] = rows[i]
      /\ logTail = "open" => Len(rows) \notin 1..Len(Chat!Unjoined)
      /\ Chat!With(row) = IF logTail = "ended" THEN Append(rows, row) ELSE Chat!Unjoined
  BY <1>1, <1>2, LogRows DEF ChatInv
\* No row of a recorded call goes.
<1>4. ASSUME NEW d \in Call, recorded[d] # "none", NEW i \in 1..Len(rows), rows[i].call = d
      PROVE  i \in 1..Len(Chat!Unjoined) /\ Chat!Unjoined[i] = rows[i]
  BY <1>3, <1>4 DEF ChatInv
<1>5. /\ chatPc' \in [Call -> ChatPc] /\ chatPc'[c] = to
      /\ \A d \in Call : d # c => chatPc'[d] = chatPc[d]
  BY DEF ChatInv, ChatPc
<1>6. CASE /\ rows' = Chat!Unjoined
           /\ \/ /\ logTail # "ended" /\ logTail' = "ended" /\ logTears' = logTears
                 /\ \E how \in {"ok", "failed"} : recorded' = [recorded EXCEPT ![c] = how]
                 /\ to = "done"
              \/ logTail' = "cut" /\ logTears' = logTears + 1 /\ recorded' = recorded
  <2>1. /\ recorded' \in [Call -> {"none", "ok", "failed"}]
        /\ \A d \in Call : chatPc'[d] \in {"new", "asked", "failing"} => recorded'[d] = "none"
    BY <1>5, <1>6 DEF ChatInv
  <2>2. \A i, k \in 1..Len(rows') : rows'[i].call = rows'[k].call => i = k
    BY <1>3, <1>6 DEF ChatInv
  <2>3. \A i \in 1..Len(rows') : chatPc'[rows'[i].call] \notin {"new", "asked"}
    BY <1>2, <1>3, <1>5, <1>6 DEF ChatInv
  <2>4. \A i \in 1..Len(rows') : chatPc'[rows'[i].call] # "failing"
    <3> SUFFICES ASSUME NEW i \in 1..Len(rows'), chatPc'[rows'[i].call] = "failing"
                 PROVE  FALSE
      OBVIOUS
    <3>1. i \in 1..Len(rows) /\ rows'[i] = rows[i] /\ rows[i].call \in Call
      BY <1>2, <1>3, <1>6
    <3>2. CASE rows[i].call = c
      BY <1>3, <1>5, <1>6, <3>1, <3>2 DEF ChatInv
    <3>3. CASE rows[i].call # c
      BY <1>3, <1>5, <1>6, <3>1, <3>3 DEF ChatInv
    <3> QED BY <3>2, <3>3
  <2>5. Uncounted' \subseteq Uncounted \union {c}
    BY <1>4, <1>6 DEF Uncounted, ChatInv
  <2>6. recorded' = recorded => Uncounted' \subseteq Uncounted
    BY <1>4, <1>6 DEF Uncounted, ChatInv
  <2>7. /\ IsFiniteSet(Uncounted')
        /\ Cardinality(Uncounted') + (IF logTail' = "ended" THEN 0 ELSE 1) <= logTears'
    <3>1. IsFiniteSet(Uncounted)
      BY DEF ChatInv
    <3>2. /\ IsFiniteSet(Uncounted')
          /\ Cardinality(Uncounted') \in Nat /\ Cardinality(Uncounted) \in Nat
          /\ Cardinality(Uncounted') <= Cardinality(Uncounted) + 1
          /\ recorded' = recorded => Cardinality(Uncounted') <= Cardinality(Uncounted)
      BY <2>5, <2>6, <3>1, OneMore
    <3> QED BY <1>6, <3>2 DEF ChatInv
  <2> QED
    BY <1>3, <1>5, <1>6, <2>1, <2>2, <2>3, <2>4, <2>7 DEF ChatInv, Line
<1>7. CASE /\ rows' = Append(rows, row) /\ logTail = "ended"
           /\ \/ /\ logTail' = "ended" /\ logTears' = logTears
                 /\ \E how \in {"ok", "failed"} : recorded' = [recorded EXCEPT ![c] = how]
                 /\ to = "done"
              \/ logTail' = "open" /\ logTears' = logTears + 1 /\ recorded' = recorded
  <2>1. /\ recorded' \in [Call -> {"none", "ok", "failed"}]
        /\ \A d \in Call : chatPc'[d] \in {"new", "asked", "failing"} => recorded'[d] = "none"
    BY <1>5, <1>7 DEF ChatInv
  <2>2. /\ rows' \in Seq(Line) /\ Len(rows') = Len(rows) + 1 /\ rows'[Len(rows')] = row
        /\ \A i \in 1..Len(rows') : i # Len(rows') => i \in 1..Len(rows) /\ rows'[i] = rows[i]
        /\ \A i \in 1..Len(rows) : i \in 1..Len(rows') /\ rows'[i] = rows[i] /\ i # Len(rows')
    BY <1>1, <1>2, <1>7, AppendProperties
  <2>3. \A i \in 1..Len(rows) : rows[i].call # c
    BY <1>7 DEF ChatInv
  <2>4. \A i, k \in 1..Len(rows') : rows'[i].call = rows'[k].call => i = k
    BY <1>1, <2>2, <2>3 DEF ChatInv
  <2>5. \A i \in 1..Len(rows') : chatPc'[rows'[i].call] \notin {"new", "asked"}
    BY <1>1, <1>2, <1>5, <2>2, <2>3 DEF ChatInv
  <2>6. \A i \in 1..Len(rows') :
          chatPc'[rows'[i].call] = "failing" => logTail' = "open" /\ i = Len(rows')
    BY <1>1, <1>2, <1>5, <1>7, <2>2, <2>3 DEF ChatInv
  <2>7. logTail' = "open" => Len(rows') > 0 /\ recorded'[rows'[Len(rows')].call] = "none"
    BY <1>1, <1>2, <1>7, <2>2 DEF ChatInv
  <2>8. Uncounted' \subseteq Uncounted
    <3> SUFFICES ASSUME NEW d \in Call, recorded'[d] # "none",
                        \A i \in 1..Len(rows') : rows'[i].call # d
                 PROVE  recorded[d] # "none" /\ \A i \in 1..Len(rows) : rows[i].call # d
      BY <1>2, <2>2, LenProperties DEF Uncounted
    <3>1. d # c
      BY <1>1, <1>2, <2>2
    <3> QED BY <1>7, <2>2, <3>1 DEF ChatInv
  <2>9. /\ IsFiniteSet(Uncounted')
        /\ Cardinality(Uncounted') + (IF logTail' = "ended" THEN 0 ELSE 1) <= logTears'
    <3>1. IsFiniteSet(Uncounted)
      BY DEF ChatInv
    <3>2. /\ IsFiniteSet(Uncounted')
          /\ Cardinality(Uncounted') \in Nat /\ Cardinality(Uncounted) \in Nat
          /\ Cardinality(Uncounted') <= Cardinality(Uncounted)
      BY <2>8, <3>1, OneMore
    <3> QED BY <1>7, <3>2 DEF ChatInv
  <2> QED
    BY <1>5, <1>7, <2>1, <2>2, <2>4, <2>5, <2>6, <2>7, <2>9 DEF ChatInv, Line
<1>8. \/ /\ rows' = Chat!With(row) /\ logTail' = "ended" /\ logTears' = logTears
         /\ \E how \in {"ok", "failed"} : recorded' = [recorded EXCEPT ![c] = how]
         /\ to = "done"
      \/ /\ \/ rows' = Chat!Unjoined /\ logTail' = "cut"
            \/ rows' = Chat!With(row) /\ logTail' = IF logTail = "ended" THEN "open" ELSE "cut"
         /\ logTears' = logTears + 1 /\ recorded' = recorded
  BY DEF Chat!RecordMetricEvent, Chat!Tear, row
<1>9. CASE logTail = "ended"
  BY <1>3, <1>6, <1>7, <1>8, <1>9
<1>10. CASE logTail # "ended"
  BY <1>3, <1>6, <1>8, <1>10
<1> QED BY <1>9, <1>10

LEMMA ChatStep ==
  ASSUME ChatInv, Chat!Next
  PROVE  ChatInv'
<1> PICK c \in Call :
      \/ Chat!Unknown(c) \/ Chat!Ask(c) \/ Chat!Answer(c) \/ Chat!AnswerLost(c) \/ Chat!Reject(c)
      \/ Chat!RecordFailure(c) \/ Chat!FailureLost(c) \/ Chat!Die(c)
  BY DEF Chat!Next
<1>1. CASE Chat!Unknown(c)
  BY <1>1, ChatQuiet DEF Chat!Unknown, Chat!logVars, ChatPc
<1>2. CASE Chat!Ask(c)
  BY <1>2, ChatQuiet DEF Chat!Ask, Chat!logVars, ChatPc
<1>3. CASE Chat!Answer(c)
  BY <1>3, ChatWrites DEF Chat!Answer
<1>4. CASE Chat!AnswerLost(c)
  BY <1>4, ChatQuiet, ChatWrites DEF Chat!AnswerLost, Chat!RecordThrows, Chat!logVars, ChatPc
<1>5. CASE Chat!Reject(c)
  BY <1>5, ChatQuiet DEF Chat!Reject, Chat!logVars, ChatPc
<1>6. CASE Chat!RecordFailure(c)
  BY <1>6, ChatWrites DEF Chat!RecordFailure
<1>7. CASE Chat!FailureLost(c)
  BY <1>7, ChatQuiet, ChatWrites DEF Chat!FailureLost, Chat!RecordThrows, Chat!logVars, ChatPc
<1>8. CASE Chat!Die(c)
  BY <1>8, ChatQuiet, ChatWrites DEF Chat!Die, Chat!logVars, ChatPc
<1> QED BY <1>1, <1>2, <1>3, <1>4, <1>5, <1>6, <1>7, <1>8

\* Every call of chatWithMetrics() has one line at most, and of those that wrote
\* theirs without an error no more are missing than appends broke off.
THEOREM EveryCallCountedOnce == HomeSpec => []CallsAreCounted
<1> DEFINE Inv == part = "chat" => ChatInv
<1>1. HomeInit => Inv
  <2>1. ASSUME Chat!Init
        PROVE  ChatInv
    <3>1. Uncounted = {}
      BY <2>1 DEF Chat!Init, Uncounted
    <3>2. rows = <<>> /\ logTail = "ended" /\ logTears = 0
      BY <2>1 DEF Chat!Init, Chat!InitLog
    <3> QED BY <2>1, <3>1, <3>2, FS_EmptySet DEF Chat!Init, ChatInv, ChatPc
  <2> QED BY <2>1 DEF HomeInit
<1>2. Inv /\ [HomeNext]_homeVars => Inv'
  <2> SUFFICES ASSUME Inv, [HomeNext]_homeVars, part' = "chat"
               PROVE  ChatInv'
    OBVIOUS
  <2>1. CASE Chat!Next /\ part = "chat"
    BY <2>1, ChatStep
  <2>2. CASE UNCHANGED homeVars
    <3>1. Uncounted' = Uncounted
      BY <2>2 DEF homeVars, logOf, chatOf, Uncounted
    <3> QED BY <2>2, <3>1 DEF homeVars, logOf, chatOf, ChatInv
  <2> QED
    BY <2>1, <2>2 DEF HomeNext, StorePart, ChatPart, StatePart, SnapshotPart, VisibilityPart, AcrossPart
<1>3. Inv => CallsAreCounted
  <2> SUFFICES ASSUME ChatInv
               PROVE  Chat!CountedOnce /\ Chat!TearCostsOneLine
    BY DEF CallsAreCounted, Chat!CallsAreCounted
  <2>1. DOMAIN rows = 1..Len(rows)
    BY LenProperties DEF ChatInv
  <2>2. Chat!CountedOnce
    BY <2>1 DEF ChatInv, Chat!CountedOnce
  <2>3. Cardinality(Uncounted) \in Nat /\ Cardinality(Uncounted) <= logTears
    <3>1. IsFiniteSet(Uncounted)
      BY DEF ChatInv
    <3>2. Cardinality(Uncounted) \in Nat
      BY <3>1, FS_CardinalityType
    <3> QED BY <3>2 DEF ChatInv
  <2>4. \A S : Chat!Cardinality(S) = Cardinality(S)
    BY Zenon DEF Chat!Cardinality, Cardinality
  <2> QED BY <2>2, <2>3, <2>4, Zenon DEF Chat!TearCostsOneLine, Uncounted
<1> QED BY <1>1, <1>2, <1>3, PTL DEF HomeSpec

-----------------------------------------------------------------------------
(* The operational state.                                                  *)

Fails(list) == \E i \in DOMAIN list : list[i].verdict = "fail"

\* The audit is ok if and only if no decision it lists failed, and it finds
\* gov-fail-verdicts otherwise.
LEMMA AuditTells ==
  ASSUME NEW rules, NEW list
  PROVE  LET audit == State!AuditGovernance(rules, list, "skipped")
         IN  /\ audit.ok = ~Fails(list)
             /\ (\E f \in audit.findings : f.id = "gov-fail-verdicts") <=> Fails(list)
<1> DEFINE audit == State!AuditGovernance(rules, list, "skipped")
<1>1. Fails(list) => State!Finding("gov-fail-verdicts", "error") \in audit.findings
  BY DEF State!AuditGovernance, Fails
<1>2. ASSUME NEW f \in audit.findings, f.id = "gov-fail-verdicts"
      PROVE  Fails(list)
  BY <1>2 DEF State!AuditGovernance, State!Finding, Fails
<1>3. ASSUME NEW f \in audit.findings, f.severity = "error"
      PROVE  Fails(list)
  BY <1>3 DEF State!AuditGovernance, State!Finding, Fails
<1>4. audit.ok = ~\E f \in audit.findings : f.severity = "error"
  BY DEF State!AuditGovernance
<1>5. LET f == State!Finding("gov-fail-verdicts", "error")
      IN  f.id = "gov-fail-verdicts" /\ f.severity = "error"
  BY DEF State!Finding
<1> HIDE DEF audit
<1> QED BY <1>1, <1>2, <1>3, <1>4, <1>5 DEF audit

\* So does the attention list built on it.
LEMMA AttentionTells ==
  ASSUME NEW s \in Surroundings, NEW findings
  PROVE  (\E item \in State!BuildAttention(s, findings) : item.id = "gov-fail-verdicts")
           <=> \E f \in findings : f.id = "gov-fail-verdicts"
<1>1. ASSUME NEW f \in findings, f.id = "gov-fail-verdicts"
      PROVE  f \in State!BuildAttention(s, findings)
  BY <1>1 DEF State!BuildAttention
<1>2. ASSUME NEW item \in State!BuildAttention(s, findings), item.id = "gov-fail-verdicts"
      PROVE  item \in findings
  BY <1>2, StateAssumption DEF State!BuildAttention, State!Item
<1> QED BY <1>1, <1>2

\* What the newest rows of the journal are.
LEMMA ListingTells ==
  ASSUME NEW S, rows \in Seq(S), NEW limit \in Nat \ {0}
  PROVE  LET list == State!ListDecisions(limit)
         IN  /\ Len(list) = IF Len(rows) > limit THEN limit ELSE Len(rows)
             /\ Fails(list) <=>
                  \E i \in 1..Len(rows) : i > Len(rows) - limit /\ rows[i].verdict = "fail"
<1> DEFINE n    == Len(rows)
           from == IF limit = 0 \/ limit > n THEN 1 ELSE n - limit + 1
           sub  == SubSeq(rows, from, n)
           m    == n - from + 1
           list == State!ListDecisions(limit)
<1>1. n \in Nat /\ \A i \in 1..n : rows[i] \in S
  BY LenProperties, ElementOfSeq
<1> HIDE DEF n
<1>2. from \in Nat \ {0} /\ m \in Nat /\ m = IF n > limit THEN limit ELSE n
  BY <1>1
<1>3. sub \in Seq(S) /\ Len(sub) = m /\ \A i \in 1..m : sub[i] = rows[from + i - 1]
  <2>1. \A i \in from..n : rows[i] \in S
    BY <1>1, <1>2
  <2>2. /\ sub \in Seq(S)
        /\ Len(sub) = IF from <= n THEN n - from + 1 ELSE 0
        /\ \A i \in 1..n - from + 1 : sub[i] = rows[from + i - 1]
    BY <1>1, <1>2, <2>1, SubSeqProperties
  <2> QED BY <1>1, <1>2, <2>2
<1>4. list = [i \in 1..m |-> sub[(m - i) + 1]]
  BY <1>3, Zenon DEF State!ListDecisions, State!Reverse, n
<1>5. Len(list) = m /\ DOMAIN list = 1..m
  BY <1>2, <1>4, LenProperties
<1> HIDE DEF m, sub, from, list
<1>6. \A i \in 1..m : list[i] = rows[n - i + 1]
  <2> SUFFICES ASSUME NEW i \in 1..m PROVE list[i] = rows[n - i + 1]
    OBVIOUS
  <2>1. (m - i) + 1 \in 1..m /\ from + ((m - i) + 1) - 1 = n - i + 1
    BY <1>1, <1>2 DEF m
  <2>2. list[i] = sub[(m - i) + 1]
    BY <1>4
  <2> QED BY <1>3, <2>1, <2>2
<1>7. ASSUME Fails(list)
      PROVE  \E i \in 1..n : i > n - limit /\ rows[i].verdict = "fail"
  <2>1. PICK k \in 1..m : list[k].verdict = "fail"
    BY <1>5, <1>7 DEF Fails
  <2>2. n - k + 1 \in 1..n /\ n - k + 1 > n - limit
    BY <1>1, <1>2
  <2> QED BY <1>6, <2>1, <2>2
<1>8. ASSUME NEW i \in 1..n, i > n - limit, rows[i].verdict = "fail"
      PROVE  Fails(list)
  <2>1. n - i + 1 \in 1..m /\ n - (n - i + 1) + 1 = i
    BY <1>1, <1>2, <1>8
  <2> QED BY <1>5, <1>6, <1>8, <2>1 DEF Fails
<1> QED BY <1>2, <1>5, <1>7, <1>8 DEF list, n

Recorded == {State!Decision(input) : input \in Inputs}

FailureShown == \E g \in been : g.failing = State!Shows("gov-fail-verdicts")
VerdictTrue == \E g \in been : g.failing = ~report.ok
CountTrue ==
  \E g \in been :
    report.count = IF g.count > State!CountLimit THEN State!CountLimit ELSE g.count
FocusTrue ==
  report.focus.ok =>
    \E g \in been : g.workspaces[report.focus.id] = "sound"
                    \/ listed[report.focus.id] = "absent"

\* From its listing on, a call remembers the home as it is and as it was
\* listed, and each part of the report, once it is there, is of some such
\* moment.
StateInv ==
  /\ rows \in Seq(Recorded)
  /\ logTail = "open" => Len(rows) > 0
  /\ report = [attention |-> report.attention, focus |-> report.focus,
               count |-> report.count, ok |-> report.ok]
  /\ statePc \in {"idle", "rejected", "health", "catalog", "count", "audit", "done"}
  /\ statePc \notin {"idle", "rejected"} =>
       State!Glimpse \in been /\ \E g \in been : g.workspaces = listed
  /\ statePc \in {"catalog", "count", "audit", "done"} => FailureShown
  /\ statePc \in {"count", "audit", "done"} => FocusTrue
  /\ statePc \in {"audit", "done"} => CountTrue
  /\ statePc = "done" => VerdictTrue

\* What others do to the home adds to what a call may report.
LEMMA OthersKeep ==
  ASSUME StateInv, rows' \in Seq(Recorded), logTail' = "open" => Len(rows') > 0,
         UNCHANGED <<statePc, asked, listed, mustIds, report>>, State!Watched
  PROVE  StateInv'
<1>1. been \subseteq been'
  BY DEF State!Watched
<1>2. statePc # "idle" => State!Glimpse' \in been'
  BY DEF State!Watched
<1>3. /\ FailureShown => FailureShown'
      /\ VerdictTrue => VerdictTrue'
      /\ CountTrue => CountTrue'
      /\ FocusTrue => FocusTrue'
      /\ (\E g \in been : g.workspaces = listed) => (\E g \in been' : g.workspaces = listed')
  BY <1>1 DEF FailureShown, VerdictTrue, CountTrue, FocusTrue, State!Shows
<1> QED BY <1>2, <1>3 DEF StateInv

\* A row recorded is a row of the journal, and so is one torn before its end.
LEMMA RecordKeepsRows ==
  ASSUME StateInv, NEW input \in Inputs, State!RecordDecision(input)
  PROVE  rows' \in Seq(Recorded) /\ (logTail' = "open" => Len(rows') > 0)
<1> DEFINE row == State!Decision(input)
<1>1. row \in Recorded /\ rows \in Seq(Recorded)
  BY DEF Recorded, StateInv
<1> HIDE DEF row
<1>2. /\ Chat!Unjoined \in Seq(Recorded)
      /\ Chat!With(row) = IF logTail = "ended" THEN Append(rows, row) ELSE Chat!Unjoined
  BY <1>1, LogRows DEF StateInv
<1>3. State!Unjoined = Chat!Unjoined /\ State!With(row) = Chat!With(row)
  BY DEF State!Unjoined, State!With, State!Front, Chat!Unjoined, Chat!With, Chat!Front
<1>4. /\ Append(rows, row) \in Seq(Recorded) /\ Len(Append(rows, row)) = Len(rows) + 1
      /\ Len(rows) \in Nat
  BY <1>1, AppendProperties, LenProperties
<1>5. CASE State!Refused(input)
  BY <1>5 DEF StateInv, State!RecordDecision, State!logVars
<1>6. CASE ~State!Refused(input)
  <2>1. \/ rows' = State!With(row) /\ logTail' = "ended"
        \/ rows' = State!Unjoined /\ logTail' = "cut"
        \/ rows' = State!With(row) /\ logTail' = IF logTail = "ended" THEN "open" ELSE "cut"
    BY <1>6 DEF State!RecordDecision, State!RecordMetricEvent, State!Tear, row
  <2>2. State!With(row) \in Seq(Recorded) /\ State!Unjoined \in Seq(Recorded)
    BY <1>2, <1>3, <1>4
  <2>3. logTail' = "open" => logTail = "ended" /\ rows' = State!With(row)
    BY <2>1
  <2>4. logTail = "ended" => Len(State!With(row)) > 0
    BY <1>2, <1>3, <1>4
  <2> QED BY <2>1, <2>2, <2>3, <2>4
<1> QED BY <1>5, <1>6

\* A step of the call itself leaves the home alone.
LEMMA HomeStays ==
  ASSUME UNCHANGED State!home
  PROVE  State!Glimpse' = State!Glimpse
BY DEF State!home, State!logVars, State!Glimpse, State!AnyFailed

\* What the journal lists for the audit is what was glimpsed of it.
LEMMA AuditGlimpses ==
  ASSUME StateInv, NEW rules
  PROVE  LET audit == State!AuditGovernance(rules, State!ListDecisions(DecisionLimit), "skipped")
         IN  /\ State!Glimpse.failing = ~audit.ok
             /\ \A s \in Surroundings :
                  State!Glimpse.failing =
                    \E item \in State!BuildAttention(s, audit.findings) : item.id = "gov-fail-verdicts"
<1> DEFINE list == State!ListDecisions(DecisionLimit)
           audit == State!AuditGovernance(rules, list, "skipped")
<1>1. rows \in Seq(Recorded) /\ DecisionLimit \in Nat \ {0}
  BY StateAssumption DEF StateInv
<1>2. Fails(list) <=> \E i \in 1..Len(rows) : i > Len(rows) - DecisionLimit /\ rows[i].verdict = "fail"
  BY <1>1, ListingTells
<1>3. State!AnyFailed <=> Fails(list)
  BY <1>1, <1>2, LenProperties DEF State!AnyFailed
<1>4. audit.ok = ~Fails(list) /\ ((\E f \in audit.findings : f.id = "gov-fail-verdicts") <=> Fails(list))
  BY AuditTells
<1>5. \A s \in Surroundings :
        (\E item \in State!BuildAttention(s, audit.findings) : item.id = "gov-fail-verdicts")
          <=> Fails(list)
  BY <1>4, AttentionTells
<1>6. State!Glimpse.failing = State!AnyFailed
  BY DEF State!Glimpse
<1> HIDE DEF list, audit
<1>7. State!Glimpse.failing = Fails(list)
  BY <1>3, <1>6 DEF State!AnyFailed, Fails
<1> QED BY <1>4, <1>5, <1>7 DEF list, audit, Fails

\* A step of the call, of which each reads the home at one moment.
LEMMA CallStep ==
  ASSUME StateInv,
         \/ \E focus \in Workspace \union {"none"} : State!Begin(focus)
         \/ \E s \in Surroundings : State!Assess(s)
         \/ State!CatalogThrows \/ State!Focus \/ State!Count \/ State!AuditAgain
  PROVE  StateInv'
<1>1. UNCHANGED State!home
  BY DEF State!Begin, State!Assess, State!CatalogThrows, State!Focus, State!Count,
         State!AuditAgain, State!Reject
<1>2. State!Glimpse' = State!Glimpse /\ UNCHANGED <<rows, logTail, workspaces, policyFile>>
  BY <1>1, HomeStays DEF State!home, State!logVars
<1>3. CASE State!Reject
  BY <1>2, <1>3 DEF State!Reject, StateInv
<1>4. ASSUME NEW focus, State!Begin(focus), ~State!Reject
      PROVE  StateInv'
  <2>1. /\ statePc' = "health" /\ listed' = workspaces /\ been' = {State!Glimpse}
        /\ report' = report
    BY <1>4 DEF State!Begin
  <2>2. State!Glimpse.workspaces = workspaces
    BY DEF State!Glimpse
  <2> QED BY <1>2, <2>1, <2>2 DEF StateInv
<1>5. ASSUME NEW s \in Surroundings, State!Assess(s), ~State!Reject
      PROVE  StateInv'
  <2> DEFINE audit ==
        State!AuditGovernance(State!Load.rules, State!ListDecisions(DecisionLimit), "skipped")
  <2>1. /\ statePc = "health" /\ statePc' = "catalog" /\ listed' = listed /\ been' = been
        /\ report' = [report EXCEPT !.attention = State!BuildAttention(s, audit.findings)]
    BY <1>5 DEF State!Assess
  <2>2. State!Glimpse \in been
    BY <2>1 DEF StateInv
  <2>3. State!Glimpse.failing =
          \E item \in State!BuildAttention(s, audit.findings) : item.id = "gov-fail-verdicts"
    BY AuditGlimpses
  <2>4. /\ report' = [attention |-> report'.attention, focus |-> report'.focus,
                      count |-> report'.count, ok |-> report'.ok]
        /\ report'.attention = State!BuildAttention(s, audit.findings)
    BY <2>1 DEF StateInv
  <2> HIDE DEF audit
  <2>5. FailureShown'
    BY <2>1, <2>2, <2>3, <2>4 DEF FailureShown, State!Shows
  <2> QED BY <1>2, <2>1, <2>4, <2>5 DEF StateInv
<1>6. CASE State!Focus
  <2>1. /\ statePc = "catalog" /\ statePc' = "count" /\ listed' = listed /\ been' = been
        /\ asked' = asked
    BY <1>6 DEF State!Focus
  <2>2. /\ report' = [attention |-> report'.attention, focus |-> report'.focus,
                      count |-> report'.count, ok |-> report'.ok]
        /\ report'.attention = report.attention
    BY <1>6 DEF State!Focus, StateInv
  <2>3. FailureShown'
    BY <2>1, <2>2 DEF FailureShown, State!Shows, StateInv
  <2>4. report'.focus.ok =>
          listed[report'.focus.id] = "sound" \/ listed[report'.focus.id] = "absent"
    <3>1. CASE asked # "none" /\ workspaces[asked] # "absent"
      BY <1>6, <3>1 DEF State!Focus, State!Registered, StateInv
    <3>2. CASE asked = "none" /\ State!Cardinality(State!Sole) = 1
      <4>1. State!Cardinality(State!Sole) = Cardinality(State!Sole)
        BY Zenon DEF State!Cardinality, Cardinality
      <4>2. IsFiniteSet(State!Sole)
        BY StateAssumption, FS_Subset DEF State!Sole
      <4>3. PICK w : State!Sole = {w}
        BY <3>2, <4>1, <4>2, FS_Singleton
      <4>4. report'.focus = [id |-> CHOOSE v \in State!Sole : TRUE,
                             ok |-> \E v \in State!Sole : listed[v] = "sound"]
        BY <1>6, <3>2 DEF State!Focus, StateInv
      <4>5. (CHOOSE v \in State!Sole : TRUE) = w
        BY <4>3
      <4> QED BY <4>3, <4>4, <4>5
    <3>3. CASE /\ ~(asked # "none" /\ workspaces[asked] # "absent")
               /\ ~(asked = "none" /\ State!Cardinality(State!Sole) = 1)
      BY <1>6, <3>3 DEF State!Focus, State!NoFocus, StateInv
    <3> QED BY <3>1, <3>2, <3>3
  <2>5. FocusTrue'
    <3>1. \E g \in been : g.workspaces = listed
      BY <2>1 DEF StateInv
    <3> QED BY <2>1, <2>4, <3>1 DEF FocusTrue
  <2> QED BY <1>2, <2>1, <2>2, <2>3, <2>5 DEF StateInv
<1>7. CASE State!Count
  <2>1. /\ statePc = "count" /\ statePc' = "audit" /\ listed' = listed /\ been' = been
        /\ report' = [report EXCEPT !.count = Len(State!ListDecisions(State!CountLimit))]
    BY <1>7 DEF State!Count
  <2>2. /\ report' = [attention |-> report'.attention, focus |-> report'.focus,
                      count |-> report'.count, ok |-> report'.ok]
        /\ report'.attention = report.attention /\ report'.focus = report.focus
        /\ report'.count = Len(State!ListDecisions(State!CountLimit))
    BY <2>1 DEF StateInv
  <2>3. FailureShown' /\ FocusTrue'
    BY <2>1, <2>2 DEF FailureShown, FocusTrue, State!Shows, StateInv
  <2>4. Len(State!ListDecisions(State!CountLimit)) =
          IF Len(rows) > State!CountLimit THEN State!CountLimit ELSE Len(rows)
    <3>1. rows \in Seq(Recorded) /\ State!CountLimit \in Nat \ {0}
      BY DEF StateInv, State!CountLimit
    <3> QED BY <3>1, ListingTells
  <2>5. State!Glimpse \in been /\ State!Glimpse.count = Len(rows)
    BY <2>1 DEF StateInv, State!Glimpse
  <2>6. CountTrue'
    BY <2>1, <2>2, <2>4, <2>5 DEF CountTrue
  <2> QED BY <1>2, <2>1, <2>2, <2>3, <2>6 DEF StateInv
<1>8. CASE State!AuditAgain /\ ~State!Reject
  <2> DEFINE audit ==
        State!AuditGovernance(State!Load.rules, State!ListDecisions(DecisionLimit), "skipped")
  <2>1. /\ statePc = "audit" /\ statePc' = "done" /\ listed' = listed /\ been' = been
        /\ report' = [report EXCEPT !.ok = audit.ok]
    BY <1>8 DEF State!AuditAgain
  <2>2. State!Glimpse \in been /\ State!Glimpse.failing = ~audit.ok
    BY <2>1, AuditGlimpses DEF StateInv
  <2> HIDE DEF audit
  <2>3. /\ report' = [attention |-> report'.attention, focus |-> report'.focus,
                      count |-> report'.count, ok |-> report'.ok]
        /\ report'.attention = report.attention /\ report'.focus = report.focus
        /\ report'.count = report.count /\ report'.ok = audit.ok
    BY <2>1 DEF StateInv
  <2>4. FailureShown' /\ FocusTrue' /\ CountTrue'
    BY <2>1, <2>3 DEF FailureShown, FocusTrue, CountTrue, State!Shows, StateInv
  <2>5. VerdictTrue'
    BY <2>1, <2>2, <2>3 DEF VerdictTrue
  <2> QED BY <1>2, <2>1, <2>3, <2>4, <2>5 DEF StateInv
<1> QED
  BY <1>3, <1>4, <1>5, <1>6, <1>7, <1>8 DEF State!CatalogThrows

-----------------------------------------------------------------------------
(* The operational state of a home that stands still.                      *)

StateRule == [id : STRING, severity : STRING]

\* The ids of the rules of a list that bind.
Binding(rules) == {rules[i].id : i \in {k \in DOMAIN rules : rules[k].severity = "must"}}

\* What is left of a list is the same for the policy engine.
LEMMA SameAt ==
  \A list, places : State!At(list, places) = At(list, places)
BY Zenon DEF State!At, State!Rank, State!Cardinality, At, Rank, Cardinality

\* The rules that bind are told by their ids, once each.
LEMMA MustIdsBind ==
  ASSUME NEW S, NEW rules, rules \in Seq(S)
  PROVE  State!ToSet(State!MustIds(rules)) = Binding(rules)
<1> DEFINE places == {k \in 1..Len(rules) : rules[k].severity = "must"}
<1>1. Len(rules) \in Nat /\ DOMAIN rules = 1..Len(rules) /\ \A i \in 1..Len(rules) : rules[i] \in S
  BY LenProperties, ElementOfSeq
<1>2. PICK must : must = At(rules, places)
  OBVIOUS
<1>3. must \in Seq(S) /\ Draws(must, rules, places)
  BY <1>1, <1>2, AtElements
<1>4. State!MustIds(rules) = [i \in DOMAIN must |-> must[i].id]
  BY <1>1, <1>2, SameAt DEF State!MustIds
<1>5. State!ToSet(State!MustIds(rules)) = {must[i].id : i \in DOMAIN must}
  BY <1>4 DEF State!ToSet
<1>6. DOMAIN must = 1..Len(must)
  BY <1>3
<1>7. ASSUME NEW j \in 1..Len(must)
      PROVE  must[j].id \in Binding(rules)
  <2>1. PICK i \in places : must[j] = rules[i]
    BY <1>3 DEF Draws
  <2> QED BY <1>1, <2>1 DEF Binding
<1>8. ASSUME NEW id \in Binding(rules)
      PROVE  \E j \in 1..Len(must) : must[j].id = id
  <2>1. PICK i \in places : rules[i].id = id
    BY <1>1, <1>8 DEF Binding
  <2>2. \E j \in 1..Len(must) : must[j] = rules[i]
    BY <1>3 DEF Draws
  <2> QED BY <2>1, <2>2
<1> QED BY <1>5, <1>6, <1>7, <1>8

\* The rules of the home: those built in that its file does not name, and its
\* own.
LEMMA RulesOfHome ==
  ASSUME policyFile \in PolicyFiles \union {State!NoFile}, State!Load.ok
  PROVE  State!ToSet(State!MustIds(State!Load.rules)) = State!MustBind
<1> PICK base : base = State!DefaultPolicies
  OBVIOUS
<1> DEFINE Built == {base[i] : i \in 1..5}
<1>1. /\ base \in Seq(Built) /\ Len(base) = 5 /\ DOMAIN base = 1..5
      /\ \A i \in 1..5 : base[i] \in Built /\ base[i].severity = "must"
  <2>1. DOMAIN base = 1..5 /\ base = [i \in 1..5 |-> base[i]]
    BY DEF State!DefaultPolicies
  <2>2. \A i \in 1..5 : base[i].severity = "must"
    BY DEF State!DefaultPolicies
  <2>3. base \in [1..5 -> Built]
    BY <2>1
  <2> HIDE DEF Built
  <2>4. base \in Seq(Built) /\ Len(base) = 5
    BY <2>3
  <2> QED BY <2>2, <2>3, <2>4
<1> HIDE DEF Built
<1>2. Binding(base) = State!IdsOf(base)
  BY <1>1 DEF Binding, State!IdsOf
<1>3. policyFile.rules \in Seq(StateRule) /\ (policyFile.absent => policyFile.rules = <<>>)
  <2>1. CASE policyFile \in PolicyFiles
    BY <2>1, StateAssumption DEF StateRule
  <2>2. CASE policyFile = State!NoFile
    <3>1. policyFile.rules = <<>>
      BY <2>2 DEF State!NoFile
    <3> QED BY <3>1
  <2> QED BY <2>1, <2>2
<1>4. CASE policyFile.absent
  <2>1. State!Load.rules = base
    BY <1>4 DEF State!Load, State!LoadPolicies, State!ResolveConfigPath
  <2>2. State!MustBind = State!IdsOf(base)
    BY <1>3, <1>4 DEF State!MustBind, State!ToSet, State!IdsOf
  <2> QED BY <1>1, <1>2, <2>1, <2>2, MustIdsBind
<1>5. CASE ~policyFile.absent
  <2> PICK own : own = policyFile.rules
    OBVIOUS
  <2> DEFINE places == {i \in 1..5 : base[i].id \notin State!IdsOf(own)}
  <2>1. PICK kept : kept = At(base, places)
    OBVIOUS
  <2>2. kept \in Seq(Built) /\ Draws(kept, base, places)
    <3>1. \A i \in places : base[i] \in Built
      BY <1>1
    <3> QED BY <2>1, <3>1, AtElements
  <2>3. State!Load.rules = kept \o own
    BY <1>1, <1>5, <2>1, SameAt DEF State!Load, State!LoadPolicies, State!ResolveConfigPath, State!MergePolicies
  <2>4. kept \o own \in Seq(Built \union StateRule)
    BY <1>3, <2>2
  <2>5. Binding(kept \o own) = Binding(kept) \union Binding(own)
    <3>1. /\ Len(kept) \in Nat /\ Len(own) \in Nat /\ DOMAIN kept = 1..Len(kept) /\ DOMAIN own = 1..Len(own)
          /\ Len(kept \o own) = Len(kept) + Len(own) /\ DOMAIN (kept \o own) = 1..Len(kept) + Len(own)
          /\ \A i \in 1..Len(kept) + Len(own) :
               (kept \o own)[i] = IF i <= Len(kept) THEN kept[i] ELSE own[i - Len(kept)]
      BY <1>3, <2>2
    <3> PICK both : both = kept \o own
      OBVIOUS
    <3>2. ASSUME NEW i \in 1..Len(kept) + Len(own), both[i].severity = "must"
          PROVE  both[i].id \in Binding(kept) \union Binding(own)
      <4>1. CASE i <= Len(kept)
        BY <3>1, <3>2, <4>1 DEF Binding
      <4>2. CASE ~(i <= Len(kept))
        <5>1. i - Len(kept) \in 1..Len(own) /\ both[i] = own[i - Len(kept)]
          BY <3>1, <4>2
        <5> QED BY <3>1, <3>2, <5>1 DEF Binding
      <4> QED BY <4>1, <4>2
    <3>3. ASSUME NEW i \in 1..Len(kept), kept[i].severity = "must"
          PROVE  kept[i].id \in Binding(both)
      BY <3>1, <3>3 DEF Binding
    <3>4. ASSUME NEW i \in 1..Len(own), own[i].severity = "must"
          PROVE  own[i].id \in Binding(both)
      <4>1. Len(kept) + i \in 1..Len(kept) + Len(own) /\ both[Len(kept) + i] = own[i]
        BY <3>1
      <4> QED BY <3>1, <3>4, <4>1 DEF Binding
    <3>5. \A id : id \in Binding(both) <=> \E i \in 1..Len(kept) + Len(own) :
            both[i].severity = "must" /\ id = both[i].id
      BY <3>1 DEF Binding
    <3>6. \A id : id \in Binding(kept) <=> \E i \in 1..Len(kept) : kept[i].severity = "must" /\ id = kept[i].id
      BY <3>1 DEF Binding
    <3>7. \A id : id \in Binding(own) <=> \E i \in 1..Len(own) : own[i].severity = "must" /\ id = own[i].id
      BY <3>1 DEF Binding
    <3> QED BY <3>2, <3>3, <3>4, <3>5, <3>6, <3>7
  <2>6. Binding(kept) = State!IdsOf(base) \ State!IdsOf(own)
    <3>1. DOMAIN kept = 1..Len(kept)
      BY <2>2
    <3>2. ASSUME NEW j \in 1..Len(kept)
          PROVE  kept[j].id \in State!IdsOf(base) \ State!IdsOf(own)
      <4>1. PICK i \in places : kept[j] = base[i]
        BY <2>2 DEF Draws
      <4>2. base[i].id \in State!IdsOf(base)
        BY <1>1 DEF State!IdsOf
      <4> QED BY <4>1, <4>2
    <3>3. ASSUME NEW id \in State!IdsOf(base), id \notin State!IdsOf(own)
          PROVE  id \in Binding(kept)
      <4>1. PICK i \in 1..5 : base[i].id = id
        BY <1>1 DEF State!IdsOf
      <4>2. i \in places
        BY <3>3, <4>1
      <4>3. PICK j \in 1..Len(kept) : kept[j] = base[i]
        BY <2>2, <4>2 DEF Draws
      <4> QED BY <1>1, <3>1, <4>1, <4>3 DEF Binding
    <3> QED BY <3>1, <3>2, <3>3 DEF Binding
  <2>7. Binding(own) = {r.id : r \in {q \in State!ToSet(own) : q.severity = "must"}}
    BY DEF Binding, State!ToSet
  <2> QED BY <2>3, <2>4, <2>5, <2>6, <2>7, MustIdsBind DEF State!MustBind
<1> QED BY <1>4, <1>5

\* Nothing the call could see has changed since it began.
Still == \A g \in been : g = State!Glimpse

FocusAgrees ==
  report.focus.id # "none" => (report.focus.ok <=> workspaces[report.focus.id] = "sound")

\* While the home stands still, what the call read of it is what it holds.
StillInv ==
  /\ IsFiniteSet(been)
  /\ policyFile \in PolicyFiles \union {State!NoFile}
  /\ statePc = "done" => report.ok \in BOOLEAN
  /\ Still /\ statePc \notin {"idle", "rejected"} => State!ToSet(mustIds) = State!MustBind
  /\ Still /\ statePc \in {"count", "audit", "done"} => FocusAgrees

\* A home that others change stands still no longer.
LEMMA OthersMove ==
  ASSUME StateInv, StillInv, statePc \notin {"done", "rejected"},
         UNCHANGED <<statePc, mustIds, report>>, State!Watched,
         policyFile' \in PolicyFiles \union {State!NoFile}
  PROVE  StillInv'
<1>1. been' \in {been, been \union {State!Glimpse'}}
  BY DEF State!Watched
<1>2. IsFiniteSet(been')
  <2>1. IsFiniteSet(been)
    BY DEF StillInv
  <2> QED BY <1>1, <2>1, FS_AddElement
<1>3. ASSUME Still', statePc # "idle"
      PROVE  Still /\ workspaces' = workspaces /\ policyFile' = policyFile
  <2>1. State!Glimpse \in been
    BY <1>3 DEF StateInv
  <2>2. State!Glimpse = State!Glimpse'
    BY <1>1, <1>3, <2>1 DEF Still
  <2>3. Still
    BY <1>1, <1>3, <2>2 DEF Still
  <2>4. workspaces' = workspaces /\ policyFile' = policyFile
    BY <2>2 DEF State!Glimpse
  <2> QED BY <2>3, <2>4
<1>4. ASSUME Still', statePc # "idle"
      PROVE  State!ToSet(mustIds)' = State!MustBind'
  <2>1. State!ToSet(mustIds) = State!MustBind
    BY <1>3, <1>4 DEF StillInv
  <2>2. State!MustBind' = State!MustBind
    BY <1>3, <1>4 DEF State!MustBind
  <2> QED BY <2>1, <2>2
<1>5. ASSUME Still', statePc \in {"count", "audit", "done"}
      PROVE  FocusAgrees'
  <2>1. FocusAgrees /\ workspaces' = workspaces
    BY <1>3, <1>5 DEF StillInv
  <2> QED BY <2>1 DEF FocusAgrees
<1> QED BY <1>2, <1>4, <1>5 DEF StillInv

\* A step of the call.
LEMMA CallReads ==
  ASSUME StateInv, StillInv,
         \/ \E focus \in Workspace \union {"none"} : State!Begin(focus)
         \/ \E s \in Surroundings : State!Assess(s)
         \/ State!CatalogThrows \/ State!Focus \/ State!Count \/ State!AuditAgain
  PROVE  StillInv'
<1>1. UNCHANGED State!home
  BY DEF State!Begin, State!Assess, State!CatalogThrows, State!Focus, State!Count,
         State!AuditAgain, State!Reject
<1>2. State!Glimpse' = State!Glimpse /\ UNCHANGED <<workspaces, policyFile>>
  BY <1>1, HomeStays DEF State!home
<1>3. State!MustBind' = State!MustBind
  BY <1>2 DEF State!MustBind
<1>4. CASE State!Reject
  BY <1>2, <1>4 DEF State!Reject, StillInv, Still
<1>5. ASSUME NEW focus, State!Begin(focus), ~State!Reject
      PROVE  StillInv'
  <2>1. /\ statePc' = "health" /\ mustIds' = State!MustIds(State!Load.rules)
        /\ been' = {State!Glimpse} /\ State!Load.ok
    BY <1>5 DEF State!Begin
  <2>2. State!ToSet(mustIds)' = State!MustBind
    BY <2>1, RulesOfHome DEF StillInv
  <2> QED BY <1>2, <1>3, <2>1, <2>2, FS_Singleton DEF StillInv
<1>6. ASSUME been' = been, mustIds' = mustIds, Still => Still,
             statePc \notin {"idle", "rejected"},
             statePc' = "done" => report'.ok \in BOOLEAN,
             Still /\ statePc' \in {"count", "audit", "done"} => FocusAgrees'
      PROVE  StillInv'
  <2>1. Still' = Still
    BY <1>2, <1>6 DEF Still
  <2>2. Still => State!ToSet(mustIds)' = State!MustBind'
    BY <1>3, <1>6 DEF StillInv
  <2> QED BY <1>2, <1>6, <2>1, <2>2 DEF StillInv
<1>7. ASSUME NEW s \in Surroundings, State!Assess(s), ~State!Reject
      PROVE  StillInv'
  BY <1>6, <1>7 DEF State!Assess
<1>8. CASE State!Focus
  <2>1. /\ statePc = "catalog" /\ statePc' = "count" /\ been' = been /\ mustIds' = mustIds
    BY <1>8 DEF State!Focus
  <2>2. ASSUME Still
        PROVE  FocusAgrees'
    <3>1. listed = workspaces
      <4>1. PICK g \in been : g.workspaces = listed
        BY <2>1 DEF StateInv
      <4> QED BY <2>2, <4>1 DEF Still, State!Glimpse
    <3>2. CASE asked # "none" /\ workspaces[asked] # "absent"
      <4>1. /\ report'.focus.id = asked
            /\ report'.focus.ok = (listed[asked] # "absent" => listed[asked] = "sound")
        BY <1>8, <3>2 DEF State!Focus, State!Registered, StateInv
      <4>2. report'.focus.ok = (listed[asked] = "sound")
        BY <3>1, <3>2, <4>1
      <4> QED BY <1>2, <3>1, <4>1, <4>2 DEF FocusAgrees
    <3>3. CASE asked = "none" /\ State!Cardinality(State!Sole) = 1
      <4>1. State!Cardinality(State!Sole) = Cardinality(State!Sole)
        BY Zenon DEF State!Cardinality, Cardinality
      <4>2. IsFiniteSet(State!Sole)
        BY StateAssumption, FS_Subset DEF State!Sole
      <4>3. PICK w : State!Sole = {w}
        BY <3>3, <4>1, <4>2, FS_Singleton
      <4>4. report'.focus = [id |-> CHOOSE v \in State!Sole : TRUE,
                             ok |-> \E v \in State!Sole : listed[v] = "sound"]
        BY <1>8, <3>3 DEF State!Focus, StateInv
      <4>5. (CHOOSE v \in State!Sole : TRUE) = w
        BY <4>3
      <4> QED BY <1>2, <3>1, <4>3, <4>4, <4>5 DEF FocusAgrees
    <3>4. CASE /\ ~(asked # "none" /\ workspaces[asked] # "absent")
               /\ ~(asked = "none" /\ State!Cardinality(State!Sole) = 1)
      BY <1>8, <3>4 DEF State!Focus, State!NoFocus, StateInv, FocusAgrees
    <3> QED BY <3>2, <3>3, <3>4
  <2> QED BY <1>6, <2>1, <2>2
<1>9. CASE State!Count
  <2>1. /\ statePc = "count" /\ statePc' = "audit" /\ been' = been /\ mustIds' = mustIds
        /\ report'.focus = report.focus
    BY <1>9 DEF State!Count, StateInv
  <2>2. Still => FocusAgrees'
    BY <1>2, <2>1 DEF FocusAgrees, StillInv
  <2> QED BY <1>6, <2>1, <2>2
<1>10. CASE State!AuditAgain /\ ~State!Reject
  <2>1. /\ statePc = "audit" /\ statePc' = "done" /\ been' = been /\ mustIds' = mustIds
        /\ report'.focus = report.focus
        /\ report'.ok =
             State!AuditGovernance(State!Load.rules, State!ListDecisions(DecisionLimit), "skipped").ok
    BY <1>10 DEF State!AuditAgain, StateInv
  <2>2. Still => FocusAgrees'
    BY <1>2, <2>1 DEF FocusAgrees, StillInv
  <2>3. report'.ok \in BOOLEAN
    BY <2>1 DEF State!AuditGovernance
  <2> QED BY <1>6, <2>1, <2>2, <2>3
<1> QED
  BY <1>4, <1>5, <1>7, <1>8, <1>9, <1>10 DEF State!CatalogThrows

\* What a call that has ended shows of a home that stood still.
LEMMA StillTells ==
  ASSUME StateInv, StillInv, statePc = "done", Still
  PROVE  /\ report.ok = ~State!Shows("gov-fail-verdicts")
         /\ report.ok /\ report.count <= DecisionLimit =>
              \A i \in DOMAIN rows : rows[i].verdict # "fail"
<1>1. /\ State!Glimpse.failing = State!Shows("gov-fail-verdicts")
      /\ State!Glimpse.failing = ~report.ok
      /\ report.count = IF State!Glimpse.count > State!CountLimit
                          THEN State!CountLimit ELSE State!Glimpse.count
  BY DEF StateInv, Still, FailureShown, VerdictTrue, CountTrue
<1>2. State!Glimpse.failing = State!AnyFailed /\ State!Glimpse.count = Len(rows)
  BY DEF State!Glimpse
<1>3. report.ok \in BOOLEAN /\ rows \in Seq(Recorded)
  BY DEF StillInv, StateInv
<1>4. State!Shows("gov-fail-verdicts") \in BOOLEAN
  BY DEF State!Shows
<1>5. report.ok = ~State!Shows("gov-fail-verdicts")
  BY <1>1, <1>3, <1>4
<1>6. ASSUME report.ok, report.count <= DecisionLimit, NEW i \in DOMAIN rows
      PROVE  rows[i].verdict # "fail"
  <2>1. Len(rows) \in Nat /\ DOMAIN rows = 1..Len(rows)
    BY <1>3, LenProperties
  <2>2. Len(rows) <= DecisionLimit
    BY <1>1, <1>2, <1>6, <2>1, StateAssumption DEF State!CountLimit
  <2>3. i > Len(rows) - DecisionLimit
    BY <2>1, <2>2, StateAssumption
  <2>4. ~State!AnyFailed
    BY <1>1, <1>2, <1>3, <1>6
  <2> QED BY <2>3, <2>4 DEF State!AnyFailed
<1> QED BY <1>5, <1>6

\* Both hold whatever the home holds.
LEMMA HomeState == HomeSpec => [](part = "state" => StateInv /\ StillInv)
<1> DEFINE Inv == part = "state" => StateInv /\ StillInv
<1>1. HomeInit => Inv
  <2>1. ASSUME State!Init
        PROVE  StateInv /\ StillInv
    <3>1. StateInv
      BY <2>1, EmptySeq DEF State!Init, State!InitLog, State!NoReport, StateInv
    <3>2. StillInv
      BY <2>1, FS_EmptySet DEF State!Init, StillInv
    <3> QED BY <3>1, <3>2
  <2> QED BY <2>1 DEF HomeInit
<1>2. Inv /\ [HomeNext]_homeVars => Inv'
  <2> SUFFICES ASSUME Inv, [HomeNext]_homeVars, part' = "state"
               PROVE  StateInv' /\ StillInv'
    OBVIOUS
  <2>1. CASE State!Next /\ part = "state"
    <3>1. ASSUME State!Edit, statePc \notin {"done", "rejected"}
          PROVE  StateInv' /\ StillInv'
      <4>1. UNCHANGED <<rows, logTail, statePc, asked, listed, mustIds, report>> /\ State!Watched
        BY <3>1 DEF State!Edit, State!logVars, State!call
      <4>2. policyFile' \in PolicyFiles \union {State!NoFile}
        BY <2>1, <3>1 DEF State!Edit, StillInv
      <4> QED BY <2>1, <3>1, <4>1, <4>2, OthersKeep, OthersMove DEF StateInv
    <3>2. ASSUME NEW input \in Inputs, State!Record(input), statePc \notin {"done", "rejected"}
          PROVE  StateInv' /\ StillInv'
      <4>1. /\ UNCHANGED <<statePc, asked, listed, mustIds, report, policyFile>>
            /\ State!Watched /\ State!RecordDecision(input)
        BY <3>2 DEF State!Record, State!call
      <4>2. policyFile' \in PolicyFiles \union {State!NoFile}
        BY <2>1, <4>1 DEF StillInv
      <4> QED BY <2>1, <3>2, <4>1, <4>2, OthersKeep, RecordKeepsRows, OthersMove
    <3> QED BY <2>1, <3>1, <3>2, CallStep, CallReads DEF State!Next, State!Others
  <2>2. CASE UNCHANGED homeVars
    <3>1. UNCHANGED <<part, rows, logTail, workspaces, policyFile, statePc, asked, listed,
                      mustIds, report, been>>
      BY <2>2 DEF homeVars, logOf, stateOf
    <3>2. State!Glimpse' = State!Glimpse
      BY <3>1 DEF State!Glimpse, State!AnyFailed
    <3>3. /\ FailureShown => FailureShown'
          /\ VerdictTrue => VerdictTrue'
          /\ CountTrue => CountTrue'
          /\ FocusTrue => FocusTrue'
      BY <3>1 DEF FailureShown, VerdictTrue, CountTrue, FocusTrue, State!Shows
    <3>4. State!MustBind' = State!MustBind /\ Still' = Still /\ FocusAgrees' = FocusAgrees
      BY <3>1, <3>2 DEF State!MustBind, Still, FocusAgrees
    <3>5. StateInv'
      BY <2>2, <3>1, <3>2, <3>3 DEF StateInv
    <3>6. StillInv'
      BY <2>2, <3>1, <3>4 DEF StillInv
    <3> QED BY <3>5, <3>6
  <2> QED
    BY <2>1, <2>2 DEF HomeNext, StorePart, ChatPart, StatePart, SnapshotPart, VisibilityPart, AcrossPart
<1> QED BY <1>1, <1>2, PTL DEF HomeSpec

\* Every part of the state that getOperationalState() returns was true at some
\* moment of its call.
THEOREM ReportsWereTrue == HomeSpec => []ReportWasTrue
<1>1. (part = "state" => StateInv /\ StillInv) => ReportWasTrue
  BY DEF ReportWasTrue, State!ReportWasTrue, StateInv, FailureShown, VerdictTrue, CountTrue, FocusTrue
<1> QED BY <1>1, HomeState, PTL

\* In a home that stands still the parts of the state that getOperationalState()
\* returns agree with each other and with the home.
THEOREM StillHomesAgree == HomeSpec => []StillHomeAgrees
<1>1. (part = "state" => StateInv /\ StillInv) => StillHomeAgrees
  <2> SUFFICES ASSUME StateInv, StillInv, statePc = "done", State!Cardinality(been) = 1
               PROVE  State!StillHomeAgrees
    BY DEF StillHomeAgrees, State!StillHomeAgrees
  <2>1. State!Cardinality(been) = Cardinality(been)
    BY Zenon DEF State!Cardinality, Cardinality
  <2>2. PICK g : been = {g}
    BY <2>1, FS_Singleton DEF StillInv
  <2>3. Still
    BY <2>2 DEF StateInv, Still
  <2>4. State!ToSet(mustIds) = State!MustBind /\ FocusAgrees
    BY <2>3 DEF StillInv
  <2> QED BY <2>3, <2>4, StillTells DEF State!StillHomeAgrees, FocusAgrees
<1> QED BY <1>1, HomeState, PTL

-----------------------------------------------------------------------------
(* Runs across workspaces, of which WorkspaceRegistryProofs has the proof. *)

Proved == INSTANCE WorkspaceRegistryProofs WITH
  file <- registryFile, pc <- registryPc, listed <- rowsListed

\* It is about the same steps.
LEMMA SameAcross ==
  /\ Across!AcrossInit => Proved!AcrossInit
  /\ Across!AcrossNext => Proved!AcrossNext
  /\ Proved!RunsWhatItNames => Across!RunsWhatItNames
BY Zenon DEF
       Across!AcrossInit, Across!AcrossNext, Across!Others,
       Across!AcrossStart, Across!RunTarget, Across!AcrossEnd,
       Across!RepoOf, Across!PathsOf, Across!Witnessed, Across!Init, Across!Writes,
       Across!UpsertRead, Across!RemoveRead, Across!Truncate, Across!Fill,
       Across!Fail,
       Across!Upserted, Across!Loads, Across!Loaded, Across!Located,
       Across!Known, Across!Resolve, Across!Busy, Across!File, Across!Row,
       Across!Absent, Across!Empty, Across!Garbage, Across!Whole,
       Across!vars, Across!RunsWhatItNames,
       Proved!AcrossInit, Proved!AcrossNext, Proved!Others,
       Proved!AcrossStart, Proved!RunTarget, Proved!AcrossEnd,
       Proved!RepoOf, Proved!PathsOf, Proved!Witnessed, Proved!Init, Proved!Writes,
       Proved!UpsertRead, Proved!RemoveRead, Proved!Truncate, Proved!Fill,
       Proved!Fail,
       Proved!Upserted, Proved!Loads, Proved!Loaded, Proved!Located,
       Proved!Known, Proved!Resolve, Proved!Busy, Proved!File, Proved!Row,
       Proved!Absent, Proved!Empty, Proved!Garbage, Proved!Whole,
       Proved!vars, Proved!RunsWhatItNames

LEMMA RegistriesAtFirst ==
  /\ Initial \subseteq SUBSET Proved!Row
  /\ \A registered \in Initial : Proved!UniqueIds(registered) /\ Proved!OneDefault(registered)
  /\ EnvSet \subseteq Process
  /\ Failing \subseteq Process
BY AcrossAssumption
   DEF Across!Row, Across!UniqueIds, Across!OneDefault, Proved!Row, Proved!UniqueIds, Proved!OneDefault

\* A workspace has one result of runAcrossWorkspaces(), and its pipeline ran
\* where the registry had it during the call, whoever writes to it meanwhile.
THEOREM EachRunsWhatItNames == HomeSpec => []RunsWhatItNames
<1> DEFINE Inv == part = "across" => Proved!IInv /\ Proved!ResultsTrue
<1>1. HomeInit => Inv
  BY SameAcross, RegistriesAtFirst, Proved!AcrossInitInv DEF HomeInit
<1>2. Inv /\ [HomeNext]_homeVars => Inv'
  <2> SUFFICES ASSUME Inv, [HomeNext]_homeVars, part' = "across"
               PROVE  Proved!IInv' /\ Proved!ResultsTrue'
    OBVIOUS
  <2>1. part = "across" /\ [Proved!AcrossNext]_Proved!allVars
    <3>1. CASE UNCHANGED homeVars
      BY <3>1 DEF homeVars, acrossOf, Proved!allVars, Proved!vars, Proved!acrossVars
    <3>2. CASE AcrossPart
      BY <3>2, SameAcross DEF AcrossPart
    <3> QED
      BY <3>1, <3>2 DEF HomeNext, StorePart, ChatPart, StatePart, SnapshotPart, VisibilityPart
  <2> QED BY <2>1, RegistriesAtFirst, Proved!AcrossNextInv
<1>3. Inv => RunsWhatItNames
  BY SameAcross DEF RunsWhatItNames, Proved!ResultsTrue
<1> QED BY <1>1, <1>2, <1>3, PTL DEF HomeSpec

-----------------------------------------------------------------------------
(* What a reader sees of a run, and of the executions of its agents.       *)

\* The lines that no later append can join, and the one of an execution.
Standing == {See!Unjoined[k] : k \in 1..Len(See!Unjoined)}
LineOf(r, i) == See!Execution(r, body[r].agentIds[i])

\* The executions whose line was appended without an error and does not stand.
Unseen ==
  {e \in SeenRun \X Nat : e[2] \in 1..executed[e[1]] /\ LineOf(e[1], e[2]) \notin Standing}

\* What a finished call shows.
Lacking ==
  {i \in DOMAIN run.agentIds : See!Execution(anchor, run.agentIds[i]) \notin See!Trail}

SeenTells ==
  seePc = "done" /\ lookup = "provided" =>
    \/ cut
    \/ Cardinality(DOMAIN executions) >= Limit
    \/ IsFiniteSet(Lacking) /\ Cardinality(Lacking) <= logTears

SeenLine == [kind : {"agent.execution"}, run : SeenRun, agent : Agent] \union {See!OtherLine}

SeenLog ==
  /\ rows \in Seq(SeenLine)
  /\ logTail \in {"ended", "cut", "open"}
  /\ logTears \in Nat
  /\ logTail = "open" => Len(rows) > 0

\* A run whose file is whole executed every agent before, and what it is does
\* not change any more.  The line of an execution goes only with a broken
\* append, one for each, and one is still to go while the log lacks the end of
\* a line.
SeeInv ==
  /\ SeenLog
  /\ body \in [SeenRun -> Bodies \union {See!NoRun}]
  /\ executed \in [SeenRun -> Nat]
  /\ caught \subseteq SeenRun
  /\ seenStage \in [SeenRun -> Stage]
  /\ seenFile \in [SeenRun -> {"absent", "torn", "whole"}]
  /\ \A r \in SeenRun :
       /\ body[r] = See!NoRun => seenStage[r] = "new"
       /\ executed[r] <= Len(body[r].agentIds)
       /\ r \in caught => seenStage[r] = "new" /\ executed[r] < Len(body[r].agentIds)
       /\ seenStage[r] \in {"stamped", "filed"} => executed[r] = Len(body[r].agentIds)
       /\ seenFile[r] = "whole" => seenStage[r] = "filed"
  /\ IsFiniteSet(Unseen)
  /\ Cardinality(Unseen) + (IF logTail = "ended" THEN 0 ELSE 1) <= logTears
  /\ lookup = "provided" /\ seePc = "looked" =>
       anchor \in SeenRun /\ run = body[anchor] /\ seenFile[anchor] = "whole"
  /\ SeenTells

\* The log of the chats and of the executions is written the same way.
LEMMA SameLog ==
  /\ See!Unjoined = Chat!Unjoined
  /\ \A row : See!With(row) = Chat!With(row)
BY DEF See!Unjoined, Chat!Unjoined, See!With, Chat!With, See!Front, Chat!Front

\* What a run consists of is a list of agents.
LEMMA BodyAgents ==
  ASSUME SeeInv, NEW r \in SeenRun
  PROVE  /\ body[r].agentIds \in Seq(Agent) /\ Len(body[r].agentIds) \in Nat
         /\ \A i \in 1..Len(body[r].agentIds) : body[r].agentIds[i] \in Agent
<1>1. CASE body[r] \in Bodies
  BY <1>1, SeeAssumption
<1>2. CASE body[r] = See!NoRun
  BY <1>2 DEF See!NoRun
<1> QED BY <1>1, <1>2 DEF SeeInv

\* A call that has ended shows the same, whatever is appended after it.
LEMMA CallStays ==
  ASSUME SeeInv, UNCHANGED <<seePc, lookup, run, anchor, executions, cut>>,
         logTears' \in {logTears, logTears + 1}
  PROVE  SeenTells'
<1>1. Lacking' = Lacking
  BY DEF Lacking, See!Trail
<1>2. SeenTells /\ logTears \in Nat
  BY DEF SeeInv, SeenLog
<1>3. IsFiniteSet(Lacking) => Cardinality(Lacking) \in Nat
  BY FS_CardinalityType
<1>4. CASE cut \/ Cardinality(DOMAIN executions) >= Limit
  BY <1>4 DEF SeenTells
<1>5. CASE ~(seePc = "done" /\ lookup = "provided")
  BY <1>5 DEF SeenTells
<1>6. CASE IsFiniteSet(Lacking) /\ Cardinality(Lacking) <= logTears
  <2>1. Cardinality(Lacking) <= logTears'
    BY <1>2, <1>3, <1>6
  <2> QED BY <1>1, <1>6, <2>1 DEF SeenTells
<1> QED BY <1>2, <1>4, <1>5, <1>6 DEF SeenTells

\* What is left of the log when a line joins one that lost its end.
LEMMA UnjoinedLog ==
  ASSUME SeenLog
  PROVE  /\ See!Unjoined \in Seq(SeenLine) /\ Len(See!Unjoined) \in Nat
         /\ Standing \subseteq {rows[k] : k \in 1..Len(rows)}
         /\ logTail # "open" => See!Unjoined = rows
<1>1. rows \in Seq(SeenLine) /\ (logTail = "open" => Len(rows) > 0) /\ Len(rows) \in Nat
  BY LenProperties DEF SeenLog
<1>2. CASE logTail = "open"
  <2>1. See!Unjoined = Front(rows)
    BY <1>2, SameLog DEF Chat!Unjoined, Chat!Front, Front
  <2>2. /\ Front(rows) \in Seq(SeenLine) /\ Len(Front(rows)) = Len(rows) - 1
        /\ \A i \in 1..Len(rows) - 1 : Front(rows)[i] = rows[i]
    BY <1>1, <1>2, FrontOfSeq
  <2>3. \A k \in 1..Len(Front(rows)) : k \in 1..Len(rows) /\ Front(rows)[k] = rows[k]
    BY <1>1, <2>2
  <2> HIDE DEF Front
  <2>4. Standing \subseteq {rows[k] : k \in 1..Len(rows)}
    BY <2>1, <2>3 DEF Standing
  <2> QED BY <1>1, <1>2, <2>1, <2>2, <2>4, LenProperties
<1>3. CASE logTail # "open"
  <2>1. See!Unjoined = rows
    BY <1>3 DEF See!Unjoined
  <2> QED BY <1>1, <2>1, <1>3 DEF Standing
<1> QED BY <1>2, <1>3

\* An append that went through: what stands stays, and the line is with it if
\* the log was in order.
LEMMA LogGrows ==
  ASSUME SeenLog, NEW row \in SeenLine, See!RecordMetricEvent(row)
  PROVE  /\ SeenLog' /\ logTail' = "ended" /\ logTears' = logTears
         /\ Standing \subseteq Standing'
         /\ logTail = "ended" => row \in Standing'
<1> PICK un : un = See!Unjoined
  OBVIOUS
<1>1. /\ un \in Seq(SeenLine) /\ Len(un) \in Nat
      /\ logTail # "open" => un = rows
  BY UnjoinedLog
<1>2. /\ logTail' = "ended" /\ logTears' = logTears
      /\ rows' = IF logTail = "ended" THEN Append(rows, row) ELSE un
  BY DEF See!RecordMetricEvent, See!With
<1>3. See!Unjoined' = rows'
  BY <1>2 DEF See!Unjoined
<1>4. CASE logTail = "ended"
  <2>1. /\ rows' = Append(un, row) /\ rows' \in Seq(SeenLine) /\ Len(rows') = Len(un) + 1
        /\ \A k \in 1..Len(un) : rows'[k] = un[k]
        /\ rows'[Len(un) + 1] = row
    BY <1>1, <1>2, <1>4, AppendProperties
  <2>2. \A k \in 1..Len(un) : k \in 1..Len(rows')
    BY <1>1, <2>1
  <2>3. Standing \subseteq Standing'
    BY <1>3, <2>1, <2>2 DEF Standing
  <2>4. Len(un) + 1 \in 1..Len(rows')
    BY <1>1, <2>1
  <2>5. row \in Standing'
    BY <1>3, <2>1, <2>4 DEF Standing
  <2> QED BY <1>2, <2>1, <2>3, <2>5 DEF SeenLog
<1>5. CASE logTail # "ended"
  <2>1. rows' = un
    BY <1>2, <1>5
  <2>2. Standing' = Standing
    BY <1>3, <2>1 DEF Standing
  <2> QED BY <1>1, <1>2, <1>5, <2>1, <2>2 DEF SeenLog
<1> QED BY <1>4, <1>5

\* One that broke off: what stands stays.
LEMMA LogTears ==
  ASSUME SeenLog, NEW row \in SeenLine, See!Tear(row)
  PROVE  /\ SeenLog' /\ logTears' = logTears + 1 /\ Standing \subseteq Standing'
<1> PICK un : un = See!Unjoined
  OBVIOUS
<1>1. /\ un \in Seq(SeenLine) /\ Len(un) \in Nat
      /\ logTail # "open" => un = rows
  BY UnjoinedLog
<1>2. logTears' = logTears + 1 /\ logTears \in Nat
  BY DEF See!Tear, SeenLog
<1>3. \/ rows' = un /\ logTail' = "cut"
      \/ logTail = "ended" /\ rows' = Append(un, row) /\ logTail' = "open"
  <2>1. \/ rows' = un /\ logTail' = "cut"
        \/ /\ rows' = IF logTail = "ended" THEN Append(rows, row) ELSE un
           /\ logTail' = IF logTail = "ended" THEN "open" ELSE "cut"
    BY DEF See!Tear, See!With
  <2> QED BY <1>1, <2>1
<1>4. CASE rows' = un /\ logTail' = "cut"
  <2>1. See!Unjoined' = un
    BY <1>4 DEF See!Unjoined
  <2>2. Standing' = Standing
    BY <2>1 DEF Standing
  <2> QED BY <1>1, <1>2, <1>4, <2>2 DEF SeenLog
<1>5. CASE logTail = "ended" /\ rows' = Append(un, row) /\ logTail' = "open"
  <2>1. /\ rows' \in Seq(SeenLine) /\ Len(rows') = Len(un) + 1
        /\ \A k \in 1..Len(un) : rows'[k] = un[k]
    BY <1>1, <1>5, AppendProperties
  <2>2. Len(rows') > 0 /\ Len(rows') - 1 = Len(un)
    BY <1>1, <2>1
  <2>3. /\ Len(Front(rows')) = Len(un)
        /\ \A k \in 1..Len(un) : Front(rows')[k] = rows'[k]
    BY <2>1, <2>2, FrontOfSeq
  <2>4. See!Unjoined' = Front(rows')
    BY <1>5, SameLog DEF See!Unjoined, See!Front, Front
  <2> HIDE DEF Front
  <2>5. Standing \subseteq Standing'
    BY <2>1, <2>3, <2>4 DEF Standing
  <2> QED BY <1>2, <1>5, <2>1, <2>2, <2>5 DEF SeenLog
<1> QED BY <1>3, <1>4, <1>5

\* The line of an agent is one of the log's.
LEMMA LineIsLine ==
  ASSUME SeeInv, NEW r \in SeenRun, executed[r] < Len(body[r].agentIds)
  PROVE  See!Line(r) \in SeenLine /\ See!Line(r) = LineOf(r, executed[r] + 1)
<1>1. executed[r] \in Nat
  BY DEF SeeInv
<1>2. executed[r] + 1 \in 1..Len(body[r].agentIds)
  BY <1>1, BodyAgents
<1>3. body[r].agentIds[executed[r] + 1] \in Agent
  BY <1>2, BodyAgents
<1> QED BY <1>3 DEF See!Line, LineOf, See!Execution, SeenLine

\* Where all that stands stays, an execution goes unseen only if it is new.
LEMMA FewUnseen ==
  ASSUME SeeInv, body' = body, Standing \subseteq Standing', NEW r,
         \/ executed' = executed
         \/ r \in SeenRun /\ executed' = [executed EXCEPT ![r] = @ + 1]
  PROVE  /\ IsFiniteSet(Unseen') /\ Cardinality(Unseen') \in Nat /\ Cardinality(Unseen) \in Nat
         /\ Cardinality(Unseen') <= Cardinality(Unseen) + 1
         /\ executed' = executed \/ LineOf(r, executed[r] + 1) \in Standing' =>
              Cardinality(Unseen') <= Cardinality(Unseen)
<1>1. executed \in [SeenRun -> Nat]
  BY DEF SeeInv
<1>2. \A q \in SeenRun, i \in Nat :
        LineOf(q, i)' = LineOf(q, i) /\ (LineOf(q, i) \notin Standing' => LineOf(q, i) \notin Standing)
  BY DEF LineOf
<1>3. \A q \in SeenRun, i \in Nat :
        i \in 1..executed'[q] => i \in 1..executed[q] \/ <<q, i>> = <<r, executed[r] + 1>>
  <2> TAKE q \in SeenRun, i \in Nat
  <2>1. executed[q] \in Nat /\ executed'[q] \in {executed[q], executed[q] + 1}
        /\ (q # r => executed'[q] = executed[q])
    BY <1>1
  <2> QED BY <2>1
<1>4. Unseen' \subseteq Unseen \union {<<r, executed[r] + 1>>}
  <2> SUFFICES ASSUME NEW q \in SeenRun, NEW i \in Nat, <<q, i>> \in Unseen'
               PROVE  <<q, i>> \in Unseen \union {<<r, executed[r] + 1>>}
    BY DEF Unseen
  <2>1. i \in 1..executed'[q] /\ LineOf(q, i)' \notin Standing'
    BY DEF Unseen
  <2> QED BY <1>2, <1>3, <2>1 DEF Unseen
<1>5. executed' = executed \/ LineOf(r, executed[r] + 1) \in Standing' => Unseen' \subseteq Unseen
  <2>1. CASE executed' = executed
    <3> SUFFICES ASSUME NEW q \in SeenRun, NEW i \in Nat, <<q, i>> \in Unseen'
                 PROVE  <<q, i>> \in Unseen
      BY <2>1 DEF Unseen
    <3>1. i \in 1..executed'[q] /\ LineOf(q, i)' \notin Standing'
      BY DEF Unseen
    <3> QED BY <1>2, <2>1, <3>1 DEF Unseen
  <2>2. CASE executed' # executed /\ LineOf(r, executed[r] + 1) \in Standing'
    <3>1. PICK n \in Nat : n = executed[r] + 1
      BY <1>1, <2>2
    <3>2. LineOf(r, n)' \in Standing'
      BY <1>2, <2>2, <3>1
    <3>3. <<r, n>> \notin Unseen'
      BY <3>2 DEF Unseen
    <3> QED BY <1>4, <3>1, <3>3
  <2> QED BY <2>1, <2>2
<1>6. IsFiniteSet(Unseen)
  BY DEF SeeInv
<1> QED BY <1>4, <1>5, <1>6, OneMore

\* A line is appended: that of an agent, or another.
LEMMA SeeRecords ==
  ASSUME SeeInv, NEW row \in SeenLine, See!RecordMetricEvent(row), NEW r,
         \/ executed' = executed
         \/ /\ r \in SeenRun
            /\ executed' = [executed EXCEPT ![r] = @ + 1] /\ row = See!Line(r)
            /\ seenStage[r] = "new" /\ executed[r] < Len(body[r].agentIds)
            /\ r \notin caught',
         caught' \subseteq caught,
         UNCHANGED <<body, seenStage, seenFile, seePc, anchor, run, lookup, executions, cut>>
  PROVE  SeeInv'
<1>1. /\ SeenLog' /\ logTail' = "ended" /\ logTears' = logTears
      /\ Standing \subseteq Standing' /\ (logTail = "ended" => row \in Standing')
  BY LogGrows DEF SeeInv
<1>2. /\ IsFiniteSet(Unseen') /\ Cardinality(Unseen') \in Nat /\ Cardinality(Unseen) \in Nat
      /\ Cardinality(Unseen') <= Cardinality(Unseen) + 1
      /\ executed' = executed \/ LineOf(r, executed[r] + 1) \in Standing' =>
           Cardinality(Unseen') <= Cardinality(Unseen)
  BY <1>1, FewUnseen
<1>3. logTail = "ended" => Cardinality(Unseen') <= Cardinality(Unseen)
  <2>1. executed' # executed => row = LineOf(r, executed[r] + 1)
    BY LineIsLine
  <2> QED BY <1>1, <1>2, <2>1
<1>4. Cardinality(Unseen') + (IF logTail' = "ended" THEN 0 ELSE 1) <= logTears'
  <2>1. Cardinality(Unseen) + (IF logTail = "ended" THEN 0 ELSE 1) <= logTears /\ logTears \in Nat
    BY DEF SeeInv, SeenLog
  <2> QED BY <1>1, <1>2, <1>3, <2>1
<1>5. SeenTells'
  BY <1>1, CallStays
<1>6. /\ executed' \in [SeenRun -> Nat]
      /\ \A q \in SeenRun :
           /\ executed'[q] <= Len(body[q].agentIds)
           /\ q \in caught' => seenStage[q] = "new" /\ executed'[q] < Len(body[q].agentIds)
           /\ seenStage[q] \in {"stamped", "filed"} => executed'[q] = Len(body[q].agentIds)
  <2>1. /\ executed \in [SeenRun -> Nat]
        /\ \A q \in SeenRun :
             /\ executed[q] <= Len(body[q].agentIds)
             /\ q \in caught => seenStage[q] = "new" /\ executed[q] < Len(body[q].agentIds)
             /\ seenStage[q] \in {"stamped", "filed"} => executed[q] = Len(body[q].agentIds)
    BY DEF SeeInv
  <2>2. CASE executed' = executed
    BY <2>1, <2>2
  <2>3. CASE /\ r \in SeenRun
             /\ executed' = [executed EXCEPT ![r] = @ + 1]
             /\ seenStage[r] = "new" /\ executed[r] < Len(body[r].agentIds)
             /\ r \notin caught'
    <3>1. /\ executed'[r] = executed[r] + 1 /\ executed[r] \in Nat
          /\ \A q \in SeenRun : q # r => executed'[q] = executed[q]
      BY <2>1, <2>3
    <3>2. executed'[r] <= Len(body[r].agentIds)
      BY <2>3, <3>1, BodyAgents
    <3> QED BY <2>1, <2>3, <3>1, <3>2
  <2> QED BY <2>2, <2>3
<1>7. caught' \subseteq SeenRun
  BY DEF SeeInv
<1> QED BY <1>1, <1>2, <1>4, <1>5, <1>6, <1>7 DEF SeeInv

\* An append throws, in the agent's turn or in the catch block, or another's.
LEMMA SeeThrows ==
  ASSUME SeeInv, NEW row \in SeenLine, See!RecordThrows(row), NEW r,
         \/ caught' = caught /\ seenStage' = seenStage
         \/ /\ r \in SeenRun
            /\ seenStage[r] = "new" /\ executed[r] < Len(body[r].agentIds)
            /\ \/ caught' = caught \union {r} /\ seenStage' = seenStage
               \/ caught' = caught \ {r} /\ seenStage' = [seenStage EXCEPT ![r] = "lost"],
         UNCHANGED <<body, executed, seenFile, seePc, anchor, run, lookup, executions, cut>>
  PROVE  SeeInv'
<1>1. /\ SeenLog' /\ Standing \subseteq Standing'
      /\ \/ logTears' = logTears + 1
         \/ logTears' = logTears /\ logTail' = logTail
  <2>1. CASE See!Tear(row)
    BY <2>1, LogTears DEF SeeInv
  <2>2. CASE UNCHANGED See!logVars
    <3>1. UNCHANGED <<rows, logTail, logTears>>
      BY <2>2 DEF See!logVars
    <3> QED BY <3>1 DEF SeeInv, SeenLog, Standing, See!Unjoined
  <2> QED BY <2>1, <2>2 DEF See!RecordThrows
<1>2. /\ IsFiniteSet(Unseen') /\ Cardinality(Unseen') \in Nat /\ Cardinality(Unseen) \in Nat
      /\ Cardinality(Unseen') <= Cardinality(Unseen)
  BY <1>1, FewUnseen
<1>3. Cardinality(Unseen') + (IF logTail' = "ended" THEN 0 ELSE 1) <= logTears'
  <2>1. Cardinality(Unseen) + (IF logTail = "ended" THEN 0 ELSE 1) <= logTears /\ logTears \in Nat
    BY DEF SeeInv, SeenLog
  <2> QED BY <1>1, <1>2, <2>1
<1>4. SeenTells'
  BY <1>1, CallStays
<1>5. /\ seenStage' \in [SeenRun -> Stage]
      /\ caught' \subseteq SeenRun
      /\ \A q \in SeenRun :
           /\ body[q] = See!NoRun => seenStage'[q] = "new"
           /\ q \in caught' => seenStage'[q] = "new" /\ executed[q] < Len(body[q].agentIds)
           /\ seenStage'[q] \in {"stamped", "filed"} => executed[q] = Len(body[q].agentIds)
           /\ seenFile[q] = "whole" => seenStage'[q] = "filed"
  <2>1. /\ seenStage \in [SeenRun -> Stage] /\ caught \subseteq SeenRun
        /\ \A q \in SeenRun :
             /\ body[q] = See!NoRun => seenStage[q] = "new"
             /\ q \in caught => seenStage[q] = "new" /\ executed[q] < Len(body[q].agentIds)
             /\ seenStage[q] \in {"stamped", "filed"} => executed[q] = Len(body[q].agentIds)
             /\ seenFile[q] = "whole" => seenStage[q] = "filed"
    BY DEF SeeInv
  <2>2. CASE seenStage' = seenStage
    BY <2>1, <2>2
  <2>3. CASE /\ r \in SeenRun
             /\ seenStage[r] = "new" /\ executed[r] < Len(body[r].agentIds)
             /\ caught' = caught \ {r} /\ seenStage' = [seenStage EXCEPT ![r] = "lost"]
    <3>1. body[r] # See!NoRun
      <4>1. executed[r] \in Nat
        BY <2>3 DEF SeeInv
      <4>2. Len(body[r].agentIds) # 0
        BY <2>3, <4>1, BodyAgents
      <4>3. Len(See!NoRun.agentIds) = 0
        BY DEF See!NoRun
      <4> QED BY <4>2, <4>3
    <3>2. seenStage'[r] = "lost" /\ \A q \in SeenRun : q # r => seenStage'[q] = seenStage[q]
      BY <2>1, <2>3
    <3>3. seenStage' \in [SeenRun -> Stage]
      BY <2>1, <2>3 DEF Stage
    <3> QED BY <2>1, <2>3, <3>1, <3>2, <3>3
  <2> QED BY <2>2, <2>3
<1> QED BY <1>1, <1>2, <1>3, <1>4, <1>5 DEF SeeInv

\* A step of a run's store: the log stays, and so does what was executed.
LEMMA SeeQuiet ==
  ASSUME SeeInv, NEW r \in SeenRun, NEW s \in Stage, NEW f \in {"absent", "torn", "whole"},
         UNCHANGED <<rows, logTail, logTears, executed, caught, seePc, anchor, run, lookup,
                     executions, cut>>,
         seenStage' = [seenStage EXCEPT ![r] = s], seenFile' = [seenFile EXCEPT ![r] = f],
         body' = body, body[r] # See!NoRun, r \notin caught,
         s \in {"stamped", "filed"} => executed[r] = Len(body[r].agentIds),
         f = "whole" => s = "filed", seenFile[r] # "whole"
  PROVE  SeeInv'
<1>1. /\ seenStage' \in [SeenRun -> Stage] /\ seenFile' \in [SeenRun -> {"absent", "torn", "whole"}]
      /\ seenStage'[r] = s /\ seenFile'[r] = f
      /\ \A q \in SeenRun : q # r => seenStage'[q] = seenStage[q] /\ seenFile'[q] = seenFile[q]
  BY DEF SeeInv
<1>2. SeenLog' /\ Unseen' = Unseen
  BY DEF SeeInv, SeenLog, Unseen, LineOf, Standing, See!Unjoined
<1>3. SeenTells'
  BY CallStays
<1>4. lookup = "provided" /\ seePc = "looked" => seenFile'[anchor] = "whole"
  BY <1>1 DEF SeeInv
<1>5. \A q \in SeenRun :
        /\ body[q] = See!NoRun => seenStage'[q] = "new"
        /\ q \in caught => seenStage'[q] = "new" /\ executed[q] < Len(body[q].agentIds)
        /\ seenStage'[q] \in {"stamped", "filed"} => executed[q] = Len(body[q].agentIds)
        /\ seenFile'[q] = "whole" => seenStage'[q] = "filed"
  BY <1>1 DEF SeeInv
<1> QED BY <1>1, <1>2, <1>3, <1>4, <1>5 DEF SeeInv

\* A call that reads the whole log and shows what it reads lacks only
\* executions whose line does not stand.
LEMMA ReadAll ==
  ASSUME SeeInv, lookup = "provided", seePc = "looked", UNCHANGED <<run, anchor>>,
         NEW shown,
         shown = {k \in DOMAIN rows : rows[k].kind = "agent.execution"},
         executions' = [k \in shown |-> rows[k]]
  PROVE  IsFiniteSet(Lacking') /\ Cardinality(Lacking') <= logTears
<1>1. /\ anchor \in SeenRun /\ run = body[anchor] /\ seenFile[anchor] = "whole"
      /\ rows \in Seq(SeenLine)
  BY DEF SeeInv, SeenLog
<1>2. executed[anchor] = Len(run.agentIds) /\ executed[anchor] \in Nat
  <2>1. seenStage[anchor] = "filed" /\ executed[anchor] \in Nat
    BY <1>1 DEF SeeInv
  <2> QED BY <1>1, <2>1 DEF SeeInv
<1>3. DOMAIN run.agentIds = 1..executed[anchor] /\ DOMAIN rows = 1..Len(rows)
  BY <1>1, <1>2, BodyAgents
<1> DEFINE lacking == Lacking'
           which == [i \in lacking |-> <<anchor, i>>]
<1>4. ASSUME NEW i \in lacking
      PROVE  <<anchor, i>> \in Unseen
  <2>1. i \in 1..executed[anchor] /\ See!Execution(anchor, run.agentIds[i]) \notin See!Trail'
    BY <1>3, <1>4 DEF Lacking, See!Execution
  <2>2. ASSUME LineOf(anchor, i) \in Standing
        PROVE  FALSE
    <3>1. LineOf(anchor, i) \in {rows[k] : k \in 1..Len(rows)}
      BY <2>2, UnjoinedLog DEF SeeInv
    <3>2. PICK k \in 1..Len(rows) : rows[k] = LineOf(anchor, i)
      BY <3>1
    <3>3. LineOf(anchor, i) = See!Execution(anchor, run.agentIds[i])
      BY <1>1 DEF LineOf
    <3>4. rows[k].kind = "agent.execution"
      BY <3>2 DEF LineOf, See!Execution
    <3>5. k \in shown /\ DOMAIN executions' = shown /\ executions'[k] = rows[k]
      BY <1>3, <3>4
    <3>6. rows[k] \in {executions'[l] : l \in DOMAIN executions'}
      BY <3>5
    <3>7. rows[k] \in See!Trail'
      BY <3>6 DEF See!Trail
    <3> QED BY <2>1, <3>2, <3>3, <3>7
  <2>3. i \in Nat
    BY <1>2, <2>1
  <2> QED BY <1>1, <2>1, <2>2, <2>3 DEF Unseen
<1>5. which \in Injection(lacking, Unseen)
  <2>1. which \in [lacking -> Unseen]
    BY <1>4
  <2>2. \A i, k \in lacking : which[i] = which[k] => i = k
    OBVIOUS
  <2> QED BY <2>1, <2>2 DEF Injection, IsInjective
<1>6. /\ IsFiniteSet(Unseen) /\ Cardinality(Unseen) \in Nat /\ logTears \in Nat
      /\ Cardinality(Unseen) + (IF logTail = "ended" THEN 0 ELSE 1) <= logTears
  BY FS_CardinalityType DEF SeeInv, SeenLog
<1>7. IsFiniteSet(lacking) /\ Cardinality(lacking) <= Cardinality(Unseen)
  BY <1>5, <1>6, FS_Injection
<1>8. Cardinality(lacking) \in Nat
  BY <1>7, FS_CardinalityType
<1> QED BY <1>6, <1>7, <1>8

\* The trail is built.
LEMMA SeeLists ==
  ASSUME SeeInv, See!ListAgentExecutions
  PROVE  SeeInv'
<1>1. rows \in Seq(SeenLine) /\ Len(rows) \in Nat /\ Limit \in Nat /\ TailLines \in Nat
      /\ DOMAIN rows = 1..Len(rows)
  BY SeeAssumption, LenProperties DEF SeeInv, SeenLog
<1>2. PICK found, shown :
        /\ found = {k \in {n \in DOMAIN rows : n > Len(rows) - TailLines} :
                      rows[k].kind = "agent.execution"}
        /\ shown \in See!Newest(found, Limit)
        /\ executions' = [k \in shown |-> rows[k]]
  BY DEF See!ListAgentExecutions
<1>3. seePc = "looked" /\ cut' = (Len(rows) > TailLines)
  BY DEF See!ListAgentExecutions
<1>4. shown = found \/ Cardinality(shown) = Limit
  <2>1. See!Cardinality(shown) = Cardinality(shown)
    BY Zenon DEF See!Cardinality, Cardinality
  <2> QED BY <1>2, <2>1 DEF See!Newest
<1>5. /\ UNCHANGED <<rows, logTail, logTears, body, executed, caught, seenStage, seenFile,
                     anchor, run, lookup>>
      /\ seePc' = "done"
  BY DEF See!ListAgentExecutions, See!logVars, See!runVars, See!storeVars
<1>6. SeenTells'
  <2> SUFFICES ASSUME lookup = "provided", ~cut', ~(Cardinality(DOMAIN executions') >= Limit)
               PROVE  IsFiniteSet(Lacking') /\ Cardinality(Lacking') <= logTears'
    BY <1>5 DEF SeenTells
  <2>1. DOMAIN executions' = shown
    BY <1>2
  <2>2. shown = found
    BY <1>1, <1>4, <2>1
  <2>3. \A n \in 1..Len(rows) : n > Len(rows) - TailLines
    <3>1. ~(Len(rows) > TailLines)
      BY <1>3
    <3> QED BY <1>1, <3>1
  <2>4. found = {k \in DOMAIN rows : rows[k].kind = "agent.execution"}
    BY <1>1, <1>2, <2>3
  <2> QED BY <1>2, <1>3, <1>5, <2>2, <2>4, ReadAll
<1>7. SeenLog' /\ Unseen' = Unseen
  BY <1>5 DEF SeeInv, SeenLog, Unseen, LineOf, Standing, See!Unjoined
<1> QED BY <1>5, <1>6, <1>7 DEF SeeInv

\* A run is looked up, or another was handed over.
LEMMA SeeLooks ==
  ASSUME SeeInv, UNCHANGED <<rows, logTail, logTears, body, executed, caught, seenStage, seenFile>>,
         seePc' # "done",
         lookup' = "provided" /\ seePc' = "looked" =>
           anchor' \in SeenRun /\ run' = body[anchor'] /\ seenFile[anchor'] = "whole"
  PROVE  SeeInv'
<1>1. SeenLog' /\ Unseen' = Unseen
  BY DEF SeeInv, SeenLog, Unseen, LineOf, Standing, See!Unjoined
<1>2. SeenTells'
  BY DEF SeenTells
<1> QED BY <1>1, <1>2 DEF SeeInv

\* A run is asked for.
LEMMA SeeStarts ==
  ASSUME SeeInv, NEW r \in SeenRun, See!StartRun(r)
  PROVE  SeeInv'
<1>1. /\ body' \in [SeenRun -> Bodies \union {See!NoRun}]
      /\ \A q \in SeenRun : q # r => body'[q] = body[q]
      /\ body'[r] \in Bodies
      /\ body[r] = See!NoRun
  BY DEF See!StartRun, SeeInv
<1>2. UNCHANGED <<rows, logTail, logTears, executed, caught, seenStage, seenFile,
                  seePc, anchor, run, lookup, executions, cut>>
  BY DEF See!StartRun, See!logVars, See!storeVars, See!callVars
<1>3. /\ seenStage[r] = "new" /\ executed[r] = 0 /\ seenFile[r] # "whole" /\ r \notin caught
  <2>1. executed[r] \in Nat /\ executed[r] <= Len(body[r].agentIds)
    BY DEF SeeInv
  <2>2. Len(body[r].agentIds) = 0
    BY <1>1 DEF See!NoRun
  <2> QED BY <1>1, <2>1, <2>2 DEF SeeInv
<1>4. Len(body'[r].agentIds) \in Nat
  BY <1>1, SeeAssumption
<1>5. SeenLog' /\ Standing' = Standing
  BY <1>2 DEF SeeInv, SeenLog, Standing, See!Unjoined
<1>6. Unseen' = Unseen
  <2>1. \A q \in SeenRun, i \in Nat :
          i \in 1..executed[q] => LineOf(q, i)' = LineOf(q, i)
    <3> SUFFICES ASSUME NEW q \in SeenRun, NEW i \in Nat, i \in 1..executed[q]
                 PROVE  LineOf(q, i)' = LineOf(q, i)
      OBVIOUS
    <3>1. q # r
      BY <1>3
    <3> QED BY <1>1, <3>1 DEF LineOf
  <2> QED BY <1>2, <1>5, <2>1 DEF Unseen
<1>7. SeenTells'
  BY <1>2, CallStays DEF SeeInv
<1>8. lookup = "provided" /\ seePc = "looked" =>
        anchor \in SeenRun /\ run = body'[anchor] /\ seenFile[anchor] = "whole"
  BY <1>1, <1>3 DEF SeeInv
<1>9. \A q \in SeenRun :
        /\ body'[q] = See!NoRun => seenStage[q] = "new"
        /\ executed[q] <= Len(body'[q].agentIds)
        /\ q \in caught => seenStage[q] = "new" /\ executed[q] < Len(body'[q].agentIds)
        /\ seenStage[q] \in {"stamped", "filed"} => executed[q] = Len(body'[q].agentIds)
  <2>1. \A q \in SeenRun :
          /\ body[q] = See!NoRun => seenStage[q] = "new"
          /\ executed[q] <= Len(body[q].agentIds)
          /\ q \in caught => seenStage[q] = "new" /\ executed[q] < Len(body[q].agentIds)
          /\ seenStage[q] \in {"stamped", "filed"} => executed[q] = Len(body[q].agentIds)
    BY DEF SeeInv
  <2> QED BY <1>1, <1>3, <1>4, <2>1
<1> QED BY <1>1, <1>2, <1>5, <1>6, <1>7, <1>8, <1>9 DEF SeeInv

\* A process stores its run.
LEMMA SeeStores ==
  ASSUME SeeInv, NEW r \in SeenRun, See!StoreRun(r)
  PROVE  SeeInv'
<1>1. /\ body[r] # See!NoRun
      /\ UNCHANGED <<rows, logTail, logTears, body, executed, caught, seePc, anchor, run, lookup,
                     executions, cut>>
  BY DEF See!StoreRun, See!logVars, See!callVars
<1>2. /\ seenFile[r] \in {"absent", "torn", "whole"} /\ seenFile \in [SeenRun -> {"absent", "torn", "whole"}]
      /\ seenFile[r] = "whole" => seenStage[r] = "filed"
      /\ seenStage[r] = "stamped" => executed[r] = Len(body[r].agentIds)
      /\ r \in caught => seenStage[r] = "new" /\ executed[r] < Len(body[r].agentIds)
      /\ executed[r] \in Nat
  BY DEF SeeInv
<1>3. seenFile = [seenFile EXCEPT ![r] = seenFile[r]]
  BY <1>2
<1>4. CASE executed[r] = Len(body[r].agentIds) /\ See!Store!Begin(r, <<>>)
  <2>1. /\ seenStage[r] = "new" /\ seenStage' = [seenStage EXCEPT ![r] = "stamped"]
        /\ seenFile' = [seenFile EXCEPT ![r] = seenFile[r]]
    BY <1>3, <1>4 DEF See!Store!Begin
  <2>2. r \notin caught
    BY <1>2, <1>4
  <2> QED BY <1>1, <1>2, <1>4, <2>1, <2>2, SeeQuiet DEF Stage
<1>5. CASE See!Store!WriteFile(r)
  <2>1. /\ seenStage[r] = "stamped" /\ seenStage' = [seenStage EXCEPT ![r] = "filed"]
        /\ seenFile' = [seenFile EXCEPT ![r] = "whole"]
    BY <1>5 DEF See!Store!WriteFile
  <2> QED BY <1>1, <1>2, <2>1, SeeQuiet DEF Stage
<1>6. CASE See!Store!TearFile(r)
  <2>1. /\ seenStage[r] = "stamped" /\ seenStage' = [seenStage EXCEPT ![r] = "lost"]
        /\ \/ seenFile' = [seenFile EXCEPT ![r] = seenFile[r]]
           \/ seenFile' = [seenFile EXCEPT ![r] = "torn"]
    BY <1>3, <1>6 DEF See!Store!TearFile
  <2>2. seenFile[r] # "whole" /\ r \notin caught
    BY <1>2, <2>1
  <2> QED BY <1>1, <1>2, <2>1, <2>2, SeeQuiet DEF Stage
<1> QED BY <1>4, <1>5, <1>6 DEF See!StoreRun

\* An agent's turn, or that of its catch block.
LEMMA SeeRuns ==
  ASSUME SeeInv, NEW r \in SeenRun, See!RunAgent(r) \/ See!AgentCaught(r)
  PROVE  SeeInv'
<1>1. /\ seenStage[r] = "new" /\ executed[r] < Len(body[r].agentIds)
      /\ UNCHANGED <<body, seenFile, seePc, anchor, run, lookup, executions, cut>>
  <2>1. CASE See!RunAgent(r)
    BY <2>1 DEF See!RunAgent, See!Running, See!storeVars, See!callVars
  <2>2. CASE See!AgentCaught(r)
    <3>1. r \in caught /\ UNCHANGED <<body, seenFile, seePc, anchor, run, lookup, executions, cut>>
      BY <2>2 DEF See!AgentCaught, See!callVars
    <3> QED BY <3>1 DEF SeeInv
  <2> QED BY <2>1, <2>2
<1>2. See!Line(r) \in SeenLine
  BY <1>1, LineIsLine
<1>3. CASE See!Record(r)
  <2>1. /\ See!RecordMetricEvent(See!Line(r)) /\ executed' = [executed EXCEPT ![r] = @ + 1]
    BY <1>3 DEF See!Record
  <2>2. executed' # executed
    BY <2>1 DEF SeeInv
  <2>3. caught' \subseteq caught /\ r \notin caught' /\ seenStage' = seenStage
    <3>1. CASE See!RunAgent(r)
      BY <2>2, <3>1 DEF See!RunAgent, See!storeVars
    <3>2. CASE See!AgentCaught(r)
      BY <2>2, <3>2 DEF See!AgentCaught
    <3> QED BY <3>1, <3>2
  <2> QED BY <1>1, <1>2, <2>1, <2>3, SeeRecords
<1>4. CASE ~See!Record(r)
  <2>1. See!RecordThrows(See!Line(r)) /\ executed' = executed
    BY <1>4 DEF See!RunAgent, See!AgentCaught, See!RecordFails
  <2>2. \/ caught' = caught \union {r} /\ seenStage' = seenStage
        \/ caught' = caught \ {r} /\ seenStage' = [seenStage EXCEPT ![r] = "lost"]
    BY <1>4 DEF See!RunAgent, See!AgentCaught, See!storeVars
  <2> QED BY <1>1, <1>2, <2>1, <2>2, SeeThrows
<1> QED BY <1>3, <1>4

\* Whatever one of the processes does, or the call.
LEMMA SeeStep ==
  ASSUME SeeInv, See!Next
  PROVE  SeeInv'
<1>1. CASE See!Mismatch
  <2>1. UNCHANGED <<rows, logTail, logTears, body, executed, caught, seenStage, seenFile>> /\ seePc' = "rejected"
    BY <1>1 DEF See!Mismatch, See!logVars, See!runVars, See!storeVars
  <2> QED BY <2>1, SeeLooks
<1>2. CASE See!ListAgentExecutions
  BY <1>2, SeeLists
<1>3. ASSUME NEW r \in SeenRun, See!Lookup(r)
      PROVE  SeeInv'
  <2>1. /\ UNCHANGED <<rows, logTail, logTears, body, executed, caught, seenStage, seenFile>>
        /\ seePc' = "looked" /\ anchor' = r
    BY <1>3 DEF See!Lookup, See!logVars, See!runVars, See!storeVars
  <2>2. lookup' = "provided" => See!Store!Loads(r) /\ run' = body[r]
    BY <1>3 DEF See!Lookup
  <2>3. lookup' = "provided" => run' = body[r] /\ seenFile[r] = "whole"
    BY <2>2 DEF See!Store!Loads
  <2> QED BY <2>1, <2>3, SeeLooks
<1>4. CASE See!RecordOther
  <2>1. See!OtherLine \in SeenLine
    BY DEF SeenLine
  <2>2. UNCHANGED <<body, executed, caught, seenStage, seenFile, seePc, anchor, run, lookup, executions, cut>>
    BY <1>4 DEF See!RecordOther, See!runVars, See!storeVars, See!callVars
  <2>3. See!RecordMetricEvent(See!OtherLine) \/ See!RecordThrows(See!OtherLine)
    BY <1>4 DEF See!RecordOther, See!RecordFails
  <2> QED BY <2>1, <2>2, <2>3, SeeRecords, SeeThrows
<1> QED BY <1>1, <1>2, <1>3, <1>4, SeeStarts, SeeRuns, SeeStores DEF See!Next

\* The snapshot of a run and of the executions of its agents tells what became
\* of the run: every execution is in the trail, unless the list is full, the
\* log was longer than what is read of it, or the line went with a broken
\* append, of which each costs one (correlateVisibility, runWorkflow).
THEOREM TrailsTellTheirRuns == HomeSpec => []TrailTells
<1> DEFINE Inv == part = "visibility" => SeeInv
<1>1. HomeInit => Inv
  <2>1. ASSUME See!Init
        PROVE  SeeInv
    <3>1. /\ rows = <<>> /\ logTail = "ended" /\ logTears = 0
          /\ body = [r \in SeenRun |-> See!NoRun] /\ executed = [r \in SeenRun |-> 0]
          /\ caught = {} /\ seePc = "idle" /\ See!Store!Init
      BY <2>1 DEF See!Init, See!InitLog
    <3>2. seenStage = [r \in SeenRun |-> "new"] /\ seenFile = [r \in SeenRun |-> "absent"]
      BY <3>1 DEF See!Store!Init
    <3>3. Unseen = {}
      BY <3>1 DEF Unseen
    <3>4. \A r \in SeenRun : Len(body[r].agentIds) = 0
      BY <3>1 DEF See!NoRun
    <3>5. IsFiniteSet(Unseen) /\ Cardinality(Unseen) = 0
      BY <3>3, FS_EmptySet
    <3>6. SeenLog
      BY <3>1 DEF SeenLog
    <3> QED BY <3>1, <3>2, <3>4, <3>5, <3>6 DEF SeeInv, SeenTells, Stage
  <2> QED BY <2>1 DEF HomeInit
<1>2. Inv /\ [HomeNext]_homeVars => Inv'
  <2> SUFFICES ASSUME Inv, [HomeNext]_homeVars, part' = "visibility"
               PROVE  SeeInv'
    OBVIOUS
  <2>1. CASE See!Next /\ part = "visibility"
    BY <2>1, SeeStep
  <2>2. CASE UNCHANGED homeVars
    <3>1. UNCHANGED <<part, rows, logTail, logTears, seenStage, seenFile, body, executed, caught,
                      seePc, anchor, run, lookup, executions, cut>>
      BY <2>2 DEF homeVars, logOf, seeOf
    <3>2. Unseen' = Unseen /\ SeenTells' = SeenTells /\ SeenLog' = SeenLog
      BY <3>1 DEF Unseen, LineOf, Standing, See!Unjoined, SeenTells, Lacking, See!Trail, SeenLog
    <3> QED BY <2>2, <3>1, <3>2 DEF SeeInv
  <2> QED
    BY <2>1, <2>2 DEF HomeNext, StorePart, ChatPart, StatePart, SnapshotPart, VisibilityPart, AcrossPart
<1>3. Inv => TrailTells
  <2> SUFFICES ASSUME SeeInv
               PROVE  See!TrailTells
    BY DEF TrailTells
  <2>1. SeenTells
    BY DEF SeeInv
  <2>2. \A S : See!Cardinality(S) = Cardinality(S)
    BY Zenon DEF See!Cardinality, Cardinality
  <2> QED BY <2>1, <2>2, Zenon DEF See!TrailTells, SeenTells, Lacking
<1> QED BY <1>1, <1>2, <1>3, PTL DEF HomeSpec
-----------------------------------------------------------------------------
(* The snapshot of the log.                                                *)

\* As many pairs as a map of numbers sums up to.
Pairs(map, places) == {p \in places \X Nat : p[2] \in 1..map[p[1]]}

\* A number more is as many pairs more.
LEMMA PairsAdded ==
  ASSUME NEW map, NEW places, NEW x, x \notin places, NEW v \in Nat, map[x] = v,
         IsFiniteSet(Pairs(map, places))
  PROVE  /\ IsFiniteSet(Pairs(map, places \union {x}))
         /\ Cardinality(Pairs(map, places \union {x})) = Cardinality(Pairs(map, places)) + v
<1> DEFINE old == Pairs(map, places)
           new == {p \in {x} \X Nat : p[2] \in 1..v}
           f == [i \in 1..v |-> <<x, i>>]
<1>1. Pairs(map, places \union {x}) = old \union new
  BY DEF Pairs
<1>2. old \intersect new = {}
  BY DEF Pairs
<1>3. f \in Bijection(1..v, new)
  <2>1. \A p \in new : p[2] \in 1..v /\ f[p[2]] = p
    OBVIOUS
  <2>2. f \in [1..v -> new]
    OBVIOUS
  <2>3. \A i, j \in 1..v : f[i] = f[j] => i = j
    OBVIOUS
  <2> HIDE DEF f, new
  <2>4. f \in Injection(1..v, new)
    BY <2>2, <2>3 DEF Injection, IsInjective
  <2>5. f \in Surjection(1..v, new)
    BY <2>1, <2>2 DEF Surjection
  <2> QED BY <2>4, <2>5 DEF Bijection
<1>4. IsFiniteSet(1..v) /\ Cardinality(1..v) = v
  BY FS_Interval
<1> HIDE DEF old, new, f
<1>5. IsFiniteSet(new) /\ Cardinality(new) = v
  BY <1>3, <1>4, FS_Bijection DEF ExistsBijection
<1>6. IsFiniteSet(old)
  BY DEF old
<1>7. IsFiniteSet(old \union new)
  BY <1>5, <1>6, FS_Union
<1>8. /\ Cardinality(old \union new) = Cardinality(old) + Cardinality(new) - Cardinality(old \intersect new)
      /\ Cardinality({}) = 0
  BY <1>5, <1>6, FS_Union, FS_EmptySet
<1>9. Cardinality(old) \in Nat
  BY <1>6, FS_CardinalityType
<1>10. Cardinality(old \union new) = Cardinality(old) + v
  <2>1. Cardinality(old \intersect new) = 0
    BY <1>2, <1>8
  <2> QED BY <1>5, <1>8, <1>9, <2>1
<1> QED BY <1>1, <1>7, <1>10 DEF old

\* The pairs of finitely many numbers are finitely many.
LEMMA PairsFinite ==
  ASSUME NEW places, IsFiniteSet(places), NEW map, \A k \in places : map[k] \in Nat
  PROVE  IsFiniteSet(Pairs(map, places))
<1> DEFINE Bad == {s \in SUBSET places : ~IsFiniteSet(Pairs(map, s))}
           Sizes == {Cardinality(s) : s \in Bad}
<1> SUFFICES ASSUME Bad # {} PROVE FALSE
  OBVIOUS
<1>1. \A s \in Bad : IsFiniteSet(s) /\ Cardinality(s) \in Nat
  BY FS_Subset, FS_CardinalityType
<1>2. PICK s \in Bad : \A r \in Bad : Cardinality(s) <= Cardinality(r)
  <2>1. Sizes \in SUBSET Nat /\ Sizes # {}
    BY <1>1
  <2> HIDE DEF Sizes
  <2>2. PICK least \in Sizes : \A y \in Sizes : least <= y
    BY <2>1, HasLeast
  <2> QED BY <2>2 DEF Sizes
<1>3. s # {}
  <2>1. Pairs(map, {}) = {}
    BY DEF Pairs
  <2> QED BY <2>1, FS_EmptySet
<1>4. PICK x \in s : TRUE
  BY <1>3
<1>5. Cardinality(s \ {x}) = Cardinality(s) - 1 /\ Cardinality(s) \in Nat
  BY <1>1, <1>4, FS_RemoveElement
<1>6. s \ {x} \notin Bad
  BY <1>2, <1>5
<1>7. IsFiniteSet(Pairs(map, s \ {x})) /\ map[x] \in Nat
  BY <1>4, <1>6
<1>8. (s \ {x}) \union {x} = s /\ x \notin s \ {x}
  BY <1>4
<1>9. IsFiniteSet(Pairs(map, s))
  BY <1>7, <1>8, PairsAdded
<1> QED BY <1>9

\* A sum, in whatever order, is the number of its pairs.
LEMMA TotalIsPairs ==
  ASSUME NEW places, IsFiniteSet(places), NEW map \in [places -> Nat]
  PROVE  Snap!Total(map) = Cardinality(Pairs(map, places))
<1> DEFINE One(s) == CHOOSE x \in s : TRUE
           IsIt(it) == it = [s \in SUBSET places |->
                              IF s = {} THEN 0 ELSE map[One(s)] + it[s \ {One(s)}]]
           it == CHOOSE it : IsIt(it)
           sum == [s \in SUBSET places |-> Cardinality(Pairs(map, s))]
<1>1. Snap!Total(map) = it[places]
  BY DEF Snap!Total, Snap!FoldFunctionOnSet, Snap!MapThenFoldSet
<1>2. ASSUME NEW s \in SUBSET places
      PROVE  /\ IsFiniteSet(s) /\ sum[s] \in Nat
             /\ s = {} => sum[s] = 0
             /\ s # {} => One(s) \in s /\ sum[s] = map[One(s)] + sum[s \ {One(s)}]
  <2>1. IsFiniteSet(s) /\ IsFiniteSet(Pairs(map, s)) /\ sum[s] \in Nat
    <3>1. IsFiniteSet(s)
      BY FS_Subset
    <3>2. IsFiniteSet(Pairs(map, s))
      BY <3>1, PairsFinite
    <3> QED BY <3>1, <3>2, FS_CardinalityType
  <2>2. s = {} => sum[s] = 0
    <3>1. Pairs(map, {}) = {}
      BY DEF Pairs
    <3> QED BY <3>1, FS_EmptySet
  <2>3. ASSUME s # {} PROVE One(s) \in s /\ sum[s] = map[One(s)] + sum[s \ {One(s)}]
    <3> DEFINE x == One(s)
               less == s \ {x}
    <3>1. x \in s
      BY <2>3
    <3> HIDE DEF x
    <3>2. less \union {x} = s /\ x \notin less /\ less \in SUBSET places
      BY <3>1
    <3>3. map[x] \in Nat
      BY <3>1
    <3>4. IsFiniteSet(Pairs(map, less)) /\ Cardinality(Pairs(map, less)) \in Nat
      <4>1. IsFiniteSet(less)
        BY <3>2, FS_Subset
      <4>2. \A k \in less : map[k] \in Nat
        BY <3>2
      <4> HIDE DEF less
      <4>3. IsFiniteSet(Pairs(map, less))
        BY <4>1, <4>2, PairsFinite
      <4> QED BY <4>3, FS_CardinalityType
    <3> HIDE DEF less
    <3>5. Cardinality(Pairs(map, less \union {x})) = Cardinality(Pairs(map, less)) + map[x]
      BY <3>2, <3>3, <3>4, PairsAdded
    <3>6. sum[s] = map[x] + sum[less]
      BY <3>2, <3>3, <3>4, <3>5
    <3> QED BY <3>1, <3>6 DEF x, less
  <2> QED BY <2>1, <2>2, <2>3
<1>3. IsIt(sum)
  <2>1. sum = [s \in SUBSET places |-> sum[s]]
    OBVIOUS
  <2> HIDE DEF sum, One
  <2>2. [s \in SUBSET places |-> sum[s]] =
          [s \in SUBSET places |-> IF s = {} THEN 0 ELSE map[One(s)] + sum[s \ {One(s)}]]
    BY <1>2
  <2> QED BY <2>1, <2>2
<1>4. IsIt(it)
  BY <1>3, Zenon
<1> HIDE DEF it
<1>5. \A s \in SUBSET places : it[s] = IF s = {} THEN 0 ELSE map[One(s)] + it[s \ {One(s)}]
  BY <1>4
<1> DEFINE Bad == {s \in SUBSET places : it[s] # sum[s]}
           Sizes == {Cardinality(s) : s \in Bad}
<1> HIDE DEF sum, One
<1>6. Bad = {}
  <2> SUFFICES ASSUME Bad # {} PROVE FALSE
    OBVIOUS
  <2>1. PICK s \in Bad : \A r \in Bad : Cardinality(s) <= Cardinality(r)
    <3>1. \A s \in Bad : Cardinality(s) \in Nat
      BY <1>2, FS_CardinalityType
    <3>3. Sizes \in SUBSET Nat /\ Sizes # {}
      BY <3>1
    <3> HIDE DEF Sizes
    <3>2. PICK least \in Sizes : \A y \in Sizes : least <= y
      BY <3>3, HasLeast
    <3> QED BY <3>2 DEF Sizes
  <2>2. s # {} /\ One(s) \in s /\ IsFiniteSet(s)
    BY <1>2, <1>5
  <2>3. Cardinality(s \ {One(s)}) = Cardinality(s) - 1 /\ Cardinality(s) \in Nat
    BY <2>2, FS_RemoveElement, FS_CardinalityType
  <2>4. s \ {One(s)} \notin Bad
    BY <2>1, <2>3
  <2>5. it[s \ {One(s)}] = sum[s \ {One(s)}]
    BY <2>4
  <2> QED BY <1>2, <1>5, <2>2, <2>5
<1>7. it[places] = sum[places]
  BY <1>6
<1> QED BY <1>1, <1>7 DEF sum

\* A sum of nothing.
LEMMA TotalOfZeros ==
  ASSUME NEW places, IsFiniteSet(places), NEW map \in [places -> Nat], \A k \in places : map[k] = 0
  PROVE  Snap!Total(map) = 0
<1>1. Pairs(map, places) = {}
  BY DEF Pairs
<1>2. Snap!Total(map) = Cardinality(Pairs(map, places))
  BY TotalIsPairs
<1> QED BY <1>1, <1>2, FS_EmptySet

\* A sum of numbers is a number.
LEMMA TotalIsNat ==
  ASSUME NEW places, IsFiniteSet(places), NEW map \in [places -> Nat]
  PROVE  Snap!Total(map) \in Nat
<1>1. IsFiniteSet(Pairs(map, places))
  BY PairsFinite
<1> QED BY <1>1, TotalIsPairs, FS_CardinalityType

\* A number more in one place is as much more in all.
LEMMA TotalGrows ==
  ASSUME NEW places, IsFiniteSet(places), NEW map \in [places -> Nat], NEW x, NEW v \in Nat,
         NEW more \in [places \union {x} -> Nat],
         \A k \in places : k # x => more[k] = map[k],
         more[x] = (IF x \in places THEN map[x] ELSE 0) + v
  PROVE  Snap!Total(more) = Snap!Total(map) + v
<1> DEFINE others == places \ {x}
           base == IF x \in places THEN map[x] ELSE 0
           c == Cardinality(Pairs(map, others))
<1>1. IsFiniteSet(others) /\ IsFiniteSet(places \union {x}) /\ x \notin others
  BY FS_Subset, FS_AddElement
<1>2. IsFiniteSet(Pairs(map, others)) /\ c \in Nat
  <2>1. \A k \in others : map[k] \in Nat
    OBVIOUS
  <2> HIDE DEF others
  <2>2. IsFiniteSet(Pairs(map, others))
    BY <1>1, <2>1, PairsFinite
  <2> QED BY <2>2, FS_CardinalityType
<1>3. Pairs(more, others) = Pairs(map, others)
  BY DEF Pairs
<1>4. base \in Nat /\ more[x] = base + v /\ more[x] \in Nat
  OBVIOUS
<1>5. others \union {x} = places \union {x} /\ (x \in places => others \union {x} = places)
      /\ (x \notin places => others = places)
  OBVIOUS
<1> HIDE DEF others, c
<1>6. Snap!Total(more) = c + more[x]
  <2>1. Cardinality(Pairs(more, others \union {x})) = Cardinality(Pairs(more, others)) + more[x]
    BY <1>1, <1>2, <1>3, <1>4, PairsAdded
  <2>2. Snap!Total(more) = Cardinality(Pairs(more, places \union {x}))
    BY <1>1, TotalIsPairs
  <2> QED BY <1>3, <1>5, <2>1, <2>2 DEF c
<1>7. Snap!Total(map) = c + base
  <2>1. Snap!Total(map) = Cardinality(Pairs(map, places))
    BY TotalIsPairs
  <2>2. CASE x \in places
    <3>1. Cardinality(Pairs(map, others \union {x})) = Cardinality(Pairs(map, others)) + map[x]
      BY <1>1, <1>2, <2>2, PairsAdded
    <3> QED BY <1>5, <2>1, <2>2, <3>1 DEF c
  <2>3. CASE x \notin places
    BY <1>2, <1>5, <2>1, <2>3 DEF c
  <2> QED BY <2>2, <2>3
<1> QED BY <1>2, <1>4, <1>6, <1>7

\* The rows and the columns of a snapshot, and its maps of finitely many rows.
LineName == STRING \union {"unknown"}
CheckKey == [check : LineName, conclusion : LineName, base : LineName]
Maps(K, V) == {map \in UNION {[some -> V] : some \in SUBSET K} : IsFiniteSet(DOMAIN map)}

ChatRow == [count : Nat, errors : Nat, prompt : Nat, completion : Nat, tokens : Nat]
AgentRow == [count : Nat, errors : Nat, count7d : Nat, lastAt : Int]
CheckRow == [count : Nat, errors : Nat]
Column(days) == [days -> Nat]
SeriesOf(days) == [total : Column(days), byAgent : Maps(LineName, Column(days))]

\* What a row of a map is before it is changed, and the map after it.
RowOf(map, key, zero) == IF key \in DOMAIN map THEN map[key] ELSE zero
Put(map, key, value) == [k \in DOMAIN map \union {key} |-> IF k # key THEN map[k] ELSE value]

\* A row that is put has its value, and the others keep theirs.
LEMMA PutInMap ==
  ASSUME NEW K, NEW V, NEW map \in Maps(K, V), NEW key \in K, NEW value \in V
  PROVE  /\ Put(map, key, value) \in Maps(K, V)
         /\ DOMAIN Put(map, key, value) = DOMAIN map \union {key}
         /\ Put(map, key, value)[key] = value
         /\ \A k \in DOMAIN map : k # key => Put(map, key, value)[k] = map[k]
<1> DEFINE more == Put(map, key, value)
           some == DOMAIN map
<1>1. some \in SUBSET K /\ map \in [some -> V] /\ IsFiniteSet(some)
  BY DEF Maps
<1>2. more = [k \in some \union {key} |-> IF k # key THEN map[k] ELSE value]
  BY DEF Put
<1> HIDE DEF more, some
<1>3. more \in [some \union {key} -> V] /\ some \union {key} \in SUBSET K
  BY <1>1, <1>2
<1>4. IsFiniteSet(some \union {key})
  BY <1>1, FS_AddElement
<1>5. more \in Maps(K, V)
  BY <1>3, <1>4 DEF Maps
<1> QED BY <1>2, <1>3, <1>5 DEF more, some

\* The days of a series, all agents together, and the days of one of them.
DaysAddUp(series) ==
  \A d \in DOMAIN series.total :
    series.total[d] = Snap!Total([a \in DOMAIN series.byAgent |-> series.byAgent[a][d]])
Shown(series, a) ==
  IF a \in DOMAIN series.byAgent THEN Snap!Total(series.byAgent[a]) ELSE 0

\* A day more of an agent.
LEMMA BumpTells ==
  ASSUME NEW days, IsFiniteSet(days), NEW series \in SeriesOf(days), NEW agent \in LineName, NEW day,
         DaysAddUp(series)
  PROVE  LET bumped == Snap!BumpAdoption(series, agent, day)
         IN  /\ bumped \in SeriesOf(days) /\ DaysAddUp(bumped)
             /\ \A a : Shown(bumped, a) = Shown(series, a) + IF a = agent /\ day \in days THEN 1 ELSE 0
<1> DEFINE bumped == Snap!BumpAdoption(series, agent, day)
           table == series.byAgent
           zero == [d \in days |-> 0]
           old == RowOf(table, agent, zero)
           new == [old EXCEPT ![day] = old[day] + 1]
<1>1. /\ series.total \in Column(days) /\ DOMAIN series.total = days
      /\ table \in Maps(LineName, Column(days))
  BY DEF SeriesOf, Column
<1>2. \A a \in DOMAIN table : table[a] \in Column(days)
  BY <1>1 DEF Maps
<1>3. \A a : Shown(series, a) \in Nat
  BY <1>2, TotalIsNat DEF Shown, Column
<1>4. CASE day \notin days
  <2>1. bumped = series
    BY <1>1, <1>4 DEF Snap!BumpAdoption
  <2> QED BY <1>3, <1>4, <2>1
<1>5. CASE day \in days
  <2>1. zero \in Column(days) /\ old \in Column(days)
    BY <1>2 DEF Column, RowOf
  <2>2. new \in Column(days) /\ new[day] = old[day] + 1 /\ \A d \in days : d # day => new[d] = old[d]
    BY <1>5, <2>1 DEF Column
  <2>3. /\ bumped.total = [series.total EXCEPT ![day] = series.total[day] + 1]
        /\ bumped.byAgent = Put(table, agent, new)
    BY <1>1, <1>5 DEF Snap!BumpAdoption, Snap!Update, Put, RowOf
  <2>4. bumped = [total |-> bumped.total, byAgent |-> bumped.byAgent]
    BY <1>1, <1>5 DEF Snap!BumpAdoption
  <2> HIDE DEF bumped, new, old, zero
  <2>5. bumped.total \in Column(days)
    BY <1>1, <1>5, <2>3 DEF Column
  <2>6. /\ bumped.byAgent \in Maps(LineName, Column(days))
        /\ DOMAIN bumped.byAgent = DOMAIN table \union {agent}
        /\ bumped.byAgent[agent] = new
        /\ \A a \in DOMAIN table : a # agent => bumped.byAgent[a] = table[a]
    <3>1. table \in Maps(LineName, Column(days)) /\ agent \in LineName /\ new \in Column(days)
      BY <1>1, <2>2
    <3>2. /\ Put(table, agent, new) \in Maps(LineName, Column(days))
          /\ DOMAIN Put(table, agent, new) = DOMAIN table \union {agent}
          /\ Put(table, agent, new)[agent] = new
          /\ \A a \in DOMAIN table : a # agent => Put(table, agent, new)[a] = table[a]
      <4> HIDE DEF table
      <4> QED BY ONLY <3>1, PutInMap
    <3> QED BY <2>3, <3>2
  <2>7. bumped \in SeriesOf(days)
    BY <2>4, <2>5, <2>6 DEF SeriesOf
  <2>8. IsFiniteSet(DOMAIN table)
    BY <1>1 DEF Maps
  <2>9. \A a \in DOMAIN bumped.byAgent : bumped.byAgent[a] \in Column(days)
    BY <2>6 DEF Maps
  <2>10. DaysAddUp(bumped)
    <3> SUFFICES ASSUME NEW d \in days
                 PROVE  bumped.total[d] = Snap!Total([a \in DOMAIN bumped.byAgent |-> bumped.byAgent[a][d]])
      BY <2>5 DEF DaysAddUp, Column
    <3> DEFINE f == [a \in DOMAIN table |-> table[a][d]]
               g == [a \in DOMAIN table \union {agent} |-> bumped.byAgent[a][d]]
               v == IF d = day THEN 1 ELSE 0
    <3>1. f \in [DOMAIN table -> Nat]
      BY <1>2 DEF Column
    <3>2. g \in [DOMAIN table \union {agent} -> Nat]
      BY <2>6, <2>9 DEF Column
    <3>3. \A a \in DOMAIN table : a # agent => g[a] = f[a]
      BY <2>6
    <3>4. g[agent] = (IF agent \in DOMAIN table THEN f[agent] ELSE 0) + v
      <4>1. g[agent] = new[d] /\ old[d] \in Nat
        BY <2>1, <2>6 DEF Column
      <4>2. old[d] = IF agent \in DOMAIN table THEN f[agent] ELSE 0
        BY DEF old, zero, RowOf
      <4> QED BY <2>2, <4>1, <4>2
    <3>5. v \in Nat
      OBVIOUS
    <3> HIDE DEF f, g, v
    <3>6. Snap!Total(g) = Snap!Total(f) + v
      BY <2>8, <3>1, <3>2, <3>3, <3>4, <3>5, TotalGrows
    <3>7. series.total[d] = Snap!Total(f) /\ series.total[d] \in Nat
      BY <1>1 DEF DaysAddUp, f, Column
    <3>8. bumped.total[d] = series.total[d] + v
      BY <1>1, <1>5, <2>3, <3>7 DEF v, Column
    <3> QED BY <2>6, <3>6, <3>7, <3>8 DEF g
  <2>11. ASSUME NEW a PROVE Shown(bumped, a) = Shown(series, a) + IF a = agent THEN 1 ELSE 0
    <3>1. CASE a # agent
      BY <1>3, <2>6, <3>1 DEF Shown
    <3>2. CASE a = agent
      <4>1. days \union {day} = days
        BY <1>5
      <4>2. Snap!Total(new) = Snap!Total(old) + 1
        BY <1>5, <2>1, <2>2, <4>1, TotalGrows DEF Column
      <4>3. Snap!Total(old) = Shown(series, agent)
        <5>1. CASE agent \in DOMAIN table
          BY <5>1 DEF old, RowOf, Shown
        <5>2. CASE agent \notin DOMAIN table
          <6>1. Snap!Total(zero) = 0
            BY <2>1, TotalOfZeros DEF zero, Column
          <6> QED BY <5>2, <6>1 DEF old, RowOf, Shown
        <5> QED BY <5>1, <5>2
      <4> QED BY <2>6, <3>2, <4>2, <4>3 DEF Shown
    <3> QED BY <3>1, <3>2
  <2> QED BY <1>5, <2>7, <2>10, <2>11 DEF bumped
<1> QED BY <1>4, <1>5

\* What a field sums up to over the rows of a map, when one row is changed.
LEMMA FieldGrows ==
  ASSUME NEW K, NEW V, NEW map \in Maps(K, V), NEW key \in K, NEW zero \in V, NEW value \in V,
         NEW field \in [V -> Nat], field[zero] = 0,
         NEW v \in Nat, field[value] = field[RowOf(map, key, zero)] + v,
         NEW more, more = Put(map, key, value)
  PROVE  Snap!Total([k \in DOMAIN more |-> field[more[k]]]) =
           Snap!Total([k \in DOMAIN map |-> field[map[k]]]) + v
<1> DEFINE some == DOMAIN map
           f == [k \in some |-> field[map[k]]]
           g == [k \in some \union {key} |-> field[more[k]]]
<1>1. IsFiniteSet(some) /\ map \in [some -> V]
  BY DEF Maps
<1>2. /\ DOMAIN more = some \union {key} /\ more[key] = value
      /\ \A k \in some : k # key => more[k] = map[k]
  BY DEF Put
<1>3. f \in [some -> Nat]
  BY <1>1
<1>4. g \in [some \union {key} -> Nat]
  BY <1>1, <1>2
<1>5. \A k \in some : k # key => g[k] = f[k]
  BY <1>2
<1>6. g[key] = (IF key \in some THEN f[key] ELSE 0) + v
  BY <1>2 DEF RowOf
<1> HIDE DEF f, g, some
<1>7. Snap!Total(g) = Snap!Total(f) + v
  BY <1>1, <1>3, <1>4, <1>5, <1>6, TotalGrows
<1> QED BY <1>2, <1>7 DEF f, g, some

\* A snapshot, and the lines by their kinds.
SnapText(now) ==
  [eventCount : Nat,
   chat : ChatRow, byProvider : Maps(LineName, ChatRow),
   agent : AgentRow, byAgent : Maps(LineName, AgentRow),
   week : SeriesOf(Snap!Buckets(WeekDays, now)), month : SeriesOf(Snap!Buckets(MonthDays, now)),
   ci : CheckRow, byCheck : Maps(CheckKey, CheckRow)]

IsChat(line) ==
  /\ line.kind = "provider.chat" /\ line.name \in STRING
  /\ line.prompt \in Nat /\ line.completion \in Nat /\ line.total \in Nat
IsAgent(line) == line.kind = "agent.execution" /\ line.name \in STRING
IsCheck(line) ==
  line.kind = "delivery.ci" /\ line.name \in STRING /\ line.conclusion \in STRING /\ line.base \in STRING

\* The totals are the sums of their rows.
ChatsAddUp(snap) ==
  /\ snap.chat.count = Snap!Total([k \in DOMAIN snap.byProvider |-> snap.byProvider[k].count])
  /\ snap.chat.errors = Snap!Total([k \in DOMAIN snap.byProvider |-> snap.byProvider[k].errors])
  /\ snap.chat.tokens = Snap!Total([k \in DOMAIN snap.byProvider |-> snap.byProvider[k].tokens])
AgentsAddUp(snap) ==
  /\ snap.agent.count = Snap!Total([k \in DOMAIN snap.byAgent |-> snap.byAgent[k].count])
  /\ snap.agent.errors = Snap!Total([k \in DOMAIN snap.byAgent |-> snap.byAgent[k].errors])
ChecksAddUp(snap) ==
  snap.ci.errors = Snap!Total([k \in DOMAIN snap.byCheck |-> snap.byCheck[k].errors])

\* A line without a name counts as unknown.
LEMMA NameOfLine ==
  ASSUME NEW line, line.name \in STRING
  PROVE  Snap!NameOf(line) \in LineName
BY DEF Snap!NameOf, LineName

\* A line of a chat counts in all and for its provider.
LEMMA ChatLineAdded ==
  ASSUME NEW now \in Nat, NEW snap \in SnapText(now), NEW line, IsChat(line), ChatsAddUp(snap)
  PROVE  LET more == Snap!AddLine(snap, line, now)
         IN  /\ more \in SnapText(now) /\ ChatsAddUp(more)
             /\ more.eventCount = snap.eventCount + 1 /\ more.chat.count = snap.chat.count + 1
             /\ more.agent = snap.agent /\ more.byAgent = snap.byAgent
             /\ more.week = snap.week /\ more.month = snap.month
             /\ more.ci = snap.ci /\ more.byCheck = snap.byCheck
<1> DEFINE more == Snap!AddLine(snap, line, now)
           name == Snap!NameOf(line)
           map == snap.byProvider
           old == RowOf(map, name, Snap!EmptyTotals)
           new == Snap!AddChat(old, line)
           all == Snap!AddChat(snap.chat, line)
           faults == IF line.ok THEN 0 ELSE 1
           used == IF line.total # 0 THEN line.total ELSE line.prompt + line.completion
<1>1. more = [snap EXCEPT !.eventCount = snap.eventCount + 1, !.chat = all,
                          !.byProvider = Put(map, name, new)]
  BY DEF IsChat, SnapText, Snap!AddLine, Snap!AddChatLine, Snap!Update, Put, RowOf
<1>2. name \in LineName
  BY NameOfLine DEF IsChat
<1>3. Snap!EmptyTotals \in ChatRow /\ map \in Maps(LineName, ChatRow) /\ snap.chat \in ChatRow
  BY DEF Snap!EmptyTotals, ChatRow, SnapText
<1>4. old \in ChatRow
  BY <1>3 DEF RowOf, Maps
<1>5. faults \in Nat /\ used \in Nat
  BY DEF IsChat
<1>6. ASSUME NEW row \in ChatRow
      PROVE  /\ Snap!AddChat(row, line) \in ChatRow
             /\ Snap!AddChat(row, line).count = row.count + 1
             /\ Snap!AddChat(row, line).errors = row.errors + faults
             /\ Snap!AddChat(row, line).tokens = row.tokens + used
  BY <1>5 DEF Snap!AddChat, ChatRow, IsChat
<1> HIDE DEF name, old, faults, used
<1>7. new \in ChatRow /\ all \in ChatRow
  BY <1>3, <1>4, <1>6
<1>8. Put(map, name, new) \in Maps(LineName, ChatRow)
  <2> HIDE DEF map, new
  <2> QED BY <1>2, <1>3, <1>7, PutInMap
<1>9. /\ more.eventCount = snap.eventCount + 1 /\ more.chat = all /\ more.byProvider = Put(map, name, new)
      /\ more.agent = snap.agent /\ more.byAgent = snap.byAgent
      /\ more.week = snap.week /\ more.month = snap.month
      /\ more.ci = snap.ci /\ more.byCheck = snap.byCheck
  BY <1>1 DEF SnapText
<1>10. more \in SnapText(now)
  <2> DEFINE put == Put(map, name, new)
  <2>1. /\ snap \in [eventCount : Nat, chat : ChatRow, byProvider : Maps(LineName, ChatRow),
                    agent : AgentRow, byAgent : Maps(LineName, AgentRow),
                    week : SeriesOf(Snap!Buckets(WeekDays, now)),
                    month : SeriesOf(Snap!Buckets(MonthDays, now)),
                    ci : CheckRow, byCheck : Maps(CheckKey, CheckRow)]
        /\ put \in Maps(LineName, ChatRow) /\ snap.eventCount + 1 \in Nat
    BY <1>8 DEF SnapText
  <2>2. more = [snap EXCEPT !.eventCount = snap.eventCount + 1, !.chat = all, !.byProvider = put]
    BY <1>1
  <2> HIDE DEF more, all, new, map, put
  <2>3. more \in [eventCount : Nat, chat : ChatRow, byProvider : Maps(LineName, ChatRow),
                 agent : AgentRow, byAgent : Maps(LineName, AgentRow),
                 week : SeriesOf(Snap!Buckets(WeekDays, now)),
                 month : SeriesOf(Snap!Buckets(MonthDays, now)),
                 ci : CheckRow, byCheck : Maps(CheckKey, CheckRow)]
    BY ONLY <1>7, <2>1, <2>2
  <2> QED BY <2>3 DEF SnapText
<1> DEFINE count == [r \in ChatRow |-> r.count]
           errors == [r \in ChatRow |-> r.errors]
           tokens == [r \in ChatRow |-> r.tokens]
<1>11. /\ count \in [ChatRow -> Nat] /\ errors \in [ChatRow -> Nat] /\ tokens \in [ChatRow -> Nat]
       /\ count[Snap!EmptyTotals] = 0 /\ errors[Snap!EmptyTotals] = 0 /\ tokens[Snap!EmptyTotals] = 0
  BY <1>3 DEF ChatRow, Snap!EmptyTotals
<1>12. /\ count[new] = count[old] + 1 /\ errors[new] = errors[old] + faults
       /\ tokens[new] = tokens[old] + used
  BY <1>4, <1>6, <1>7
<1> DEFINE put == Put(map, name, new)
<1>13. \A table \in Maps(LineName, ChatRow) :
         /\ [k \in DOMAIN table |-> count[table[k]]] = [k \in DOMAIN table |-> table[k].count]
         /\ [k \in DOMAIN table |-> errors[table[k]]] = [k \in DOMAIN table |-> table[k].errors]
         /\ [k \in DOMAIN table |-> tokens[table[k]]] = [k \in DOMAIN table |-> table[k].tokens]
  BY DEF Maps
<1>14. ChatsAddUp(more)
  <2> HIDE DEF count, errors, tokens, new, map
  <2>0. /\ map \in Maps(LineName, ChatRow) /\ name \in LineName
        /\ new \in ChatRow /\ Snap!EmptyTotals \in ChatRow
        /\ old = RowOf(map, name, Snap!EmptyTotals)
    BY <1>2, <1>3, <1>7 DEF old
  <2>1. put = Put(map, name, new)
    OBVIOUS
  <2> HIDE DEF put
  <2>2. Snap!Total([k \in DOMAIN put |-> count[put[k]]]) = Snap!Total([k \in DOMAIN map |-> count[map[k]]]) + 1
    <3>1. /\ count \in [ChatRow -> Nat] /\ count[Snap!EmptyTotals] = 0 /\ 1 \in Nat
          /\ count[new] = count[RowOf(map, name, Snap!EmptyTotals)] + 1
      BY ONLY <1>11, <1>12, <2>0
    <3> QED BY ONLY <2>0, <2>1, <3>1, FieldGrows
  <2>3. Snap!Total([k \in DOMAIN put |-> errors[put[k]]]) =
          Snap!Total([k \in DOMAIN map |-> errors[map[k]]]) + faults
    <3>1. /\ errors \in [ChatRow -> Nat] /\ errors[Snap!EmptyTotals] = 0 /\ faults \in Nat
          /\ errors[new] = errors[RowOf(map, name, Snap!EmptyTotals)] + faults
      BY ONLY <1>5, <1>11, <1>12, <2>0
    <3> QED BY ONLY <2>0, <2>1, <3>1, FieldGrows
  <2>4. Snap!Total([k \in DOMAIN put |-> tokens[put[k]]]) =
          Snap!Total([k \in DOMAIN map |-> tokens[map[k]]]) + used
    <3>1. /\ tokens \in [ChatRow -> Nat] /\ tokens[Snap!EmptyTotals] = 0 /\ used \in Nat
          /\ tokens[new] = tokens[RowOf(map, name, Snap!EmptyTotals)] + used
      BY ONLY <1>5, <1>11, <1>12, <2>0
    <3> QED BY ONLY <2>0, <2>1, <3>1, FieldGrows
  <2>5. more.byProvider = put /\ put \in Maps(LineName, ChatRow)
    BY <1>8, <1>9, <2>1
  <2>6. /\ snap.chat.count = Snap!Total([k \in DOMAIN map |-> count[map[k]]])
        /\ snap.chat.errors = Snap!Total([k \in DOMAIN map |-> errors[map[k]]])
        /\ snap.chat.tokens = Snap!Total([k \in DOMAIN map |-> tokens[map[k]]])
    BY <1>3, <1>13 DEF ChatsAddUp, map
  <2>7. /\ more.chat.count = Snap!Total([k \in DOMAIN put |-> count[put[k]]])
        /\ more.chat.errors = Snap!Total([k \in DOMAIN put |-> errors[put[k]]])
        /\ more.chat.tokens = Snap!Total([k \in DOMAIN put |-> tokens[put[k]]])
    BY <1>3, <1>6, <1>9, <2>2, <2>3, <2>4, <2>6
  <2> QED BY <1>13, <2>5, <2>7 DEF ChatsAddUp
<1>15. more.chat.count = snap.chat.count + 1
  BY <1>3, <1>6, <1>9
<1> HIDE DEF more
<1> QED BY <1>9, <1>10, <1>14, <1>15 DEF more

\* A line of a check counts in all and for its kind.
LEMMA CheckLineAdded ==
  ASSUME NEW now \in Nat, NEW snap \in SnapText(now), NEW line, IsCheck(line), ChecksAddUp(snap)
  PROVE  LET more == Snap!AddLine(snap, line, now)
         IN  /\ more \in SnapText(now) /\ ChecksAddUp(more)
             /\ more.eventCount = snap.eventCount + 1 /\ more.ci.count = snap.ci.count + 1
             /\ more.chat = snap.chat /\ more.byProvider = snap.byProvider
             /\ more.agent = snap.agent /\ more.byAgent = snap.byAgent
             /\ more.week = snap.week /\ more.month = snap.month
<1> DEFINE more == Snap!AddLine(snap, line, now)
           key == Snap!CiKey(line)
           map == snap.byCheck
           old == RowOf(map, key, Snap!EmptyCi)
           new == Snap!AddCi(old, line)
           all == Snap!AddCi(snap.ci, line)
           faults == IF line.conclusion \in {"failure", "cancelled", "timed_out"} THEN 1 ELSE 0
           put == Put(map, key, new)
<1>1. more = [snap EXCEPT !.eventCount = snap.eventCount + 1, !.ci = all, !.byCheck = put]
  BY DEF IsCheck, SnapText, Snap!AddLine, Snap!AddCiLine, Snap!Update, Put, RowOf
<1>2. key \in CheckKey
  <2>1. Snap!NameOf(line) \in LineName
    BY NameOfLine DEF IsCheck
  <2> QED BY <2>1 DEF IsCheck, Snap!CiKey, CheckKey, LineName
<1>3. Snap!EmptyCi \in CheckRow /\ map \in Maps(CheckKey, CheckRow) /\ snap.ci \in CheckRow
  BY DEF Snap!EmptyCi, CheckRow, SnapText
<1>4. old \in CheckRow
  BY <1>3 DEF RowOf, Maps
<1>5. faults \in Nat
  OBVIOUS
<1>6. ASSUME NEW row \in CheckRow
      PROVE  /\ Snap!AddCi(row, line) \in CheckRow
             /\ Snap!AddCi(row, line).count = row.count + 1
             /\ Snap!AddCi(row, line).errors = row.errors + faults
  BY DEF Snap!AddCi, CheckRow
<1> HIDE DEF key, old, faults
<1>7. new \in CheckRow /\ all \in CheckRow
  BY <1>3, <1>4, <1>6
<1>8. put \in Maps(CheckKey, CheckRow)
  <2> HIDE DEF map, new
  <2> QED BY <1>2, <1>3, <1>7, PutInMap
<1>9. /\ more.eventCount = snap.eventCount + 1 /\ more.ci = all /\ more.byCheck = put
      /\ more.chat = snap.chat /\ more.byProvider = snap.byProvider
      /\ more.agent = snap.agent /\ more.byAgent = snap.byAgent
      /\ more.week = snap.week /\ more.month = snap.month
  BY <1>1 DEF SnapText
<1>10. more \in SnapText(now)
  <2>1. /\ snap \in [eventCount : Nat, chat : ChatRow, byProvider : Maps(LineName, ChatRow),
                    agent : AgentRow, byAgent : Maps(LineName, AgentRow),
                    week : SeriesOf(Snap!Buckets(WeekDays, now)),
                    month : SeriesOf(Snap!Buckets(MonthDays, now)),
                    ci : CheckRow, byCheck : Maps(CheckKey, CheckRow)]
        /\ snap.eventCount + 1 \in Nat
    BY DEF SnapText
  <2> HIDE DEF more, all, put
  <2>2. more \in [eventCount : Nat, chat : ChatRow, byProvider : Maps(LineName, ChatRow),
                 agent : AgentRow, byAgent : Maps(LineName, AgentRow),
                 week : SeriesOf(Snap!Buckets(WeekDays, now)),
                 month : SeriesOf(Snap!Buckets(MonthDays, now)),
                 ci : CheckRow, byCheck : Maps(CheckKey, CheckRow)]
    BY ONLY <1>1, <1>7, <1>8, <2>1
  <2> QED BY <2>2 DEF SnapText
<1> DEFINE errors == [r \in CheckRow |-> r.errors]
<1>11. errors \in [CheckRow -> Nat] /\ errors[Snap!EmptyCi] = 0 /\ errors[new] = errors[old] + faults
  BY <1>3, <1>4, <1>6, <1>7 DEF CheckRow, Snap!EmptyCi
<1>12. \A table \in Maps(CheckKey, CheckRow) :
         [k \in DOMAIN table |-> errors[table[k]]] = [k \in DOMAIN table |-> table[k].errors]
  BY DEF Maps
<1>13. ChecksAddUp(more)
  <2> HIDE DEF errors, new, map
  <2>0. /\ map \in Maps(CheckKey, CheckRow) /\ key \in CheckKey
        /\ new \in CheckRow /\ Snap!EmptyCi \in CheckRow
        /\ old = RowOf(map, key, Snap!EmptyCi)
    BY <1>2, <1>3, <1>7 DEF old
  <2>1. put = Put(map, key, new)
    OBVIOUS
  <2> HIDE DEF put
  <2>2. Snap!Total([k \in DOMAIN put |-> errors[put[k]]]) =
          Snap!Total([k \in DOMAIN map |-> errors[map[k]]]) + faults
    <3>1. /\ errors \in [CheckRow -> Nat] /\ errors[Snap!EmptyCi] = 0 /\ faults \in Nat
          /\ errors[new] = errors[RowOf(map, key, Snap!EmptyCi)] + faults
      BY ONLY <1>5, <1>11, <2>0
    <3> QED BY ONLY <2>0, <2>1, <3>1, FieldGrows
  <2>3. snap.ci.errors = Snap!Total([k \in DOMAIN map |-> errors[map[k]]])
    BY <1>3, <1>12 DEF ChecksAddUp, map
  <2>4. more.ci.errors = Snap!Total([k \in DOMAIN put |-> errors[put[k]]])
    BY <1>3, <1>6, <1>9, <2>2, <2>3
  <2> QED BY <1>8, <1>9, <1>12, <2>4 DEF ChecksAddUp
<1>14. more.ci.count = snap.ci.count + 1
  BY <1>3, <1>6, <1>9
<1> HIDE DEF more
<1> QED BY <1>9, <1>10, <1>13, <1>14 DEF more

\* The executions of an agent that its row has for the week.
WeekRow(snap, a) == IF a \in DOMAIN snap.byAgent THEN snap.byAgent[a].count7d ELSE 0

\* The series after a line, if it is within so many days by the clock.
Bumped(series, line, days, now) ==
  IF Snap!Within(line.at, days, now)
  THEN Snap!BumpAdoption(series, Snap!NameOf(line), Snap!Day(line.at)) ELSE series

\* An execution that has a column.
Columned(line, days, now) ==
  Snap!Within(line.at, days, now) /\ Snap!Day(line.at) \in Snap!Buckets(days, now)

\* An execution shows in its column, if its day has one.
LEMMA BumpedTells ==
  ASSUME NEW now \in Nat, NEW days \in Nat, NEW series \in SeriesOf(Snap!Buckets(days, now)),
         NEW line, IsAgent(line), DaysAddUp(series)
  PROVE  /\ Bumped(series, line, days, now) \in SeriesOf(Snap!Buckets(days, now))
         /\ DaysAddUp(Bumped(series, line, days, now))
         /\ \A a : Shown(Bumped(series, line, days, now), a) =
              Shown(series, a) + IF a = Snap!NameOf(line) /\ Columned(line, days, now) THEN 1 ELSE 0
<1> DEFINE columns == Snap!Buckets(days, now)
           name == Snap!NameOf(line)
           day == Snap!Day(line.at)
<1>1. IsFiniteSet(columns)
  <2>1. Snap!Day(now) \in Int /\ Snap!Day(now) - days + 1 \in Int
    BY LinesAssumption DEF Snap!Day
  <2> QED BY <2>1, FS_Interval DEF Snap!Buckets
<1>2. name \in LineName
  BY NameOfLine DEF IsAgent
<1> HIDE DEF columns, name, day
<1>3. series \in SeriesOf(columns)
  BY DEF columns
<1>4. CASE Snap!Within(line.at, days, now)
  <2>1. LET bumped == Snap!BumpAdoption(series, name, day)
        IN  /\ bumped \in SeriesOf(columns) /\ DaysAddUp(bumped)
            /\ \A a : Shown(bumped, a) = Shown(series, a) + IF a = name /\ day \in columns THEN 1 ELSE 0
    BY <1>1, <1>2, <1>3, BumpTells
  <2>2. Bumped(series, line, days, now) = Snap!BumpAdoption(series, name, day)
    BY <1>4 DEF Bumped, name, day
  <2>3. Columned(line, days, now) <=> day \in columns
    BY <1>4 DEF Columned, columns, day
  <2> QED BY <2>1, <2>2, <2>3 DEF columns, name
<1>5. CASE ~Snap!Within(line.at, days, now)
  <2>1. Bumped(series, line, days, now) = series /\ ~Columned(line, days, now)
    BY <1>5 DEF Bumped, Columned
  <2>2. \A a : Shown(series, a) \in Nat
    <3>1. /\ series.byAgent \in Maps(LineName, Column(columns))
      BY <1>3 DEF SeriesOf
    <3>2. \A a \in DOMAIN series.byAgent : series.byAgent[a] \in Column(columns)
      BY <3>1 DEF Maps
    <3> QED BY <1>1, <3>2, TotalIsNat DEF Shown, Column
  <2> QED BY <2>1, <2>2
<1> QED BY <1>4, <1>5

\* A line of an execution counts in all and for its agent, and on its day.
LEMMA AgentLineAdded ==
  ASSUME NEW now \in Nat, NEW snap \in SnapText(now), NEW line, IsAgent(line), line.at \in Int,
         AgentsAddUp(snap), DaysAddUp(snap.week), DaysAddUp(snap.month)
  PROVE  LET more == Snap!AddLine(snap, line, now)
             name == Snap!NameOf(line)
         IN  /\ more \in SnapText(now) /\ AgentsAddUp(more)
             /\ more.eventCount = snap.eventCount + 1 /\ more.agent.count = snap.agent.count + 1
             /\ more.chat = snap.chat /\ more.byProvider = snap.byProvider
             /\ more.ci = snap.ci /\ more.byCheck = snap.byCheck
             /\ more.week = Bumped(snap.week, line, WeekDays, now)
             /\ more.month = Bumped(snap.month, line, MonthDays, now)
             /\ \A a : WeekRow(more, a) =
                  WeekRow(snap, a) + IF a = name /\ Snap!Within(line.at, WeekDays, now) THEN 1 ELSE 0
<1> DEFINE more == Snap!AddLine(snap, line, now)
           name == Snap!NameOf(line)
           map == snap.byAgent
           old == RowOf(map, name, Snap!EmptyAgent)
           new == Snap!AddAgent(old, line, now)
           all == Snap!AddAgent(snap.agent, line, now)
           faults == IF Snap!Succeeded(line) THEN 0 ELSE 1
           inWeek == IF Snap!Within(line.at, WeekDays, now) THEN 1 ELSE 0
           put == Put(map, name, new)
           week == Bumped(snap.week, line, WeekDays, now)
           month == Bumped(snap.month, line, MonthDays, now)
<1>1. more = [snap EXCEPT !.eventCount = snap.eventCount + 1, !.agent = all, !.byAgent = put,
                          !.week = week, !.month = month]
  BY DEF IsAgent, SnapText, Snap!AddLine, Snap!AddAgentLine, Snap!Update, Put, RowOf, Bumped
<1>2. name \in LineName
  BY NameOfLine DEF IsAgent
<1>3. Snap!EmptyAgent \in AgentRow /\ map \in Maps(LineName, AgentRow) /\ snap.agent \in AgentRow
  BY DEF Snap!EmptyAgent, Snap!NoTime, AgentRow, SnapText
<1>4. old \in AgentRow
  BY <1>3 DEF RowOf, Maps
<1>5. faults \in Nat /\ inWeek \in Nat
  OBVIOUS
<1>6. ASSUME NEW row \in AgentRow
      PROVE  /\ Snap!AddAgent(row, line, now) \in AgentRow
             /\ Snap!AddAgent(row, line, now).count = row.count + 1
             /\ Snap!AddAgent(row, line, now).errors = row.errors + faults
             /\ Snap!AddAgent(row, line, now).count7d = row.count7d + inWeek
  <2> HIDE DEF faults, inWeek
  <2>1. Snap!AddAgent(row, line, now) =
          [count |-> row.count + 1, errors |-> row.errors + faults, count7d |-> row.count7d + inWeek,
           lastAt |-> IF line.at > row.lastAt THEN line.at ELSE row.lastAt]
    BY DEF Snap!AddAgent, faults, inWeek
  <2> QED BY <1>5, <2>1 DEF AgentRow
<1>7. snap.week \in SeriesOf(Snap!Buckets(WeekDays, now)) /\ snap.month \in SeriesOf(Snap!Buckets(MonthDays, now))
  BY DEF SnapText
<1>8. week \in SeriesOf(Snap!Buckets(WeekDays, now)) /\ month \in SeriesOf(Snap!Buckets(MonthDays, now))
  BY <1>7, LinesAssumption, BumpedTells
<1> HIDE DEF name, old, faults, inWeek, week, month
<1>9. new \in AgentRow /\ all \in AgentRow
  BY <1>3, <1>4, <1>6
<1>10. put \in Maps(LineName, AgentRow)
  <2> HIDE DEF map, new
  <2> QED BY <1>2, <1>3, <1>9, PutInMap
<1>11. /\ more.eventCount = snap.eventCount + 1 /\ more.agent = all /\ more.byAgent = put
       /\ more.chat = snap.chat /\ more.byProvider = snap.byProvider
       /\ more.ci = snap.ci /\ more.byCheck = snap.byCheck
       /\ more.week = week /\ more.month = month
  BY <1>1 DEF SnapText
<1>12. more \in SnapText(now)
  <2>1. /\ snap \in [eventCount : Nat, chat : ChatRow, byProvider : Maps(LineName, ChatRow),
                    agent : AgentRow, byAgent : Maps(LineName, AgentRow),
                    week : SeriesOf(Snap!Buckets(WeekDays, now)),
                    month : SeriesOf(Snap!Buckets(MonthDays, now)),
                    ci : CheckRow, byCheck : Maps(CheckKey, CheckRow)]
        /\ snap.eventCount + 1 \in Nat
    BY DEF SnapText
  <2> HIDE DEF more, all, put
  <2>2. more \in [eventCount : Nat, chat : ChatRow, byProvider : Maps(LineName, ChatRow),
                 agent : AgentRow, byAgent : Maps(LineName, AgentRow),
                 week : SeriesOf(Snap!Buckets(WeekDays, now)),
                 month : SeriesOf(Snap!Buckets(MonthDays, now)),
                 ci : CheckRow, byCheck : Maps(CheckKey, CheckRow)]
    BY ONLY <1>1, <1>8, <1>9, <1>10, <2>1
  <2> QED BY <2>2 DEF SnapText
<1> DEFINE count == [r \in AgentRow |-> r.count]
           errors == [r \in AgentRow |-> r.errors]
<1>13. /\ count \in [AgentRow -> Nat] /\ errors \in [AgentRow -> Nat]
       /\ count[Snap!EmptyAgent] = 0 /\ errors[Snap!EmptyAgent] = 0
  BY <1>3 DEF AgentRow, Snap!EmptyAgent
<1>14. count[new] = count[old] + 1 /\ errors[new] = errors[old] + faults
  BY <1>4, <1>6, <1>9
<1>15. \A table \in Maps(LineName, AgentRow) :
         /\ [k \in DOMAIN table |-> count[table[k]]] = [k \in DOMAIN table |-> table[k].count]
         /\ [k \in DOMAIN table |-> errors[table[k]]] = [k \in DOMAIN table |-> table[k].errors]
  BY DEF Maps
<1>16. AgentsAddUp(more)
  <2> HIDE DEF count, errors, new, map
  <2>0. /\ map \in Maps(LineName, AgentRow) /\ name \in LineName
        /\ new \in AgentRow /\ Snap!EmptyAgent \in AgentRow
        /\ old = RowOf(map, name, Snap!EmptyAgent)
    BY <1>2, <1>3, <1>9 DEF old
  <2>1. put = Put(map, name, new)
    OBVIOUS
  <2> HIDE DEF put
  <2>2. Snap!Total([k \in DOMAIN put |-> count[put[k]]]) = Snap!Total([k \in DOMAIN map |-> count[map[k]]]) + 1
    <3>1. /\ count \in [AgentRow -> Nat] /\ count[Snap!EmptyAgent] = 0 /\ 1 \in Nat
          /\ count[new] = count[RowOf(map, name, Snap!EmptyAgent)] + 1
      BY ONLY <1>13, <1>14, <2>0
    <3> QED BY ONLY <2>0, <2>1, <3>1, FieldGrows
  <2>3. Snap!Total([k \in DOMAIN put |-> errors[put[k]]]) =
          Snap!Total([k \in DOMAIN map |-> errors[map[k]]]) + faults
    <3>1. /\ errors \in [AgentRow -> Nat] /\ errors[Snap!EmptyAgent] = 0 /\ faults \in Nat
          /\ errors[new] = errors[RowOf(map, name, Snap!EmptyAgent)] + faults
      BY ONLY <1>5, <1>13, <1>14, <2>0
    <3> QED BY ONLY <2>0, <2>1, <3>1, FieldGrows
  <2>4. /\ snap.agent.count = Snap!Total([k \in DOMAIN map |-> count[map[k]]])
        /\ snap.agent.errors = Snap!Total([k \in DOMAIN map |-> errors[map[k]]])
    BY <1>3, <1>15 DEF AgentsAddUp, map
  <2>5. /\ more.agent.count = Snap!Total([k \in DOMAIN put |-> count[put[k]]])
        /\ more.agent.errors = Snap!Total([k \in DOMAIN put |-> errors[put[k]]])
    BY <1>3, <1>6, <1>11, <2>2, <2>3, <2>4
  <2> QED BY <1>10, <1>11, <1>15, <2>5 DEF AgentsAddUp
<1>17. more.agent.count = snap.agent.count + 1
  BY <1>3, <1>6, <1>11
<1>18. ASSUME NEW a
       PROVE  WeekRow(more, a) = WeekRow(snap, a) + IF a = name THEN inWeek ELSE 0
  <2>1. /\ DOMAIN put = DOMAIN map \union {name} /\ put[name] = new
        /\ \A k \in DOMAIN map : k # name => put[k] = map[k]
    BY DEF Put
  <2>2. WeekRow(snap, a) \in Nat
    BY <1>3 DEF WeekRow, Maps, AgentRow
  <2>3. CASE a # name
    BY <1>11, <2>1, <2>2, <2>3 DEF WeekRow
  <2>4. CASE a = name
    <3>1. old.count7d = WeekRow(snap, a)
      BY <2>4 DEF WeekRow, old, RowOf, Snap!EmptyAgent
    <3>2. WeekRow(more, a) = new.count7d
      BY <1>11, <2>1, <2>4 DEF WeekRow
    <3> QED BY <1>4, <1>6, <2>4, <3>1, <3>2
  <2> QED BY <2>3, <2>4
<1> HIDE DEF more
<1>19. \A a : WeekRow(more, a) =
         WeekRow(snap, a) + IF a = name /\ Snap!Within(line.at, WeekDays, now) THEN 1 ELSE 0
  <2> SUFFICES ASSUME NEW a
               PROVE  WeekRow(more, a) =
                        WeekRow(snap, a) + IF a = name /\ Snap!Within(line.at, WeekDays, now) THEN 1 ELSE 0
    OBVIOUS
  <2> QED BY <1>18 DEF inWeek
<1> QED BY <1>11, <1>12, <1>16, <1>17, <1>19 DEF more, name, week, month

\* A line of no such kind counts as a line.
LEMMA OtherLineAdded ==
  ASSUME NEW now \in Nat, NEW snap \in SnapText(now), NEW line, line.kind = "garbage"
  PROVE  LET more == Snap!AddLine(snap, line, now)
         IN  /\ more \in SnapText(now) /\ more.eventCount = snap.eventCount + 1
             /\ more.chat = snap.chat /\ more.byProvider = snap.byProvider
             /\ more.agent = snap.agent /\ more.byAgent = snap.byAgent
             /\ more.week = snap.week /\ more.month = snap.month
             /\ more.ci = snap.ci /\ more.byCheck = snap.byCheck
<1>1. Snap!AddLine(snap, line, now) = [snap EXCEPT !.eventCount = snap.eventCount + 1]
  BY DEF SnapText, Snap!AddLine
<1> QED BY <1>1 DEF SnapText

\* A line of the log: one of the kinds, with a time or none.
IsLine(line) ==
  /\ IsChat(line) \/ IsAgent(line) \/ IsCheck(line) \/ line.kind = "garbage"
  /\ line.at \in Nat \union {Snap!NoTime}

\* A line of the eighth day that is not yet a week old.
OfEighthDay(line, a, now) ==
  /\ line.kind = "agent.execution" /\ Snap!NameOf(line) = a
  /\ line.at # Snap!NoTime
  /\ Snap!Day(line.at) = Snap!Day(now) - WeekDays
  /\ now - line.at <= WeekDays * DayTicks
EighthDay(some, a, now) == {i \in some : OfEighthDay(lines[i], a, now)}

\* What a snapshot made of some of the lines tells.
SnapTells(snap, some, now) ==
  /\ ChatsAddUp(snap) /\ AgentsAddUp(snap) /\ ChecksAddUp(snap)
  /\ DaysAddUp(snap.week) /\ DaysAddUp(snap.month)
  /\ snap.eventCount = Cardinality(some)
  /\ snap.chat.count + snap.agent.count + snap.ci.count <= snap.eventCount
  /\ \A a : /\ WeekRow(snap, a) = Shown(snap.week, a) + Cardinality(EighthDay(some, a, now))
            /\ WeekRow(snap, a) <= Shown(snap.month, a)

\* As many days of time lie on as many days of the calendar or on one more.
LEMMA DaysBetween ==
  ASSUME NEW D \in Nat \ {0}, NEW W \in Nat, NEW at \in Nat, NEW now \in Nat
  PROVE  /\ now \div D \in Nat /\ at \div D \in Nat
         /\ at <= now => at \div D <= now \div D
         /\ now - at <= W * D => at \div D >= (now \div D) - W
OBVIOUS

\* A week by the clock is seven days and what is left of the eighth.
LEMMA WeekByTheClock ==
  ASSUME NEW now \in Nat, NEW line, IsLine(line), IsAgent(line)
  PROVE  LET a == Snap!NameOf(line)
         IN  /\ Snap!Within(line.at, WeekDays, now) <=>
                  Columned(line, WeekDays, now) \/ OfEighthDay(line, a, now)
             /\ ~(Columned(line, WeekDays, now) /\ OfEighthDay(line, a, now))
             /\ Snap!Within(line.at, WeekDays, now) => Columned(line, MonthDays, now)
<1> DEFINE at == line.at
           today == now \div DayTicks
           then == at \div DayTicks
<1>1. /\ DayTicks \in Nat \ {0} /\ WeekDays \in Nat \ {0} /\ MonthDays \in Nat /\ WeekDays < MonthDays
  BY LinesAssumption
<1>2. CASE at = Snap!NoTime
  BY <1>2 DEF Columned, OfEighthDay, Snap!Within
<1>3. CASE at # Snap!NoTime
  <2>1. at \in Nat
    BY <1>3 DEF IsLine
  <2>2. /\ today \in Nat /\ then \in Nat
        /\ at <= now => then <= today
        /\ now - at <= WeekDays * DayTicks => then >= today - WeekDays
    BY <1>1, <2>1, DaysBetween
  <2>3. then < today => at < now
    <3>1. now <= at => today <= then
      BY <1>1, <2>1, DaysBetween
    <3> QED BY <2>1, <2>2, <3>1
  <2>4. WeekDays * DayTicks \in Nat /\ MonthDays * DayTicks \in Nat
        /\ WeekDays * DayTicks <= MonthDays * DayTicks
    BY <1>1
  <2>5. Snap!Within(at, WeekDays, now) <=> at <= now /\ now - at <= WeekDays * DayTicks
    BY <1>3, <2>1, <2>4 DEF Snap!Within
  <2>6. Snap!Within(at, MonthDays, now) <=> at <= now /\ now - at <= MonthDays * DayTicks
    BY <1>3, <2>1, <2>4 DEF Snap!Within
  <2>7. /\ Snap!Day(line.at) = then /\ Snap!Day(now) = today
        /\ Snap!Buckets(WeekDays, now) = (today - WeekDays + 1)..today
        /\ Snap!Buckets(MonthDays, now) = (today - MonthDays + 1)..today
    BY DEF Snap!Day, Snap!Buckets
  <2>8. OfEighthDay(line, Snap!NameOf(line), now) <=>
          then = today - WeekDays /\ now - at <= WeekDays * DayTicks
    BY <1>3, <2>7 DEF OfEighthDay, IsAgent
  <2>9. Columned(line, WeekDays, now) <=>
          Snap!Within(at, WeekDays, now) /\ then \in (today - WeekDays + 1)..today
    BY <2>7 DEF Columned
  <2>10. Columned(line, MonthDays, now) <=>
          Snap!Within(at, MonthDays, now) /\ then \in (today - MonthDays + 1)..today
    BY <2>7 DEF Columned
  <2> DEFINE wide == WeekDays * DayTicks
             wider == MonthDays * DayTicks
  <2>11. wide \in Nat /\ wider \in Nat /\ wide <= wider
    BY <2>4
  <2>12. at <= now /\ now - at <= wide => then \in (today - MonthDays + 1)..today
    BY <1>1, <2>1, <2>2
  <2> HIDE DEF today, then, wide, wider, at
  <2>13. Snap!Within(at, WeekDays, now) =>
           Columned(line, WeekDays, now) \/ OfEighthDay(line, Snap!NameOf(line), now)
    BY <1>1, <2>1, <2>2, <2>5, <2>8, <2>9, <2>11 DEF wide
  <2>14. OfEighthDay(line, Snap!NameOf(line), now) =>
           Snap!Within(at, WeekDays, now) /\ ~Columned(line, WeekDays, now)
    BY <1>1, <2>1, <2>2, <2>3, <2>5, <2>8, <2>9, <2>11 DEF wide
  <2>15. Snap!Within(at, WeekDays, now) => Columned(line, MonthDays, now)
    BY <1>1, <2>1, <2>2, <2>5, <2>6, <2>10, <2>11, <2>12 DEF wide, wider
  <2> QED BY <2>9, <2>13, <2>14, <2>15 DEF at
<1> QED BY <1>2, <1>3

\* What is shown of an agent is a number.
LEMMA ShownIsNat ==
  ASSUME NEW now \in Nat, NEW days \in Nat, NEW series \in SeriesOf(Snap!Buckets(days, now)), NEW a
  PROVE  Shown(series, a) \in Nat
<1>1. IsFiniteSet(Snap!Buckets(days, now))
  <2>1. Snap!Day(now) \in Int /\ Snap!Day(now) - days + 1 \in Int
    BY LinesAssumption DEF Snap!Day
  <2> QED BY <2>1, FS_Interval DEF Snap!Buckets
<1>2. series.byAgent \in Maps(LineName, Column(Snap!Buckets(days, now)))
  BY DEF SeriesOf
<1>3. \A k \in DOMAIN series.byAgent : series.byAgent[k] \in Column(Snap!Buckets(days, now))
  BY <1>2 DEF Maps
<1> QED BY <1>1, <1>3, TotalIsNat DEF Shown, Column

\* What is told stays told by a line more.
LEMMA LineTells ==
  ASSUME NEW now \in Nat, NEW some, IsFiniteSet(some), NEW x, x \notin some, IsLine(lines[x]),
         NEW snap \in SnapText(now), SnapTells(snap, some, now)
  PROVE  LET more == Snap!AddLine(snap, lines[x], now)
         IN  more \in SnapText(now) /\ SnapTells(more, some \union {x}, now)
<1> DEFINE line == lines[x]
           more == Snap!AddLine(snap, line, now)
           name == Snap!NameOf(line)
           wider == some \union {x}
<1>1. IsFiniteSet(wider) /\ Cardinality(some) \in Nat /\ Cardinality(wider) = Cardinality(some) + 1
  BY FS_AddElement, FS_CardinalityType
<1>2. /\ snap.chat.count \in Nat /\ snap.agent.count \in Nat /\ snap.ci.count \in Nat
      /\ snap.eventCount \in Nat
  BY DEF SnapText, ChatRow, AgentRow, CheckRow
<1>3. ASSUME NEW a
      PROVE  /\ IsFiniteSet(EighthDay(some, a, now)) /\ Cardinality(EighthDay(some, a, now)) \in Nat
             /\ Cardinality(EighthDay(wider, a, now)) =
                  Cardinality(EighthDay(some, a, now)) + IF OfEighthDay(line, a, now) THEN 1 ELSE 0
  <2>1. EighthDay(some, a, now) \in SUBSET some /\ x \notin EighthDay(some, a, now)
    BY DEF EighthDay
  <2>2. IsFiniteSet(EighthDay(some, a, now))
    BY <2>1, FS_Subset
  <2>3. Cardinality(EighthDay(some, a, now)) \in Nat
    BY <2>2, FS_CardinalityType
  <2>4. CASE OfEighthDay(line, a, now)
    <3>1. EighthDay(wider, a, now) = EighthDay(some, a, now) \union {x}
      BY <2>4 DEF EighthDay
    <3> QED BY <2>1, <2>2, <2>3, <2>4, <3>1, FS_AddElement
  <2>5. CASE ~OfEighthDay(line, a, now)
    <3>1. EighthDay(wider, a, now) = EighthDay(some, a, now)
      BY <2>5 DEF EighthDay
    <3> QED BY <2>2, <2>3, <2>5, <3>1
  <2> QED BY <2>2, <2>3, <2>4, <2>5
<1>4. ASSUME ~IsAgent(line), more \in SnapText(now),
             ChatsAddUp(more), ChecksAddUp(more),
             more.eventCount = snap.eventCount + 1,
             more.chat.count + more.ci.count <= snap.chat.count + snap.ci.count + 1,
             more.agent = snap.agent, more.byAgent = snap.byAgent,
             more.week = snap.week, more.month = snap.month,
             line.kind # "agent.execution"
      PROVE  SnapTells(more, wider, now)
  <2>1. AgentsAddUp(more) /\ DaysAddUp(more.week) /\ DaysAddUp(more.month)
    BY <1>4 DEF SnapTells, AgentsAddUp
  <2>2. more.eventCount = Cardinality(wider)
    BY <1>1, <1>4 DEF SnapTells
  <2>3. more.chat.count + more.agent.count + more.ci.count <= more.eventCount
    <3>1. more.chat.count \in Nat /\ more.ci.count \in Nat
      BY <1>4 DEF SnapText, ChatRow, CheckRow
    <3>2. snap.chat.count + snap.agent.count + snap.ci.count <= snap.eventCount
      BY DEF SnapTells
    <3> QED BY <1>2, <1>4, <3>1, <3>2
  <2>4. ASSUME NEW a
        PROVE  /\ WeekRow(more, a) = Shown(more.week, a) + Cardinality(EighthDay(wider, a, now))
               /\ WeekRow(more, a) <= Shown(more.month, a)
    <3>1. /\ WeekRow(snap, a) = Shown(snap.week, a) + Cardinality(EighthDay(some, a, now))
          /\ WeekRow(snap, a) <= Shown(snap.month, a)
      BY DEF SnapTells
    <3>2. ~OfEighthDay(line, a, now)
      BY <1>4 DEF OfEighthDay
    <3>3. Cardinality(EighthDay(wider, a, now)) = Cardinality(EighthDay(some, a, now))
      BY <1>3, <3>2
    <3>4. WeekRow(more, a) = WeekRow(snap, a)
      BY <1>4 DEF WeekRow
    <3> QED BY <1>4, <3>1, <3>3, <3>4
  <2> QED BY <1>4, <2>1, <2>2, <2>3, <2>4 DEF SnapTells
<1>5. CASE IsChat(line)
  <2>1. /\ more \in SnapText(now) /\ ChatsAddUp(more)
        /\ more.eventCount = snap.eventCount + 1 /\ more.chat.count = snap.chat.count + 1
        /\ more.agent = snap.agent /\ more.byAgent = snap.byAgent
        /\ more.week = snap.week /\ more.month = snap.month
        /\ more.ci = snap.ci /\ more.byCheck = snap.byCheck
    <3>1. ChatsAddUp(snap)
      BY DEF SnapTells
    <3> HIDE DEF line
    <3> QED BY <1>5, <3>1, ChatLineAdded
  <2>2. ChecksAddUp(more)
    <3>1. ChecksAddUp(snap)
      BY DEF SnapTells
    <3> HIDE DEF more
    <3> QED BY <2>1, <3>1 DEF ChecksAddUp
  <2>3. line.kind # "agent.execution" /\ ~IsAgent(line)
    BY <1>5 DEF IsChat, IsAgent
  <2>4. more.chat.count + more.ci.count <= snap.chat.count + snap.ci.count + 1
    <3> HIDE DEF more
    <3> QED BY <1>2, <2>1
  <2> HIDE DEF more, line, wider
  <2>5. more \in SnapText(now) /\ SnapTells(more, wider, now)
    BY <1>4, <2>1, <2>2, <2>3, <2>4
  <2> QED BY <2>5 DEF more, line, wider
<1>6. CASE IsCheck(line)
  <2>1. /\ more \in SnapText(now) /\ ChecksAddUp(more)
        /\ more.eventCount = snap.eventCount + 1 /\ more.ci.count = snap.ci.count + 1
        /\ more.chat = snap.chat /\ more.byProvider = snap.byProvider
        /\ more.agent = snap.agent /\ more.byAgent = snap.byAgent
        /\ more.week = snap.week /\ more.month = snap.month
    <3>1. ChecksAddUp(snap)
      BY DEF SnapTells
    <3> HIDE DEF line
    <3> QED BY <1>6, <3>1, CheckLineAdded
  <2>2. ChatsAddUp(more)
    <3>1. ChatsAddUp(snap)
      BY DEF SnapTells
    <3> HIDE DEF more
    <3> QED BY <2>1, <3>1 DEF ChatsAddUp
  <2>3. line.kind # "agent.execution" /\ ~IsAgent(line)
    BY <1>6 DEF IsCheck, IsAgent
  <2>4. more.chat.count + more.ci.count <= snap.chat.count + snap.ci.count + 1
    <3> HIDE DEF more
    <3> QED BY <1>2, <2>1
  <2> HIDE DEF more, line, wider
  <2>5. more \in SnapText(now) /\ SnapTells(more, wider, now)
    BY <1>4, <2>1, <2>2, <2>3, <2>4
  <2> QED BY <2>5 DEF more, line, wider
<1>7. CASE line.kind = "garbage"
  <2>1. /\ more \in SnapText(now) /\ more.eventCount = snap.eventCount + 1
        /\ more.chat = snap.chat /\ more.byProvider = snap.byProvider
        /\ more.agent = snap.agent /\ more.byAgent = snap.byAgent
        /\ more.week = snap.week /\ more.month = snap.month
        /\ more.ci = snap.ci /\ more.byCheck = snap.byCheck
    <3> HIDE DEF line
    <3> QED BY <1>7, OtherLineAdded
  <2>2. ChatsAddUp(more) /\ ChecksAddUp(more)
    <3>1. ChatsAddUp(snap) /\ ChecksAddUp(snap)
      BY DEF SnapTells
    <3> HIDE DEF more
    <3> QED BY <2>1, <3>1 DEF ChatsAddUp, ChecksAddUp
  <2>3. line.kind # "agent.execution" /\ ~IsAgent(line)
    BY <1>7 DEF IsAgent
  <2>4. more.chat.count + more.ci.count <= snap.chat.count + snap.ci.count + 1
    <3> HIDE DEF more
    <3> QED BY <1>2, <2>1
  <2> HIDE DEF more, line, wider
  <2>5. more \in SnapText(now) /\ SnapTells(more, wider, now)
    BY <1>4, <2>1, <2>2, <2>3, <2>4
  <2> QED BY <2>5 DEF more, line, wider
<1>8. CASE IsAgent(line)
  <2> DEFINE week == Bumped(snap.week, line, WeekDays, now)
             month == Bumped(snap.month, line, MonthDays, now)
             inWeek == Snap!Within(line.at, WeekDays, now)
  <2>1. AgentsAddUp(snap) /\ DaysAddUp(snap.week) /\ DaysAddUp(snap.month) /\ line.at \in Int
    BY DEF SnapTells, IsLine, Snap!NoTime
  <2>2. /\ more \in SnapText(now) /\ AgentsAddUp(more)
        /\ more.eventCount = snap.eventCount + 1 /\ more.agent.count = snap.agent.count + 1
        /\ more.chat = snap.chat /\ more.byProvider = snap.byProvider
        /\ more.ci = snap.ci /\ more.byCheck = snap.byCheck
        /\ more.week = week /\ more.month = month
        /\ \A a : WeekRow(more, a) = WeekRow(snap, a) + IF a = name /\ inWeek THEN 1 ELSE 0
    <3> HIDE DEF line
    <3> QED BY <1>8, <2>1, AgentLineAdded
  <2>3. /\ DaysAddUp(week)
        /\ \A a : Shown(week, a) =
             Shown(snap.week, a) + IF a = name /\ Columned(line, WeekDays, now) THEN 1 ELSE 0
    <3>1. snap.week \in SeriesOf(Snap!Buckets(WeekDays, now)) /\ WeekDays \in Nat
      BY LinesAssumption DEF SnapText
    <3> HIDE DEF line
    <3> QED BY <1>8, <2>1, <3>1, BumpedTells
  <2>4. /\ DaysAddUp(month)
        /\ \A a : Shown(month, a) =
             Shown(snap.month, a) + IF a = name /\ Columned(line, MonthDays, now) THEN 1 ELSE 0
    <3>1. snap.month \in SeriesOf(Snap!Buckets(MonthDays, now)) /\ MonthDays \in Nat
      BY LinesAssumption DEF SnapText
    <3> HIDE DEF line
    <3> QED BY <1>8, <2>1, <3>1, BumpedTells
  <2>5. /\ inWeek <=> Columned(line, WeekDays, now) \/ OfEighthDay(line, name, now)
        /\ ~(Columned(line, WeekDays, now) /\ OfEighthDay(line, name, now))
        /\ inWeek => Columned(line, MonthDays, now)
    <3> HIDE DEF line
    <3> QED BY <1>8, WeekByTheClock DEF line
  <2>6. \A a : OfEighthDay(line, a, now) => a = name
    BY DEF OfEighthDay
  <2>7. ChatsAddUp(more) /\ ChecksAddUp(more)
    <3>1. ChatsAddUp(snap) /\ ChecksAddUp(snap)
      BY DEF SnapTells
    <3> HIDE DEF more
    <3> QED BY <2>2, <3>1 DEF ChatsAddUp, ChecksAddUp
  <2>8. more.eventCount = Cardinality(wider)
    <3> HIDE DEF more
    <3> QED BY <1>1, <2>2 DEF SnapTells
  <2>9. more.chat.count + more.agent.count + more.ci.count <= more.eventCount
    <3> HIDE DEF more
    <3>1. snap.chat.count + snap.agent.count + snap.ci.count <= snap.eventCount
      BY DEF SnapTells
    <3> QED BY <1>2, <2>2, <3>1
  <2>10. ASSUME NEW a
         PROVE  /\ WeekRow(more, a) = Shown(more.week, a) + Cardinality(EighthDay(wider, a, now))
                /\ WeekRow(more, a) <= Shown(more.month, a)
    <3> DEFINE eighth == IF OfEighthDay(line, a, now) THEN 1 ELSE 0
               column == IF a = name /\ Columned(line, WeekDays, now) THEN 1 ELSE 0
               later == IF a = name /\ Columned(line, MonthDays, now) THEN 1 ELSE 0
               here == IF a = name /\ inWeek THEN 1 ELSE 0
    <3>1. /\ WeekRow(snap, a) = Shown(snap.week, a) + Cardinality(EighthDay(some, a, now))
          /\ WeekRow(snap, a) <= Shown(snap.month, a)
      BY DEF SnapTells
    <3>2. /\ Shown(snap.week, a) \in Nat /\ Shown(snap.month, a) \in Nat
      <4>1. /\ snap.week \in SeriesOf(Snap!Buckets(WeekDays, now))
            /\ snap.month \in SeriesOf(Snap!Buckets(MonthDays, now))
            /\ WeekDays \in Nat /\ MonthDays \in Nat
        BY LinesAssumption DEF SnapText
      <4> QED BY <4>1, ShownIsNat
    <3>3. here = column + eighth /\ here <= later
      BY <2>5, <2>6
    <3>4. column \in Nat /\ eighth \in Nat /\ later \in Nat
      OBVIOUS
    <3>5. Cardinality(EighthDay(wider, a, now)) = Cardinality(EighthDay(some, a, now)) + eighth
          /\ Cardinality(EighthDay(some, a, now)) \in Nat
      BY <1>3
    <3>6. /\ WeekRow(more, a) = WeekRow(snap, a) + here
          /\ Shown(more.week, a) = Shown(snap.week, a) + column
          /\ Shown(more.month, a) = Shown(snap.month, a) + later
      <4> HIDE DEF more, week, month, inWeek, name, line
      <4> QED BY <2>2, <2>3, <2>4
    <3> HIDE DEF more, wider, eighth, column, later, here
    <3> QED BY <3>1, <3>2, <3>3, <3>4, <3>5, <3>6
  <2>11. DaysAddUp(more.week) /\ DaysAddUp(more.month)
    <3> HIDE DEF more, week, month
    <3> QED BY <2>2, <2>3, <2>4
  <2>12. AgentsAddUp(more) /\ more \in SnapText(now)
    BY <2>2
  <2> HIDE DEF more, wider
  <2>13. SnapTells(more, wider, now)
    BY <2>7, <2>8, <2>9, <2>10, <2>11, <2>12 DEF SnapTells
  <2> QED BY <2>12, <2>13 DEF more, wider
<1> QED BY <1>4, <1>5, <1>6, <1>7, <1>8 DEF IsLine

\* The snapshots whose rows add up.
SnapRows(now) ==
  {snap \in SnapText(now) : /\ ChatsAddUp(snap) /\ AgentsAddUp(snap) /\ ChecksAddUp(snap)
                            /\ DaysAddUp(snap.week) /\ DaysAddUp(snap.month)}

\* A line of any kind leads from such a snapshot to another.
LEMMA LineKept ==
  ASSUME NEW now \in Nat, NEW line, IsLine(line), NEW snap \in SnapRows(now)
  PROVE  Snap!AddLine(snap, line, now) \in SnapRows(now)
<1> DEFINE more == Snap!AddLine(snap, line, now)
<1>1. /\ snap \in SnapText(now)
      /\ ChatsAddUp(snap) /\ AgentsAddUp(snap) /\ ChecksAddUp(snap)
      /\ DaysAddUp(snap.week) /\ DaysAddUp(snap.month)
  BY DEF SnapRows
<1>2. CASE IsChat(line)
  <2>1. /\ more \in SnapText(now) /\ ChatsAddUp(more) /\ more.byAgent = snap.byAgent
        /\ more.agent = snap.agent /\ more.week = snap.week /\ more.month = snap.month
        /\ more.ci = snap.ci /\ more.byCheck = snap.byCheck
    BY <1>1, <1>2, ChatLineAdded
  <2> HIDE DEF more
  <2>2. more \in SnapRows(now)
    BY <1>1, <2>1 DEF SnapRows, AgentsAddUp, ChecksAddUp
  <2> QED BY <2>2 DEF more
<1>3. CASE IsCheck(line)
  <2>1. /\ more \in SnapText(now) /\ ChecksAddUp(more) /\ more.byAgent = snap.byAgent
        /\ more.agent = snap.agent /\ more.week = snap.week /\ more.month = snap.month
        /\ more.chat = snap.chat /\ more.byProvider = snap.byProvider
    BY <1>1, <1>3, CheckLineAdded
  <2> HIDE DEF more
  <2>2. more \in SnapRows(now)
    BY <1>1, <2>1 DEF SnapRows, AgentsAddUp, ChatsAddUp
  <2> QED BY <2>2 DEF more
<1>4. CASE line.kind = "garbage"
  <2>1. /\ more \in SnapText(now) /\ more.byAgent = snap.byAgent
        /\ more.agent = snap.agent /\ more.week = snap.week /\ more.month = snap.month
        /\ more.chat = snap.chat /\ more.byProvider = snap.byProvider
        /\ more.ci = snap.ci /\ more.byCheck = snap.byCheck
    BY <1>1, <1>4, OtherLineAdded
  <2> HIDE DEF more
  <2>2. more \in SnapRows(now)
    BY <1>1, <2>1 DEF SnapRows, AgentsAddUp, ChatsAddUp, ChecksAddUp
  <2> QED BY <2>2 DEF more
<1>5. CASE IsAgent(line)
  <2> DEFINE week == Bumped(snap.week, line, WeekDays, now)
             month == Bumped(snap.month, line, MonthDays, now)
  <2>1. line.at \in Int
    BY DEF IsLine, Snap!NoTime
  <2>2. /\ more \in SnapText(now) /\ AgentsAddUp(more)
        /\ more.chat = snap.chat /\ more.byProvider = snap.byProvider
        /\ more.ci = snap.ci /\ more.byCheck = snap.byCheck
        /\ more.week = week /\ more.month = month
    BY <1>1, <1>5, <2>1, AgentLineAdded
  <2>3. /\ snap.week \in SeriesOf(Snap!Buckets(WeekDays, now)) /\ WeekDays \in Nat
        /\ snap.month \in SeriesOf(Snap!Buckets(MonthDays, now)) /\ MonthDays \in Nat
    BY <1>1, LinesAssumption DEF SnapText
  <2>4. DaysAddUp(week) /\ DaysAddUp(month)
    BY <1>1, <1>5, <2>3, BumpedTells
  <2> HIDE DEF more, week, month
  <2>5. more \in SnapRows(now)
    BY <1>1, <2>2, <2>4 DEF SnapRows, ChatsAddUp, ChecksAddUp
  <2> QED BY <2>5 DEF more
<1> QED BY <1>2, <1>3, <1>4, <1>5 DEF IsLine

\* Nothing is told of no lines.
LEMMA NoLinesTell ==
  ASSUME NEW now \in Nat
  PROVE  /\ Snap!EmptySnapshot(now) \in SnapRows(now)
         /\ SnapTells(Snap!EmptySnapshot(now), {}, now)
<1> DEFINE none == Snap!EmptySnapshot(now)
<1>1. \A K, V : <<>> \in Maps(K, V)
  <2> SUFFICES ASSUME NEW K, NEW V PROVE <<>> \in Maps(K, V)
    OBVIOUS
  <2>1. <<>> \in [{} -> V] /\ {} \in SUBSET K /\ DOMAIN <<>> = {}
    OBVIOUS
  <2>2. <<>> \in UNION {[some -> V] : some \in SUBSET K}
    BY <2>1
  <2> QED BY <2>1, <2>2, FS_EmptySet DEF Maps
<1>2. ASSUME NEW map, DOMAIN map = {}, map \in [{} -> Nat]
      PROVE  Snap!Total(map) = 0
  <2>1. \A k \in {} : map[k] = 0
    OBVIOUS
  <2> QED BY <1>2, <2>1, FS_EmptySet, TotalOfZeros
<1>3. ASSUME NEW days \in Nat
      PROVE  /\ Snap!EmptySeries(days, now) \in SeriesOf(Snap!Buckets(days, now))
             /\ DaysAddUp(Snap!EmptySeries(days, now))
             /\ \A a : Shown(Snap!EmptySeries(days, now), a) = 0
  <2> DEFINE series == Snap!EmptySeries(days, now)
  <2>1. /\ series = [total |-> [d \in Snap!Buckets(days, now) |-> 0], byAgent |-> <<>>]
        /\ DOMAIN <<>> = {}
    BY DEF Snap!EmptySeries
  <2>2. series \in SeriesOf(Snap!Buckets(days, now))
    <3>1. [d \in Snap!Buckets(days, now) |-> 0] \in Column(Snap!Buckets(days, now))
      BY DEF Column
    <3> QED BY <1>1, <2>1, <3>1 DEF SeriesOf
  <2>3. DOMAIN series.byAgent = {} /\ \A d \in DOMAIN series.total : series.total[d] = 0
    BY <2>1
  <2> HIDE DEF series
  <2>4. DaysAddUp(series)
    <3> SUFFICES ASSUME NEW d \in DOMAIN series.total
                 PROVE  series.total[d] = Snap!Total([a \in DOMAIN series.byAgent |-> series.byAgent[a][d]])
      BY DEF DaysAddUp
    <3> DEFINE f == [a \in DOMAIN series.byAgent |-> series.byAgent[a][d]]
    <3>1. DOMAIN f = {} /\ f \in [{} -> Nat]
      BY <2>3
    <3> HIDE DEF f
    <3>2. Snap!Total(f) = 0
      BY <1>2, <3>1
    <3> QED BY <2>3, <3>2 DEF f
  <2>5. \A a : Shown(series, a) = 0
    BY <2>3 DEF Shown
  <2> QED BY <2>2, <2>4, <2>5 DEF series
<1>4. /\ none.eventCount = 0 /\ none.chat = Snap!EmptyTotals /\ none.byProvider = <<>>
      /\ none.agent = Snap!EmptyAgent /\ none.byAgent = <<>>
      /\ none.week = Snap!EmptySeries(WeekDays, now) /\ none.month = Snap!EmptySeries(MonthDays, now)
      /\ none.ci = Snap!EmptyCi /\ none.byCheck = <<>>
  BY DEF Snap!EmptySnapshot
<1>5. none \in SnapText(now)
  <2>1. /\ Snap!EmptyTotals \in ChatRow /\ Snap!EmptyAgent \in AgentRow /\ Snap!EmptyCi \in CheckRow
    BY DEF Snap!EmptyTotals, Snap!EmptyAgent, Snap!EmptyCi, ChatRow, AgentRow, CheckRow, Snap!NoTime
  <2>2. WeekDays \in Nat /\ MonthDays \in Nat
    BY LinesAssumption
  <2>3. /\ Snap!EmptySeries(WeekDays, now) \in SeriesOf(Snap!Buckets(WeekDays, now))
        /\ Snap!EmptySeries(MonthDays, now) \in SeriesOf(Snap!Buckets(MonthDays, now))
    BY <1>3, <2>2
  <2>4. /\ <<>> \in Maps(LineName, ChatRow) /\ <<>> \in Maps(LineName, AgentRow)
        /\ <<>> \in Maps(CheckKey, CheckRow)
    BY <1>1
  <2> QED BY <2>1, <2>3, <2>4 DEF SnapText, Snap!EmptySnapshot
<1> HIDE DEF none
<1>6. ChatsAddUp(none) /\ AgentsAddUp(none) /\ ChecksAddUp(none)
  <2>1. ASSUME NEW map, map = <<>>
        PROVE  /\ Snap!Total([k \in DOMAIN map |-> map[k].count]) = 0
               /\ Snap!Total([k \in DOMAIN map |-> map[k].errors]) = 0
               /\ Snap!Total([k \in DOMAIN map |-> map[k].tokens]) = 0
    <3> DEFINE counts == [k \in DOMAIN map |-> map[k].count]
               faults == [k \in DOMAIN map |-> map[k].errors]
               used == [k \in DOMAIN map |-> map[k].tokens]
    <3>1. /\ DOMAIN counts = {} /\ counts \in [{} -> Nat]
          /\ DOMAIN faults = {} /\ faults \in [{} -> Nat]
          /\ DOMAIN used = {} /\ used \in [{} -> Nat]
      BY <2>1
    <3> HIDE DEF counts, faults, used
    <3>2. Snap!Total(counts) = 0 /\ Snap!Total(faults) = 0 /\ Snap!Total(used) = 0
      BY <1>2, <3>1
    <3> QED BY <3>2 DEF counts, faults, used
  <2>2. ChatsAddUp(none)
    <3>1. none.chat.count = 0 /\ none.chat.errors = 0 /\ none.chat.tokens = 0
      BY <1>4 DEF Snap!EmptyTotals
    <3> QED BY <1>4, <2>1, <3>1 DEF ChatsAddUp
  <2>3. AgentsAddUp(none)
    <3>1. none.agent.count = 0 /\ none.agent.errors = 0
      BY <1>4 DEF Snap!EmptyAgent
    <3> QED BY <1>4, <2>1, <3>1 DEF AgentsAddUp
  <2>4. ChecksAddUp(none)
    <3>1. none.ci.errors = 0
      BY <1>4 DEF Snap!EmptyCi
    <3> QED BY <1>4, <2>1, <3>1 DEF ChecksAddUp
  <2> QED BY <2>2, <2>3, <2>4
<1>7. DaysAddUp(none.week) /\ DaysAddUp(none.month)
  BY <1>3, <1>4, LinesAssumption
<1>8. none.eventCount = Cardinality({})
      /\ none.chat.count + none.agent.count + none.ci.count <= none.eventCount
  BY <1>4, FS_EmptySet DEF Snap!EmptyTotals, Snap!EmptyAgent, Snap!EmptyCi
<1>9. ASSUME NEW a
      PROVE  /\ WeekRow(none, a) = Shown(none.week, a) + Cardinality(EighthDay({}, a, now))
             /\ WeekRow(none, a) <= Shown(none.month, a)
  <2>1. EighthDay({}, a, now) = {}
    BY DEF EighthDay
  <2>2. Shown(none.week, a) = 0 /\ Shown(none.month, a) = 0
    BY <1>3, <1>4, LinesAssumption
  <2>3. WeekRow(none, a) = 0
    <3>1. DOMAIN none.byAgent = {}
      BY <1>4
    <3> QED BY <3>1 DEF WeekRow
  <2> QED BY <2>1, <2>2, <2>3, FS_EmptySet
<1>10. SnapTells(none, {}, now)
  BY <1>6, <1>7, <1>8, <1>9 DEF SnapTells
<1>11. none \in SnapRows(now)
  BY <1>5, <1>6, <1>7 DEF SnapRows
<1> QED BY <1>10, <1>11 DEF none

\* The snapshot tells of every line of the log.
LEMMA SnapshotTells ==
  ASSUME NEW now \in Nat, NEW n \in Nat, DOMAIN lines = 1..n, \A i \in 1..n : IsLine(lines[i])
  PROVE  Snap!Snapshot(now) \in SnapText(now) /\ SnapTells(Snap!Snapshot(now), 1..n, now)
<1> DEFINE X == SnapRows(now)
           zero == Snap!EmptySnapshot(now)
           Op(h, i) == Snap!AddLine(h, lines[i], now)
           take == [p \in (1..n) \X X |-> Op(p[2], p[1])]
           IsIt(it) == it = [s \in SUBSET (1..n) |->
                              IF s = {} THEN zero ELSE Op(it[s \ {Greatest(s)}], Greatest(s))]
           it == CHOOSE it : IsIt(it)
<1>1. ASSUME NEW h \in X, NEW i \in 1..n
      PROVE  Op(h, i) \in X
  BY LineKept
<1>2. Snap!Snapshot(now) = it[1..n]
  BY DEF Snap!Snapshot, Snap!FoldLeft, Snap!MapThenFoldSet, Snap!Max, Greatest
<1>3. zero \in X /\ SnapTells(zero, {}, now)
  BY NoLinesTell
<1>4. X \subseteq SnapText(now)
  BY DEF SnapRows
<1>5. ASSUME NEW s \in SUBSET (1..n), NEW k \in s, NEW h \in SnapText(now), SnapTells(h, s \ {k}, now)
      PROVE  Op(h, k) \in SnapText(now) /\ SnapTells(Op(h, k), s, now)
  <2>1. IsFiniteSet(s \ {k})
    <3>1. IsFiniteSet(1..n)
      BY FS_Interval
    <3> QED BY <3>1, FS_Subset
  <2>2. (s \ {k}) \union {k} = s /\ k \notin s \ {k} /\ IsLine(lines[k])
    OBVIOUS
  <2> DEFINE less == s \ {k}
  <2>3. IsFiniteSet(less) /\ k \notin less /\ less \union {k} = s /\ SnapTells(h, less, now)
    BY <1>5, <2>1, <2>2
  <2> HIDE DEF less
  <2>4. Op(h, k) \in SnapText(now) /\ SnapTells(Op(h, k), less \union {k}, now)
    BY <2>2, <2>3, LineTells
  <2> QED BY <2>3, <2>4
<1> HIDE DEF Op, X, zero
<1>6. take \in [(1..n) \X X -> X]
  BY <1>1
<1>7. PICK f : Folds(f, n, zero, take) /\ f \in [SUBSET (1..n) -> X]
  BY <1>3, <1>6, FoldThereIs
<1>8. IsIt(f)
  <2> SUFFICES ASSUME NEW s \in SUBSET (1..n), s # {}
               PROVE  take[<<Greatest(s), f[s \ {Greatest(s)}]>>] = Op(f[s \ {Greatest(s)}], Greatest(s))
    BY <1>7 DEF Folds
  <2>1. Greatest(s) \in 1..n
    BY GreatestOfFirst
  <2>2. f[s \ {Greatest(s)}] \in X
    BY <1>7
  <2> QED BY <2>1, <2>2
<1>9. IsIt(it)
  BY <1>8
<1> DEFINE Y == {q \in (SUBSET (1..n)) \X SnapText(now) : SnapTells(q[2], q[1], now)}
           both == [s \in SUBSET (1..n) |-> <<s, it[s]>>]
<1>10. both[{}] \in Y
  <2>1. it[{}] = zero
    BY <1>9
  <2>2. zero \in SnapText(now) /\ {} \in SUBSET (1..n)
    BY <1>3, <1>4
  <2>3. <<{}, it[{}]>> \in Y
    <3> HIDE DEF it
    <3> QED BY <1>3, <2>1, <2>2
  <2> HIDE DEF Y, it
  <2> QED BY <2>3
<1>11. ASSUME NEW s \in SUBSET (1..n), s # {}, both[s \ {Greatest(s)}] \in Y
       PROVE  both[s] \in Y
  <2> DEFINE k == Greatest(s)
             h == it[s \ {Greatest(s)}]
  <2>1. k \in 1..n /\ k \in s
    BY <1>11, GreatestOfFirst
  <2>2. it[s] = Op(h, k)
    BY <1>9, <1>11
  <2>3. both[s \ {k}] = <<s \ {k}, h>> /\ both[s \ {k}] \in Y
    BY <1>11
  <2>4. <<s \ {k}, h>> \in Y
    BY <2>3
  <2> HIDE DEF k, h, both
  <2>5. h \in SnapText(now) /\ SnapTells(h, s \ {k}, now)
    BY <2>4
  <2>6. it[s] \in SnapText(now) /\ SnapTells(it[s], s, now)
    BY <1>5, <2>1, <2>2, <2>5
  <2>7. <<s, it[s]>> \in Y
    <3> HIDE DEF it
    <3> QED BY <2>6
  <2> QED BY <2>7 DEF both
<1> HIDE DEF it, Y
<1>12. both[1..n] \in Y
  <2> HIDE DEF both
  <2> QED BY <1>10, <1>11, FoldKeeps
<1>13. it[1..n] \in SnapText(now) /\ SnapTells(it[1..n], 1..n, now)
  BY <1>12 DEF Y
<1> QED BY <1>2, <1>13

\* No series is exposed twice: a name and a label have one value.
LEMMA SeriesOnce ==
  ASSUME NEW snap, NEW s \in Snap!Samples(snap), NEW t \in Snap!Samples(snap),
         s.name = t.name, s.label = t.label
  PROVE  s = t
<1> DEFINE Chats(label, field) == IF snap.byProvider = <<>> THEN 0 ELSE snap.byProvider[label][field]
           Is(u, name, label, value) == u = [name |-> name, label |-> label, value |-> value]
           Plain(u) ==
             \/ Is(u, "aios_metrics_events_total", Snap!NoLabel, snap.eventCount)
             \/ Is(u, "aios_agent_execution_total", Snap!NoLabel, snap.agent.count)
             \/ Is(u, "aios_agent_execution_errors_total", Snap!NoLabel, snap.agent.errors)
             \/ Is(u, "aios_delivery_ci_errors_total", Snap!NoLabel, snap.ci.errors)
           OfChats(u) == \E key :
             \/ Is(u, "aios_provider_chat_requests_total", key, Chats(key, "count"))
             \/ Is(u, "aios_provider_chat_errors_total", key, Chats(key, "errors"))
             \/ Is(u, "aios_provider_chat_prompt_tokens_total", key, Chats(key, "prompt"))
             \/ Is(u, "aios_provider_chat_completion_tokens_total", key, Chats(key, "completion"))
             \/ Is(u, "aios_provider_chat_tokens_total", key, Chats(key, "tokens"))
           OfAgents(u) == \E key :
             Is(u, "aios_agent_execution_by_agent_total", key, snap.byAgent[key].count)
           OfChecks(u) == \E key :
             Is(u, "aios_delivery_ci_total", key, snap.byCheck[key].count)
<1>1. ASSUME NEW u \in Snap!Samples(snap)
      PROVE  Plain(u) \/ OfChats(u) \/ OfAgents(u) \/ OfChecks(u)
  <2> DEFINE Of(name, field) ==
               {[name |-> name, label |-> key, value |-> snap.byProvider[key][field]] :
                  key \in DOMAIN snap.byProvider}
             OrZero(name, field) ==
               IF snap.byProvider = <<>> THEN {[name |-> name, label |-> Snap!NoLabel, value |-> 0]}
               ELSE Of(name, field)
  <2>1. \/ u = [name |-> "aios_metrics_events_total", label |-> Snap!NoLabel, value |-> snap.eventCount]
        \/ u \in OrZero("aios_provider_chat_requests_total", "count")
        \/ u \in OrZero("aios_provider_chat_errors_total", "errors")
        \/ u \in OrZero("aios_provider_chat_prompt_tokens_total", "prompt")
        \/ u \in OrZero("aios_provider_chat_completion_tokens_total", "completion")
        \/ u \in OrZero("aios_provider_chat_tokens_total", "tokens")
        \/ u = [name |-> "aios_agent_execution_total", label |-> Snap!NoLabel, value |-> snap.agent.count]
        \/ u = [name |-> "aios_agent_execution_errors_total", label |-> Snap!NoLabel, value |-> snap.agent.errors]
        \/ u \in {[name |-> "aios_agent_execution_by_agent_total", label |-> key,
                   value |-> snap.byAgent[key].count] : key \in DOMAIN snap.byAgent}
        \/ u \in {[name |-> "aios_delivery_ci_total", label |-> key,
                   value |-> snap.byCheck[key].count] : key \in DOMAIN snap.byCheck}
        \/ u = [name |-> "aios_delivery_ci_errors_total", label |-> Snap!NoLabel, value |-> snap.ci.errors]
    BY DEF Snap!Samples
  <2>2. ASSUME NEW name, NEW field, u \in OrZero(name, field)
        PROVE  \E key : Is(u, name, key, Chats(key, field))
    BY <2>2
  <2> HIDE DEF OrZero
  <2>3. CASE \/ u \in OrZero("aios_provider_chat_requests_total", "count")
             \/ u \in OrZero("aios_provider_chat_errors_total", "errors")
             \/ u \in OrZero("aios_provider_chat_prompt_tokens_total", "prompt")
             \/ u \in OrZero("aios_provider_chat_completion_tokens_total", "completion")
             \/ u \in OrZero("aios_provider_chat_tokens_total", "tokens")
    <3> HIDE DEF Is, Chats
    <3>1. OfChats(u)
      BY <2>2, <2>3
    <3> QED BY <3>1
  <2> QED BY <2>1, <2>3
<1> DEFINE plainNames == {"aios_metrics_events_total", "aios_agent_execution_total",
                     "aios_agent_execution_errors_total", "aios_delivery_ci_errors_total"}
           chatNames == {"aios_provider_chat_requests_total", "aios_provider_chat_errors_total",
                     "aios_provider_chat_prompt_tokens_total",
                     "aios_provider_chat_completion_tokens_total", "aios_provider_chat_tokens_total"}
<1>2. ASSUME NEW u, Plain(u)
      PROVE  u.name \in plainNames
  BY <1>2
<1>3. ASSUME NEW u, OfChats(u)
      PROVE  u.name \in chatNames
  <2>1. PICK key :
          \/ Is(u, "aios_provider_chat_requests_total", key, Chats(key, "count"))
          \/ Is(u, "aios_provider_chat_errors_total", key, Chats(key, "errors"))
          \/ Is(u, "aios_provider_chat_prompt_tokens_total", key, Chats(key, "prompt"))
          \/ Is(u, "aios_provider_chat_completion_tokens_total", key, Chats(key, "completion"))
          \/ Is(u, "aios_provider_chat_tokens_total", key, Chats(key, "tokens"))
    BY <1>3
  <2> HIDE DEF Chats
  <2> QED BY <2>1
<1>4. ASSUME NEW u, OfAgents(u)
      PROVE  u.name = "aios_agent_execution_by_agent_total"
  BY <1>4
<1>5. ASSUME NEW u, OfChecks(u)
      PROVE  u.name = "aios_delivery_ci_total"
  BY <1>5
<1>6. /\ plainNames \intersect chatNames = {}
      /\ "aios_agent_execution_by_agent_total" \notin plainNames \union chatNames
      /\ "aios_delivery_ci_total" \notin plainNames \union chatNames
      /\ "aios_delivery_ci_total" # "aios_agent_execution_by_agent_total"
  OBVIOUS
<1>7. \/ Plain(s) /\ Plain(t)
      \/ OfChats(s) /\ OfChats(t)
      \/ OfAgents(s) /\ OfAgents(t)
      \/ OfChecks(s) /\ OfChecks(t)
  <2> HIDE DEF Plain, OfChats, OfAgents, OfChecks, plainNames, chatNames
  <2> QED BY <1>1, <1>2, <1>3, <1>4, <1>5, <1>6
<1>8. ASSUME NEW a, NEW b, NEW c, NEW d, NEW e, Is(s, a, b, c), Is(t, a, d, e), b = d => c = e
      PROVE  s = t
  BY <1>8
<1>9. CASE Plain(s) /\ Plain(t)
  BY <1>9
<1>10. CASE OfChats(s) /\ OfChats(t)
  <2>1. PICK k :
          \/ Is(s, "aios_provider_chat_requests_total", k, Chats(k, "count"))
          \/ Is(s, "aios_provider_chat_errors_total", k, Chats(k, "errors"))
          \/ Is(s, "aios_provider_chat_prompt_tokens_total", k, Chats(k, "prompt"))
          \/ Is(s, "aios_provider_chat_completion_tokens_total", k, Chats(k, "completion"))
          \/ Is(s, "aios_provider_chat_tokens_total", k, Chats(k, "tokens"))
    BY <1>10
  <2>2. PICK l :
          \/ Is(t, "aios_provider_chat_requests_total", l, Chats(l, "count"))
          \/ Is(t, "aios_provider_chat_errors_total", l, Chats(l, "errors"))
          \/ Is(t, "aios_provider_chat_prompt_tokens_total", l, Chats(l, "prompt"))
          \/ Is(t, "aios_provider_chat_completion_tokens_total", l, Chats(l, "completion"))
          \/ Is(t, "aios_provider_chat_tokens_total", l, Chats(l, "tokens"))
    BY <1>10
  <2> HIDE DEF Chats
  <2>3. k = l
    BY <2>1, <2>2
  <2> QED BY <2>1, <2>2, <2>3
<1>11. CASE OfAgents(s) /\ OfAgents(t)
  BY <1>11
<1>12. CASE OfChecks(s) /\ OfChecks(t)
  BY <1>12
<1> QED BY <1>7, <1>9, <1>10, <1>11, <1>12

\* The lines of a log are of the kinds that recorders append.
SnapLog == Len(lines) \in Nat /\ DOMAIN lines = 1..Len(lines) /\ \A i \in 1..Len(lines) : IsLine(lines[i])
SnapInv == lines \in Seq({Snap!Dated(line, at) : line \in Lines, at \in Snap!NoTime..Horizon})

\* What is dated is a line of its kind.
LEMMA LogOfLines == SnapInv => SnapLog
<1> SUFFICES ASSUME SnapInv PROVE SnapLog
  OBVIOUS
<1>1. ASSUME NEW line \in Lines, NEW at \in Snap!NoTime..Horizon
      PROVE  IsLine(Snap!Dated(line, at))
  <2> DEFINE dated == Snap!Dated(line, at)
  <2>1. dated.at = at /\ \A f \in DOMAIN line : f # "at" => dated[f] = line[f]
    BY DEF Snap!Dated
  <2>2. at \in Nat \union {Snap!NoTime}
    BY LinesAssumption DEF Snap!NoTime
  <2>3. \/ line \in [kind : {"provider.chat"}, name : STRING, ok : BOOLEAN,
                     prompt : Nat, completion : Nat, total : Nat]
        \/ line \in [kind : {"agent.execution"}, name : STRING, outcome : STRING, ok : BOOLEAN]
        \/ line \in [kind : {"delivery.ci"}, name : STRING, conclusion : STRING, base : STRING]
        \/ line \in [kind : {"garbage"}]
    BY LinesAssumption
  <2> HIDE DEF dated
  <2>4. CASE line \in [kind : {"provider.chat"}, name : STRING, ok : BOOLEAN,
                       prompt : Nat, completion : Nat, total : Nat]
    BY <2>1, <2>2, <2>4 DEF IsLine, IsChat, dated
  <2>5. CASE line \in [kind : {"agent.execution"}, name : STRING, outcome : STRING, ok : BOOLEAN]
    BY <2>1, <2>2, <2>5 DEF IsLine, IsAgent, dated
  <2>6. CASE line \in [kind : {"delivery.ci"}, name : STRING, conclusion : STRING, base : STRING]
    BY <2>1, <2>2, <2>6 DEF IsLine, IsCheck, dated
  <2>7. CASE line \in [kind : {"garbage"}]
    BY <2>1, <2>2, <2>7 DEF IsLine, dated
  <2> QED BY <2>3, <2>4, <2>5, <2>6, <2>7
<1>2. Len(lines) \in Nat /\ DOMAIN lines = 1..Len(lines)
  BY DEF SnapInv
<1>3. ASSUME NEW i \in 1..Len(lines)
      PROVE  IsLine(lines[i])
  <2>1. PICK line \in Lines, at \in Snap!NoTime..Horizon : lines[i] = Snap!Dated(line, at)
    BY DEF SnapInv
  <2> QED BY <1>1, <2>1
<1> QED BY <1>2, <1>3 DEF SnapLog

\* What a reader makes of such a log adds up.
LEMMA LogAddsUp == SnapLog => Snap!SnapshotAddsUp
<1> SUFFICES ASSUME SnapLog PROVE Snap!SnapshotAddsUp
  OBVIOUS
<1> DEFINE n == Len(lines)
<1>1. n \in Nat /\ DOMAIN lines = 1..n /\ \A i \in 1..n : IsLine(lines[i])
  BY DEF SnapLog
<1> HIDE DEF n
<1>2. ASSUME NEW now \in Nat
      PROVE  Snap!Snapshot(now) \in SnapText(now) /\ SnapTells(Snap!Snapshot(now), 1..n, now)
  BY <1>1, SnapshotTells
<1>3. \A S : Snap!Cardinality(S) = Cardinality(S)
  BY Zenon DEF Snap!Cardinality, Cardinality
<1>4. Snap!WeekAddsUp
  <2> SUFFICES ASSUME NEW now \in 0..Horizon
               PROVE  LET snap == Snap!Snapshot(now)
                          Columns(series, a) ==
                            IF a \in DOMAIN series.byAgent THEN Snap!Total(series.byAgent[a]) ELSE 0
                          Left(a) == {i \in DOMAIN lines :
                            /\ lines[i].kind = "agent.execution" /\ Snap!NameOf(lines[i]) = a
                            /\ lines[i].at # Snap!NoTime
                            /\ Snap!Day(lines[i].at) = Snap!Day(now) - WeekDays
                            /\ now - lines[i].at <= WeekDays * DayTicks}
                      IN  /\ \A a \in DOMAIN snap.byAgent :
                               /\ snap.byAgent[a].count7d - Columns(snap.week, a) = Snap!Cardinality(Left(a))
                               /\ snap.byAgent[a].count7d <= Columns(snap.month, a)
                          /\ \A series \in {snap.week, snap.month} : \A d \in DOMAIN series.total :
                               series.total[d] =
                                 Snap!Total([a \in DOMAIN series.byAgent |-> series.byAgent[a][d]])
    BY DEF Snap!WeekAddsUp
  <2> DEFINE snap == Snap!Snapshot(now)
             Left(a) == {i \in DOMAIN lines :
               /\ lines[i].kind = "agent.execution" /\ Snap!NameOf(lines[i]) = a
               /\ lines[i].at # Snap!NoTime
               /\ Snap!Day(lines[i].at) = Snap!Day(now) - WeekDays
               /\ now - lines[i].at <= WeekDays * DayTicks}
  <2>1. now \in Nat
    BY LinesAssumption
  <2>2. snap \in SnapText(now) /\ SnapTells(snap, 1..n, now)
    BY <1>2, <2>1
  <2> HIDE DEF snap
  <2>3. \A a : Left(a) = EighthDay(1..n, a, now)
    BY <1>1 DEF EighthDay, OfEighthDay
  <2>4. ASSUME NEW a
        PROVE  Cardinality(Left(a)) \in Nat
    <3>1. IsFiniteSet(1..n)
      BY <1>1, FS_Interval
    <3>2. Left(a) \subseteq 1..n
      BY <1>1
    <3> HIDE DEF Left
    <3> QED BY <3>1, <3>2, FS_Subset, FS_CardinalityType
  <2> HIDE DEF Left
  <2>5. ASSUME NEW a \in DOMAIN snap.byAgent
        PROVE  /\ snap.byAgent[a].count7d - Shown(snap.week, a) = Snap!Cardinality(Left(a))
               /\ snap.byAgent[a].count7d <= Shown(snap.month, a)
    <3>1. /\ WeekRow(snap, a) = Shown(snap.week, a) + Cardinality(Left(a))
          /\ WeekRow(snap, a) <= Shown(snap.month, a)
      BY <2>2, <2>3 DEF SnapTells
    <3>2. WeekRow(snap, a) = snap.byAgent[a].count7d
      BY DEF WeekRow
    <3>3. Shown(snap.week, a) \in Nat
      <4>1. WeekDays \in Nat /\ snap.week \in SeriesOf(Snap!Buckets(WeekDays, now))
        BY <2>2, LinesAssumption DEF SnapText
      <4> QED BY <2>1, <4>1, ShownIsNat
    <3> QED BY <1>3, <2>4, <3>1, <3>2, <3>3
  <2>6. DaysAddUp(snap.week) /\ DaysAddUp(snap.month)
    BY <2>2 DEF SnapTells
  <2> QED BY <2>5, <2>6 DEF snap, Left, Shown, DaysAddUp
<1>5. Snap!SamplesAddUp
  <2> DEFINE snap == Snap!Snapshot(0)
  <2>1. snap \in SnapText(0) /\ SnapTells(snap, 1..n, 0)
    BY <1>2
  <2> HIDE DEF snap
  <2>2. snap.eventCount = n
    <3>1. Cardinality(1..n) = n
      BY <1>1, FS_Interval
    <3> QED BY <2>1, <3>1 DEF SnapTells
  <2>3. snap.chat.count + snap.agent.count + snap.ci.count <= snap.eventCount
    BY <2>1 DEF SnapTells
  <2>4. /\ snap.chat.count = Snap!Total([k \in DOMAIN snap.byProvider |-> snap.byProvider[k].count])
        /\ snap.chat.errors = Snap!Total([k \in DOMAIN snap.byProvider |-> snap.byProvider[k].errors])
        /\ snap.chat.tokens = Snap!Total([k \in DOMAIN snap.byProvider |-> snap.byProvider[k].tokens])
    BY <2>1 DEF SnapTells, ChatsAddUp
  <2>5. /\ snap.agent.count = Snap!Total([k \in DOMAIN snap.byAgent |-> snap.byAgent[k].count])
        /\ snap.agent.errors = Snap!Total([k \in DOMAIN snap.byAgent |-> snap.byAgent[k].errors])
    BY <2>1 DEF SnapTells, AgentsAddUp
  <2>6. snap.ci.errors = Snap!Total([k \in DOMAIN snap.byCheck |-> snap.byCheck[k].errors])
    BY <2>1 DEF SnapTells, ChecksAddUp
  <2>7. \A s, t \in Snap!Samples(snap) : s.name = t.name /\ s.label = t.label => s = t
    BY SeriesOnce
  <2> QED BY <2>2, <2>3, <2>4, <2>5, <2>6, <2>7 DEF Snap!SamplesAddUp, snap, n
<1> QED BY <1>4, <1>5 DEF Snap!SnapshotAddsUp

\* Whatever recorders append, and whenever it is read, the totals, rows and
\* daily series of a snapshot agree (loadMetricsSnapshot,
\* renderPrometheusMetrics): a total is the sum of its rows and a line is in
\* one total at most; a week by the clock is seven columns and what is left of
\* the eighth day; no series is exposed twice.
THEOREM SnapshotsAddUp == HomeSpec => []SnapshotAddsUp
<1>1. HomeInit => SnapInv
  BY DEF HomeInit, Snap!Init, SnapInv
<1>2. SnapInv /\ [HomeNext]_homeVars => SnapInv'
  <2> SUFFICES ASSUME SnapInv, [HomeNext]_homeVars
               PROVE  SnapInv'
    OBVIOUS
  <2>1. CASE Snap!Next
    <3>1. PICK line \in Lines, at \in Snap!NoTime..Horizon : Snap!RecordMetricEvent(line, at)
      BY <2>1 DEF Snap!Next
    <3>2. lines' = Append(lines, Snap!Dated(line, at))
      BY <3>1 DEF Snap!RecordMetricEvent
    <3> QED BY <3>2 DEF SnapInv
  <2>2. CASE UNCHANGED lines
    BY <2>2 DEF SnapInv
  <2> QED BY <2>1, <2>2 DEF HomeNext, homeVars,
             StorePart, ChatPart, StatePart, SnapshotPart, VisibilityPart, AcrossPart
<1>3. SnapInv => SnapshotAddsUp
  BY LogOfLines, LogAddsUp DEF SnapshotAddsUp
<1> QED BY <1>1, <1>2, <1>3, PTL DEF HomeSpec
=============================================================================
