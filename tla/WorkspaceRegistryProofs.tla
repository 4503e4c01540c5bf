---------------------- MODULE WorkspaceRegistryProofs ----------------------
(***************************************************************************)
(* Whatever overlaps, breaks off or is pointed elsewhere by the            *)
(* environment, no registry has two defaults or an id twice: what a        *)
(* process is about to write is as sound as what it read.  A listing gives *)
(* each id paths of its own.  Calls that do not overlap implement Registry.*)
(***************************************************************************)
EXTENDS AcrossWorkspaces, TLAPS

Sound(rows) == rows \in SUBSET Row /\ UniqueIds(rows) /\ OneDefault(rows)

\* An upsert leaves a sound list sound.
LEMMA UpsertedSound ==
  ASSUME NEW rows, Sound(rows), NEW entry \in Row
  PROVE  Sound(Upserted(rows, entry))
PROOF
<1> DEFINE base == {[r EXCEPT !.default = @ /\ ~entry.default] : r \in rows}
           old == {r \in base : r.id = entry.id}
           new == [entry EXCEPT !.default = @ \/ \E r \in old : r.default]
<1>1. \A s \in base : \E r \in rows :
        /\ s \in Row /\ r \in Row
        /\ s.id = r.id /\ s.default = (r.default /\ ~entry.default)
        /\ s = [r EXCEPT !.default = @ /\ ~entry.default]
  BY DEF Sound, Row
<1>2. new \in Row /\ new.id = entry.id
      /\ new.default = (entry.default \/ \E r \in old : r.default)
  BY DEF Row
<1>3. \A s, t \in base : s.id = t.id => s = t
  BY <1>1 DEF Sound, UniqueIds
<1>4. \A s, t \in base : s.default /\ t.default => s = t
  BY <1>1 DEF Sound, OneDefault
<1>5. Upserted(rows, entry) = (base \ old) \union {new}
  BY DEF Upserted
<1>6. Upserted(rows, entry) \in SUBSET Row
  BY <1>1, <1>2, <1>5
<1>7. UniqueIds(Upserted(rows, entry))
  BY <1>2, <1>3, <1>5 DEF UniqueIds
<1>8. \A s \in base \ old : ~(s.default /\ new.default)
  BY <1>1, <1>2, <1>4
<1>9. OneDefault(Upserted(rows, entry))
  BY <1>4, <1>5, <1>8 DEF OneDefault
<1> QED BY <1>6, <1>7, <1>9 DEF Sound

\* Every file, and every list on its way to one, is sound.
IInv ==
  /\ TypeOK
  /\ \A f \in File : Sound(file[f].rows)
  /\ \A p \in Process : Sound(out[p])

LEMMA EmptySound == Sound({})
BY DEF Sound, UniqueIds, OneDefault

LEMMA InitIInv == Init => IInv
PROOF
<1> SUFFICES ASSUME Init PROVE IInv
  OBVIOUS
<1>1. \A rows \in Initial : Sound(rows)
  BY RegistryAssumption DEF Sound
<1>2. ASSUME NEW f \in File
      PROVE  /\ file[f] \in [kind : {"absent", "empty", "garbage", "whole"}, rows : SUBSET Row]
             /\ file[f].kind # "whole" => file[f].rows = {}
             /\ Sound(file[f].rows)
  <2>1. file[f] = Absent \/ \E rows \in Initial : file[f] = Whole(rows)
    BY DEF Init
  <2>2. CASE file[f] = Absent
    <3>1. file[f].kind = "absent" /\ file[f].rows = {}
      BY <2>2 DEF Absent
    <3> QED BY <2>2, <3>1, EmptySound DEF Absent
  <2>3. ASSUME NEW rows \in Initial, file[f] = Whole(rows)
        PROVE  /\ file[f] \in [kind : {"absent", "empty", "garbage", "whole"}, rows : SUBSET Row]
               /\ file[f].kind # "whole" => file[f].rows = {}
               /\ Sound(file[f].rows)
    <3>1. file[f].kind = "whole" /\ file[f].rows = rows
      BY <2>3 DEF Whole
    <3>2. Sound(rows)
      BY <1>1
    <3> QED BY <2>3, <3>1, <3>2 DEF Whole, Sound
  <2> QED BY <2>1, <2>2, <2>3
<1>3. file \in [File -> [kind : {"absent", "empty", "garbage", "whole"}, rows : SUBSET Row]]
  BY <1>2 DEF Init
<1>4. TypeOK
  BY <1>2, <1>3 DEF TypeOK, Init, File
<1>5. \A p \in Process : Sound(out[p])
  BY EmptySound DEF Init
<1> QED BY <1>2, <1>4, <1>5 DEF IInv

\* A file that is filled, emptied or broken stays well formed.
LEMMA WriteSound ==
  ASSUME IInv, NEW f \in File, NEW content,
         \/ content \in {Empty, Garbage}
         \/ \E rows : Sound(rows) /\ content = Whole(rows),
         file' = [file EXCEPT ![f] = content]
  PROVE  /\ file' \in [File -> [kind : {"absent", "empty", "garbage", "whole"}, rows : SUBSET Row]]
         /\ \A g \in File : file'[g].kind # "whole" => file'[g].rows = {}
         /\ \A g \in File : Sound(file'[g].rows)
PROOF
<1>1. /\ content \in [kind : {"absent", "empty", "garbage", "whole"}, rows : SUBSET Row]
      /\ content.kind # "whole" => content.rows = {}
      /\ Sound(content.rows)
  <2>1. CASE content \in {Empty, Garbage}
    BY <2>1, EmptySound DEF Empty, Garbage
  <2>2. CASE \E rows : Sound(rows) /\ content = Whole(rows)
    BY <2>2 DEF Whole, Sound
  <2> QED BY <2>1, <2>2
<1>2. file'[f] = content /\ \A g \in File : g # f => file'[g] = file[g]
  BY DEF IInv, TypeOK
<1>3. file' \in [File -> [kind : {"absent", "empty", "garbage", "whole"}, rows : SUBSET Row]]
  BY <1>1 DEF IInv, TypeOK
<1> QED BY <1>1, <1>2, <1>3 DEF IInv, TypeOK

LEMMA PathsInside == \A rows \in SUBSET Row : PathsOf(rows) \in SUBSET (Id \X Path)
BY DEF PathsOf, Row

LEMMA WitnessTypes ==
  ASSUME IInv, Witnessed, \A f \in File : Sound(file'[f].rows)
  PROVE  held' \in [Process -> SUBSET (Id \X Path)]
<1>1. ASSUME NEW p \in Process
      PROVE  PathsOf(file'[Located(p)].rows) \in SUBSET (Id \X Path)
  BY PathsInside DEF Located, File, Sound
<1> QED BY <1>1 DEF IInv, TypeOK, Witnessed

LEMMA NextIInv == IInv /\ [Next]_vars => IInv'
PROOF
<1> SUFFICES ASSUME IInv, [Next]_vars PROVE IInv'
  OBVIOUS
<1> USE DEF IInv
<1>1. ASSUME NEW p \in Process, NEW entry \in Row, UpsertRead(p, entry) PROVE IInv'
  <2>1. Loaded(p) = file[Located(p)].rows /\ Located(p) \in File
    BY DEF Loaded, Located, File
  <2>2. PICK rows : rows = Upserted(Loaded(p), entry)
    OBVIOUS
  <2>3. Sound(rows)
    BY <2>1, <2>2, UpsertedSound
  <2>4. out' = [out EXCEPT ![p] = rows]
    BY <1>1, <2>2 DEF UpsertRead
  <2>5. target' \in [Process -> File]
    BY <1>1, <2>1 DEF UpsertRead, TypeOK, File
  <2>6. TypeOK'
    BY <1>1, <2>3, <2>4, <2>5 DEF UpsertRead, TypeOK, Sound
  <2>7. \A f \in File : Sound(file'[f].rows)
    BY <1>1 DEF UpsertRead
  <2> QED BY <2>3, <2>4, <2>6, <2>7 DEF TypeOK, Sound, UniqueIds, OneDefault
<1>2. ASSUME NEW p \in Process, NEW id \in Id, RemoveRead(p, id) PROVE IInv'
  <2>1. Loaded(p) = file[Located(p)].rows /\ Located(p) \in File
    BY DEF Loaded, Located, File
  <2>2. PICK rows : rows = {r \in Loaded(p) : r.id # id}
    OBVIOUS
  <2>3. Sound(rows)
    BY <2>1, <2>2 DEF Sound, UniqueIds, OneDefault
  <2>4. out' = [out EXCEPT ![p] = rows]
    BY <1>2, <2>2 DEF RemoveRead
  <2>5. target' \in [Process -> File]
    BY <1>2, <2>1 DEF RemoveRead, TypeOK
  <2>6. TypeOK'
    BY <1>2, <2>3, <2>4, <2>5 DEF RemoveRead, TypeOK, Sound
  <2>7. \A f \in File : Sound(file'[f].rows)
    BY <1>2 DEF RemoveRead
  <2> QED BY <2>3, <2>4, <2>6, <2>7 DEF TypeOK, Sound, UniqueIds, OneDefault
<1>3. ASSUME NEW p \in Process, Truncate(p) PROVE IInv'
  <2>1. target[p] \in File /\ file' = [file EXCEPT ![target[p]] = Empty]
    BY <1>3 DEF Truncate, TypeOK
  <2>2. out' = out
    BY <1>3 DEF Truncate
  <2>3. /\ file' \in [File -> [kind : {"absent", "empty", "garbage", "whole"}, rows : SUBSET Row]]
        /\ \A g \in File : file'[g].kind # "whole" => file'[g].rows = {}
        /\ \A g \in File : Sound(file'[g].rows)
    BY <2>1, WriteSound
  <2>4. held' \in [Process -> SUBSET (Id \X Path)]
    BY <1>3, <2>3, WitnessTypes DEF Truncate
  <2> QED BY <1>3, <2>2, <2>3, <2>4 DEF Truncate, TypeOK, Sound, UniqueIds, OneDefault
<1>4. ASSUME NEW p \in Process, Fill(p) PROVE IInv'
  <2>1. target[p] \in File /\ Sound(out[p])
    BY DEF TypeOK
  <2>2. PICK content :
          /\ content = Garbage \/ content = Whole(out[p])
          /\ file' = [file EXCEPT ![target[p]] = content]
    BY <1>4 DEF Fill
  <2>3. /\ file' \in [File -> [kind : {"absent", "empty", "garbage", "whole"}, rows : SUBSET Row]]
        /\ \A g \in File : file'[g].kind # "whole" => file'[g].rows = {}
        /\ \A g \in File : Sound(file'[g].rows)
    BY <2>1, <2>2, WriteSound
  <2>6. held' \in [Process -> SUBSET (Id \X Path)]
    BY <1>4, <2>3, WitnessTypes DEF Fill
  <2>4. TypeOK'
    BY <1>4, <2>3, <2>6 DEF Fill, TypeOK, File
  <2>5. \A q \in Process : Sound(out'[q])
    BY <1>4, EmptySound DEF Fill, TypeOK
  <2> QED BY <2>3, <2>4, <2>5 DEF Sound, UniqueIds, OneDefault
<1>5. ASSUME NEW p \in Process, Fail(p) PROVE IInv'
  <2>1. /\ file' \in [File -> [kind : {"absent", "empty", "garbage", "whole"}, rows : SUBSET Row]]
        /\ \A g \in File : file'[g].kind # "whole" => file'[g].rows = {}
        /\ \A g \in File : Sound(file'[g].rows)
    <3>1. CASE file' = file
      BY <3>1 DEF TypeOK
    <3>2. CASE file' = [file EXCEPT ![target[p]] = Garbage]
      <4>1. target[p] \in File
        BY DEF TypeOK
      <4> QED BY <3>2, <4>1, WriteSound
    <3> QED BY <1>5, <3>1, <3>2 DEF Fail
  <2>4. held' \in [Process -> SUBSET (Id \X Path)]
    BY <1>5, <2>1, WitnessTypes DEF Fail
  <2>2. TypeOK'
    BY <1>5, <2>1, <2>4 DEF Fail, TypeOK, File
  <2>3. \A q \in Process : Sound(out'[q])
    BY <1>5, EmptySound DEF Fail, TypeOK
  <2> QED BY <2>1, <2>2, <2>3 DEF Sound, UniqueIds, OneDefault
<1>6. ASSUME NEW p \in Process, ListStart(p) PROVE IInv'
  <2>1. Loaded(p) \in SUBSET Row
    BY DEF Loaded, Located, File, Sound
  <2>2. PathsOf(Loaded(p)) \in SUBSET (Id \X Path)
    BY <2>1, PathsInside
  <2> QED BY <1>6, <2>1, <2>2 DEF ListStart, TypeOK, Sound, UniqueIds, OneDefault
<1>7. ASSUME NEW p \in Process, NEW r \in todo[p], ListRow(p, r) PROVE IInv'
  <2>1. r \in Row /\ Loaded(p) \in SUBSET Row
    BY DEF Loaded, Located, File, Sound, TypeOK
  <2>2. PICK found : found = Resolve(Loaded(p), r.id)
    OBVIOUS
  <2>3. found \in Row
    BY <1>7, <2>1, <2>2 DEF ListRow, Known, Resolve
  <2>4. PICK line : line = [id |-> r.id, repoPath |-> r.path, checked |-> found.path]
    OBVIOUS
  <2>5. line \in [id : Id, repoPath : Path, checked : Path]
    BY <2>1, <2>3, <2>4 DEF Row
  <2>6. listed' = [listed EXCEPT ![p] = @ \union {line}]
    BY <1>7, <2>2, <2>4 DEF ListRow
  <2>7. TypeOK'
    BY <1>7, <2>5, <2>6 DEF ListRow, TypeOK
  <2> QED BY <1>7, <2>7 DEF ListRow, Sound, UniqueIds, OneDefault
<1>8. ASSUME NEW p \in Process, NEW r \in todo[p], ListThrows(p, r) PROVE IInv'
  BY <1>8 DEF ListThrows, TypeOK, Sound, UniqueIds, OneDefault
<1>9. CASE UNCHANGED vars
  BY <1>9 DEF vars, TypeOK, Sound, UniqueIds, OneDefault
<1> QED BY <1>1, <1>2, <1>3, <1>4, <1>5, <1>6, <1>7, <1>8, <1>9 DEF Next, Writes, Lists

\* For any processes, ids and paths, whatever overlaps or breaks off:
\* upsertWorkspace() and removeWorkspace() never leave two defaults.
THEOREM SingleDefault == Spec => []AtMostOneDefault
PROOF
<1>1. IInv => AtMostOneDefault
  BY DEF IInv, Sound, AtMostOneDefault
<1> QED BY InitIInv, NextIInv, <1>1, PTL DEF Spec

\* ... nor two rows of one id, so that find() by id is unambiguous.
THEOREM IdsAreUnique == Spec => []NoDuplicateIds
PROOF
<1>1. IInv => NoDuplicateIds
  BY DEF IInv, Sound, NoDuplicateIds
<1> QED BY InitIInv, NextIInv, <1>1, PTL DEF Spec

\* Both: every registry these calls write is one that lookups can be made in.
THEOREM RegistryStaysSound == Spec => []RegistrySound
PROOF
<1>1. AtMostOneDefault /\ NoDuplicateIds => RegistrySound
  BY DEF RegistrySound
<1> QED BY SingleDefault, IdsAreUnique, <1>1, PTL

-----------------------------------------------------------------------------
(* The listing of validated rows.                                          *)

\* A listing has seen what its file has and what it is still to validate.
ListInv ==
  /\ \A p \in Process : pc[p] = "listing" =>
       /\ PathsOf(Loaded(p)) \subseteq held[p]
       /\ PathsOf(todo[p]) \subseteq held[p]
       /\ UniqueIds(todo[p])
       /\ \A r \in todo[p] : \A x \in listed[p] : x.id # r.id
  /\ ListingTells

\* A step that writes, or none: what was seen stays seen.
LEMMA WitnessStep ==
  ASSUME IInv, ListInv, Witnessed,
         \A q \in Process : pc'[q] = "listing" => pc[q] = "listing",
         UNCHANGED <<todo, listed>>
  PROVE  ListInv'
<1>1. \A q \in Process : held[q] \subseteq held'[q]
  BY DEF IInv, TypeOK, Witnessed
<1>2. ASSUME NEW q \in Process, pc'[q] = "listing"
      PROVE  (PathsOf(Loaded(q)))' \subseteq held'[q]
  BY <1>2 DEF IInv, TypeOK, Witnessed, PathsOf, Loaded, Located
<1>3. ASSUME NEW q \in Process, pc'[q] = "listing"
      PROVE  /\ (PathsOf(todo[q]))' \subseteq held'[q]
             /\ UniqueIds(todo[q])'
             /\ \A r \in todo'[q] : \A x \in listed'[q] : x.id # r.id
  BY <1>1, <1>3 DEF ListInv, PathsOf, UniqueIds
<1>4. ListingTells'
  BY <1>1 DEF ListInv, ListingTells
<1> QED BY <1>2, <1>3, <1>4 DEF ListInv

\* A step of another kind than listing, that leaves the files alone.
LEMMA ListingWaits ==
  ASSUME ListInv,
         \A q \in Process : pc'[q] = "listing" => pc[q] = "listing",
         UNCHANGED <<file, todo, listed, held>>
  PROVE  ListInv'
BY DEF ListInv, ListingTells, PathsOf, UniqueIds, Loaded, Located

LEMMA NextListing == IInv /\ ListInv /\ [Next]_vars => ListInv'
<1> SUFFICES ASSUME IInv, ListInv, [Next]_vars
             PROVE  ListInv'
  OBVIOUS
<1>0. TypeOK
  BY DEF IInv
<1>1. ASSUME NEW p \in Process,
             \/ \E entry \in Row : UpsertRead(p, entry)
             \/ \E id \in Id : RemoveRead(p, id)
      PROVE  ListInv'
  BY <1>0, <1>1, ListingWaits DEF UpsertRead, RemoveRead, TypeOK
<1>2. ASSUME NEW p \in Process, Truncate(p) \/ Fill(p) \/ Fail(p)
      PROVE  ListInv'
  <2>1. \A q \in Process : pc'[q] = "listing" => pc[q] = "listing"
    BY <1>0, <1>2 DEF Truncate, Fill, Fail, TypeOK
  <2>2. Witnessed /\ UNCHANGED <<todo, listed>>
    BY <1>2 DEF Truncate, Fill, Fail
  <2> QED BY <2>1, <2>2, WitnessStep
<1>3. ASSUME NEW p \in Process, ListStart(p)
      PROVE  ListInv'
  <2>1. /\ todo'[p] = Loaded(p) /\ listed'[p] = {} /\ held'[p] = PathsOf(Loaded(p))
        /\ \A q \in Process : q # p =>
             /\ todo'[q] = todo[q] /\ listed'[q] = listed[q] /\ held'[q] = held[q]
             /\ pc'[q] = pc[q]
        /\ file' = file
    BY <1>0, <1>3 DEF ListStart, TypeOK
  <2>2. UniqueIds(Loaded(p))
    BY DEF IInv, Sound, Loaded, Located, File
  <2>3. \A q \in Process : Loaded(q)' = Loaded(q)
    BY <2>1 DEF Loaded, Located
  <2> QED BY <2>1, <2>2, <2>3 DEF ListInv, ListingTells, PathsOf, UniqueIds
<1>4. ASSUME NEW p \in Process, NEW r \in todo[p], ListRow(p, r)
      PROVE  ListInv'
  <2> DEFINE found == Resolve(Loaded(p), r.id)
             line == [id |-> r.id, repoPath |-> r.path, checked |-> found.path]
  <2>1. found \in Loaded(p) /\ found.id = r.id
    BY <1>4 DEF ListRow, Known, Resolve
  <2>2. /\ pc[p] = "listing" /\ file' = file /\ held' = held
        /\ todo'[p] = todo[p] \ {r} /\ listed'[p] = listed[p] \union {line}
        /\ \A q \in Process : q # p =>
             todo'[q] = todo[q] /\ listed'[q] = listed[q] /\ pc'[q] = pc[q]
    BY <1>0, <1>4 DEF ListRow, TypeOK
  <2>3. <<line.id, line.repoPath>> \in held[p] /\ <<line.id, line.checked>> \in held[p]
    BY <2>1, <2>2 DEF ListInv, PathsOf
  <2>4. \A q \in Process : Loaded(q)' = Loaded(q)
    BY <2>2 DEF Loaded, Located
  <2>5. line.id = r.id
    OBVIOUS
  <2> HIDE DEF line
  <2>6. ListingTells'
    BY <2>2, <2>3, <2>5 DEF ListInv, ListingTells
  <2>7. ASSUME NEW q \in Process, pc'[q] = "listing"
        PROVE  /\ (PathsOf(Loaded(q)))' \subseteq held'[q]
               /\ (PathsOf(todo[q]))' \subseteq held'[q]
               /\ UniqueIds(todo[q])'
               /\ \A t \in todo'[q] : \A x \in listed'[q] : x.id # t.id
    <3>1. pc[q] = "listing"
      BY <2>2, <2>7
    <3>2. CASE q = p
      BY <2>2, <2>4, <2>5, <3>1, <3>2 DEF ListInv, PathsOf, UniqueIds
    <3>3. CASE q # p
      BY <2>2, <2>4, <3>1, <3>3 DEF ListInv, PathsOf, UniqueIds
    <3> QED BY <3>2, <3>3
  <2> QED BY <2>6, <2>7 DEF ListInv
<1>5. ASSUME NEW p \in Process, NEW r \in todo[p], ListThrows(p, r)
      PROVE  ListInv'
  <2>1. /\ listed'[p] = {} /\ pc'[p] = "idle" /\ file' = file /\ held' = held
        /\ \A q \in Process : q # p =>
             todo'[q] = todo[q] /\ listed'[q] = listed[q] /\ pc'[q] = pc[q]
    BY <1>0, <1>5 DEF ListThrows, TypeOK
  <2> QED BY <2>1 DEF ListInv, ListingTells, PathsOf, UniqueIds, Loaded, Located
<1>6. CASE UNCHANGED vars
  BY <1>6, ListingWaits DEF vars
<1> QED BY <1>1, <1>2, <1>3, <1>4, <1>5, <1>6 DEF Next, Writes, Lists

\* For any processes, ids and paths, whoever writes or breaks off while
\* listValidatedWorkspaces() is under way: it lists no id twice, and both the
\* path it prints for an id and the one it validated were registered for that
\* id since it began.
THEOREM ListingsTell == Spec => []ListingTells
<1>1. Init => ListInv
  BY DEF Init, ListInv, ListingTells
<1>2. ListInv => ListingTells
  BY DEF ListInv
<1> QED BY InitIInv, NextIInv, NextListing, <1>1, <1>2, PTL DEF Spec

-----------------------------------------------------------------------------
(* Calls that do not overlap.                                              *)

Begun(p) == pc[p] \in {"ready", "writing"}

\* Before anything is disturbed one process is busy at most; if it writes, it writes the
\* home registry: what it read with one row upserted or removed, and into the
\* file that it emptied.
SerialInv ==
  ~disturbed =>
    /\ \A p, q \in Busy : p = q
    /\ \A p \in Process : Begun(p) => target[p] = "home"
    /\ \A p \in Process : pc[p] = "writing" => file["home"] = Empty
    /\ \A p \in Process : pc[p] = "ready" =>
         \/ \E entry \in Row : out[p] = Upserted(file["home"].rows, entry)
         \/ \E id \in Id : /\ Known(file["home"].rows, id)
                           /\ out[p] = {r \in file["home"].rows : r.id # id}

LEMMA InitSerial == Init => SerialInv
BY DEF Init, SerialInv, Busy, Begun

LEMMA NextSerial == IInv /\ SerialInv /\ [Next]_vars => SerialInv'
<1> SUFFICES ASSUME IInv, SerialInv, [Next]_vars, ~disturbed'
             PROVE  SerialInv'
  BY DEF SerialInv
<1> USE DEF Begun
<1>0. TypeOK /\ "home" \in File
  BY DEF IInv, File
<1>1. ASSUME NEW p \in Process, NEW rows,
             pc[p] = "idle", pc' = [pc EXCEPT ![p] = "ready"],
             out' = [out EXCEPT ![p] = rows], target' = [target EXCEPT ![p] = "home"],
             \/ \E entry \in Row : rows = Upserted(file["home"].rows, entry)
             \/ \E id \in Id : /\ Known(file["home"].rows, id)
                               /\ rows = {r \in file["home"].rows : r.id # id},
             ~disturbed, Busy = {}, UNCHANGED <<file, todo, listed>>
      PROVE  SerialInv'
  <2>1. \A q \in Process : pc[q] = "idle" /\ (pc'[q] # "idle" => q = p)
    BY <1>0, <1>1 DEF Busy, TypeOK
  <2>2. out'[p] = rows /\ target'[p] = "home" /\ pc'[p] = "ready"
    BY <1>0, <1>1 DEF TypeOK
  <2> QED BY <1>1, <2>1, <2>2 DEF SerialInv, Busy, Upserted, Known
<1>2. ASSUME NEW p \in Process, NEW entry \in Row, UpsertRead(p, entry)
      PROVE  SerialInv'
  <2>1. p \notin EnvSet /\ ~disturbed /\ Busy = {}
    BY <1>2, <1>0 DEF UpsertRead, TypeOK
  <2> QED BY <1>1, <1>2, <2>1 DEF UpsertRead, Located, Loaded
<1>3. ASSUME NEW p \in Process, NEW id \in Id, RemoveRead(p, id)
      PROVE  SerialInv'
  <2>1. p \notin EnvSet /\ ~disturbed /\ Busy = {}
    BY <1>3, <1>0 DEF RemoveRead, TypeOK
  <2> QED BY <1>1, <1>3, <2>1 DEF RemoveRead, Located, Loaded
<1>4. ASSUME NEW p \in Process, Truncate(p)
      PROVE  SerialInv'
  <2>1. ~disturbed /\ target[p] = "home" /\ \A q \in Process : q # p => pc[q] = "idle"
    BY <1>0, <1>4 DEF Truncate, TypeOK, SerialInv, Busy
  <2>2. pc'[p] = "writing" /\ \A q \in Process : q # p => pc'[q] = "idle"
    BY <1>0, <1>4, <2>1 DEF Truncate, TypeOK
  <2>3. file'["home"] = Empty
    BY <1>0, <1>4, <2>1 DEF Truncate, TypeOK
  <2> QED BY <1>4, <2>1, <2>2, <2>3 DEF Truncate, SerialInv, Busy
<1>5. ASSUME NEW p \in Process, Fill(p)
      PROVE  SerialInv'
  <2>1. ~disturbed /\ \A q \in Process : q # p => pc[q] = "idle"
    BY <1>0, <1>5 DEF Fill, TypeOK, SerialInv, Busy
  <2>2. \A q \in Process : pc'[q] = "idle"
    BY <1>0, <1>5, <2>1 DEF Fill, TypeOK
  <2> QED BY <1>5, <2>1, <2>2 DEF Fill, SerialInv, Busy
<1>6. ASSUME NEW p \in Process, Fail(p)
      PROVE  SerialInv'
  BY <1>6 DEF Fail
<1>7. ASSUME NEW p \in Process, ListStart(p)
      PROVE  SerialInv'
  <2>1. ~disturbed /\ \A q \in Process : pc[q] = "idle"
    BY <1>0, <1>7 DEF ListStart, TypeOK, Busy
  <2>2. pc'[p] = "listing" /\ \A q \in Process : q # p => pc'[q] = "idle"
    BY <1>0, <1>7, <2>1 DEF ListStart, TypeOK
  <2> QED BY <2>1, <2>2 DEF SerialInv, Busy
<1>8. ASSUME NEW p \in Process, NEW r \in todo[p], ListRow(p, r)
      PROVE  SerialInv'
  <2>1. ~disturbed /\ \A q \in Process : q # p => pc[q] = "idle"
    BY <1>0, <1>8 DEF ListRow, TypeOK, SerialInv, Busy
  <2>2. /\ pc'[p] \in {"idle", "listing"}
        /\ \A q \in Process : q # p => pc'[q] = "idle"
    BY <1>0, <1>8, <2>1 DEF ListRow, TypeOK
  <2> QED BY <2>1, <2>2 DEF SerialInv, Busy
<1>9. ASSUME NEW p \in Process, NEW r \in todo[p], ListThrows(p, r)
      PROVE  SerialInv'
  <2>1. ~disturbed /\ \A q \in Process : q # p => pc[q] = "idle"
    BY <1>0, <1>9 DEF ListThrows, TypeOK, SerialInv, Busy
  <2>2. \A q \in Process : pc'[q] = "idle"
    BY <1>0, <1>9, <2>1 DEF ListThrows, TypeOK
  <2> QED BY <2>1, <2>2 DEF SerialInv, Busy
<1>10. CASE UNCHANGED vars
  BY <1>10 DEF vars, SerialInv, Busy, Loaded, Located, Known, Upserted
<1> QED BY <1>2, <1>3, <1>4, <1>5, <1>6, <1>7, <1>8, <1>9, <1>10 DEF Next, Writes, Lists

-----------------------------------------------------------------------------
(* The registry of whoever has it to himself implements Registry: what a   *)
(* write is about to put into the file is one step of the catalogue from   *)
(* what was read, and that step is taken when the file is truncated.       *)

\* What a catalogue has of sound rows.
LEMMA CatalogueOf ==
  ASSUME NEW rows, Sound(rows)
  PROVE  /\ EntriesOf(rows) \in [{r.id : r \in rows} -> Path]
         /\ {r.id : r \in rows} \subseteq Id
         /\ \A r \in rows : EntriesOf(rows)[r.id] = r.path
         /\ \A r \in rows : r.default => DefaultId(rows) = r.id
         /\ (\A r \in rows : ~r.default) => DefaultId(rows) = None
<1>1. \A r \in rows : r \in Row /\ Resolve(rows, r.id) = r
  BY DEF Sound, UniqueIds, Resolve
<1>2. \A r \in rows : r.default => (CHOOSE s \in rows : s.default) = r
  BY DEF Sound, OneDefault
<1> QED BY <1>1, <1>2 DEF EntriesOf, DefaultId, Row

\* Two lists with the same ids and paths are one catalogue.
LEMMA SameEntries ==
  ASSUME NEW rows, Sound(rows), NEW entries,
         entries = [i \in DOMAIN entries |-> entries[i]],
         DOMAIN entries = {r.id : r \in rows},
         \A r \in rows : entries[r.id] = r.path
  PROVE  EntriesOf(rows) = entries
<1>1. EntriesOf(rows) = [i \in {r.id : r \in rows} |-> Resolve(rows, i).path]
  BY DEF EntriesOf
<1>2. \A i \in {r.id : r \in rows} : Resolve(rows, i).path = entries[i]
  BY DEF Sound, UniqueIds, Resolve
<1> QED BY <1>1, <1>2

\* An upsert registers its entry, and moves the default if it is asked to.
LEMMA UpsertRegisters ==
  ASSUME NEW rows, Sound(rows), NEW entry \in Row
  PROVE  LET new == Upserted(rows, entry)
         IN  /\ EntriesOf(new) = [i \in DOMAIN EntriesOf(rows) \union {entry.id} |->
                                  IF i = entry.id THEN entry.path ELSE EntriesOf(rows)[i]]
             /\ DefaultId(new) = IF entry.default THEN entry.id ELSE DefaultId(rows)
<1> DEFINE base == {[r EXCEPT !.default = @ /\ ~entry.default] : r \in rows}
           old == {r \in base : r.id = entry.id}
           line == [entry EXCEPT !.default = @ \/ \E r \in old : r.default]
           new == Upserted(rows, entry)
           entries == [i \in DOMAIN EntriesOf(rows) \union {entry.id} |->
                         IF i = entry.id THEN entry.path ELSE EntriesOf(rows)[i]]
<1>1. new = (base \ old) \union {line} /\ Sound(new)
  BY UpsertedSound DEF Upserted
<1>2. /\ \A s \in base : \E r \in rows :
           s.id = r.id /\ s.path = r.path /\ s.default = (r.default /\ ~entry.default)
      /\ \A r \in rows : \E s \in base :
           s.id = r.id /\ s.path = r.path /\ s.default = (r.default /\ ~entry.default)
  <2>1. ASSUME NEW r \in rows
        PROVE  LET s == [r EXCEPT !.default = @ /\ ~entry.default]
               IN  s.id = r.id /\ s.path = r.path /\ s.default = (r.default /\ ~entry.default)
    BY DEF Sound, Row
  <2> QED BY <2>1
<1>3. /\ line.id = entry.id /\ line.path = entry.path
      /\ line.default = (entry.default \/ \E r \in old : r.default)
  BY DEF Row
<1>4. \A s \in base : s \in old <=> s.id = entry.id
  OBVIOUS
<1> HIDE DEF base, old, line, new
<1>5. DOMAIN EntriesOf(rows) = {r.id : r \in rows}
  BY DEF EntriesOf
<1>6. {r.id : r \in new} = {r.id : r \in rows} \union {entry.id}
  BY <1>1, <1>2, <1>3, <1>4
<1>7. \A r \in new : entries[r.id] = r.path
  <2> SUFFICES ASSUME NEW r \in new PROVE entries[r.id] = r.path
    OBVIOUS
  <2>1. CASE r = line
    BY <1>3, <2>1
  <2>2. CASE r \in base \ old
    <3>1. PICK t \in rows : r.id = t.id /\ r.path = t.path
      BY <1>2, <2>2
    <3>2. EntriesOf(rows)[t.id] = t.path /\ r.id # entry.id
      BY <1>4, <2>2, <3>1, CatalogueOf
    <3> QED BY <1>5, <3>1, <3>2
  <2> QED BY <1>1, <2>1, <2>2
<1>8. EntriesOf(new) = entries
  <2>1. /\ entries = [i \in DOMAIN entries |-> entries[i]]
        /\ DOMAIN entries = {r.id : r \in new}
    BY <1>5, <1>6
  <2> HIDE DEF entries
  <2> QED BY <1>1, <1>7, <2>1, SameEntries
<1>9. DefaultId(new) = IF entry.default THEN entry.id ELSE DefaultId(rows)
  <2>1. CASE entry.default
    <3>1. line \in new /\ line.default /\ line.id = entry.id
      BY <1>1, <1>3, <2>1
    <3>2. DefaultId(new) = line.id
      BY <1>1, <3>1, CatalogueOf
    <3> QED BY <2>1, <3>1, <3>2
  <2>2. CASE ~entry.default /\ \E r \in rows : r.default
    <3>1. PICK r \in rows : r.default
      BY <2>2
    <3>2. PICK s \in base : s.id = r.id /\ s.default = (r.default /\ ~entry.default)
      BY <1>2
    <3>3. \E t \in new : t.id = r.id /\ t.default
      BY <1>1, <1>3, <1>4, <2>2, <3>1, <3>2
    <3>4. DefaultId(new) = r.id
      BY <1>1, <3>3, CatalogueOf
    <3>5. DefaultId(rows) = r.id
      BY <3>1, CatalogueOf
    <3> QED BY <2>2, <3>4, <3>5
  <2>3. CASE ~entry.default /\ \A r \in rows : ~r.default
    <3>1. \A s \in base : ~s.default
      BY <1>2, <2>3
    <3>2. old \subseteq base
      BY DEF old
    <3>3. \A s \in new : ~s.default
      BY <1>1, <1>3, <2>3, <3>1, <3>2
    <3> QED BY <1>1, <2>3, <3>3, CatalogueOf
  <2> QED BY <2>1, <2>2, <2>3
<1> QED BY <1>8, <1>9 DEF new

\* A removal deregisters its id, and the default with it.
LEMMA RemovalDeregisters ==
  ASSUME NEW rows, Sound(rows), NEW id
  PROVE  LET new == {r \in rows : r.id # id}
         IN  /\ EntriesOf(new) = [i \in DOMAIN EntriesOf(rows) \ {id} |-> EntriesOf(rows)[i]]
             /\ DefaultId(new) = IF DefaultId(rows) = id THEN None ELSE DefaultId(rows)
<1> DEFINE new == {r \in rows : r.id # id}
           entries == [i \in DOMAIN EntriesOf(rows) \ {id} |-> EntriesOf(rows)[i]]
<1>1. Sound(new)
  BY DEF Sound, UniqueIds, OneDefault
<1>2. DOMAIN EntriesOf(rows) = {r.id : r \in rows}
  BY DEF EntriesOf
<1>3. \A r \in new : entries[r.id] = r.path
  BY <1>2, CatalogueOf
<1>4. /\ entries = [i \in DOMAIN entries |-> entries[i]]
      /\ DOMAIN entries = {r.id : r \in new}
  BY <1>2
<1>5. EntriesOf(new) = entries
  <2> HIDE DEF entries, new
  <2> QED BY <1>1, <1>3, <1>4, SameEntries
<1>6. DefaultId(new) = IF DefaultId(rows) = id THEN None ELSE DefaultId(rows)
  <2>1. CASE \A r \in rows : ~r.default
    BY <1>1, <2>1, CatalogueOf
  <2>2. CASE \E r \in rows : r.default
    <3>1. PICK r \in rows : r.default
      BY <2>2
    <3>2. DefaultId(rows) = r.id
      BY <3>1, CatalogueOf
    <3>3. CASE r.id = id
      <4>1. \A s \in new : ~s.default
        BY <3>1, <3>3 DEF Sound, OneDefault
      <4> QED BY <1>1, <3>2, <3>3, <4>1, CatalogueOf
    <3>4. CASE r.id # id
      <4>1. r \in new
        BY <3>4
      <4> QED BY <1>1, <3>1, <3>2, <3>4, <4>1, CatalogueOf
    <3> QED BY <3>3, <3>4
  <2> QED BY <2>1, <2>2
<1> QED BY <1>5, <1>6

\* What users see while one process writes, and while none does.
SeenTells ==
  /\ \A p \in Process : pc[p] = "writing" => Seen = out[p]
  /\ (\A p \in Process : pc[p] # "writing") => Seen = file["home"].rows

LEMMA SeenRows == SerialInv /\ ~disturbed => SeenTells
<1> SUFFICES ASSUME SerialInv, ~disturbed PROVE SeenTells
  OBVIOUS
<1> DEFINE writers == {p \in Process : pc[p] = "writing"}
<1>1. \A p, q \in writers : p = q
  BY DEF SerialInv, Busy
<1>2. ASSUME NEW p \in Process, pc[p] = "writing"
      PROVE  Seen = out[p]
  <2>1. writers = {p}
    BY <1>1, <1>2
  <2> QED BY <2>1 DEF Seen
<1>3. ASSUME \A p \in Process : pc[p] # "writing"
      PROVE  Seen = file["home"].rows
  BY <1>3 DEF Seen
<1> QED BY <1>2, <1>3 DEF SeenTells

\* Nothing but the start of a write changes what users see, and a write starts
\* with one step of the catalogue.
LEMMA SerialStep ==
  ASSUME IInv, SerialInv, IInv', SerialInv', [Next]_vars, ~disturbed'
  PROVE  Abstract!Next \/ Seen' = Seen
<1>0. TypeOK /\ "home" \in File
  BY DEF IInv, File
<1>1. ASSUME NEW p \in Process, Truncate(p)
      PROVE  Abstract!Next
  <2>1. ~disturbed /\ pc[p] = "ready" /\ pc'[p] = "writing" /\ out' = out
    BY <1>0, <1>1 DEF Truncate, TypeOK
  <2>2. \A q \in Process : pc[q] # "writing"
    BY <2>1 DEF SerialInv, Busy
  <2>3. Seen = file["home"].rows
    BY <2>1, <2>2, SeenRows DEF SeenTells
  <2>4. Seen' = out[p]
    <3>1. SeenTells'
      BY SeenRows, PTL
    <3> QED BY <2>1, <3>1 DEF SeenTells
  <2>5. Sound(Seen)
    BY <1>0, <2>3 DEF IInv
  <2> DEFINE rows == Seen
  <2>6. ASSUME NEW entry \in Row, out[p] = Upserted(rows, entry)
        PROVE  Abstract!Next
    <3>1. /\ EntriesOf(out[p]) = [i \in DOMAIN EntriesOf(rows) \union {entry.id} |->
                                  IF i = entry.id THEN entry.path ELSE EntriesOf(rows)[i]]
          /\ DefaultId(out[p]) = IF entry.default THEN entry.id ELSE DefaultId(rows)
      BY <2>5, <2>6, UpsertRegisters
    <3>2. entry.id \in Id /\ entry.path \in Path /\ entry.default \in BOOLEAN
      BY DEF Row
    <3>3. EntriesOf(Seen)' = EntriesOf(out[p]) /\ DefaultId(Seen)' = DefaultId(out[p])
      BY <2>4 DEF EntriesOf, DefaultId, Resolve
    <3>4. Abstract!Register(entry.id, entry.path, entry.default)
      BY <3>1, <3>3 DEF Abstract!Register
    <3> QED BY <3>2, <3>4 DEF Abstract!Next
  <2>7. ASSUME NEW id \in Id, Known(rows, id), out[p] = {r \in rows : r.id # id}
        PROVE  Abstract!Next
    <3>1. /\ EntriesOf(out[p]) = [i \in DOMAIN EntriesOf(rows) \ {id} |-> EntriesOf(rows)[i]]
          /\ DefaultId(out[p]) = IF DefaultId(rows) = id THEN None ELSE DefaultId(rows)
      BY <2>5, <2>7, RemovalDeregisters
    <3>2. id \in DOMAIN EntriesOf(rows)
      BY <2>7 DEF EntriesOf, Known
    <3>3. EntriesOf(Seen)' = EntriesOf(out[p]) /\ DefaultId(Seen)' = DefaultId(out[p])
      BY <2>4 DEF EntriesOf, DefaultId, Resolve
    <3>4. Abstract!Deregister(id)
      BY <3>1, <3>2, <3>3 DEF Abstract!Deregister
    <3> QED BY <3>4 DEF Abstract!Next
  <2> QED BY <2>1, <2>3, <2>6, <2>7 DEF SerialInv
<1>2. ASSUME NEW p \in Process, Fill(p)
      PROVE  Seen' = Seen
  <2>1. ~disturbed /\ pc[p] = "writing" /\ pc'[p] = "idle" /\ target[p] = "home"
        /\ file["home"] = Empty
    BY <1>0, <1>2 DEF Fill, TypeOK, SerialInv, Begun
  <2>2. \A q \in Process : pc'[q] # "writing"
    BY <1>0, <1>2, <2>1 DEF Fill, TypeOK, SerialInv, Busy
  <2>3. Seen = out[p]
    BY <2>1, SeenRows DEF SeenTells
  <2>4. file'["home"] = Whole(out[p])
    BY <1>0, <1>2, <2>1 DEF Fill, TypeOK
  <2>5. Seen' = file'["home"].rows
    <3>1. SeenTells'
      BY SeenRows, PTL
    <3> QED BY <2>2, <3>1 DEF SeenTells
  <2> QED BY <2>3, <2>4, <2>5 DEF Whole
<1>3. ASSUME UNCHANGED file, {p \in Process : pc'[p] = "writing"} = {p \in Process : pc[p] = "writing"},
             \A p \in Process : pc[p] = "writing" => out'[p] = out[p]
      PROVE  Seen' = Seen
  <2> DEFINE writers == {p \in Process : pc[p] = "writing"}
  <2>1. writers' = writers /\ file' = file
    BY <1>3
  <2>2. CASE writers = {}
    BY <2>1, <2>2 DEF Seen
  <2>3. CASE writers # {}
    <3>1. (CHOOSE p \in writers : TRUE) \in writers
      BY <2>3
    <3> QED BY <1>3, <2>1, <2>3, <3>1 DEF Seen
  <2> QED BY <2>2, <2>3
<1>4. ASSUME NEW p \in Process,
             \/ \E entry \in Row : UpsertRead(p, entry)
             \/ \E id \in Id : RemoveRead(p, id)
             \/ ListStart(p)
             \/ \E r \in todo[p] : ListRow(p, r) \/ ListThrows(p, r)
      PROVE  Seen' = Seen
  <2>1. /\ UNCHANGED file /\ pc[p] # "writing" /\ pc'[p] # "writing"
        /\ \A q \in Process : q # p => pc'[q] = pc[q] /\ out'[q] = out[q]
    BY <1>0, <1>4 DEF UpsertRead, RemoveRead, ListStart, ListRow, ListThrows, TypeOK
  <2> QED BY <1>3, <2>1
<1>5. CASE UNCHANGED vars
  BY <1>3, <1>5 DEF vars
<1>6. ASSUME NEW p \in Process, Fail(p)
      PROVE  FALSE
  BY <1>6 DEF Fail
<1> QED BY <1>1, <1>2, <1>4, <1>5, <1>6 DEF Next, Writes, Lists

\* Calls of upsertWorkspace() and removeWorkspace() that do not overlap, and
\* whose writes succeed, find a catalogue with a default, for any processes,
\* ids and paths.
THEOREM SerialCallsImplementRegistry == Spec => SerialIsRegistry
<1>1. Init => Abstract!Init
  <2> SUFFICES ASSUME Init PROVE Abstract!Init
    OBVIOUS
  <2>1. Seen = file["home"].rows
    BY DEF Init, Seen
  <2>2. Sound(Seen)
    BY InitIInv, <2>1 DEF IInv, File
  <2>3. EntriesOf(Seen) \in UNION {[ids -> Path] : ids \in SUBSET Id}
    BY <2>2, CatalogueOf
  <2>4. DefaultId(Seen) \in DOMAIN EntriesOf(Seen) \union {None}
    <3>1. DOMAIN EntriesOf(Seen) = {r.id : r \in Seen}
      BY DEF EntriesOf
    <3>2. DefaultId(Seen) = None \/ \E r \in Seen : DefaultId(Seen) = r.id
      BY DEF DefaultId
    <3> QED BY <3>1, <3>2
  <2> QED BY <2>3, <2>4 DEF Abstract!Init
<1>2. IInv /\ SerialInv /\ IInv' /\ SerialInv' /\ [Next]_vars
        => [~disturbed' => Abstract!Next]_<<EntriesOf(Seen), DefaultId(Seen)>>
  <2> SUFFICES ASSUME IInv, SerialInv, IInv', SerialInv', [Next]_vars
               PROVE  [~disturbed' => Abstract!Next]_<<EntriesOf(Seen), DefaultId(Seen)>>
    OBVIOUS
  <2>1. Seen' = Seen => UNCHANGED <<EntriesOf(Seen), DefaultId(Seen)>>
    BY DEF EntriesOf, DefaultId, Resolve
  <2> QED BY <2>1, SerialStep
<1> QED BY InitIInv, NextIInv, InitSerial, NextSerial, <1>1, <1>2, PTL DEF Spec, SerialIsRegistry

-----------------------------------------------------------------------------
(* Runs across workspaces: a row of two results would need an id that the  *)
(* list of targets has twice.                                              *)

\* A target has no result yet, and while the call is on, what the registry
\* holds has been seen.
ResultsTrue ==
  /\ registry \in File
  /\ UniqueIds(targets)
  /\ turn = "new" => targets = {} /\ results = {}
  /\ turn = "running" => PathsOf(file[registry].rows) \subseteq seen
  /\ \A x \in results, r \in targets : x.id # r.id
  /\ RunsWhatItNames

LEMMA AcrossInitInv == AcrossInit => IInv /\ ResultsTrue
PROOF
<1> SUFFICES ASSUME AcrossInit PROVE IInv /\ ResultsTrue
  OBVIOUS
<1>1. IInv
  BY InitIInv DEF AcrossInit
<1>2. ResultsTrue
  BY DEF AcrossInit, ResultsTrue, RunsWhatItNames, UniqueIds, File
<1> QED BY <1>1, <1>2

\* The repository a pipeline runs in was in the registry at that moment.
LEMMA RanWhereRegistered ==
  ASSUME NEW rows, NEW id, rows # {}, RepoOf(rows, id) # None
  PROVE  <<id, RepoOf(rows, id)>> \in PathsOf(rows)
PROOF
<1>1. Known(rows, id) /\ RepoOf(rows, id) = Resolve(rows, id).path
  BY DEF RepoOf
<1>2. Resolve(rows, id) \in rows /\ Resolve(rows, id).id = id
  BY <1>1 DEF Known, Resolve
<1> QED BY <1>1, <1>2 DEF PathsOf

LEMMA AcrossNextInv == IInv /\ ResultsTrue /\ [AcrossNext]_allVars => IInv' /\ ResultsTrue'
PROOF
<1> SUFFICES ASSUME IInv, ResultsTrue, [AcrossNext]_allVars PROVE IInv' /\ ResultsTrue'
  OBVIOUS
<1>1. CASE Others
  <2>1. IInv'
    BY <1>1, NextIInv DEF Others, Next
  <2>2. turn' = "running" => PathsOf(file'[registry].rows) \subseteq seen'
    BY <1>1 DEF Others
  <2>3. seen \subseteq seen'
    BY <1>1 DEF Others
  <2>4. RunsWhatItNames'
    BY <1>1, <2>3 DEF Others, ResultsTrue, RunsWhatItNames
  <2>5. (PathsOf(file[registry].rows))' = PathsOf(file'[registry].rows)
    BY <1>1 DEF Others, PathsOf
  <2> QED BY <1>1, <2>1, <2>2, <2>4, <2>5 DEF Others, ResultsTrue, UniqueIds
<1>2. ASSUME NEW f \in File, NEW ids \in SUBSET Id, AcrossStart(f, ids)
      PROVE  IInv' /\ ResultsTrue'
  <2>1. IInv'
    BY <1>2, NextIInv DEF AcrossStart
  <2>2. UniqueIds(file[f].rows)
    BY DEF IInv, Sound
  <2>3. UniqueIds(targets')
    BY <1>2, <2>2 DEF AcrossStart, UniqueIds
  <2>4. results' = {}
    BY <1>2 DEF AcrossStart, ResultsTrue
  <2>5. (PathsOf(file[registry].rows))' \subseteq seen'
    BY <1>2 DEF AcrossStart, PathsOf, vars
  <2> QED BY <1>2, <2>1, <2>3, <2>4, <2>5 DEF AcrossStart, ResultsTrue, RunsWhatItNames, UniqueIds
<1>3. ASSUME NEW r \in targets, RunTarget(r)
      PROVE  IInv' /\ ResultsTrue'
  <2>1. IInv'
    BY <1>3, NextIInv DEF RunTarget
  <2> DEFINE rows == file[registry].rows
             line == [id |-> r.id, empty |-> rows = {},
                      repo |-> IF file[registry].kind \in {"absent", "whole"}
                               THEN RepoOf(rows, r.id) ELSE None]
  <2>2. results' = results \union {line}
    BY <1>3 DEF RunTarget
  <2>3. line.repo # None /\ ~line.empty => <<line.id, line.repo>> \in seen
    BY <1>3, RanWhereRegistered DEF RunTarget, ResultsTrue
  <2> HIDE DEF line
  <2>4. line.id = r.id
    BY DEF line
  <2>5. RunsWhatItNames'
    BY <1>3, <2>2, <2>3, <2>4 DEF RunTarget, ResultsTrue, RunsWhatItNames
  <2>6. \A x \in results', t \in targets' : x.id # t.id
    BY <1>3, <2>2, <2>4 DEF RunTarget, ResultsTrue, UniqueIds
  <2>7. (PathsOf(rows))' = PathsOf(rows)
    BY <1>3 DEF RunTarget, PathsOf, vars
  <2> QED BY <1>3, <2>1, <2>5, <2>6, <2>7 DEF RunTarget, ResultsTrue, UniqueIds
<1>4. CASE AcrossEnd \/ UNCHANGED allVars
  <2>1. IInv'
    BY <1>4, NextIInv DEF AcrossEnd, allVars
  <2> QED BY <1>4, <2>1 DEF AcrossEnd, allVars, acrossVars, vars, ResultsTrue, RunsWhatItNames, UniqueIds, PathsOf
<1> QED BY <1>1, <1>2, <1>3, <1>4 DEF AcrossNext

\* For any processes, workspaces and order of the targets, whoever writes the
\* registry while runAcrossWorkspaces() is on: a workspace has one result, and
\* its pipeline ran where the registry had it during the call, or, if the
\* registry had lost its last row, where the process is.
THEOREM AcrossRunsWhatItNames == AcrossSpec => []RunsWhatItNames
PROOF
<1>1. ResultsTrue => RunsWhatItNames
  BY DEF ResultsTrue
<1> QED BY AcrossInitInv, AcrossNextInv, <1>1, PTL DEF AcrossSpec
=============================================================================
