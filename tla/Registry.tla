------------------------------ MODULE Registry ------------------------------
(***************************************************************************)
(* What the workspace registry promises whoever has it to himself: a       *)
(* catalogue of paths by id, one of which may be the default.              *)
(***************************************************************************)
CONSTANTS
  Id,      \* workspace ids
  Path,    \* where their repositories are
  None     \* no default

VARIABLES
  entries,   \* the path of every registered id
  default    \* the id resolved when none is given

Init ==
  /\ entries \in UNION {[ids -> Path] : ids \in SUBSET Id}
  /\ default \in DOMAIN entries \union {None}

\* The id is new, or its path changes; the default moves only on request.
Register(id, path, makeDefault) ==
  /\ entries' = [i \in DOMAIN entries \union {id} |->
                   IF i = id THEN path ELSE entries[i]]
  /\ default' = IF makeDefault THEN id ELSE default

\* A default that is removed leaves none behind.
Deregister(id) ==
  /\ id \in DOMAIN entries
  /\ entries' = [i \in DOMAIN entries \ {id} |-> entries[i]]
  /\ default' = IF default = id THEN None ELSE default

Next ==
  \E id \in Id :
    \/ \E path \in Path, makeDefault \in BOOLEAN : Register(id, path, makeDefault)
    \/ Deregister(id)

Spec == Init /\ [][Next]_<<entries, default>>
=============================================================================
