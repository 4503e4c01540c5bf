------------------------------- MODULE Places -------------------------------
(***************************************************************************)
(* What a loop that skips some elements of a list leaves of it.            *)
(***************************************************************************)
EXTENDS FiniteSets, Integers

\* Which of these places it is, counted from the first.
Rank(place, places) == Cardinality({k \in places : k <= place})

\* The elements of a list at these places, in the order of the list.
At(list, places) ==
  LET Nth(n) == CHOOSE i \in places : Rank(i, places) = n
  IN  [n \in 1..Cardinality(places) |-> list[Nth(n)]]

\* One place of a loop within a loop comes before another.
Before(p, q) ==
  \/ p[1] < q[1]
  \/ p[1] = q[1] /\ p[2] < q[2]

\* Of these places the first m at which there is something new.
FirstNew(places, found, m) ==
  LET new == {p \in places : \A q \in places : Before(q, p) => found[q] # found[p]}
  IN  {p \in new : Cardinality({q \in new : Before(q, p)}) < m}
=============================================================================
