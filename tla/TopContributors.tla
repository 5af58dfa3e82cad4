-------------------------- MODULE TopContributors --------------------------
(***************************************************************************)
(* The sorted lists of top contributors (src/aggregation/                  *)
(* contribution_tracker.c): operators on sequences of records with an aid  *)
(* and a contribution.  Indices start at 1 here.                           *)
(***************************************************************************)
EXTENDS Integers, Sequences, SequencesExt

\* contributor_greater
Greater(x, y) ==
  \/ x.contribution > y.contribution
  \/ x.contribution = y.contribution /\ x.aid > y.aid

FirstIndex(top, start, c) ==
  LET found == {i \in start .. Len(top) : Greater(c, top[i])}
  IN  IF found = {} THEN Len(top) + 1 ELSE CHOOSE i \in found : \A j \in found : i <= j

\* find_insertion_index (indices start at 1): one comparison in the middle,
\* then the first entry that c is greater than.  The comparison with the
\* unused first entry of an empty list does not matter.
InsertionIndex(top, c) ==
  IF top = <<>> THEN 1
  ELSE LET middle == Len(top) \div 2 + 1
       IN  FirstIndex(top, IF Greater(c, top[middle]) THEN 1 ELSE middle + 1, c)

\* add_top_contributor
AddTop(top, capacity, c) ==
  IF Len(top) = capacity /\ ~Greater(c, top[Len(top)])
  THEN top
  ELSE LET longer == InsertAt(top, InsertionIndex(top, c), c)
       IN  SubSeq(longer, 1, IF Len(top) < capacity THEN Len(top) + 1 ELSE capacity)

\* find_aid_index
AidIndex(top, aid) ==
  LET found == {i \in DOMAIN top : top[i].aid = aid}
  IN  IF found = {} THEN Len(top) + 1 ELSE CHOOSE i \in found : \A j \in found : i <= j

\* Mutant: the entry is inserted at its new place and stays at its old one.
UpdateOrAddTopTwice(top, capacity, c) == AddTop(top, capacity, c)

\* update_or_add_top_contributor.  An entry never moves down, or so its sanity
\* check says: CanUpdate.
UpdateOrAddTop(top, capacity, c) ==
  LET old == AidIndex(top, c.aid)
      new == InsertionIndex(top, c)
  IN  IF old > Len(top) THEN AddTop(top, capacity, c)
      ELSE IF new = old + 1 THEN top
      ELSE SubSeq(top, 1, new - 1) \o <<c>> \o SubSeq(top, new, old - 1)
             \o SubSeq(top, old + 1, Len(top))

CanUpdate(top, c) ==
  LET old == AidIndex(top, c.aid)
  IN  old <= Len(top) => InsertionIndex(top, c) <= old + 1
=============================================================================
