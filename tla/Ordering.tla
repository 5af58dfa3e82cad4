------------------------------ MODULE Ordering ------------------------------
(***************************************************************************)
(* Sorted lists, as PostgreSQL's list_sort makes them out of entries that  *)
(* all differ for the comparer.                                            *)
(***************************************************************************)
EXTENDS Integers, FiniteSets

\* The elements of a finite set S, sorted: order is the set of pairs of which
\* the first comes before the second.
InOrder(S, order) ==
  CHOOSE list \in [1 .. Cardinality(S) -> S] :
    \A k, l \in 1 .. Cardinality(S) : k < l => <<list[k], list[l]>> \in order

Ascending(S) == InOrder(S, {pair \in S \X S : pair[1] < pair[2]})
=============================================================================
