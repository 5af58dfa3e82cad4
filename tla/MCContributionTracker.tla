------------------------ MODULE MCContributionTracker ------------------------
(***************************************************************************)
(* Summands of both signs and zero.                                        *)
(***************************************************************************)
EXTENDS ContributionTracker

CONSTANTS b1, b2

FewSummands == {-1, 0, 2}

(* Buckets are alike: their labels play no role here. *)
Symmetry == Permutations(Buckets)
=============================================================================
