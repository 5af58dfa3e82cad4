---------------------------- MODULE MCFlattening ----------------------------
(***************************************************************************)
(* Intervals of no, one and more members, and empty ones.                  *)
(***************************************************************************)
EXTENDS Flattening

MCSettings == [outlier_min : {0, 2}, outlier_max : {1, 2}, top_min : {1, 2}, top_max : {1, 3}]

MCGarbage == {-4, 4}
=============================================================================
