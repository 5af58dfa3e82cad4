--------------------------- MODULE MCCountDistinct ---------------------------
(***************************************************************************)
(* The threshold of count(distinct) varies with the AID set, as the noise  *)
(* layer that the set seeds does.                                          *)
(***************************************************************************)
EXTENDS CountDistinct

MCThreshold == [A \in SUBSET Aids |-> IF 1 \in A THEN 3 ELSE 2]
=============================================================================
