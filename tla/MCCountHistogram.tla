-------------------------- MODULE MCCountHistogram --------------------------
(***************************************************************************)
(* The threshold and the noise of count_histogram vary with the AID set,   *)
(* as the noise layer that the set seeds does.                             *)
(***************************************************************************)
EXTENDS CountHistogram

\* Every AID as the counted one (the second), alone, with others and with NULL.
MCRows == {<<1, 1>>, <<2, 2>>, <<3, 3>>, <<Null, 2>>, <<1, Null>>}

MCThreshold == [A \in SUBSET Aids |-> IF A = {3} THEN 1 ELSE IF A = {2, 3} THEN 3 ELSE 2]
MCNoise == [A \in SUBSET Aids |-> IF 1 \in A THEN 1 ELSE -1]
=============================================================================
