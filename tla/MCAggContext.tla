---------------------------- MODULE MCAggContext ----------------------------
(***************************************************************************)
(* Two queries with a BucketScan and one without.  The first scan has      *)
(* three equal aggregates and one of another kind among them.              *)
(***************************************************************************)
EXTENDS AggContext

CONSTANTS scan1, scan2, plain1, count, sum

MCAggrefs ==
  [q \in Query |-> CASE q = scan1  -> <<count, sum, count, count>>
                     [] q = scan2  -> <<sum, sum>>
                     [] q = plain1 -> <<count, count>>]
=============================================================================
