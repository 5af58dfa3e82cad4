---------------------------- MODULE ResultCursor ----------------------------
(***************************************************************************)
(* What BucketScan promises to the plan node above it: a cursor over a     *)
(* result that is computed once, holds only presentable rows, and is       *)
(* delivered from its first row to its last, again after every rewind,     *)
(* until a changed parameter makes the node forget it.                     *)
(***************************************************************************)
EXTENDS Integers, Sequences

CONSTANTS
  Row,            (* Rows of results.                                      *)
  Presentable(_), (* May the row be shown?                                 *)
  Unknown         (* The result before it is computed.                     *)

VARIABLES
  result,     (* The rows to deliver, or Unknown.         *)
  delivered,  (* The rows delivered since the last rewind.*)
  exhausted   (* Did the reader see the end?              *)

vars == <<result, delivered, exhausted>>

Init ==
  /\ result = Unknown
  /\ delivered = <<>>
  /\ exhausted = FALSE

Compute ==
  /\ result = Unknown
  /\ result' \in Seq(Row)
  /\ \A k \in DOMAIN result' : Presentable(result'[k])
  /\ UNCHANGED <<delivered, exhausted>>

Deliver ==
  /\ result # Unknown
  /\ Len(delivered) < Len(result)
  /\ delivered' = Append(delivered, result[Len(delivered) + 1])
  /\ UNCHANGED <<result, exhausted>>

Finish ==
  /\ result # Unknown
  /\ Len(delivered) = Len(result)
  /\ exhausted' = TRUE
  /\ UNCHANGED <<result, delivered>>

AskAgain ==
  /\ exhausted' = FALSE
  /\ UNCHANGED <<result, delivered>>

Rewind ==
  /\ delivered' = <<>>
  /\ exhausted' = FALSE
  /\ UNCHANGED result

Forget ==
  /\ result' = Unknown
  /\ delivered' = <<>>
  /\ exhausted' = FALSE

Next == Compute \/ Deliver \/ Finish \/ AskAgain \/ Rewind \/ Forget

Spec == Init /\ [][Next]_vars
=============================================================================
