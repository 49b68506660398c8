------------------------------ MODULE RowStream ------------------------------
(***************************************************************************)
(* What DataStream.generate(count, batch_size) promises its caller: batches *)
(* of the size asked for, count rows in all, that together with everything *)
(* the stream delivered before form an acceptable table; or an exception,  *)
(* at any point, that takes nothing back and leaves the stream usable.     *)
(***************************************************************************)
EXTENDS RowConstraints

VARIABLES
  table,   (* all rows delivered so far                                     *)
  left,    (* rows the current call has still to deliver                    *)
  size     (* batch size of the current call                                *)

Smaller(m, n) == IF m < n THEN m ELSE n
Extends(t, s) == Len(s) >= Len(t) /\ SubSeq(s, 1, Len(t)) = t

Init == table = <<>> /\ left = 0 /\ size = 1

Call ==
  /\ left = 0
  /\ left' \in Nat /\ size' \in Nat \ {0}
  /\ UNCHANGED table

Deliver ==
  /\ left > 0
  /\ table' \in Seq(Rows)
  /\ Extends(table, table')
  /\ Len(table') = Len(table) + Smaller(size, left)
  /\ Acceptable(table')
  /\ left' = left - Smaller(size, left)
  /\ UNCHANGED size

\* An error, or a caller that asks for no further batch.
End == left' = 0 /\ UNCHANGED <<table, size>>

Next == Call \/ Deliver \/ End

Spec == Init /\ [][Next]_<<table, left, size>>
=============================================================================
