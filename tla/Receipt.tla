------------------------------ MODULE Receipt ------------------------------
(***************************************************************************)
(* What the store promises about ONE copy of a message, the copy a wamid   *)
(* names: its status only moves forward, failed is its last word, and only *)
(* a failed copy is ever given up for a new one.  Module DeliveryReceipts  *)
(* implements this one for every copy of every row.                        *)
(***************************************************************************)
EXTENDS Naturals

VARIABLE status

Rank == [null |-> 0, sent |-> 1, delivered |-> 2, read |-> 3]

Init == status = "unknown"

\* The row learns the wamid of the copy.
Learn == status = "unknown" /\ status' = "null"

MoveForward ==
  /\ status \in DOMAIN Rank
  /\ \E s \in DOMAIN Rank : Rank[status] < Rank[s] /\ status' = s

Fail == status \in DOMAIN Rank /\ status' = "failed"

Supersede == status = "failed" /\ status' = "superseded"

Next == Learn \/ MoveForward \/ Fail \/ Supersede

Spec == Init /\ [][Next]_status
=============================================================================
