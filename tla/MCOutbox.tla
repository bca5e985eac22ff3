------------------------------ MODULE MCOutbox ------------------------------
(***************************************************************************)
(* Instances for TLC.  Rows: the confirmation of an order and a shipping   *)
(* notice; or the confirmation with a row no sender can use.               *)
(***************************************************************************)
EXTENDS Outbox, TLC

CONSTANTS created, notice, legacy, corrupt, order, w1, w2

MCOrderOf == [k \in {created} |-> order]
WorkerSymmetry == Permutations({w1, w2})
=============================================================================
