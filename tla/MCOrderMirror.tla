---------------------------- MODULE MCOrderMirror ----------------------------
(* Two orders of one customer, one of them under the number to be erased.   *)
EXTENDS OrderMirror, TLC

CONSTANTS o1, o2, c1, w1, w2

(* The second order was a guest's at first.                                 *)
MCCustomerOf ==
  [o \in Orders |-> [v \in Versions |-> IF o = o2 /\ v = 1 THEN NoCustomer ELSE c1]]

(* The first order's states carry stamps, the older of the second's does not; *)
(* the first's newer comes from the backfill, with its delivered fulfillment.  *)
MCStampOf == [o \in Orders |-> [v \in Versions |-> IF o = o2 THEN v - 1 ELSE v]]
MCShipOf ==
  [o \in Orders |-> [v \in Versions |->
     IF o = o1 /\ v = 2 THEN [stamp |-> NoStamp, delivered |-> TRUE] ELSE NoShip]]

WriterSymmetry == Permutations({w1, w2})
==============================================================================
