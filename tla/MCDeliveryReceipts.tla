------------------------- MODULE MCDeliveryReceipts -------------------------
(* A template and a manual reply.                                           *)
EXTENDS DeliveryReceipts, TLC

CONSTANTS t1, m1, h1, h2

HookSymmetry == Permutations({h1, h2})
=============================================================================
