---------------------------- MODULE MCThreadView ----------------------------
(* Two customers' threads. *)
EXTENDS ThreadView, TLC

CONSTANTS a, b

MCStored == a :> 1 @@ b :> 2
MCStoredOne == a :> 1
=============================================================================
