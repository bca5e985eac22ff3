------------------------- MODULE MCDeliveryConfirm -------------------------
(* One shipment under two sweeps and a turn, or two in a batch of one.     *)
EXTENDS DeliveryConfirm, TLC

CONSTANTS s1, s2, j1, j2, t1, h1

MCDueAt == [s \in Shipments |-> IF s = s1 THEN 1 ELSE 2]

\* The webhook has parked both already, and will park neither again.
MCParked ==
  /\ page = [s \in Shipments |-> "moving"]
  /\ mirrored = [s \in Shipments |-> TRUE]
  /\ parked = [s \in Shipments |-> "pending"]
  /\ status = [s \in Shipments |-> "null"]
  /\ shipped = [s \in Shipments |-> FALSE]
  /\ notice = [s \in Shipments |-> FALSE]
  /\ old = [s \in Shipments |-> FALSE]
  /\ sweep = [j \in Sweeps |-> SweepIdle]
  /\ turn = [t \in Turns |-> TurnIdle]
  /\ hook = [h \in Hooks |-> HookIdle]
  /\ guessed = {}

MCParkedSpec == MCParked /\ [][Next]_vars /\ Fairness

SweepSymmetry == Permutations({j1, j2})
=============================================================================
