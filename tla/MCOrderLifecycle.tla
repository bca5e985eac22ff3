-------------------------- MODULE MCOrderLifecycle --------------------------
(* Instances of OrderLifecycle for TLC. *)
EXTENDS OrderLifecycle, TLC

CONSTANTS order, confirm, ask, first, second, r1, r2

MCTapOrder == [t \in Taps |-> order]

MCTapAction ==
  [t \in Taps |-> CASE t = confirm -> "confirm"
                    [] t = ask -> "cancel"
                    [] OTHER -> "cancel_confirm"]

\* The two cancelling taps, and the two runs, differ in nothing but name.
ActorSymmetry == Permutations(Runs) \cup Permutations({first, second})
=============================================================================
