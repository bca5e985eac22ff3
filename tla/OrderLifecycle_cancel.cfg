CONSTANTS
  order = order
  confirm = confirm
  ask = ask
  first = first
  second = second
  r1 = r1
  r2 = r2
  System = System
  NoOrder = NoOrder
  Orders = {order}
  Taps = {ask, first, second}
  Runs = {r1, r2}
  MaxFaults = 2
  TapOrder <- MCTapOrder
  TapAction <- MCTapAction
SPECIFICATION Spec
SYMMETRY ActorSymmetry
INVARIANTS TypeOK StatusBacked NoticesAccounted AuditTruthful
CHECK_DEADLOCK FALSE
