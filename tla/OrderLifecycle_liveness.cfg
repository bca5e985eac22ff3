CONSTANTS
  order = order
  confirm = confirm
  ask = ask
  first = first
  second = second
  r1 = r1
  r2 = r2
  System = System
  NoOrder = NoOrder
  Orders = {order}
  Taps = {confirm, ask, first}
  Runs = {r1}
  MaxFaults = 2
  TapOrder <- MCTapOrder
  TapAction <- MCTapAction
SPECIFICATION FairSpec
INVARIANT StatusBacked
PROPERTY CancelSettles
CHECK_DEADLOCK FALSE
