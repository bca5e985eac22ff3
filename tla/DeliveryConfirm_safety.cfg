CONSTANTS
  s1 = s1
  s2 = s2
  j1 = j1
  j2 = j2
  t1 = t1
  h1 = h1
  NoShipment = NoShipment
  Shipments = {s1}
  DueAt <- MCDueAt
  Sweeps = {j1, j2}
  Turns = {t1}
  Hooks = {h1}
  BatchLimit = 1
SPECIFICATION Spec
INVARIANTS TypeOK VerdictsTruthful SentIsDurable
PROPERTY TerminalStays
SYMMETRY SweepSymmetry
CHECK_DEADLOCK FALSE
