CONSTANTS
  s1 = s1
  s2 = s2
  j1 = j1
  j2 = j2
  t1 = t1
  h1 = h1
  NoShipment = NoShipment
  Shipments = {s1, s2}
  DueAt <- MCDueAt
  Sweeps = {j1}
  Turns = {}
  Hooks = {}
  BatchLimit = 1
SPECIFICATION MCParkedSpec
PROPERTY EveryParkedRowSettles
CHECK_DEADLOCK FALSE
