CONSTANTS
  a = a
  b = b
  NoThread = NoThread
  Threads = {a, b}
  Stored <- MCStored
  Busy = {a}
  MaxStamp = 4
  MaxTicks = 1
  MaxFetches = 2
SPECIFICATION Spec
INVARIANTS TypeOK NothingMissed
