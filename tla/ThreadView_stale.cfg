CONSTANTS
  a = a
  b = b
  NoThread = NoThread
  Threads = {a}
  Stored <- MCStoredOne
  Busy = {a}
  MaxStamp = 2
  MaxTicks = 1
  MaxFetches = 1
SPECIFICATION FairSpec
PROPERTY OneOfThemFollows
