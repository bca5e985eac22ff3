CONSTANTS
  p1 = p1
  p2 = p2
  p3 = p3
  oa = oa
  ob = ob
  Phones = {p1, p2, p3}
  Entries = {p1, p2, p3, oa, ob}
  PhonesOf <- MCPhonesOf
  Browse = ""
  Terms = {"", "gown"}
  Hits <- MCHits
  Stored <- MCStored
  Limit = 1
  AutoPages = 2
  OlderPages = 2
  Busy <- MCBusy
  MaxStamp = 6
  MaxRequests = 2
  MaxLoads = 2
SPECIFICATION FairSpec
INVARIANTS TypeOK WholeHistoryListed
PROPERTIES CursorDescends ButtonComesBack
