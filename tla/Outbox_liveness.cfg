CONSTANTS
  created = created
  notice = notice
  legacy = legacy
  corrupt = corrupt
  order = order
  NoRow = NoRow
  w1 = w1
  w2 = w2
  Rows = {created, legacy, corrupt}
  Orders = {order}
  OrderOf <- MCOrderOf
  Confirmation = {created}
  Corrupt = {corrupt}
  Unrenderable = {legacy}
  WithImage = {created}
  Backlog = {legacy, corrupt}
  Allowlisted = {created}
  Workers = {w1}
  MaxAttempts = 2
  ClaimLimit = 2
  OwnerModes = {"off", "shadow", "live"}
  MaxAborts = 1
SPECIFICATION FairSpec
PROPERTIES EveryRowSettles
