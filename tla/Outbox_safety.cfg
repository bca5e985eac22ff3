CONSTANTS
  created = created
  notice = notice
  legacy = legacy
  corrupt = corrupt
  order = order
  NoRow = NoRow
  w1 = w1
  w2 = w2
  Rows = {created, notice}
  Orders = {order}
  OrderOf <- MCOrderOf
  Confirmation = {created}
  Corrupt = {}
  Unrenderable = {}
  WithImage = {created}
  Backlog = {notice}
  Allowlisted = {created}
  Workers = {w1, w2}
  MaxAttempts = 2
  ClaimLimit = 2
  OwnerModes = {"off", "allowlist", "live"}
  MaxAborts = 1
SPECIFICATION Spec
INVARIANTS TypeOK ExclusiveClaim CopiesAccounted RetriesSpent
PROPERTIES TerminalStays ImplementsNotification
SYMMETRY WorkerSymmetry
