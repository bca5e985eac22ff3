CONSTANTS
  t1 = t1
  m1 = m1
  NoRow = NoRow
  h1 = h1
  h2 = h2
  Rows = {t1, m1}
  Templates = {t1}
  Manual = {m1}
  Hooks = {h1, h2}
  MaxRetries = 2
SPECIFICATION Spec
INVARIANTS TypeOK ReportTruthful OnlyFailuresResent NoFailureForgotten
PROPERTY ImplementsReceipt
SYMMETRY HookSymmetry
