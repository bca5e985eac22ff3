CONSTANTS
  o1 = o1
  o2 = o2
  c1 = c1
  w1 = w1
  w2 = w2
  NoCustomer = NoCustomer
  Orders = {o1, o2}
  Customers = {c1}
  CustomerOf <- MCCustomerOf
  Versions = {1, 2}
  StampOf <- MCStampOf
  ShipOf <- MCShipOf
  Stamps = {0, 1}
  Writers = {w1, w2}
  Subject = {o1}
  Phoned = {}
SPECIFICATION MSpec
INVARIANTS TypeOK OneVersion
PROPERTY ImplementsMirror
SYMMETRY WriterSymmetry
