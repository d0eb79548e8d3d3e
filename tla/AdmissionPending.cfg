SPECIFICATION Spec
CONSTANTS
  Groups = {g1, g2}
  Fingerprints = {f1, f2}
  Statuses = {firing, resolved}
  Jobs = {j1}
  Summaries = {}
  Resolved = {}
  None = None
  Charges = {1}
  MaxAdmissions = 4
  MaxPending = 2
  OrdinaryBytes = 7
  TotalBytes = 8
  MaxRefusals = 0
  ResolvedReserve = 0
  MaxRunHolds = 1
SYMMETRY Symmetry
INVARIANTS TypeOK PendingIsLatest RunHoldFences
