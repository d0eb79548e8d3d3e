SPECIFICATION Spec
CONSTANTS
  Groups = {g1}
  Fingerprints = {f1, f2}
  Statuses = {firing}
  Jobs = {j1, j2}
  Summaries = {s1, s2, s3}
  Resolved = {s3}
  None = None
  Charges = {1, 2, 9}
  MaxAdmissions = 2
  MaxPending = 1
  OrdinaryBytes = 5
  TotalBytes = 8
  MaxRefusals = 2
  ResolvedReserve = 1
  MaxRunHolds = 1
INVARIANTS WithinBounds ReserveForResolved DispatchNeedsResume PrecheckExact PlansVerify
PROPERTIES HoldsStay
