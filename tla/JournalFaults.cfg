SPECIFICATION Spec
CONSTANTS
  NoHold = NoHold
  Corrupt = Corrupt
  MaxTrouble = 3
  MaxCommits = 4
  MaxRowFaults = 1
  MaxSlotFaults = 1
INVARIANTS TypeOK AckedSurvives PersistedIsDurable NoFalseVerdict
PROPERTIES VerdictLatched AnchorForward
