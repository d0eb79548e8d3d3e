SPECIFICATION FairServing
CONSTANTS
  NoHold = NoHold
  Corrupt = Corrupt
  MaxCommits = 6
  MaxTrouble = 3
  MaxRowFaults = 0
  MaxSlotFaults = 0
PROPERTIES Recovers ResumesInspected
