SPECIFICATION FairServing
CONSTANTS
  NoHold = NoHold
  Corrupt = Corrupt
  MaxCommits = 2
  MaxTrouble = 2
  MaxRowFaults = 0
  MaxSlotFaults = 0
PROPERTIES ProcessHoldsClear
