SPECIFICATION Spec
CONSTANTS
  MaxGoals = 3
  Modes = {"aggregate"}
  Legacy = FALSE
  MaxInitial = 2
  MaxChildren = 1
  MaxBlockers = 0
  Keys = {}
  NoKey = NoKey
  Signatures = {}
  NoSig = NoSig
  AllowActive = {FALSE}
INVARIANTS
  OnlyOpenWorkBlocks
CHECK_DEADLOCK FALSE
