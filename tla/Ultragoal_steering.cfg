SPECIFICATION Spec
CONSTANTS
  MaxGoals = 3
  Modes = {"aggregate"}
  Legacy = FALSE
  MaxInitial = 2
  MaxChildren = 2
  MaxBlockers = 0
  Keys = {}
  NoKey = NoKey
  Signatures = {}
  NoSig = NoSig
  AllowActive = {FALSE}
INVARIANTS
  TypeOK
  OneStoryAtATime
  EveryGoalListed
  ReplacementsYounger
  YoungestComplete
  ActiveInProgress
PROPERTIES
  DoneThroughGate
  BlockerStoryNext
  SteeringSticks
CHECK_DEADLOCK FALSE
