SPECIFICATION Spec
CONSTANTS
  Families <- MCFamilies
  MaxRequest = 2
  MaxPrompts = 2
  MaxRepeats = 2
INVARIANTS
  TypeOK
  OneAtATime
  CopyAgrees
  HeldWhileActive
  NoCodeWhilePlanning
PROPERTIES
  PlanningEndsByHandoff
  StopsEnd
CHECK_DEADLOCK FALSE
