SPECIFICATION Spec
CONSTANTS
  MaxGoals = 3
  Keys = {k1}
  NoKey = NoKey
  Signatures = {}
  NoSig = NoSig
  Procs = {p1, p2}
  Settings <- MCSettings
  MaxAttempts = 2
INVARIANTS
  KeyAppliedOnceByWrites
  AcceptedApplied
PROPERTIES
  Implements
  GoalsKept
  EveryCommandEnds
  LockReleased
