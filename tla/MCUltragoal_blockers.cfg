SPECIFICATION Spec
SYMMETRY SignatureSymmetry
CONSTANTS
  MaxGoals = 2
  Modes = {"per_story"}
  Legacy = TRUE
  MaxInitial = 1
  MaxChildren = 0
  MaxBlockers = 3
  Keys = {}
  NoKey = NoKey
  Signatures = {s1, s2}
  NoSig = NoSig
  AllowActive = {FALSE, TRUE}
INVARIANTS
  CircuitBreaker
CHECK_DEADLOCK FALSE
