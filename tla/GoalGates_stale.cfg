SPECIFICATION GateSpec
CONSTANTS
  Workflow = "autoresearch"
  Processes = {p1}
  Forces = {FALSE, TRUE}
  MaxMade = 2
INVARIANTS
  GateHolds
CHECK_DEADLOCK FALSE
