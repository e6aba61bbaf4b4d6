SPECIFICATION Spec
CONSTANTS
  Procs = {p1}
  Sessions = {s1}
  Root = Root
  Modes = {"deep-interview", "ralplan", "autopilot", "ultrawork"}
  Uses <- MCUses
  Evidences <- MCEvidences
  Overlap = FALSE
  Crashes = TRUE
  MaxAfter = 1
  Fallback = FALSE
INVARIANTS
  TypeOK
  CopiesAgree
PROPERTIES
  Implements
  ClearRecovers
CHECK_DEADLOCK FALSE
