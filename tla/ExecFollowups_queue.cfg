SPECIFICATION Spec
CONSTANTS
  Injectors = {f1, f2}
  Hooks = {h1, h2}
  MaxAttempts = 0
  Failures = TRUE
  Free = Free
CHECK_DEADLOCK FALSE
INVARIANTS QueuedKept DeliveredInHand
PROPERTIES Implements
