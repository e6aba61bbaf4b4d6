SPECIFICATION OrphanSpec
CONSTANTS
  Injectors = {f1, f2, f3}
  Hooks = {h1}
  MaxAttempts = 1
  Failures = FALSE
  Free = Free
CHECK_DEADLOCK FALSE
INVARIANTS QueuedKept
