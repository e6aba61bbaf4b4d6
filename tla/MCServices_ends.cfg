SPECIFICATION LiveSpec
CONSTANTS
  Services = {"planning", "auth", "siblings", "watcher", "followups", "doctor", "wiki"}
  boss = boss
  arch = arch
  crit = crit
  none = none
  f1 = f1
  f2 = f2
  h1 = h1
  unheld = unheld
  Terminals = {t1}
  Slots = {1, 2, 3}
  Critics = {crit}
  MaxRolloutLines = 1
  MaxBefallen = 1
  MaxByHand = 0
  LanesKnown = TRUE
  MaxIterations = 2
  MaxCycles = 2
  p1 = p1
  p2 = p2
  s1 = s1
  s2 = s2
PROPERTIES
  EverythingEnds
CHECK_DEADLOCK FALSE
