SPECIFICATION Spec
CONSTANTS
  Services = {"install", "settings", "planning", "tracker", "plugin", "auth", "research", "gates",
              "verdicts", "siblings", "watcher", "announcing", "turns", "doctor", "wiki", "notes", "updates"}
  boss = boss
  arch = arch
  crit = crit
  none = none
  f1 = f1
  f2 = f2
  h1 = h1
  unheld = unheld
  Terminals = {t1, t2}
  Slots = {1, 2}
  Critics = {arch, crit}
  MaxRolloutLines = 2
  MaxBefallen = 2
  MaxByHand = 1
  LanesKnown = FALSE
  MaxIterations = 2
  MaxCycles = 2
  p1 = p1
  p2 = p2
  s1 = s1
  s2 = s2
INVARIANTS
  TypeOK
  RotationSound
  ToldOnceInOrder
PROPERTIES
  SetupKeeps
  KnowledgeKept
  LanesHold
  EarnedByEvidence
  PluginHonest
  DoctorHonest
VIEW ServiceView
CHECK_DEADLOCK FALSE
