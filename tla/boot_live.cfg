\* The boot scope under the scheduler's fairness: what must happen at last.
SPECIFICATION FairSpec
CONSTANTS
  Requests = {"boot", "op"}
  Script <- BootScript
  Serial = FALSE
  Configs <- AlwaysOnes
  SpawnResults = {"ok"}
  Forks = FALSE
  MaxSpawns = 2
  MaxAge = 1
PROPERTIES
  StopReturns
  AlwaysRestarted
