\* A second Start while the monitor pauses before its own restart.
SPECIFICATION Spec
CONSTANTS
  Requests = {"a", "b"}
  Script <- FullScript
  Serial = TRUE
  Configs <- AlwaysConf
  SpawnResults = {"ok"}
  Forks = FALSE
  MaxSpawns = 3
  MaxAge = 1
INVARIANT
  NoSecondCopy
CHECK_DEADLOCK FALSE
