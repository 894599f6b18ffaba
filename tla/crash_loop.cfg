\* A program whose every child dies at once.
SPECIFICATION Spec
CONSTANTS
  Requests = {"a"}
  Script <- StartOnce
  Serial = TRUE
  Configs <- AlwaysConf
  SpawnResults = {"ok"}
  Forks = FALSE
  MaxSpawns = 4
  MaxAge = 1
INVARIANT
  CrashLoopIsGivenUp
CHECK_DEADLOCK FALSE
