\* An operator who waits for each answer, without automatic restarts.
SPECIFICATION Spec
CONSTANTS
  a = a
  b = b
  c = c
  Requests = {a, b, c}
  Script <- FullScript
  Serial = TRUE
  Configs <- NeverConf
  SpawnResults = {"ok", "refused"}
  Forks = FALSE
  MaxSpawns = 2
  MaxAge = 1
SYMMETRY Symmetry
INVARIANTS
  OneCopyTillKillFails
PROPERTIES
  StopMeansGone
  RestartReplaces
