\* Any two calls at any moment, automatic restarts, reloads, descendants.
SPECIFICATION Spec
CONSTANTS
  a = a
  b = b
  Requests = {a, b}
  Script <- FullScript
  Serial = FALSE
  Configs <- ZeroOrOne
  SpawnResults = {"ok", "refused", "failed"}
  Forks = TRUE
  MaxSpawns = 2
  MaxAge = 1
SYMMETRY Symmetry
INVARIANTS
  TypeOK
  ReapBeforeRespawn
PROPERTIES
  StatusFollowsLifecycle
CHECK_DEADLOCK FALSE
