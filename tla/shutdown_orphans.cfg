\* The same daemon; the respawned children that its Shutdown does not stop.
SPECIFICATION Spec
CONSTANTS
  Names = {"db", "app"}
  Confs <- SomeConfs
  Files <- TwoOrOne
  Operators = {"user", "admin"}
  Script <- TwoRoles
  MaxObjects = 3
  MaxKids = 2
INVARIANT ShutdownStopsRespawned
CHECK_DEADLOCK FALSE
