\* Two commands, one of each role, at any moment, and a daemon that boots.
SPECIFICATION FairSpec
CONSTANTS
  Names = {"db", "app"}
  Confs <- SomeConfs
  Files <- TwoOrOne
  Operators = {"user", "admin"}
  Script <- TwoRoles
  MaxObjects = 3
  MaxKids = 2
INVARIANTS
  TypeOK
  ShutdownIsComplete
  RemovedIsGone
  BootInOrder
PROPERTIES
  RepliesAreTrue
  
CHECK_DEADLOCK FALSE
