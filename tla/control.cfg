\* A daemon, its successor or rival, and two requests.
SPECIFICATION FairSpec
CONSTANTS
  Daemons <- TwoDaemons
  Calls = {"first", "second"}
INVARIANTS
  LoneDaemonServes
  TidyExit
PROPERTIES
  ShutdownEnds
  CallsAreServed
CHECK_DEADLOCK FALSE
