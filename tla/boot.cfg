\* One Start, and Stops that race with it and with automatic restarts.
SPECIFICATION Spec
CONSTANTS
  Requests = {"boot", "op"}
  Script <- BootScript
  Serial = FALSE
  Configs <- EveryConf
  SpawnResults = {"ok", "refused", "failed"}
  Forks = FALSE
  MaxSpawns = 3
  MaxAge = 1
INVARIANTS
  NoSecondCopy
  EveryChildWatched
  DoneMeansExited
  NoPanic
  LiveChildHasLog
  NoLogLeak
  RunningIsAged
PROPERTIES
  StopWaits
  StoppedStaysDown
