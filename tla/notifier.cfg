\* Four events, a channel of two, batches of two, e-mail reconfigured at will.
SPECIFICATION FairSpec
CONSTANTS
  Events <- FlapEvents
  NewState <- FlapStates
  Configs <- SomeConfs
  QueueCap = 2
  BatchLimit = 2
INVARIANTS
  TypeOK
PROPERTIES
  InOrderOnce
  NeverBlocks
  EventuallyTried
  StopFlushes
