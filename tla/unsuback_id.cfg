CONSTANTS
  Messages = {}
  Subs = {}
  Topics = {t1}
  TopicOf <- SameTopic
  Base = 2
  KeepAlive = 1
  Faults = {}
  MaxFaults = 0
  MaxRetries = 3
  LoopModes <- OnlyForever
  MaxUnsubscribes = 1
  CleanSession = TRUE
  MaxIncoming = 0
SPECIFICATION Spec
INVARIANTS
  ViolationIsReal
CHECK_DEADLOCK FALSE
