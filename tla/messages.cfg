CONSTANTS
  Messages = {m1, m2}
  Subs = {}
  Topics = {t1}
  TopicOf <- SameTopic
  Base = 2
  KeepAlive = 1
  Faults = {"reset"}
  MaxFaults = 2
  MaxRetries = 2
  LoopModes <- OnlyForever
  MaxUnsubscribes = 0
  CleanSession = TRUE
  MaxIncoming = 0
SPECIFICATION Spec
INVARIANTS
  Framing
PROPERTIES
  ConnectFirst
  PipeSpec
CHECK_DEADLOCK FALSE
