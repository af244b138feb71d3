CONSTANTS
  Messages = {}
  Subs = {}
  Topics = {t1}
  TopicOf <- SameTopic
  Base = 2
  KeepAlive = 1
  Faults = {"refused"}
  MaxFaults = 1
  MaxRetries = 3
  LoopModes <- OnlyForever
  MaxUnsubscribes = 0
  CleanSession = TRUE
  MaxIncoming = 0
SPECIFICATION Spec
PROPERTIES
  DoneMeansDisconnected
CHECK_DEADLOCK FALSE
