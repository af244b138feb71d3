CONSTANTS
  Messages = {m1}
  Subs = {}
  Topics = {t1}
  TopicOf <- SameTopic
  Base = 2
  KeepAlive = 1
  Faults = {"refused", "unreachable", "connack"}
  MaxFaults = 2
  MaxRetries <- NoLimit
  LoopModes <- OnlyForever
  MaxUnsubscribes = 0
  CleanSession = TRUE
  MaxIncoming = 0
SPECIFICATION FairSpec
PROPERTIES
  MessagesArrive
  DisconnectEnds
CHECK_DEADLOCK FALSE
