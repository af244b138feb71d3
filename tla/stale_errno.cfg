CONSTANTS
  Messages = {}
  Subs = {s1}
  Topics = {t1}
  TopicOf <- SameTopic
  Base = 2
  KeepAlive = 1
  Faults = {"fin"}
  MaxFaults = 1
  MaxRetries <- NoLimit
  LoopModes <- OnlyForever
  MaxUnsubscribes = 0
  CleanSession = TRUE
  MaxIncoming = 0
SPECIFICATION FairSpec
PROPERTIES
  SubscriptionsLast
CHECK_DEADLOCK FALSE
