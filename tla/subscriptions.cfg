CONSTANTS
  Messages = {}
  Subs = {s1, s2}
  Topics = {t1}
  TopicOf <- SameTopic
  Base = 2
  KeepAlive = 1
  Faults = {"reset"}
  MaxFaults = 1
  MaxRetries = 3
  LoopModes <- OnlyForever
  MaxUnsubscribes = 1
  CleanSession = TRUE
  MaxIncoming = 0
SPECIFICATION Spec
SYMMETRY Calls
INVARIANTS
  TypeOK
  SubscriptionKept
  RegisteredIsSubscribed
  SubscriptionInv
CHECK_DEADLOCK FALSE
