CONSTANTS
  Messages = {}
  Subs = {s1}
  Topics = {t1}
  TopicOf <- SameTopic
  Base = 2
  KeepAlive = 1
  Faults = {"reset", "fin", "refused", "unreachable", "connack", "badReply", "suback", "callback"}
  MaxFaults = 1
  MaxRetries = 1
  LoopModes <- AllModes
  MaxUnsubscribes = 0
  CleanSession = TRUE
  MaxIncoming = 1
SPECIFICATION Spec
INVARIANTS
  SafetyInv
  OneReceiver
  NoNullDeref
  DisconnectIsFinal
  StreamInSync
  ReplyIsAwaited
  OnePing
  StreamInv
CHECK_DEADLOCK FALSE
