CONSTANTS
  m1 = m1
  m2 = m2
  s1 = s1
  s2 = s2
  t1 = t1
  t2 = t2
  Messages = {m1, m2}
  Subs = {s1, s2}
  Topics = {t1, t2}
  TopicOf <- TopicOfCall
  MessageAt <- FirstMessages
  SubAt <- FirstSubs
  Fragments <- Pieces
  MaxFragments = 3
  Endings <- SomeEndings
  Base = 2
  KeepAlive = 1
  Faults = {"unreachable", "refused", "fin", "reset", "connack", "badReply"}
  MaxFaults = 1
  MaxRetries <- NoLimit
  LoopModes <- OnlyForever
  MaxUnsubscribes = 0
  CleanSession = TRUE
  MaxIncoming = 0
SPECIFICATION CliSpec
INVARIANTS
  ConfigAsGiven
  MessagesAsGiven
  SoundIsObeyed
  ExitMeansSent
  ExitInv
  ParseInv
PROPERTIES
  MainEnds
CHECK_DEADLOCK FALSE
