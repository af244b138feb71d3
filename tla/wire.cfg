CONSTANTS
  Base = 8
  Strings <- SomeStrings
  Numbers <- SomeNumbers
  MaxOptions = 2
  Packets <- SomePackets
  Handlers <- SomeHandlers
  FilterOf <- SomeFilters
  Empty = ""
  Single = "+"
  Multi = "#"
  MaxLosses = 1
  MaxRemovals = 1
SPECIFICATION Spec
INVARIANTS
  TypeOK
  ConnectCarriesConfig
  InStep
  OnlyLongIsMalformed
  NoCallbackMissed
  NoStrayCallback
  RegisteredOnce
  TablesInv
PROPERTIES
  InboundSpec
CHECK_DEADLOCK FALSE
