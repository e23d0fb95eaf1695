CONSTANTS
  DataSize = 2
  EventSizes <- JustOne
  Fatals <- MaybeFatal
  ConsoleOps <- NoConsole
  StringLengths <- NoSizes
  LineBufferSize = 1
  CommandLengths <- JustThree
  ComBufferMax = 8
  Irqs = 1
  Resets = FALSE
  NumIds = 1
  CounterSize = 1
SPECIFICATION FairSpec
PROPERTIES
  AttachIsHandedOver
  CommandIsConsumed
