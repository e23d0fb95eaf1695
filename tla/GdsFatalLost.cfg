CONSTANTS
  DataSize = 4
  EventSizes <- OneOrTwo
  Fatals <- MaybeFatal
  ConsoleOps <- NoConsole
  StringLengths <- NoSizes
  LineBufferSize = 1
  CommandLengths <- NoSizes
  ComBufferMax = 8
  Irqs = 1
  Resets = FALSE
  NumIds = 1
  CounterSize = 1
SPECIFICATION Spec
INVARIANT FatalIsAnnounced
