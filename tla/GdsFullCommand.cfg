CONSTANTS
  DataSize = 4
  EventSizes <- OneOrTwo
  Fatals <- NeverFatal
  ConsoleOps <- NoConsole
  StringLengths <- NoSizes
  LineBufferSize = 1
  CommandLengths <- JustEight
  ComBufferMax = 8
  Irqs = 0
  Resets = TRUE
  NumIds = 1
  CounterSize = 1
SPECIFICATION Spec
INVARIANT FittingCommandAccepted
