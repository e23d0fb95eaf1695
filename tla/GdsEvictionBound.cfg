CONSTANTS
  DataSize = 6
  EventSizes <- OneOrThree
  Fatals <- NeverFatal
  ConsoleOps <- NoConsole
  StringLengths <- NoSizes
  LineBufferSize = 1
  CommandLengths <- NoSizes
  ComBufferMax = 8
  Irqs = 0
  Resets = FALSE
  NumIds = 2
  CounterSize = 1
SPECIFICATION Spec

INVARIANT OverwriteModeMakesRoom
