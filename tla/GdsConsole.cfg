CONSTANTS
  DataSize = 2
  EventSizes <- NoSizes
  Fatals <- NeverFatal
  ConsoleOps <- AllConsole
  StringLengths <- TwoOrThree
  LineBufferSize = 1
  CommandLengths <- NoSizes
  ComBufferMax = 8
  Irqs = 1
  Resets = FALSE
  NumIds = 1
  CounterSize = 1
SPECIFICATION Spec
INVARIANTS
  OnlyInterruptersRefused
  ConsoleOutputAccounted
