CONSTANTS
  DataSize = 6
  EventSizes <- OneOrThree
  Fatals <- NeverFatal
  ConsoleOps <- NoConsole
  StringLengths <- NoSizes
  LineBufferSize = 1
  CommandLengths <- NoSizes
  ComBufferMax = 8
  Irqs = 0
  Resets = TRUE
  NumIds = 1
  CounterSize = 1
SPECIFICATION Spec
INVARIANTS
  NoAssertion
  EvictionSuffices
  ReaderFindsWholeRecords
PROPERTY ImplementsRecordLog
