SPECIFICATION DmaSpec
CONSTANTS
  DmaChannels = {0, 1}
  Transactions <- FourTransactions
  MaxTransfers = 3
  Boundary = 10
INVARIANTS RequestTypesTaken
CHECK_DEADLOCK FALSE
