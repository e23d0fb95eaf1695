SPECIFICATION QueueSpec
CONSTANTS
  Irqs = 1
  Depth = 2
  MaxSize = 2
  Capacity = 2
  Sizes <- UpToThree
  Priorities <- LowAndHigh
  OuterLocks <- Either
INVARIANTS
  QueueNoAssertion
  SectionsMasked
  SlotsExclusive
  HighMarkCovers
PROPERTY
  ImplementsPriorityQueue
