SPECIFICATION BoardSpec
CONSTANTS
  Irqs = 2
  MaxSpare = 2
  Window = 3
  MaxMissed = 2
  MaskingMutexes = {m1, m2}
  AtomicMutexes = {a}
  NoMutex = none
  MaxTime = 1
  CvrSize = 3
  MaxTicks = 2
  LoReset = 9
  HiReset = 2
  SingleSize = 16
  Spacing = {1, 2}
  Second = 4
  Milli = 2
  TimerHz = {6, 7, 8}
  MantissaSize = 8
  Units <- PowersOfTwo
  MaxU32 = 3
  TimerNumbers = {1, 2, 16}
  MaxRawTicks = 22
  Channels = {c1}
  Gaps = {c2}
  ChannelWords = 2
  SeqSize = 4
  Values = {1, 2}
  RegionSize = 2
  RtisPerSecond = 3
  RtiDisabled = 1
  FunctionEvents = {"f", "g"}
  NumIds = 2
  HeapBlocks = 6
  MaxRequest = 2
  RequestLists <- TwoLists
  Buffers = {b1, b2}
  DataSize = 3
  NoPin = 10
  AddressPins = {"a", "b"}
  OtherPin = "o"
  PortOf <- AddressPortOf
  MaxAdcReads = 2
  SysclkFreqs = {20, 100}
  BreakNs = 1
  NsPerSecond = 10
  WordSize = 43
  DmaChannels = {0, 1}
  Transactions <- FourTransactions
  MaxTransfers = 3
  Boundary = 10
  PollingTimeoutMax = 3
  MaxBytes = 2
  MaxXacts = 4
  Apb1Hz = 1000
  I2cBits = {2, 10, 2000}
  FifoSize = 2
  MaxExchange = 4
  SpiPorts = {0, 1, 9}
  MaxSs = 7
  PeripheralHz = 12
  MaxDivisor = 4
  SpiHz = {0, 1, 3, 5}
  MaxExchanges = 2
  Trees <- SevenTrees
  HeartbeatFreq = 40
  MinFreq = 5
  MaxFreq = 200
  MinAdcFreq = 5
  MaxAdcFreq = 25
  FreqSize = 8590
  MaxRef = 15
  MaxFb = 63
  MaxOut = 15
  MaxLpf = 63
  UsedPins <- ThreePins
  GpioSettings <- ThreeSettings
  MaxConfigures = 2
  NvicExceptions = {16, 47, 48, 79, 80, 111, 176, 211}
  MaxClocked = 2
INVARIANTS
  EveryRtiIsRun
  WaterMarksCover
  SnapshotConsistent
  MutualExclusion
  DutyCounted
  ClocksTrue
  IntervalsClose
  GdsNotMisled
  ProfileIsWhole
  AllocationsAccounted
  SamplesTrue
  TransfersExact
  TransactionsApart
  BytesAnswered
  ActiveTreeTrue
  PinsAsConfigured
  RegistersApart
CHECK_DEADLOCK FALSE
