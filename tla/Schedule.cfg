SPECIFICATION ScheduleFairSpec
CONSTANTS
  Irqs = 2
  TriggerMicros <- ThreeClients
  Durations = {2, 3}
  CyclesPerMicro = 3
  RtiIndices = 2
  MaxSpare = 0
  Window = 2
  MaxMissed = 2
INVARIANTS
  ClientsOncePerRti
  ProxyArmed
  DurationsAgree
  BatchesComplete
PROPERTIES
  NotBeforeItsTime
  ImplementsMainLoop
  CycleWithinRti
  RtiIsServed
CHECK_DEADLOCK FALSE
