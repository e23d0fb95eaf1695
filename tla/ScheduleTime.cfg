SPECIFICATION TimesSpec
CONSTANTS
  Irqs = 2
  TriggerMicros <- OneClient
  Durations = {2, 3}
  CyclesPerMicro = 2
  RtiIndices = 2
  MaxSpare = 0
  Window = 1
  MaxMissed = 2
PROPERTY
  RtiTimeNeverGoesBack
CHECK_DEADLOCK FALSE
