SPECIFICATION DeviceSpec
CONSTANTS
  BootWindow = 2
  MaxRestarts = 1
  MaxRequests = 2
INVARIANTS
  TypeOK
  SetupOnlyAtBoot
  PageConsistent
PROPERTIES
  StationComesBack
CHECK_DEADLOCK FALSE
