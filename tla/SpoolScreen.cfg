SPECIFICATION ScreenSpec
CONSTANTS
  Spools = {a, b}
  Bambu = {a}
  Slots = {1, 2, 3}
  None = none
  MaxScans = 3
INVARIANTS
  TypeOK
  BusyHasTask
  ConfirmsRegisteredSpool
  PendingHasNoId
  ContextIsShownSpool
  ImageIsOfShownSpool
PROPERTIES
  ArchiveIsConfirmed
  BusyEnds
CHECK_DEADLOCK FALSE
