SPECIFICATION FairSpec
CONSTANTS
  Spools = {s1, s2}
  Locations = {l1}
  Nowhere = nowhere
  Clients = {c1}
  Loop = loop
  Addresses = {a1}
  None = none
  Rejected = {s1}
  RefreshTicks = 2
  Settles = TRUE
  TornWrites = TRUE
  MaxRequests = 2
  MaxFaults = 1
  MaxCrashes = 0
  MaxExternal = 1
PROPERTIES
  BusyIsReleased
  QueueDrains
  InventoryConverges
  OnlyPowerLossForgets
