SPECIFICATION Spec
CONSTANTS
  Spools = {s1}
  Locations = {l1, l2}
  Nowhere = nowhere
  Clients = {c1}
  Loop = loop
  Addresses = {a1}
  None = none
  Rejected = {}
  RefreshTicks = 2
  Settles = FALSE
  TornWrites = FALSE
  MaxRequests = 2
  MaxFaults = 0
  MaxCrashes = 0
  MaxExternal = 0
PROPERTY SyncFollowsLastChoice
