SPECIFICATION Spec
CONSTANTS
  Spools = {s1, s2}
  Locations = {l1, l2}
  Nowhere = nowhere
  Clients = {c1, c2}
  Loop = loop
  Addresses = {a1}
  None = none
  Rejected = {}
  RefreshTicks = 2
  Settles = FALSE
  TornWrites = FALSE
  MaxRequests = 3
  MaxFaults = 1
  MaxCrashes = 1
  MaxExternal = 0
SYMMETRY Symmetry
INVARIANTS
  TypeOK
  OneRequestAtATime
  SyncOnlyOnline
  SyncSnapshotCurrent
  QueueWellFormed
  OwedIsQueued
  CardHoldsCommittedState
PROPERTY ImplementsOutbox
