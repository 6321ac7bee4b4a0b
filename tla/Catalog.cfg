SPECIFICATION FairSpec
CONSTANTS
  Savers = {t1}
  None = none
  MaxPublished = 2
  MaxRequests = 2
  MaxFaults = 2
  MaxCrashes = 2
INVARIANTS
  TypeOK
  ReadyIsCached
PROPERTIES
  NeverGoesBack
  CatalogConverges
