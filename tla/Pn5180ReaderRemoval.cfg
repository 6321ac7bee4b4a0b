SPECIFICATION Spec
CONSTANTS
  IsoA = {a, c}
  Classic = {a}
  NfcV = {v}
  None = none
  PayloadBlocks = 2
  MemoryBlocks = 1
  Grace = 5
  Recovery = 14
  MaxFailures = 0
PROPERTIES
  EveryRemovalConfirmed
CHECK_DEADLOCK FALSE
