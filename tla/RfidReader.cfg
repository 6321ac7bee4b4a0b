SPECIFICATION ReaderSpec
CONSTANTS
  IsoA = {a, b, c}
  Classic = {a, b}
  NfcV = {v}
  None = none
  PayloadBlocks = 3
  MemoryBlocks = 2
  Grace = 5
  Recovery = 14
  MaxFailures = 2
  Fresh = 2
INVARIANTS
  LatchesExclusive
  BlocksOfPendingTag
  ReaderTypeOK
  Pn532BlocksOfAnnouncedTag
  Pn532ForgetsSilentTags
PROPERTIES
  ImplementsScanProtocol
  RemovalConfirmed
  ReaderRecovers
  Pn532ReportsAnnounced
CHECK_DEADLOCK FALSE
