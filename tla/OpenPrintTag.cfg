SPECIFICATION Spec
CONSTANTS
  Memories = {3, 28}
  Bytes = {0, 1, 2, 16, 22}
  Shorts = {2, 22}
  Longs = {9, 31}
  UsizeMax = 31
  EntrySizes = {2, 4}
  Written = {3, 7, 11, 31, 39}
  Counts = {1, 3, 24}
  MaxSection = 7
  MimeLength = 1
  None = none
INVARIANTS
  SlicesInBounds
  RegionsConsistent
PROPERTIES
  Terminates
CHECK_DEADLOCK FALSE
