SPECIFICATION Spec
CONSTANTS
  Spools = {a, b}
  Bambu = {a}
  Slots = {t1, t2, t3}
  None = none
  MaxScans = 2
PROPERTY RequestsConcernShownSpool
CHECK_DEADLOCK FALSE
