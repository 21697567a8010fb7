CONSTANTS
  Ids = {1, 2, 3}
  Half = 6
  None = None
  Blank = Blank
  Missing = Missing
  Tasks = {t1, t2}
  Contents <- Changing
  Scripts <- Some
  CoreTtl = 2
  FacetTtl = 2
  Padding = 0
  OtherTtls = {1}
  MaxTime = 2
  MaxFaults = 1
SYMMETRY TaskSymmetry
SPECIFICATION Spec
INVARIANTS TypeOK AnswersAreRight AnswersAreRecent ClearedIsCleared
CHECK_DEADLOCK FALSE
