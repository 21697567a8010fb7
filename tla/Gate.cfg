SPECIFICATION GateSpec
CONSTANTS
  w1 = w1
  w2 = w2
  q1 = q1
  q2 = q2
  anonymous = anonymous
  free = free
  primary = primary
  NoLimit = NoLimit
  None = None
  Processes = {w1, w2}
  Requests = {q1, q2}
  Home <- OneEach
  Tiers = {anonymous, free, primary}
  Anonymous = anonymous
  Limit <- SmallLimits
  Minute = 2
  Ttl = 2
  MaxTime = 3
  MaxArrivals = 4
  MaxChanges = 1
  MaxFaults = 1
INVARIANTS GateTypeOK  RefusedOnlyWhenFull LocalChangeIsSeen
PROPERTIES TierIsRecent
CHECK_DEADLOCK FALSE
