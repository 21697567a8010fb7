SPECIFICATION FairSpec
CONSTANTS
  Requests = {p1}
  Refreshers = {f1, f2}
  MaxVersion = 2
INVARIANT QuietRefreshIsComplete
PROPERTY ResponsesFollow
