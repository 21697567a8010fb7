SPECIFICATION FairSpec
CONSTANTS
  search = search
  detail = detail
  t1 = t1
  t2 = t2
  Keys = {search}
  Ttl <- Short
  Tasks = {t1, t2}
  Padding = 1
  StaleIfError = 1
  MaxExtension = 3
  MaxFailures = 2
  MaxUpdates = 2
INVARIANTS TypeOK NoCopyOutstays
PROPERTIES OldCopiesDie
