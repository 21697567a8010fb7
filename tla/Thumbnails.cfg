SPECIFICATION FairSpec
CONSTANTS
  remote = remote
  iiif = iiif
  cog = cog
  pmtiles = pmtiles
  pdf = pdf
  blank = blank
  rendition = rendition
  None = None
  Urls <- AllUrls
  Sources = {remote, iiif, cog, pmtiles, pdf, blank}
  Empty = {blank}
  Kind <- KindOf
  Standard <- StandardOf
  Requests = {q}
  Primers = {p}
  Messages = {m}
  MaxRetries = 1
  FewRetries = 0
  Changes <- SomeChanges
  MaxChanges = 1
  MaxFaults = 1
INVARIANTS TypeOK RedirectIsCurrent SuccessHasImage
PROPERTIES ThumbnailAppears
CHECK_DEADLOCK FALSE
