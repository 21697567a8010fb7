SPECIFICATION RefreshSpec
CONSTANTS
  r1 = r1
  r2 = r2
  e1 = e1
  e2 = e2
  map = map
  photo = photo
  mapRetitled = mapRetitled
  None = None
  Resources = {r1, r2}
  Executions = {e1, e2}
  Values = {map, photo}
  Signature <- Thumbnails
SYMMETRY Symmetry
INVARIANT OldThumbnailsAreKnown
