SPECIFICATION Spec
CONSTANTS
  ca = ca  cb = cb
  NPUN = 2
  Apps = {cb}
  Place <- PlaceOne
  MaxLag = 2
  Readers <- ReadersMain
  Raises <- RaisesCb
INVARIANT TicksCounted
