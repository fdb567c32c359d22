SPECIFICATION Spec
CONSTANTS
  ca = ca  cb = cb
  NPUN = 2
  Apps = {cb}
  Place <- PlaceOne
  MaxLag = 1
  Readers <- ReadersMain
  Raises <- RaisesCb
PROPERTY Routed
