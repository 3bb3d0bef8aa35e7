SPECIFICATION FairSpec
CONSTANTS
  Items = {i1, i2, i3}
  NoItem = NoItem
  Cells = {actor, result}
  Clearing = {actor}
  Actors = {actor}
  Linked = {i1, i2}
  Short = {i1, i3}
  Downloads <- MCDownloads
INVARIANTS
  CellTypeOK
  NameAndImageAgree
PROPERTIES
  NoForeignImage
  RowGetsImage
