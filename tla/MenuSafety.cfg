SPECIFICATION MenuSpec
CONSTANTS
  Loads <- MCLoads
  Urls <- MCUrls
  NoUrl = NoUrl
  MaxVersion = 1
  popular = popular
  topRated = topRated
  Rows <- MCRows
  NoRow = NoRow
  Cells = {c1, c2}
  NoCell = NoCell
  Genres = "genres"
  UrlOf <- MCUrlOf
SYMMETRY CellSymmetry
INVARIANTS
  MenuTypeOK
  GenresReachCells
  MoviesMatchTitle
CHECK_DEADLOCK FALSE
