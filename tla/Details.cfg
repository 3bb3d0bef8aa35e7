SPECIFICATION DetailsFairSpec
CONSTANTS
  Loads <- MCLoads
  Movie = "movie"
  Cast = "cast"
  Reviews = "reviews"
  Changing = {"movie", "cast"}
  Urls <- MCUrls
  NoUrl = NoUrl
  MaxVersion = 2
INVARIANTS
  TableFresh
  VisitRecorded
  RecordedAtMostTwice
PROPERTIES
  MovieIsShown
CHECK_DEADLOCK FALSE
