SPECIFICATION SearchFairSpec
CONSTANTS
  Loads <- MCLoads
  u1 = u1
  u2 = u2
  Urls <- MCUrls
  NoUrl = NoUrl
  MaxVersion = 2
  Phrases <- MCPhrases
  Empty = ""
  UrlOf <- MCUrlOf
INVARIANTS
  SearchTypeOK
  ListMatchesText
PROPERTIES
  ListNeverRegresses
  TextIsSearched
CHECK_DEADLOCK FALSE
