CONSTANTS
  r1 = r1  q1 = q1  s1 = s1  p1 = p1  p2 = p2
  Repos <- OneRepo
  Plain <- OnePlain
  Subs <- OneSub
  Panels <- TwoPanels
  Follows <- OneFollowed
  Closed = "closed"
  InstallChunk = 2
  Races = FALSE
  MaxMoves = 2
  MaxActs = 3
SPECIFICATION Spec
INVARIANTS
  RegisteredIsWatched
  WatchCovers
PROPERTIES
  GitEmits
  ListingCatchesUp
