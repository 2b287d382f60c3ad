SPECIFICATION FairSpec
CONSTANTS
  Feeds <- FeedsSmall
  Sjlj = TRUE
  FirstUnpinned = 1
  FirstNormal = 3
  MaxOid = 5
INVARIANTS
  TypeOK
  FeedInOrder
  ServesWhole
  ScriptsInPlace
  UserOidsApart
PROPERTIES
  StartEnds
