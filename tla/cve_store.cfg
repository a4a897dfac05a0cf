CONSTANTS
  Offers <- SmallOffers
  OsvDocs <- SmallDocs
  Lists <- SmallLists
  Deliveries = 1
  MaxOpen = 2
  LastDay = 2
SPECIFICATION FairSpec
INVARIANT LabelFollowsScore
PROPERTIES MergeErasesOnlyLists BackfillOverwritesNothing RefreshesRestore
