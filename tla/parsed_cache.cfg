CONSTANTS
  Content <- MCContent
  BlockSize = 2
  BatchSize = 2
  Ranges <- MCRanges
  NoFile = NoFile
  MaxTroubles = 2
SPECIFICATION FairSpec
INVARIANTS
  TypeOK
  PublishedIsComplete
  ReadIsFaithful
  OutcomeFollowsFile
PROPERTIES
  BuiltIsCurrent
  EventuallyCurrent
