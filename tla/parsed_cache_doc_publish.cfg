CONSTANTS
  Content <- MCContent
  BlockSize = 2
  BatchSize = 2
  Ranges <- MCRanges
  NoFile = NoFile
  MaxTroubles = 1
SPECIFICATION Spec
PROPERTIES
  PublishedIsVerified
