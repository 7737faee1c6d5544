CONSTANTS
  f1 = f1
  f2 = f2
  f3 = f3
  File = {f1, f2, f3}
  Content <- MCContent
  ChunkRange <- MCChunkRange
  Targets <- ThreeFiles
  ParserWorkers = 2
  BatchSize = 2
  Options <- AllOptions
  FileStates <- FewFileStates
SPECIFICATION FairSpec
INVARIANTS
  TypeOK
  ChronologicalDelivery
  DamageIsFatal
  SerialHandlers
  EndIsQuiescent
  ChunkAccounting
  RecoveredBeforeDelivery
PROPERTIES
  StrictFailureIsFinal
  ImplementsDelivery
  Terminates
