CONSTANTS
  f1 = f1
  f2 = f2
  f3 = f3
  File = {f1, f2}
  Content <- MCContent
  ChunkRange <- MCChunkRange
  Targets <- TwoFiles
  ParserWorkers = 2
  BatchSize = 2
  Options <- StrictOptions
  FileStates <- PossibleFileStates
SPECIFICATION Spec
PROPERTIES
  OnlyStaleBatchesRefused
