CONSTANTS
  Resources = 2
  DownloadWorkers = 1
  Retries = 1
  Size <- MCSize
  Reporting = {TRUE}
  NoFile = NoFile
  MaxReplaced = 1
  MaxCrashes = 1
SPECIFICATION FairSpec
PROPERTIES
  RunEnds
  EventuallyDownloaded
