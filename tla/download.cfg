CONSTANTS
  Resources = 2
  DownloadWorkers = 2
  Retries = 1
  Size <- MCSize
  Reporting = {TRUE, FALSE}
  NoFile = NoFile
  MaxReplaced = 1
  MaxCrashes = 1
SPECIFICATION Spec
INVARIANTS
  TypeOK
  ResumeIsSeamless
  DownloadIsWhole
  ReportIsRight
PROPERTIES
  SourceIsKept
