CONSTANTS
  File <- MCFile
  Day = 4
  Duration = 1
  MonthStart <- MCMonthStart
  Ranges <- MCRanges
  Units <- MCUnits
  NotFetched = NotFetched
  MaxPublished = 1
SPECIFICATION Spec
INVARIANTS
  TypeOK
  ChunksPartition
  NeededAreSelected
  ListingsAgree
CHECK_DEADLOCK FALSE
