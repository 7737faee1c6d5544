CONSTANTS
  s1 = s1
  s2 = s2
  Inputs <- MCInputs
  OnDisk = {"b"}
  Stem <- MCStem
  Source = {s1, s2}
  MaxRecords = 1
SPECIFICATION Spec
INVARIANTS
  TypeOK
  ConfigurationIsPromised
  PluginOutlivesItsUse
  RecordTellsTheEnd
  EveryFileIsTried
  PreparseIsWhole
