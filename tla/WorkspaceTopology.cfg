SPECIFICATION Spec
CONSTANTS
  A = A
  B = B
  C = C
  NoOutput = NoOutput
  Outputs <- MCOutputs
  MonitorLists <- MCMonitorLists
  Configs <- MCConfigs
INVARIANTS
  TypeOK
  PoolsPartition
  ShownConsistently
  ReplugRestores
PROPERTIES
  SurvivorsKeepShowing
  FocusStaysOnOutput
