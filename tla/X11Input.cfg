SPECIFICATION InputSpec
CONSTANTS
  A = A
  B = B
  w1 = w1
  NoOutput = NoOutput
  NoWindow = NoWindow
  Outputs <- MCOutputs
  Windows <- OneWindow
  Covering = {}
  Fixed = {w1}
  MonitorLists <- TwoMonitors
  Configs <- Three
  Commands = {}
  Calm = FALSE
  MaxQueue = 1
  MaxEffects = 3
  MaxUnmaps = 2
  Faithful = {}
  Remaps = FALSE
  Withdrawals = {FALSE}
CHECK_DEADLOCK FALSE
INVARIANTS
  DragSound
  GeometrySound
  KeysMatch
PROPERTIES
  DroppedIsShown
