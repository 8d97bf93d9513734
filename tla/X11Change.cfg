SPECIFICATION Spec
CONSTANTS
  A = A
  B = B
  w1 = w1
  w2 = w2
  NoOutput = NoOutput
  NoWindow = NoWindow
  Outputs <- MCOutputs
  Windows <- MCWindows
  Covering = {w2}
  MonitorLists <- Shifting
  Configs <- TwoOrThree
  Commands = {"switch", "move", "pointer", "monitor", "plug", "reload"}
  Calm = TRUE
  MaxQueue = 0
  MaxEffects = 0
  MaxUnmaps = 2
  Faithful = {}
  Remaps = FALSE
  Withdrawals = {FALSE}
CHECK_DEADLOCK FALSE
INVARIANTS
  WindowsSound
  DesktopMatches
PROPERTIES
  TopologySpec
