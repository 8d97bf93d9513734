SPECIFICATION FairSpec
CONSTANTS
  A = A
  B = B
  w1 = w1
  w2 = w2
  NoOutput = NoOutput
  NoWindow = NoWindow
  Outputs <- MCOutputs
  Windows <- MCWindows
  Covering = {w2}
  MonitorLists <- OneMonitor
  Configs <- TwoWorkspaces
  Commands = {"switch", "move", "step", "pointer", "float", "zoom", "fullscreen"}
  Calm = TRUE
  MaxQueue = 0
  MaxEffects = 0
  MaxUnmaps = 2
  Faithful = {}
  Remaps = TRUE
  Withdrawals = {TRUE, FALSE}
CHECK_DEADLOCK FALSE
INVARIANTS
  WindowsSound
  DesktopMatches
  NoUnmapExpected
  FullscreenFits
PROPERTIES
  AlwaysSettles
