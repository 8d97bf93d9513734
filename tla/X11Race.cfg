SPECIFICATION Spec
CONSTANTS
  A = A
  B = B
  w1 = w1
  w2 = w2
  NoOutput = NoOutput
  NoWindow = NoWindow
  Outputs <- MCOutputs
  Windows <- MCWindows
  Covering = {w2}
  MonitorLists <- OneMonitor
  Configs <- TwoWorkspaces
  Commands = {"switch", "move"}
  Calm = FALSE
  MaxQueue = 2
  MaxEffects = 3
  MaxUnmaps = 2
  Faithful = {w1}
  Remaps = TRUE
  Withdrawals = {TRUE, FALSE}
CHECK_DEADLOCK FALSE
INVARIANTS
  NoneLost
  WindowsReal
