SPECIFICATION RestartSpec
CONSTANTS
  A = A
  B = B
  w1 = w1
  NoOutput = NoOutput
  NoWindow = NoWindow
  Outputs <- MCOutputs
  Windows <- OneWindow
  Covering = {w1}
  MonitorLists <- SecondMonitor
  Configs <- TwoOrThree
  Commands = {"switch", "move", "float", "fullscreen"}
  Calm = TRUE
  MaxQueue = 1
  MaxEffects = 0
  MaxUnmaps = 2
  Faithful = {}
  Remaps = FALSE
  Withdrawals = {FALSE}
CHECK_DEADLOCK FALSE
INVARIANTS
  Adopted
PROPERTIES
  NoneAbandoned
  SessionRestored
