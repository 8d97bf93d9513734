SPECIFICATION Spec
CONSTANTS
  A = A
  NoOutput = NoOutput
  NoWindow = None
  None = None
  Unplaced = Unplaced
  Outputs = {A}
  MonitorLists <- OneMonitor
  Configs <- TwoWorkspaces
  Bindings <- MCBindings
  Rule <- SecondHidden
  MaxSurfaces = 2
  MaxConns = 2
  MaxKeyIntercepts = 2
  MaxOverlays = 2
  MaxBurst = 2
  Backlog = 9
CHECK_DEADLOCK FALSE
INVARIANTS
  MirrorSound
  DisplayMatches
  GrabsMatch
