SPECIFICATION FairSpec
CONSTANTS
  NoName = NoName
  NoTray = NoTray
  Root = Root
  i1 = i1
  i2 = i2
  Icons = {i1, i2}
  Outputs = {"A", "B", "C"}
  Crtcs = {1, 2, 3}
  Possible <- MCPossible
  Modes <- MCModes
  FirstScreen <- MCFirstScreen
  Settings <- MCSettings
  Scenes <- MCScenes
CHECK_DEADLOCK FALSE
INVARIANTS
  LayoutSound
  OutputsPlaced
  BarsSound
  IconsSound
PROPERTIES
  Settles
  Docked
