SPECIFICATION Spec
CONSTANTS
  c1 = c1
  None = None
  Unplaced = Unplaced
  Backlog = 1
  Xwayland = Xwayland
  x1 = x1
  Owner <- OneOwner
  Shy = {c1}
  XWindows = {x1}
  XSurfaces <- XTwo
  Protocols = {"serial", "id"}
  MaxDevices = 2
  MaxIds = 3
  MaxX = 2
CHECK_DEADLOCK FALSE
INVARIANTS
  SurfacesSound
  SeatMatches
  XwaylandShown
