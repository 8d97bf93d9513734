SPECIFICATION FairSpec
CONSTANTS
  Managers = {m1}
  Pids = {p1, p2}
  Sockets = {s1, s2}
  None = None
CHECK_DEADLOCK FALSE
PROPERTIES
  RestartComesBack
