CONSTANTS
  Conns = {c1, c2}
  NoConn = NoConn
  People = {h, g1, g2}
  Host = h
  NoOne = NoOne
  Movies = {m1}
  NoMovie = NoMovie
SPECIFICATION Spec
SYMMETRY Symmetry
INVARIANTS
  TypeOK
  ThresholdReachable
  GateHeld
  WinnerOfDeck
  ConnectedIsAttached
PROPERTIES
  OfflineByOwnLeave
  DealtOnce
