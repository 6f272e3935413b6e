CONSTANTS
  Conns = {c1, c2}
  NoConn = NoConn
  People = {h, g}
  Host = h
  NoOne = NoOne
  Movies = {m1}
  NoMovie = NoMovie
  Server = Server
  SendBuffer = 1
  Tracked = {}
SPECIFICATION HubSpec
SYMMETRY Symmetry
CONSTRAINT OutcomeBound
INVARIANTS
  WinnerHeard
  DeckHeard
  NoFalseWinner
