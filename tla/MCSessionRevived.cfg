CONSTANTS
  Conns = {c1}
  NoConn = NoConn
  People = {h}
  Host = h
  NoOne = NoOne
  Movies = {m1}
  NoMovie = NoMovie
SPECIFICATION Spec
PROPERTY EndedStaysEnded
