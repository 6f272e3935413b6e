CONSTANTS
  Conns = {c1, c2}
  NoConn = NoConn
  People = {h, g}
  Host = h
  NoOne = NoOne
  Movies = {m1, m2}
  NoMovie = NoMovie
SPECIFICATION Spec
SYMMETRY Symmetry
INVARIANTS
  AgreementIsAMatch
  UndoTargetsLiveVote
PROPERTIES
  MatchEarned
  OutcomeStands
  ImplementsShowdown
