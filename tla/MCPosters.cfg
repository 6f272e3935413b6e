CONSTANTS
  Viewers = {v, u}
  Workers = {w}
  Posters = {m}
  Foreign = {f}
  Tags = {old, new, newer}
  None = None
SPECIFICATION Spec
INVARIANTS
  CacheIsSound
PROPERTIES
  EveryImageAnswered
