CONSTANTS
  byName = byName
  byID = byID
  h4 = h4
  h8 = h8
  junk = junk
  Savers = {p, q}
  Askers = {a, b}
  Sessions = {s}
  Choices = {byName, byID}
  Named = {byName}
  IDs = {i, j}
  TTLs = {h4, h8, junk}
  Junk = junk
  DefaultChoice = byID
  DefaultTTL = h4
  NoFile = NoFile
  Torn = Torn
  None = None
  Found <- Found0
  Edits <- Edits0
  MaxSaves = 2
  MaxBusy = 2
SPECIFICATION Spec
INVARIANTS
  ReloadTypeOK
  RunsWhatTheFileSays
  OneAnswerPerSet
  DealsFromLiveSources
PROPERTIES
  FileSurvives
  EveryRequestAnswered
