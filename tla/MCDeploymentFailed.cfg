CONSTANTS
  Absent = Absent
  Placeholder = Placeholder
  Blank = Blank
  Words <- MCWords
  NoAnswer = NoAnswer
  URLs <- MCURLs
  KnownProviders <- MCKnown
  Slug <- MCSlug
  NumberOf <- MCNumberOf
  Rank <- MCRank
  HexIDs <- MCHexIDs
  GenreIDs <- MCGenreIDs
  GenreNames <- MCGenreNames
  Certifications <- MCCertifications
  PageSize = 1
  PagesPerProvider = 2
  MaxSampledPages = 3
  World <- MCWorld
  Outages <- MCOutages
  Files <- MCFiles
  Envs <- MCEnvs
  Edits <- MCEdits
  Filters <- MCFilters
  Candidates <- MCCandidates
  MaxSaves = 2
  MaxAsking = 1
SPECIFICATION Spec
INVARIANTS
  FailuresAreNamed
