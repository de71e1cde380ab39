CONSTANTS
  Letters <- MCLetters
  Keywords <- MCKeywords
  SkippedDirs <- MCSkipped
  Sources <- MCSources
  DiffContext = 1
  Wide <- MCWide
  Characters <- MCCharacters
  Layout <- MCLayout
  Requests <- MCRequests
  Fragments <- MCFragments
  Starts <- MCStarts
SPECIFICATION EditingSpec
INVARIANTS
  PatchesToTheResult
  TokensAreWhereTheySay
  LayoutKeepsMeaning
PROPERTIES
  FormatsLikeTheCommand
CHECK_DEADLOCK FALSE
