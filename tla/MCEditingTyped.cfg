CONSTANTS
  Letters <- MCLetters
  Keywords <- MCKeywords
  SkippedDirs <- MCSkipped
  Sources <- MCSources
  DiffContext = 1
  Wide <- MCWide
  Characters <- MCCharacters
  Layout <- MCLayout
  Requests <- MCRequests
  Fragments <- TypedFragments
  Starts <- TypedStarts
SPECIFICATION EditingSpec
INVARIANTS
  OnlyWhitespaceChanges
CHECK_DEADLOCK FALSE
