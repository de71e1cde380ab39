CONSTANTS
  Files <- MCFiles
  Documents <- MCDocuments
  Root = "root"
  Imports <- MCImports
  Broken = {2}
  MaxEvents = 4
SPECIFICATION FairSpec
INVARIANTS
  CachesAreFresh
  LatestIsJudged
PROPERTIES
  Settles
