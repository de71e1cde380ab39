CONSTANTS
  Semvers <- MCSemvers
  MaxInt = 99
  NearSources = {"near"}
  Programs = {p1, p2}
  Projects <- MCProjects
  Published <- MCPublished
  Unpublished <- MCUnpublished
  Toolchain <- MCToolchain
  MaxFaults = 1
  MaxOpens = 2
SYMMETRY Symmetry
SPECIFICATION Spec
INVARIANTS
  ReadyMeansResolved
  WholeUnlessCutShort
  OwnClonesAreFound
  NewestTagIsCloned
CHECK_DEADLOCK FALSE
