\* One instance of each step of an analysis; MCAnalysis says which inputs.
SPECIFICATION Spec
CONSTANTS
  Users = {u1, u2}
  Keys = {k1, k2, k3}
  MaxEntries = 1
  MaxClock = 4
  MaxDamage = 1
  Labels = {l1}
  Periods = {1, 2}
  Regions <- MCRegions
  Bounds <- MCBounds
  Candidates <- MCCandidates
  Threshold = 2
  MaxRectangles = 3
  MaxPairs = 3
  Spills <- MCSpills
  BlockRows = 2
  FanIn = 2
  Sheets = {s1, s2}
  Changes <- MCChanges
  Members <- MCMembers
  NIds = 2
  Books = {b1}
  Cells = {p1, p2}
  Decisions = {d1, d2}
  MaxFaults = 2
  DefinedNames = {d1, d2}
  Silent = silent
  External = external
  MaxNames = 3
  MaxReach = 2
  Tales <- MCTales
  Primary = m1
  Piles <- MCPiles
  Formulas <- MCFormulas
  Findings <- MCFindings
  Width = 5
  Bucket = 2
  MaxRange = 2
  MaxShared = 1
  MaxImpacts = 1
  References <- MCReferences
  MaxEdges = 6
  MaxCached = 2
  MaxMembers = 4
  Slides <- MCSlides
  Decks <- MCDecks
  None = None
  l1 = l1
  e1 = e1
  e2 = e2
  s1 = s1
  s2 = s2
  g1 = g1
  g2 = g2
  m1 = m1
  m2 = m2
  m3 = m3
SYMMETRY Alike
INVARIANTS CacheIsBounded  RunIsWhole  OnlyOwnExcelEnds LinkReported  DependenciesExact MatchedRight
CHECK_DEADLOCK FALSE
