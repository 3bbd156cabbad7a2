SPECIFICATION Spec
CONSTANTS
  Pages = {p1}
  Roles = {r1}
  Hashes = {h1, h2}
  Sheets = {s1,s2}
  None = none
  MaxRev = 3
INVARIANTS DecisionsKept

CHECK_DEADLOCK FALSE
