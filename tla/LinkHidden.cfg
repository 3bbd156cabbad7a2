\* A workbook of two formulas and two names, read by any adapter.
SPECIFICATION TextSpec
CONSTANTS
  Cells = {c1, c2}
  DefinedNames = {n1, n2}
  Silent = silent
  External = external
  None = none
  MaxNames = 3
  MaxReach = 2
INVARIANT NeverHidden
CHECK_DEADLOCK FALSE
