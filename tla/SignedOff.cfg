SPECIFICATION Spec
CONSTANTS
 d1 = d1
 v1 = v1
 k1 = k1
 f1 = f1
 f2 = f2
 Findings = {d1}
 Values = {v1}
 Codes = {k1}
 Finalizers = {f1, f2}
 None = None
 MaxFaults = 1
SYMMETRY Attempts
INVARIANTS ReviewAsSigned  FailureLeavesNothing DeletedLeavesNothing
PROPERTY SignedOnce
CHECK_DEADLOCK FALSE
