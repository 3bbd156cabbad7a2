SPECIFICATION Spec
CONSTANTS
 c1 = c1
 Callers = {c1}
 Requests <- R2
 Credentialed = {2}
 HolderOf <- OwnNames
 None = None
 Capacity = 1
 MaxFaults = 1
 MaxRestarts = 1
INVARIANTS  RowDiscipline OutcomeMatchesHistory CredentialedNeverBehind
PROPERTY TerminalIsFinal
CHECK_DEADLOCK FALSE
