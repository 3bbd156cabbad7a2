\* Two jobs of one generation, two scan threads, one other holder of the slot,
\* one end of the server.
SPECIFICATION Spec
CONSTANTS
  Pages = {p1}
  MemberCount = 1
  Protected = {}
  Others = {excerpt}
  excerpt_name = excerpt_name
  NameOf <- ExcerptName
  None = none
  MaxThreads = 2
  MaxJobs = 2
  MaxCrashes = 1
INVARIANTS RowIsCurrent CancelWins ScansAlone CompleteIsWhole
VIEW View
CHECK_DEADLOCK FALSE
