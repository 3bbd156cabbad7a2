\* One scan thread over one member: the shortest way to a cancel that is never answered.
SPECIFICATION FairSpec
CONSTANTS
  Pages = {p1}
  MemberCount = 1
  Protected = {}
  Others = {excerpt}
  excerpt_name = excerpt_name
  NameOf <- ExcerptName
  None = none
  MaxThreads = 1
  MaxJobs = 1
  MaxCrashes = 0

PROPERTIES CancelSettles
CHECK_DEADLOCK FALSE
