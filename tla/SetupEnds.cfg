\* One scan thread over two members, one of them protected, and two pages.
SPECIFICATION FairSpec
CONSTANTS
  Pages = {p1, p2}
  MemberCount = 2
  Protected = {2}
  Others = {excerpt}
  excerpt_name = excerpt_name
  NameOf <- ExcerptName
  None = none
  MaxThreads = 1
  MaxJobs = 1
  MaxCrashes = 0
INVARIANTS PasswordsGone
PROPERTY ScansEnd
CHECK_DEADLOCK FALSE
