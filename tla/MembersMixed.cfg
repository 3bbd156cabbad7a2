SPECIFICATION CarrySpec
CONSTANTS
 NIds = 2
 Books = {b1,b2}
 b2=b2
 b1=b1
 Cells = {p1}
 Decisions = {d1}
 None = None
 p1=p1
 d1=d1
INVARIANT MembersKeepTheirBook
CHECK_DEADLOCK FALSE
