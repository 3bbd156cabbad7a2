\* Two setup pages on one session; a browser, two Office windows and two focus
\* requests; two launchers and two servers at one port; two pages of one run; one
\* profile dialog of each kind, two of them open in a behaviour.
SPECIFICATION Spec
CONSTANTS
  Pages = {p1, p2}
  Roles = {r1}
  Hashes = {h1, h2}
  Sheets = {s1}
  MaxRev = 3
  Clients = {c1}
  Windows = {w1, w2}
  Paths = {f1, f2}
  Tasks = {t1, t2}
  FileIds = {i1, i2}
  MaxTokens = 2
  MaxEdits = 1
  Launchers = {l1, l2}
  Servers = {s1, s2}
  Ports = {8080}
  Views = {p1, p2}
  Columns = {w1, w2}
  Queries = {t1, t2}
  Attempts = 2
  MaxRequests = 3
  Tabs = {p1, p2}
  Found = {d1, d2}
  Groups = {{d1}, {d1, d2}}
  Severities = {base, other}
  Engine = base
  Remarks = {n1}
  Blank = blank
  MaxWrites = 3
  Names = {a1, a2}
  Default = default
  Editors = {e1}
  Promotions = {q1}
  Exports = {x1}
  Workspaces = {k1}
  Ours = a1
  Figures = {t1, t2}
  MapTabs = {p1, p2}
  MaxDialogs = 2
  None = none
SYMMETRY Alike
INVARIANTS TypesOK SessionOfFiles FocusAuthorized ServerIsFound ShownIsAsked DecisionsShown ProfilesKept
PROPERTY DropsOnlyKnown
CHECK_DEADLOCK FALSE
