----------------------------- MODULE MCAnalysis -----------------------------
(***************************************************************************)
(* What an analysis is made of: a comparison with what surrounds it, which *)
(* is MCComparison, and its algorithms, from the formula texts of a binary *)
(* workbook to the groups and stories of its review.  One of them moves in *)
(* a behaviour, the one that the initial state chooses; the variables of   *)
(* the others are None.                                                    *)
(***************************************************************************)
EXTENDS MCComparison, MCContents, MCFindings, MCReview, SequencesExt, TLC

CONSTANTS l1, e1, e2

-----------------------------------------------------------------------------
(* Regions of up to three rows whose keys may be missing, equal, or periods. *)
MCRegions ==
  {[min |-> 1, keys |-> k] : k \in [1..3 -> {l1, 1}] \cup [1..2 -> {l1, 1, None}]}
    \cup {[min |-> 2, keys |-> k] : k \in [1..2 -> {l1, 2}]}
MCBounds == {None, 1, 3}

(* Rows in every order, enough of them for a merge of two passes. *)
Turned(n, k) == [i \in 1..n |-> ((i + k - 1) % n) + 1]
MCSpills ==
  (UNION {{s \in [1..n -> 1..n] : ToSet(s) = 1..n} : n \in 0..6})
    \cup {Turned(n, k) : n \in 9..10, k \in 0..9}
    \cup {Reverse(Turned(n, k)) : n \in 9..10, k \in 0..9}

(* Groups of candidates: changes in place on up to 4 x 3 cells; moved and     *)
(* mixed ones beside groups that are out of scope or not to be located.       *)
Grid == [i \in 1..12 |-> <<((i - 1) \div 3) + 1, ((i - 1) % 3) + 1>>]
InOrder(S) == SelectSeq(Grid, LAMBDA c : c \in S)
Moved(c, by) == <<c[1] + by[1], c[2] + by[2]>>
Row(cell, from, evidence) == [cell |-> cell, base |-> from, evidence |-> evidence]
Group(inScope, members) == [inScope |-> inScope, rows |-> members]
InPlace ==
  {Group(TRUE, [i \in 1..Cardinality(S) |-> Row(InOrder(S)[i], InOrder(S)[i], e1)]) :
     S \in (SUBSET ((1..4) \X (1..3))) \ {{}}}
Kinds == {<<<<1, 0>>, e1>>, <<<<0, 1>>, e1>>, <<<<1, 0>>, e2>>}
Mixed ==
  UNION {{Group(TRUE, [i \in 1..Cardinality(S) |->
                         Row(InOrder(S)[i], Moved(InOrder(S)[i], k[i][1]), k[i][2])]) :
            k \in [1..Cardinality(S) -> Kinds]} :
           S \in (SUBSET ((1..2) \X (1..2))) \ {{}}}
NoBase == Group(TRUE, [i \in 1..2 |-> Row(<<i, 1>>, None, e1)])
Unlocated == Group(TRUE, <<Row(None, None, e1)>>)
OutOfScope == Group(FALSE, <<Row(<<1, 1>>, <<1, 1>>, e1)>>)
MCCandidates ==
  {<<g>> : g \in InPlace}
    \cup {<<x, g, y>> : x \in {NoBase, OutOfScope}, g \in Mixed, y \in {NoBase, Unlocated}}

(* A change of each route a finding may take, on two sheets and on none. *)
Change(by, sheet, of, n) == [by |-> by, sheet |-> sheet, group |-> of, n |-> n]
MCChanges ==
  {Change("risks", None, None, 1), Change("structure", s1, None, 1),
   Change("formulas", s1, g1, 1), Change("formulas", s1, g1, 2),
   Change("values", s1, None, 1), Change("values", s2, g2, 1), Change("values", s2, g2, 2),
   Change("crosscheck", None, None, 1)}

MCMembers == <<m1, m2, m3>>

(* Findings for stories: drivers that words or events join, formulas they     *)
(* explain or wrappers explain, formats of their cells, and the other rules.  *)
Tale(class, marks, words, event, cell) ==
  [book |-> m1, class |-> class, marks |-> marks, words |-> words, event |-> event, cell |-> cell]
Linking ==
  {Tale("driver", {}, {g1}, None, None), Tale("driver", {}, {g2}, None, None),
   Tale("driver", {}, {g1, g2}, e1, None), Tale("driver", {}, {}, e1, None),
   Tale("formula", {}, {g2}, None, s1), Tale("style", {}, {}, None, s1)}
Ruled ==
  {Tale("driver", {"turnover"}, {}, e1, None), Tale("driver", {"growth"}, {g1}, None, None),
   Tale("formula", {"wrapped"}, {g2}, e2, s1), Tale("formula", {"wrapped"}, {}, e2, None),
   Tale("formula", {"inherited", "wrapped"}, {g1}, e2, s1),
   Tale("other", {"errors", "inherited"}, {}, e2, s2), Tale("style", {"recent"}, {}, None, s1),
   Tale("label", {"derived", "recent"}, {}, None, None),
   Tale("other", {"accepted", "noise", "recent"}, {}, None, s2)}
InBook(t) == [t EXCEPT ![1].book = m2]
MCTales ==
  (UNION {[1..n -> Linking \cup Ruled] : n \in 0..3}) \cup [1..4 -> Linking]
    \cup {InBook(t) : t \in [1..3 -> Linking \cup Ruled]}

(* Findings for groups: one kind on up to 3 x 3 cells; two kinds on 2 x 3, a  *)
(* cell with two findings, and findings without a cell that are alike.        *)
Find(key, cell, identity) == [key |-> key, cell |-> cell, identity |-> identity]
Alone(n) == [i \in 1..n |-> Find(g1, None, e1)]
OfOneKind ==
  {[i \in 1..Cardinality(S) |-> Find(g1, InOrder(S)[i], InOrder(S)[i])] :
     S \in SUBSET ((1..3) \X (1..3))}
OfTwoKinds ==
  UNION {{[i \in 1..Cardinality(S) |-> Find(k[InOrder(S)[i]], InOrder(S)[i], InOrder(S)[i])] :
            k \in [S -> {g1, g2}]} : S \in SUBSET ((1..2) \X (1..3))}
MCPiles ==
  OfOneKind \cup {p \o Alone(n) \o SubSeq(p, 1, Min({1, Len(p)})) : p \in OfTwoKinds, n \in {0, 2}}

(* Workbooks of five columns, of one or two references to a formula, and three *)
(* findings of cells on the way, one of which has impacts from elsewhere.      *)
OneEach == [{3, 4, 5} -> {{r} : r \in {<<5, 5>>, <<2, 3>>, <<4, 5>>, <<3, 4>>}}]
TwoEach == [{4, 5} -> {{r, q} : r, q \in {<<2, 2>>, <<3, 4>>, <<2, 5>>}}]
MCFormulas == OneEach \cup TwoEach
On(c, extras) == [cell |-> c, extras |-> extras]
MCFindings ==
  {<<On(x, {}), On(y, {3, 9}), On(z, {})>> : x \in 1..5, y \in {2, 5}, z \in {3, 4}}

(* Three formulas with a range each; ranges that come again.                   *)
Ref(c, r) == [cell |-> c, range |-> r]
Ranges == {r \in (1..4) \X (1..4) : r[1] <= r[2]}
Again == {<<1, 1>>, <<2, 3>>, <<3, 4>>, <<1, 4>>}
MCReferences ==
  {<<Ref(1, x), Ref(2, y), Ref(3, z)>> : x, y, z \in Ranges}
    \cup {<<Ref(1, x), Ref(1, y), Ref(2, z), Ref(4, x), Ref(3, <<2, 2>>)>> : x, y, z \in Again}

(* Slides of up to two of any elements or three with titles of their own, and *)
(* decks of up to three slides whose pairs score below the threshold, at it   *)
(* and above it.                                                              *)
El(title, signature, geometry) == [title |-> title, signature |-> signature, geometry |-> geometry]
AnyElement == {El(m1, None, g1), El(m1, e1, g2), El(m2, e1, g1), El(None, None, g1), El(None, e1, g2)}
OwnTitle == {El(m1, None, g1), El(m2, None, g1), El(m3, None, g2)}
UpTo2(S) == UNION {[1..n -> S] : n \in 0..2}
MCSlides == (UpTo2(AnyElement) \X UpTo2(AnyElement)) \cup ([1..3 -> OwnTitle] \X [1..3 -> OwnTitle])
Titles(s) == [i \in DOMAIN s |-> El(s[i], None, None)]
Deck(b, c, score, pins) == [baseline |-> Titles(b), current |-> Titles(c), score |-> score, pins |-> pins]
MCDecks ==
  {Deck(<<m1, m2, m3>>, <<m1, m2, m3>>, score, <<>>) : score \in [(1..3) \X (1..3) -> {0, 3}]}
    \cup {Deck(<<m1, m2>>, <<m1, m1, m3>>, score, pins) :
             score \in [(1..2) \X (1..3) -> {0, 2, 3}],
             pins \in {<<>>, <<<<m1, m1>>, <<m2, m1>>>>, <<<<m1, m3>>, <<m3, m3>>>>}}
-----------------------------------------------------------------------------
algorithmVars == <<alignVars, popVars, spillVars, textVars, storyVars, groupVars, impactVars,
                   cycleVars, matchVars>>
analysisVars == <<comparisonVars, algorithmVars>>

AlignOff == base = None /\ curr = None /\ rule = None /\ rows = None
PopOff ==
  /\ spilled = None /\ group = None /\ acc = None /\ ordered = None
  /\ decisions = None /\ populations = None /\ replayed = None
SpillOff ==
  todo = None /\ buffer = None /\ blocks = None /\ runs = None /\ passes = None /\ stored = None
TextOff ==
  /\ formula = None /\ target = None /\ local = None /\ engine = None
  /\ refused = None /\ lost = None /\ lostNames = None /\ snapshot = None
StoriesOff == tale = None /\ pass = None /\ at = None /\ machines = None /\ told = None
GroupsOff ==
  /\ pile = None /\ partitions = None /\ pending = None /\ front = None
  /\ component = None /\ entries = None /\ finished = None
ImpactsOff ==
  /\ formulas = None /\ graph = None /\ findings = None /\ closures = None /\ shared = None
  /\ regimes = None /\ job = None /\ noted = None /\ impacts = None
CyclesOff ==
  /\ references = None /\ taken = None /\ edges = None /\ missed = None /\ cached = None
  /\ held = None /\ visited = None /\ stack = None /\ order = None /\ circle = None /\ circles = None
MatchingOff ==
  /\ kind = None /\ deck = None /\ baseline = None /\ current = None /\ stage = None
  /\ left = None /\ right = None /\ pairs = None /\ ambiguous = None /\ reordered = None

(* Policies that differ, so that nothing is carried, are tried on equal runs;  *)
(* the Re-QC lists its populations last, and one of its findings is changed.   *)
CarryTried ==
  part = "carry" =>
    /\ policy \/ run["source"].findings = run["reqc"].findings
    /\ LET new == run["reqc"].findings
       IN  \A i, j \in 1..NIds :
             i < j /\ new[i] # None /\ new[j] # None =>
               (new[i].key = Carry!Whole => new[j].key = Carry!Whole) /\ ~new[j].changed

(* The variables of a component are its own, or None.                        *)
Init ==
  /\ part \in {"cache", "office", "run", "package", "carry",
               "align", "populations", "spill", "text", "stories",
               "groups", "impacts", "cycles", "matching"}
  /\ ComparisonInit /\ CarryTried
  /\ IF part = "align" THEN Align!Init ELSE AlignOff
  /\ IF part = "populations" THEN Grouped!PopInit ELSE PopOff
  /\ IF part = "spill" THEN Spilled!SpillInit ELSE SpillOff
  /\ IF part = "text" THEN Text!TextInit ELSE TextOff
  /\ IF part = "stories" THEN Telling!StoriesInit ELSE StoriesOff
  /\ IF part = "groups" THEN Review!GroupsInit ELSE GroupsOff
  /\ IF part = "impacts" THEN Reached!ImpactsInit ELSE ImpactsOff
  /\ IF part = "cycles" THEN Circular!CyclesInit ELSE CyclesOff
  /\ IF part = "matching" THEN Matching!MatchingInit ELSE MatchingOff

AlgorithmsStill ==
  /\ Still("align", alignVars)
  /\ Still("populations", popVars) /\ Still("spill", spillVars)
  /\ Still("text", textVars) /\ Still("stories", storyVars)
  /\ Still("groups", groupVars) /\ Still("impacts", impactVars)
  /\ Still("cycles", cycleVars) /\ Still("matching", matchVars)

AlgorithmNext ==
  \/ part = "align" /\ Align!Next
  \/ part = "populations" /\ Grouped!PopNext
  \/ part = "spill" /\ Spilled!SpillNext
  \/ part = "text" /\ Text!TextNext
  \/ part = "stories" /\ Telling!StoriesNext
  \/ part = "groups" /\ Review!GroupsNext
  \/ part = "impacts" /\ Reached!ImpactsNext
  \/ part = "cycles" /\ Circular!CyclesNext
  \/ part = "matching" /\ Matching!MatchingNext

Next ==
  \/ ComparisonNext /\ UNCHANGED algorithmVars
  \/ AlgorithmNext /\ AlgorithmsStill /\ UNCHANGED comparisonVars

(* Which cell, decision or process it is makes no difference; the values of    *)
(* the decisions stand for the names of another behaviour.                   *)
Alike == Permutations(Cells) \cup Permutations(Decisions) \cup Permutations(Users)

Spec == Init /\ [][Next]_analysisVars
-----------------------------------------------------------------------------
(* The properties of the components, each of the behaviours of its own.      *)

(* Nothing is lost or doubled on the way: each row of both sides is paired  *)
(* or told once (align_regions), a population's rectangles and pairs are its *)
(* members (membership), and finding n is the nth of what was spilled        *)
(* (merge_spill, finding_by_id).                                             *)
AllAccountedFor ==
  /\ part = "align" => Align!RowsAccounted
  /\ part = "populations" => Grouped!MembersExact
  /\ part = "spill" => Spilled!NumberedInOrder

(* A link in use is reported, but for one native gap (workbook_risk_findings). *)
LinkReported == part = "text" => Text!LinkReported

(* The streamed stories are those of the list (StoryStreamer, build_stories), *)
(* and a group of findings is all that touches, in whole                      *)
(* (build_review_groups).                                                     *)
ReviewAsListed ==
  /\ part = "stories" => Telling!StoriesAsListed
  /\ part = "groups" => Review!GroupsExact

(* The impacts of a finding are those of its formulas whatever was asked     *)
(* before (ImpactAccumulator), and the circles found are those of the        *)
(* formulas (detect_circular_references).                                    *)
DependenciesExact ==
  /\ part = "impacts" => Reached!ImpactsExact
  /\ part = "cycles" => Circular!CirclesExact

(* Each slide and element is matched or left once, with the one it has to be *)
(* (match_slides, match_slide_elements).                                     *)
MatchedRight == part = "matching" => Matching!MatchedRight
=============================================================================
