----------------------------- MODULE PptMatching -----------------------------
(***************************************************************************)
(* Which slide of one deck is which of the other (match_slides), and on    *)
(* two slides that are one another's which table, chart, picture, plot or  *)
(* series is which (ppt/element_match.py).  Elements are matched in        *)
(* stages, each among what the stages before have left.                    *)
(***************************************************************************)
EXTENDS Integers, Sequences, FiniteSetsExt

CONSTANTS
  Slides,      \* two slides: elements of a kind, on either side
  Decks,       \* two decks: what their slides score against each other, and the pins
  Threshold,   \* match_threshold
  None

VARIABLES
  kind,               \* "slide", "table", "chart", "media" or "series"
  deck,               \* the decks, or None
  baseline, current,  \* the elements, by their position
  stage,
  left, right,        \* positions not matched yet
  pairs, ambiguous,   \* ambiguous media on either side
  reordered           \* pairs, when it is done

inputVars == <<kind, deck, baseline, current>>
matchVars == <<inputVars, stage, left, right, pairs, ambiguous, reordered>>

(* How the elements of a kind are told: by a key that one element of       *)
(* either side has, or by the first of those that have it.                 *)
Unique(key) == [key |-> key, first |-> FALSE]
First(key) == [key |-> key, first |-> TRUE]
Stages ==
  [slide |-> <<>>,
   table |-> <<Unique("title"), Unique("signature"), Unique("geometry"), Unique("index")>>,
   chart |-> <<Unique("title"), Unique("signature"), Unique("geometry"),
               First("title"), First("signature"), Unique("index")>>,
   media |-> <<Unique("named"), Unique("geometry"), Unique("title")>>,
   series |-> <<Unique("title"), Unique("signature"), Unique("index")>>]

MatchingInit ==
  /\ \/ /\ \E s \in Slides, k \in (DOMAIN Stages) \ {"slide"} :
             kind = k /\ baseline = s[1] /\ current = s[2]
        /\ deck = None
     \/ /\ kind = "slide" /\ deck \in Decks
        /\ baseline = deck.baseline /\ current = deck.current
  /\ left = DOMAIN baseline /\ right = DOMAIN current
  /\ stage = 1 /\ pairs = {} /\ ambiguous = <<{}, {}>> /\ reordered = None
-----------------------------------------------------------------------------
KeyOf(e, i, key) ==
  CASE key = "index" -> i
    [] key = "named" -> <<e.title, e.geometry>>
    [] OTHER -> e[key]
BaseKey(i, key) == KeyOf(baseline[i], i, key)
CurrKey(j, key) == KeyOf(current[j], j, key)

(* _consume_unique_matches: the key is that of one element on either side. *)
(* Mutant: the first of two that have a key on the current side is taken.  *)
AloneInBaseline(b, c, key) ==
  /\ ~\E i \in left \ {b} : BaseKey(i, key) = BaseKey(b, key)
  /\ ~\E j \in right : j < c /\ CurrKey(j, key) = CurrKey(c, key)
Alone(b, c, key) ==
  /\ ~\E i \in left \ {b} : BaseKey(i, key) = BaseKey(b, key)
  /\ ~\E j \in right \ {c} : CurrKey(j, key) = CurrKey(c, key)

Same(b, c, key) == BaseKey(b, key) = CurrKey(c, key) /\ BaseKey(b, key) # None

UniqueMatches(key) == {p \in left \X right : Same(p[1], p[2], key) /\ Alone(p[1], p[2], key)}

(* _consume_ordered_matches: in the order of the baseline, the first that  *)
(* is left of those with the key: the nth of one side with the nth.        *)
(* Mutant: what has been taken can be taken again. *)
RankAlways(S, i) == 0
Rank(S, i) == Cardinality({k \in S : k < i})

OrderedMatches(key) ==
  {p \in left \X right :
     /\ Same(p[1], p[2], key)
     /\ Rank({i \in left : BaseKey(i, key) = BaseKey(p[1], key)}, p[1])
          = Rank({j \in right : CurrKey(j, key) = CurrKey(p[2], key)}, p[2])}

Consume ==
  /\ stage <= Len(Stages[kind])
  /\ LET s == Stages[kind][stage]
         new == IF s.first THEN OrderedMatches(s.key) ELSE UniqueMatches(s.key)
     IN  /\ pairs' = pairs \cup new
         /\ left' = left \ {p[1] : p \in new} /\ right' = right \ {p[2] : p \in new}
  /\ stage' = stage + 1
  /\ UNCHANGED <<inputVars, ambiguous, reordered>>

(* What is left of the media and may be one another's is set aside. *)
MayMatch(b, c) ==
  \/ BaseKey(b, "geometry") = CurrKey(c, "geometry")
  \/ Same(b, c, "title")

SetAside ==
  /\ kind = "media" /\ stage = Len(Stages[kind]) + 1
  /\ LET base == {b \in left : \E c \in right : MayMatch(b, c)}
         curr == {c \in right : \E b \in left : MayMatch(b, c)}
     IN  /\ ambiguous' = <<base, curr>>
         /\ left' = left \ base /\ right' = right \ curr
  /\ stage' = stage + 1
  /\ UNCHANGED <<inputVars, pairs, reordered>>
-----------------------------------------------------------------------------
(* match_slides: pins, one after the other, then the best scores.          *)

Titled(side, pool, title) == {i \in pool : side[i].title = title}

Pin ==
  /\ kind = "slide" /\ stage <= Len(deck.pins)
  /\ LET base == Titled(baseline, left, deck.pins[stage][1])
         curr == Titled(current, right, deck.pins[stage][2])
     IN  IF base = {} \/ curr = {} THEN UNCHANGED <<left, right, pairs>>
         ELSE /\ pairs' = pairs \cup {<<Min(base), Min(curr)>>}
              /\ left' = left \ {Min(base)} /\ right' = right \ {Min(curr)}
  /\ stage' = stage + 1
  /\ UNCHANGED <<inputVars, ambiguous, reordered>>

Score(p) == deck.score[p]
Better(p, q) ==
  \/ Score(p) > Score(q)
  \/ Score(p) = Score(q) /\ (p[1] < q[1] \/ (p[1] = q[1] /\ p[2] < q[2]))

(* The pairs in the order in which they are looked at; one of them is      *)
(* taken unless a slide of it is.                                          *)
(* Mutant: the pairs are looked at in the order of the slides.             *)
NextInOrder(P) == CHOOSE p \in P : \A q \in P \ {p} : p[1] < q[1] \/ (p[1] = q[1] /\ p[2] < q[2])
NextBest(P) == CHOOSE p \in P : \A q \in P \ {p} : Better(p, q)
Fitting == {p \in left \X right : Score(p) >= Threshold}

PairSlides ==
  /\ kind = "slide" /\ stage > Len(deck.pins) /\ Fitting # {}
  /\ LET p == NextBest(Fitting)
     IN  pairs' = pairs \cup {p} /\ left' = left \ {p[1]} /\ right' = right \ {p[2]}
  /\ UNCHANGED <<inputVars, stage, ambiguous, reordered>>
-----------------------------------------------------------------------------
(* _reordered_pairs: those not in one longest increasing sequence of the   *)
(* current positions, in the order of the baseline.                        *)

InOrder ==
  [n \in 1..Cardinality(pairs) |-> CHOOSE p \in pairs : Rank({q[1] : q \in pairs}, p[1]) = n - 1]

(* Mutant: the sequence is the one that ends last. *)
EndsLongestLast(lengths) == Max(DOMAIN lengths)
EndsLongest(lengths) ==
  Min({k \in DOMAIN lengths : \A l \in DOMAIN lengths : lengths[l] <= lengths[k]})

Stable(values) ==
  LET before(k) == {l \in 1..(k - 1) : values[l] < values[k]}
      length[k \in DOMAIN values] == IF before(k) = {} THEN 1 ELSE 1 + Max({length[l] : l \in before(k)})
      parent(k) == Min({l \in before(k) : length[l] = length[k] - 1})
      kept[k \in DOMAIN values] == IF length[k] = 1 THEN {k} ELSE {k} \cup kept[parent(k)]
  IN  IF values = <<>> THEN {} ELSE kept[EndsLongest(length)]

Matched ==
  IF kind = "slide" THEN stage > Len(deck.pins) /\ Fitting = {}
  ELSE stage > Len(Stages[kind]) + IF kind = "media" THEN 1 ELSE 0

FindReordered ==
  /\ Matched /\ reordered = None
  /\ LET stable == Stable([k \in DOMAIN InOrder |-> InOrder[k][2]])
     IN  reordered' = {InOrder[k] : k \in (DOMAIN InOrder) \ stable}
  /\ UNCHANGED <<inputVars, stage, left, right, pairs, ambiguous>>

MatchingNext == Consume \/ SetAside \/ Pin \/ PairSlides \/ FindReordered

MatchingSpec == MatchingInit /\ [][MatchingNext]_matchVars
-----------------------------------------------------------------------------
Increasing(P) == \A p, q \in P : p[1] < q[1] => p[2] < q[2]
Partner(p) == {q \in pairs : q[1] = p[1] \/ q[2] = p[2]}
Pinned == {p \in pairs : \E n \in DOMAIN deck.pins :
             <<baseline[p[1]].title, current[p[2]].title>> = deck.pins[n]}

HasTwin(side, i) == \E k \in (DOMAIN side) \ {i} : side[k].title = side[i].title /\ side[k].geometry = side[i].geometry

(* Each element is matched, or left, once.  Slides that are not pinned are *)
(* matched so that no two would score better with one another than either  *)
(* does; of charts with one title none is left on both sides, and of media *)
(* that may be one another's none is told removed or added, and none that  *)
(* is like another of its slide is matched.  As few pairs as can be are    *)
(* told reordered.                                                         *)
MatchedRight ==
  reordered # None =>
    /\ \A p, q \in pairs : (p[1] = q[1] <=> p[2] = q[2])
    /\ {p[1] : p \in pairs} \cup left \cup ambiguous[1] = DOMAIN baseline
    /\ {p[2] : p \in pairs} \cup right \cup ambiguous[2] = DOMAIN current
    /\ kind = "slide" =>
         \A p \in (DOMAIN baseline) \X (DOMAIN current) :
           Score(p) >= Threshold => \E q \in Partner(p) : q \in Pinned \/ Score(q) >= Score(p)
    /\ kind = "chart" => ~\E b \in left, c \in right : Same(b, c, "title") \/ Same(b, c, "signature")
    /\ kind = "media" => /\ ~\E b \in left, c \in right : MayMatch(b, c)
                         /\ \A p \in pairs : ~HasTwin(baseline, p[1]) /\ ~HasTwin(current, p[2])
    /\ Increasing(pairs \ reordered)
    /\ \A P \in SUBSET pairs : Increasing(P) => Cardinality(P) <= Cardinality(pairs \ reordered)
=============================================================================
