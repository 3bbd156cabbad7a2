---------------------------- MODULE RowAlignment ----------------------------
(***************************************************************************)
(* Which row of the current region is compared with which row of the       *)
(* baseline region (excel/align.py).  A region is a first row and the key  *)
(* of each of its rows: a label, a period (a number), or blank.  Which of  *)
(* the three methods applies (an analyst's identity rule, keys, position)  *)
(* depends on cell contents that are left out: any of them may.            *)
(***************************************************************************)
EXTENDS Integers, Sequences, FiniteSetsExt

CONSTANTS
  Labels, Periods,   \* keys a row may have; periods are naturals
  Regions,           \* regions: [min : Nat, keys : Seq(Key)]
  Bounds,            \* header and footer rows a rule may name, and None
  None

VARIABLES
  base, curr,   \* the paired regions
  rule,         \* how their rows are aligned
  rows          \* the alignment, None before

vars == <<base, curr, rule, rows>>

Key == Labels \cup Periods \cup {None}
Plain == [way : {"keys", "positional"}]
Identity ==
  [way : {"skip", "occurrence", "position"}, header : Bounds, baseHeader : Bounds,
   footer : Bounds, baseFooter : Bounds]

LastRow(r) == r.min + Len(r.keys) - 1
Rows(r) == r.min..LastRow(r)
KeyAt(r, i) == r.keys[i - r.min + 1]

(* The nth of one set with the nth of the other, from the start or the end. *)
InOrder(S, T) ==
  {p \in S \X T : Cardinality({i \in S : i < p[1]}) = Cardinality({i \in T : i < p[2]})}
FromEnd(S, T) ==
  {p \in S \X T : Cardinality({i \in S : i > p[1]}) = Cardinality({i \in T : i > p[2]})}

Left(pairs) == {p[1] : p \in pairs}
Right(pairs) == {p[2] : p \in pairs}
-----------------------------------------------------------------------------
(* _align_axis.  A key is made unique by counting its occurrences. *)
Entry(r, i) == <<KeyAt(r, i), Cardinality({j \in Rows(r) : j < i /\ KeyAt(r, j) = KeyAt(r, i)})>>
SameEntry(b, c) == {p \in Rows(b) \X Rows(c) : Entry(b, p[1]) = Entry(c, p[2])}

PeriodsOf(r) == {KeyAt(r, i) : i \in Rows(r)} \cap Periods
(* A period after the last one of the baseline is expected growth. *)
Grows(b, c, i) ==
  KeyAt(c, i) \in Periods /\ PeriodsOf(b) # {} /\ KeyAt(c, i) > Max(PeriodsOf(b))

ByPairs(b, c, pairs, periods) ==
  LET rest == Rows(c) \ Right(pairs)
      growth == IF periods THEN {i \in rest : Grows(b, c, i)} ELSE {}
  IN [pairs |-> pairs, deleted |-> Rows(b) \ Left(pairs), inserted |-> rest \ growth,
      growth |-> growth, skippedBase |-> {}, skippedCurr |-> {}]

(* By key, or by position when fewer than half of the baseline rows match. *)
AlignByKeys(b, c) ==
  LET matched == SameEntry(b, c)
  IN IF 2 * Cardinality(matched) < Len(b.keys)
     THEN ByPairs(b, c, InOrder(Rows(b), Rows(c)), TRUE)
     ELSE ByPairs(b, c, matched, TRUE)

AlignByPosition(b, c) == ByPairs(b, c, InOrder(Rows(b), Rows(c)), FALSE)
-----------------------------------------------------------------------------
(* _align_rows_by_identity. *)
Default(x, d) == IF x = None THEN d ELSE x
BaseHeader(u) == Default(u.baseHeader, u.header)
BaseFooter(u) == Default(u.baseFooter, u.footer)

BodyFirst(r, header) == IF header = None THEN r.min ELSE Max({r.min, header + 1})
BodyLast(r, footer) == IF footer = None THEN LastRow(r) ELSE Min({LastRow(r), footer - 1})

(* A region cut into what is above the data, the data, what is below. *)
Cut(r, header, footer) ==
  LET first == BodyFirst(r, header)  last == BodyLast(r, footer)
  IN [above |-> r.min..(first - 1), body |-> first..last, below |-> (last + 1)..LastRow(r)]

With(r, S, k) == {i \in S : KeyAt(r, i) = k}

(* Above the data rows pair from the bottom up, below it from the top down. *)
Above(bc, cc) == FromEnd(bc.above, cc.above)
Below(bc, cc) == InOrder(bc.below, cc.below)

(* Keys of both sides that one of them has twice. *)
Ambiguous(b, c, bc, cc) ==
  {k \in {KeyAt(b, i) : i \in bc.body} \ {None} :
     With(c, cc.body, k) # {} /\ Cardinality(With(b, bc.body, k)) + Cardinality(With(c, cc.body, k)) > 2}

(* A key that one row of each side has pairs them. *)
Unique(b, c, bc, cc) ==
  {p \in bc.body \X cc.body : LET k == KeyAt(b, p[1])
     IN k # None /\ With(b, bc.body, k) = {p[1]} /\ With(c, cc.body, k) = {p[2]}}

(* Mutant: pairs by position what a unique key has already paired. *)
SettledAgain(policy, b, c, bc, cc) ==
  CASE policy = "occurrence" ->
         UNION {InOrder(With(b, bc.body, k), With(c, cc.body, k)) : k \in Ambiguous(b, c, bc, cc)}
    [] policy = "position" ->
         InOrder({i \in bc.body : KeyAt(b, i) # None}, {i \in cc.body : KeyAt(c, i) # None})
    [] policy = "skip" -> {}

(* The pairs a policy makes of what the unique keys leave. *)
Settled(policy, b, c, bc, cc) ==
  CASE policy = "occurrence" ->
         UNION {InOrder(With(b, bc.body, k), With(c, cc.body, k)) : k \in Ambiguous(b, c, bc, cc)}
    [] policy = "position" ->
         InOrder({i \in bc.body : KeyAt(b, i) # None} \ Left(Unique(b, c, bc, cc)),
             {i \in cc.body : KeyAt(c, i) # None} \ Right(Unique(b, c, bc, cc)))
    [] policy = "skip" -> {}

AlignByIdentity(b, c, u) ==
  LET bc == Cut(b, BaseHeader(u), BaseFooter(u))
      cc == Cut(c, u.header, u.footer)
      inBody == Unique(b, c, bc, cc) \cup Settled(u.way, b, c, bc, cc)
      skipped == IF u.way = "skip" THEN Ambiguous(b, c, bc, cc) ELSE {}
      skippedBase == UNION {With(b, bc.body, k) : k \in skipped}
      skippedCurr == UNION {With(c, cc.body, k) : k \in skipped}
  IN [pairs |-> Above(bc, cc) \cup Below(bc, cc) \cup inBody,
      deleted |-> (bc.above \ Left(Above(bc, cc))) \cup (bc.below \ Left(Below(bc, cc)))
                    \cup (bc.body \ (Left(inBody) \cup skippedBase)),
      inserted |-> (cc.above \ Right(Above(bc, cc))) \cup (cc.below \ Right(Below(bc, cc)))
                    \cup (cc.body \ (Right(inBody) \cup skippedCurr)),
      growth |-> {}, skippedBase |-> skippedBase, skippedCurr |-> skippedCurr]
-----------------------------------------------------------------------------
(* A rule whose boundary rows cut the region into three parts; nothing in  *)
(* the code asks for it.                                                   *)
Fits(r, header, footer) ==
  /\ header # None => header + 1 <= LastRow(r) + 1
  /\ footer # None => footer >= r.min
  /\ header # None /\ footer # None => BodyFirst(r, header) <= BodyLast(r, footer) + 1

Placed(b, c, u) == Fits(b, BaseHeader(u), BaseFooter(u)) /\ Fits(c, u.header, u.footer)

Init ==
  /\ base \in Regions /\ curr \in Regions /\ rows = None
  /\ \/ rule \in Plain
     \/ rule \in Identity /\ Placed(base, curr, rule)

(* align_regions, for the rows of one pair of regions. *)
Align ==
  /\ rows = None
  /\ rows' = CASE rule.way = "keys" -> AlignByKeys(base, curr)
               [] rule.way = "positional" -> AlignByPosition(base, curr)
               [] OTHER -> AlignByIdentity(base, curr, rule)
  /\ UNCHANGED <<base, curr, rule>>

Next == Align
Spec == Init /\ [][Next]_vars
-----------------------------------------------------------------------------
Once(S, T) == S \cap T = {}

(* Whatever the method, the keys and the duplicates, each row of either    *)
(* side is said to be one thing: compared with one row, removed, added,    *)
(* grown, or skipped for its ambiguous key (_align_rows_by_identity,       *)
(* _align_axis).                                                           *)
RowsAccounted ==
  rows # None =>
    /\ \A p, q \in rows.pairs : p[1] = q[1] <=> p[2] = q[2]
    /\ Left(rows.pairs) \cup rows.deleted \cup rows.skippedBase = Rows(base)
    /\ Right(rows.pairs) \cup rows.inserted \cup rows.growth \cup rows.skippedCurr = Rows(curr)
    /\ Once(Left(rows.pairs), rows.deleted \cup rows.skippedBase)
    /\ Once(rows.deleted, rows.skippedBase)
    /\ Once(Right(rows.pairs), rows.inserted \cup rows.growth \cup rows.skippedCurr)
    /\ Once(rows.inserted, rows.growth \cup rows.skippedCurr)
=============================================================================
