------------------------------- MODULE Impacts -------------------------------
(***************************************************************************)
(* What a changed cell has an effect on (DependencyGraph and               *)
(* ImpactAccumulator in excel/dependency.py).  References are kept as      *)
(* rectangles in buckets; the cells downstream of one cell are found by a  *)
(* walk whose results are kept for later walks, in the order in which      *)
(* findings happen to ask.  Cells here are the columns of one row.         *)
(***************************************************************************)
EXTENDS Integers, Sequences, FiniteSets

CONSTANTS
  Formulas,    \* workbooks: cell -> the ranges <<first, last>> its formula names
  Findings,    \* sequences of findings: a cell, its impacts from elsewhere
  Width,       \* columns of a workbook
  Bucket,      \* _COLUMN_BUCKET
  MaxRange,    \* max_range_cells: longer ranges are symbolic
  MaxShared,   \* closures kept for cells without a formula
  MaxImpacts,  \* max_impacts
  None

VARIABLES
  formulas,
  graph,       \* who names a range, and what there is at a cell
  findings,
  closures,    \* _closure_cache: of cells with a formula
  shared,      \* _shared_closure_cache and _parts_cache, the oldest first
  regimes,     \* _regime_downstream_cache
  job,         \* the walk under way
  noted,       \* ImpactAccumulator: what annotate has noted of the findings
  impacts      \* what finalize has shown of them

storeVars == <<formulas, graph, findings>>
impactVars == <<storeVars, closures, shared, regimes, job, noted, impacts>>

Empty == [x \in {} |-> x]
Put(f, x, y) == [z \in DOMAIN f \cup {x} |-> IF z = x THEN y ELSE f[z]]
-----------------------------------------------------------------------------
(* add_direct, add_range, record_symbolic_reference: who names a range,    *)
(* and which ranges there are at a cell.  A rectangle that covers a bucket *)
(* is not looked at again there, one that cuts through it is.              *)

Size(r) == r[2] - r[1] + 1
BucketOf(n) == n \div Bucket
Covers(r, b) == r[1] <= b * Bucket /\ r[2] >= b * Bucket + Bucket - 1
Within(n, r) == r[1] <= n /\ n <= r[2]

RectsAt(rects, n) ==
  {r \in rects : BucketOf(n) \in BucketOf(r[1])..BucketOf(r[2]) /\ (Covers(r, BucketOf(n)) \/ Within(n, r))}

Graph(book) ==
  LET named == UNION {book[c] : c \in DOMAIN book}
      naming == [r \in named |-> {c \in DOMAIN book : r \in book[c]}]
      rects == {r \in named : Size(r) \in 2..MaxRange}
      symbolic == {r \in named : Size(r) > MaxRange}
  IN  [naming |-> naming,
       direct |-> [n \in 1..Width |-> (UNION {naming[r] : r \in named \cap {<<n, n>>}}) \ {n}],
       rects |-> [n \in 1..Width |-> RectsAt(rects, n) \cup {r \in symbolic : Within(n, r)}],
       bucket |-> [n \in 1..Width |-> {r \in rects : BucketOf(n) \in BucketOf(r[1])..BucketOf(r[2])}]]

Naming(R) == UNION {graph.naming[r] : r \in R}
Signature(n) == <<graph.direct[n], graph.rects[n]>>

ImpactsInit ==
  /\ formulas \in Formulas /\ findings \in Findings
  /\ graph = Graph(formulas)
  /\ closures = Empty /\ shared = <<>> /\ regimes = Empty
  /\ job = None /\ noted = <<>> /\ impacts = <<>>
-----------------------------------------------------------------------------
(* _expand_ids, one cell at a time; a cell with a known closure takes it   *)
(* whole, and a rectangle is taken once.                                   *)

Walk(found, from) == [found |-> found, pending |-> from, absorbed |-> {}]

(* Mutant: a rectangle is absorbed when its bucket is met. *)
AbsorbedInBucket(n) == graph.bucket[n] \cup graph.rects[n]
Absorbed(n) == graph.rects[n]

Expanded(walk, n) ==
  IF n \in DOMAIN closures
  THEN [walk EXCEPT !.found = @ \cup closures[n], !.pending = @ \ {n}]
  ELSE LET more == (graph.direct[n] \cup Naming(graph.rects[n] \ walk.absorbed)) \ walk.found
       IN  [found |-> walk.found \cup more, pending |-> (walk.pending \ {n}) \cup more,
            absorbed |-> walk.absorbed \cup Absorbed(n)]

HitAt(n) == {k \in DOMAIN shared : shared[k].signature = Signature(n)}
Hit(n) == CHOOSE k \in HitAt(n) : TRUE

(* The entry of a signature becomes the youngest. *)
Kept(n, parts) ==
  LET rest == IF HitAt(n) = {} THEN shared
              ELSE SubSeq(shared, 1, Hit(n) - 1) \o SubSeq(shared, Hit(n) + 1, Len(shared))
      all == Append(rest, [signature |-> Signature(n), parts |-> parts])
  IN  IF Len(all) > MaxShared THEN Tail(all) ELSE all

(* Mutant: cells with a formula share what cells alike have found. *)
SharesAlways(n) == TRUE
Shares(n) == n \notin DOMAIN formulas

(* The cell of the finding that annotate is at. *)
Annotating == job = None /\ Len(noted) < Len(findings)
Cell == findings[Len(noted) + 1].cell

IsKnown(n) == IF Shares(n) THEN HitAt(n) # {} ELSE n \in DOMAIN closures

(* What is known of its cell is noted at once. *)
Known ==
  /\ Annotating /\ IsKnown(Cell)
  /\ IF Shares(Cell)
     THEN /\ shared' = Kept(Cell, shared[Hit(Cell)].parts)
          /\ noted' = Append(noted, shared[Hit(Cell)].parts)
     ELSE /\ noted' = Append(noted, [regime |-> None, all |-> closures[Cell], delta |-> {}])
          /\ UNCHANGED shared
  /\ UNCHANGED <<storeVars, closures, regimes, job, impacts>>

(* Otherwise the regime of its rectangles is walked first, *)
BeginRegime ==
  /\ Annotating /\ ~IsKnown(Cell) /\ graph.rects[Cell] \notin DOMAIN regimes
  /\ LET seeds == Naming(graph.rects[Cell])
     IN  job' = [stage |-> "regime", walk |-> Walk(seeds, seeds)]
  /\ UNCHANGED <<storeVars, closures, shared, regimes, noted, impacts>>

Expand ==
  /\ job # None
  /\ \E n \in job.walk.pending : job' = [job EXCEPT !.walk = Expanded(@, n)]
  /\ UNCHANGED <<storeVars, closures, shared, regimes, noted, impacts>>

KeepRegime ==
  /\ job # None /\ job.stage = "regime" /\ job.walk.pending = {}
  /\ regimes' = Put(regimes, graph.rects[Cell], job.walk.found)
  /\ job' = None
  /\ UNCHANGED <<storeVars, closures, shared, noted, impacts>>

(* then what it has beyond the regime. *)
BeginDelta ==
  /\ Annotating /\ ~IsKnown(Cell) /\ graph.rects[Cell] \in DOMAIN regimes
  /\ LET regime == regimes[graph.rects[Cell]]
         own == graph.direct[Cell] \ regime
     IN  job' = [stage |-> "delta", walk |-> Walk(regime \cup own, own)]
  /\ UNCHANGED <<storeVars, closures, shared, regimes, noted, impacts>>

KeepClosure ==
  /\ job # None /\ job.stage = "delta" /\ job.walk.pending = {}
  /\ LET regime == regimes[graph.rects[Cell]]
         parts == [regime |-> graph.rects[Cell], all |-> regime, delta |-> job.walk.found \ regime]
         others == job.walk.found \ {Cell}
     IN  IF Shares(Cell)
         THEN /\ shared' = Kept(Cell, parts)
              /\ noted' = Append(noted, parts) /\ UNCHANGED closures
         ELSE /\ closures' = Put(closures, Cell, others)
              /\ noted' = Append(noted, [regime |-> None, all |-> others, delta |-> {}])
              /\ UNCHANGED shared
  /\ job' = None
  /\ UNCHANGED <<storeVars, regimes, impacts>>
-----------------------------------------------------------------------------
(* finalize: of the union with the impacts from elsewhere the first        *)
(* MaxImpacts and the number of the others.                                *)

Smallest(S, count) == {x \in S : Cardinality({y \in S : y < x}) < count}

(* Mutant: an impact from elsewhere is counted though it is downstream. *)
OutsideAll(extras, note) == extras
Outside(extras, note) == extras \ (note.all \cup note.delta)

Shown(names, total) ==
  [first |-> Smallest(names, MaxImpacts), more |-> IF total > MaxImpacts THEN total - MaxImpacts ELSE 0]

(* Of a regime no more names are looked at than can be shown.             *)
Finalize ==
  /\ Len(noted) = Len(findings) /\ Len(impacts) < Len(findings)
  /\ LET note == noted[Len(impacts) + 1]
         extras == findings[Len(impacts) + 1].extras
         total == Cardinality(note.all) + Cardinality(note.delta) + Cardinality(Outside(extras, note))
         names == IF note.regime = None \/ total <= MaxImpacts THEN note.all
                  ELSE Smallest(note.all, MaxImpacts + Cardinality(extras))
     IN  impacts' = Append(impacts, Shown(names \cup note.delta \cup extras, total))
  /\ UNCHANGED <<storeVars, closures, shared, regimes, job, noted>>

ImpactsNext ==
  Known \/ BeginRegime \/ Expand \/ KeepRegime \/ BeginDelta \/ KeepClosure \/ Finalize

ImpactsSpec == ImpactsInit /\ [][ImpactsNext]_impactVars
-----------------------------------------------------------------------------
(* The cells that a change of n goes on to, by the formulas alone.         *)
Uses(c, S) == \E r \in formulas[c], n \in S : Within(n, r)
Downstream(n) ==
  LET grow[k \in 0..Width] ==
        IF k = 0 THEN {}
        ELSE LET last == grow[k - 1] IN last \cup {c \in DOMAIN formulas : Uses(c, {n} \cup last)}
  IN  grow[Width] \ {n}

(* Whatever was asked before, a finding notes all that is downstream of    *)
(* its cell but the cell, and what is shown of it is the beginning of the  *)
(* whole list with the right number of others.                             *)
ImpactsExact ==
  Len(impacts) = Len(findings) =>
    \A k \in DOMAIN findings :
      LET down == Downstream(findings[k].cell)
          whole == down \cup findings[k].extras
      IN  /\ noted[k].all \cup noted[k].delta = down
          /\ noted[k].all \cap noted[k].delta = {}
          /\ impacts[k].first = Smallest(whole, MaxImpacts)
          /\ impacts[k].more = Cardinality(whole) - Cardinality(impacts[k].first)
=============================================================================
