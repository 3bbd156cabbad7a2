------------------------------ MODULE MCContents ------------------------------
(***************************************************************************)
(* The algorithms that compare the contents of two files: the rows of      *)
(* their sheets aligned, the formula texts of a binary workbook, what the  *)
(* formulas of a workbook depend on, and the slides of decks and their     *)
(* elements matched.  They share no state.                                 *)
(***************************************************************************)
EXTENDS MCValues, Integers, Sequences, FiniteSets

CONSTANTS
  Labels, Periods, Regions, Bounds,                   \* RowAlignment
  DefinedNames, Silent, External, MaxNames, MaxReach, \* FormulaText
  Formulas, Findings, Width, Bucket, MaxRange, MaxShared, MaxImpacts, \* Impacts
  References, MaxEdges, MaxCached, MaxMembers,        \* Cycles
  Slides, Decks                                       \* PptMatching

VARIABLES
  base, curr, rule, rows,
  formula, target, local, engine, refused, lost, lostNames, snapshot,
  formulas, graph, findings, closures, shared, regimes, job, noted, impacts,
  references, taken, edges, missed, cached, held, visited, stack, order, circle, circles,
  kind, deck, baseline, current, stage, left, right, pairs, ambiguous, reordered

Align == INSTANCE RowAlignment
Text == INSTANCE FormulaText
Reached == INSTANCE Impacts
Circular == INSTANCE Cycles
Matching == INSTANCE PptMatching

alignVars == <<base, curr, rule, rows>>
textVars == <<formula, target, local, engine, refused, lost, lostNames, snapshot>>
impactVars == <<formulas, graph, findings, closures, shared, regimes, job, noted, impacts>>
cycleVars == <<references, taken, edges, missed, cached, held, visited, stack, order, circle, circles>>
matchVars == <<kind, deck, baseline, current, stage, left, right, pairs, ambiguous, reordered>>
-----------------------------------------------------------------------------
(* A workbook has finitely many names.                                       *)
ASSUME TextConstants == IsFiniteSet(DefinedNames)

(* The rows of a region have keys, and a bound is a row.                     *)
ASSUME AlignConstants ==
  /\ \A r \in Regions : r.min \in Int /\ IsList(r.keys)
  /\ \A b \in Bounds : b # None => b \in Int

(* Cells are numbered, a range is of cells, and so are the extras of a finding. *)
ASSUME ImpactConstants ==
  /\ Width \in Nat /\ Bucket \in Nat \ {0} /\ MaxRange \in Int /\ MaxImpacts \in Nat
  /\ \A book \in Formulas :
       /\ DOMAIN book \subseteq 1..Width
       /\ \A c \in DOMAIN book : \A r \in book[c] :
            r = <<r[1], r[2]>> /\ r[1] \in Nat /\ r[2] \in Nat /\ r[1] <= r[2]
  /\ \A f \in Findings :
       /\ IsList(f)
       /\ \A k \in DOMAIN f : /\ f[k].cell \in 1..Width
                              /\ IsFiniteSet(f[k].extras) /\ \A x \in f[k].extras : x \in Int

ASSUME CycleConstants ==
  /\ MaxEdges \in Nat /\ MaxCached \in Nat /\ MaxMembers \in Nat
  /\ \A s \in References :
       /\ IsList(s)
       /\ \A i \in DOMAIN s : s[i].cell \in Int /\ s[i].range[1] \in Int /\ s[i].range[2] \in Int

(* Decks are lists of slides, and slides of elements; pairs of them score.   *)
ASSUME MatchingConstants ==
  /\ Threshold \in Int
  /\ \A s \in Slides : IsList(s[1]) /\ IsList(s[2])
  /\ \A d \in Decks :
       /\ IsList(d.baseline) /\ IsList(d.current)
       /\ \A p \in (DOMAIN d.baseline) \X (DOMAIN d.current) : d.score[p] \in Int
       /\ IsList(d.pins) /\ \A n \in DOMAIN d.pins : d.pins[n] = <<d.pins[n][1], d.pins[n][2]>>
=============================================================================
