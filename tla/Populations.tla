---------------------------- MODULE Populations ----------------------------
(***************************************************************************)
(* Changes of many cells reported as one population: candidate findings    *)
(* arrive group by group and in the order of their cells; each group is    *)
(* dropped, written as one population, or marked to be replayed as         *)
(* ordinary findings by a second pass over a copy of all rows              *)
(* (excel/population.py: _GroupAccumulator, finalize_populations).         *)
(***************************************************************************)
EXTENDS Integers, Sequences, FiniteSets, SequencesExt, FiniteSetsExt

CONSTANTS
  Candidates,     \* what was spilled: sequences of [inScope, rows]; a row is
                  \* [cell, base, evidence], a cell is <<row, column>> or None
  Threshold, MaxRectangles, MaxPairs,   \* PopulationPolicy
  None

VARIABLES
  candidates,    \* the groups of the spill, sorted
  group,         \* the group being read
  acc,           \* its _GroupAccumulator
  ordered,       \* rows copied, for the second pass
  decisions,     \* [count, action] per group
  populations,   \* [group, codec] of those accepted
  replayed       \* rows replayed; None during the first pass

popVars == <<candidates, group, acc, ordered, decisions, populations, replayed>>

NewGroup ==
  [count |-> 0, evidence |-> {}, malformed |-> FALSE, row |-> None, columns |-> {},
   previous |-> None, active |-> {}, rectangles |-> {}, offsets |-> {}, pairs |-> {}]

PopInit ==
  /\ candidates \in Candidates
  /\ group = 1 /\ acc = NewGroup
  /\ ordered = <<>> /\ decisions = <<>> /\ populations = <<>> /\ replayed = None
-----------------------------------------------------------------------------
(* A run <<first, last>> of columns is active since a row; a rectangle is  *)
(* [from, to, run].                                                        *)
HorizontalRuns(columns) ==
  {r \in columns \X columns : r[1]..r[2] \subseteq columns /\ r[1] <= r[2]
                                /\ r[1] - 1 \notin columns /\ r[2] + 1 \notin columns}

(* Runs that end after row `to` become rectangles. *)
Closed(a, ended, to) ==
  [a EXCEPT !.active = @ \ ended,
            !.rectangles = @ \cup {[from |-> x.since, to |-> to, run |-> x.run] : x \in ended}]

FlushActive(a) == Closed(a, a.active, a.previous)

(* A run of the row that is not active starts; one that is not in the row ends. *)
RowFlushed(a) ==
  LET runs == HorizontalRuns(a.columns)
      kept == Closed(a, {x \in a.active : x.run \notin runs}, a.row - 1)
      new == runs \ {x.run : x \in kept.active}
  IN [kept EXCEPT !.active = @ \cup {[since |-> a.row, run |-> r] : r \in new},
                  !.previous = a.row, !.columns = {}]

(* Mutant: a run goes on below a row without members. *)
FlushRowOverGap(a) == IF a.row = None THEN a ELSE RowFlushed(a)

FlushRow(a) ==
  IF a.row = None THEN a
  ELSE RowFlushed(IF a.previous # None /\ a.row # a.previous + 1 THEN FlushActive(a) ELSE a)

Observed(a, r) ==
  LET counted == [a EXCEPT !.count = @ + 1, !.evidence = @ \cup {r.evidence}]
      atRow == IF a.row # None /\ a.row # r.cell[1] THEN FlushRow(counted) ELSE counted
      placed == [atRow EXCEPT !.row = r.cell[1], !.columns = @ \cup {r.cell[2]}]
  IN IF r.cell = None THEN [counted EXCEPT !.malformed = TRUE]
     ELSE IF r.base = None THEN placed
     ELSE [placed EXCEPT !.offsets = @ \cup {<<r.base[1] - r.cell[1], r.base[2] - r.cell[2]>>},
                         !.pairs = @ \cup {<<r.cell, r.base>>}]
-----------------------------------------------------------------------------
Finished(a) == LET f == FlushRow(a) IN IF f.previous = None THEN f ELSE FlushActive(f)

(* membership(): the rectangles with one shift for all, or with the pairs; *)
(* None past a cap, or when the pairs do not cover the members.            *)
Membership(a) ==
  LET done == Finished(a)
  IN IF Cardinality(done.rectangles) > MaxRectangles THEN None
     ELSE IF Cardinality(a.offsets) = 1
     THEN [rectangles |-> done.rectangles, shift |-> CHOOSE o \in a.offsets : TRUE, pairs |-> {}]
     ELSE IF Cardinality(a.pairs) = a.count /\ Cardinality(a.pairs) <= MaxPairs
     THEN [rectangles |-> done.rectangles, shift |-> None, pairs |-> a.pairs]
     ELSE None

Action(g, a) ==
  IF ~g.inScope THEN "drop"
  ELSE IF a.malformed \/ a.count < Threshold \/ Cardinality(a.evidence) > 1 THEN "replay"
  ELSE IF Membership(a) = None THEN "replay" ELSE "population"

(* First pass: a row is copied and observed. *)
Observe ==
  /\ group <= Len(candidates) /\ acc.count < Len(candidates[group].rows)
  /\ LET r == candidates[group].rows[acc.count + 1]
     IN ordered' = Append(ordered, r) /\ acc' = Observed(acc, r)
  /\ UNCHANGED <<candidates, group, decisions, populations, replayed>>

DecideGroup ==
  /\ group <= Len(candidates) /\ acc.count = Len(candidates[group].rows)
  /\ LET action == Action(candidates[group], acc)
     IN /\ decisions' = Append(decisions, [count |-> acc.count, action |-> action])
        /\ populations' = IF action = "population"
                          THEN Append(populations, [group |-> group, codec |-> Membership(acc)])
                          ELSE populations
  /\ group' = group + 1 /\ acc' = NewGroup
  /\ UNCHANGED <<candidates, ordered, replayed>>

(* Second pass: each decision consumes its count of the copied rows. *)
Replay ==
  /\ group > Len(candidates) /\ replayed = None
  /\ LET upTo[i \in 0..Len(decisions)] == IF i = 0 THEN 0 ELSE upTo[i - 1] + decisions[i].count
         Part(i) == IF decisions[i].action = "replay"
                    THEN SubSeq(ordered, upTo[i - 1] + 1, upTo[i]) ELSE <<>>
     IN replayed' = FlattenSeq([i \in DOMAIN decisions |-> Part(i)])
  /\ UNCHANGED <<candidates, group, acc, ordered, decisions, populations>>

PopNext == Observe \/ DecideGroup \/ Replay
PopSpec == PopInit /\ [][PopNext]_popVars
-----------------------------------------------------------------------------
Inside(r) == (r.from..r.to) \X (r.run[1]..r.run[2])
CellSet(codec) == UNION {Inside(r) : r \in codec.rectangles}

(* What a reader of the population takes its members to be. *)
Decoded(codec) ==
  IF codec.shift = None THEN codec.pairs
  ELSE {<<c, <<c[1] + codec.shift[1], c[2] + codec.shift[2]>>>> : c \in CellSet(codec)}

(* A population stands for its group and nothing else: its rectangles are  *)
(* disjoint and are the cells of the group, each with the baseline cell it *)
(* was compared with; and the rows of every other group in the scope of    *)
(* the run, and no others, are replayed (finalize_populations; "exact      *)
(* (baseline, current) reconstruction", findings.py:339).                  *)
MembersExact ==
  /\ \A i \in DOMAIN populations :
       LET rows == ToSet(candidates[populations[i].group].rows)
           codec == populations[i].codec
       IN /\ CellSet(codec) = {r.cell : r \in rows}
          /\ \A r, s \in codec.rectangles : r # s => Inside(r) \cap Inside(s) = {}
          /\ Decoded(codec) = {<<r.cell, r.base>> : r \in rows}
  /\ replayed # None =>
       LET asOne == {populations[i].group : i \in DOMAIN populations}
           Apart(i) == candidates[i].inScope /\ i \notin asOne
       IN replayed = FlattenSeq([i \in DOMAIN candidates |->
                                   IF Apart(i) THEN candidates[i].rows ELSE <<>>])
=============================================================================
