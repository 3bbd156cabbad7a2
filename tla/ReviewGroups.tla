---------------------------- MODULE ReviewGroups ----------------------------
(***************************************************************************)
(* The groups a run is reviewed by (build_review_groups in review.py and   *)
(* _ReviewGroupAccumulator in review_stream.py): findings of one kind on   *)
(* cells that touch are one group with the rectangles they cover; every    *)
(* other finding is a group of its own.                                    *)
(***************************************************************************)
EXTENDS Integers, Sequences, FiniteSets, SequencesExt

CONSTANTS
  Piles,     \* the sequences of findings to be grouped
  None

(* A finding: its partition key, its cell (None when it is not one to be   *)
(* grouped), and its identity.                                             *)

VARIABLES
  pile,
  partitions,   \* per key: the numbers of its findings, by cell
  pending,      \* cells of the first partition that are in no group yet
  front,        \* the cells whose neighbours are still to be looked at
  component,    \* the cells found from the least one
  entries,      \* the groups made so far
  finished      \* the groups in order, their names made unique

groupVars == <<pile, partitions, pending, front, component, entries, finished>>

Less(c, d) == c[1] < d[1] \/ (c[1] = d[1] /\ c[2] < d[2])
Least(S) == CHOOSE c \in S : \A d \in S \ {c} : Less(c, d)

Eligible(f) == f.cell # None
PartitionKeys == {pile[n].key : n \in {k \in DOMAIN pile : Eligible(pile[k])}}
At(key, c) == {n \in DOMAIN pile : pile[n].key = key /\ pile[n].cell = c}

(* The name is a digest of the key and of what identifies each member, so  *)
(* findings that are alike in all of it share one.                         *)
Name(key, members) == <<key, [i \in {pile[n].identity : n \in members} |->
                                Cardinality({n \in members : pile[n].identity = i})]>>

Singleton(n) ==
  [id |-> Name("singleton", {n}), members |-> {n}, cells |-> {}, ranges |-> {}]

GroupsInit ==
  /\ pile \in Piles
  /\ partitions = PartitionKeys
  /\ pending = {} /\ front = <<>> /\ component = {}
  /\ entries = {Singleton(n) : n \in {k \in DOMAIN pile : ~Eligible(pile[k])}}
  /\ finished = <<>>
-----------------------------------------------------------------------------
(* _rectangles: the rows from the top; a run of columns goes on while the  *)
(* next row has the same run.                                              *)

ColumnsOf(S, row) == {c[2] : c \in {d \in S : d[1] = row}}
Runs(columns) ==
  {r \in columns \X columns :
     /\ r[1] <= r[2] /\ r[1]..r[2] \subseteq columns
     /\ r[1] - 1 \notin columns /\ r[2] + 1 \notin columns}

(* Mutant: a run that grows wider keeps the row it began at. *)
StillOpenIfWithin(active, runs) ==
  {a \in active : \E r \in runs : r[1] <= a[1] /\ a[2] <= r[2]}
StillOpen(active, runs) == {a \in active : <<a[1], a[2]>> \in runs}

(* active holds <<first column, last column, first row>>. *)
Opened(active, runs, row) ==
  active \cup {<<r[1], r[2], row>> : r \in {q \in runs : ~\E a \in active : <<a[1], a[2]>> = q}}

Ended(active, last) == {<<a[3], a[1], last, a[2]>> : a \in active}

(* Rows first to last; an empty row ends every run. *)
Rectangles(S) ==
  LET rows == {c[1] : c \in S}
      first == Min(rows)
      sweep[row \in (first - 1)..(Max(rows) + 1)] ==
        IF row < first THEN [done |-> {}, active |-> {}]
        ELSE LET seen == sweep[row - 1]
                 runs == Runs(ColumnsOf(S, row))
                 on == StillOpen(seen.active, runs)
             IN  [done |-> seen.done \cup Ended(seen.active \ on, row - 1),
                  active |-> Opened(on, runs, row)]
  IN  IF S = {} THEN {} ELSE sweep[Max(rows) + 1].done
-----------------------------------------------------------------------------
(* _spatial_summaries, one partition after the other.                      *)

Current == CHOOSE k \in partitions : TRUE
CellsOf(key) == {pile[n].cell : n \in {k \in DOMAIN pile : pile[k].key = key}} \ {None}
Neighbors(c) == {<<c[1] - 1, c[2]>>, <<c[1] + 1, c[2]>>, <<c[1], c[2] - 1>>, <<c[1], c[2] + 1>>}

Idle == front = <<>> /\ component = {}

BeginPartition ==
  /\ Idle /\ pending = {} /\ partitions # {} /\ finished = <<>>
  /\ pending' = CellsOf(Current)
  /\ UNCHANGED <<pile, partitions, front, component, entries, finished>>

Seed ==
  /\ Idle /\ pending # {}
  /\ LET first == Least(pending) IN
       /\ pending' = pending \ {first} /\ component' = {first} /\ front' = <<first>>
  /\ UNCHANGED <<pile, partitions, entries, finished>>

(* Mutant: only the cells below and to the right are looked at. *)
ReachedOnward(c) == {<<c[1] + 1, c[2]>>, <<c[1], c[2] + 1>>} \cap pending
Reached(c) == Neighbors(c) \cap pending

Spread ==
  /\ front # <<>>
  /\ LET found == Reached(Head(front)) IN
       /\ pending' = pending \ found
       /\ component' = component \cup found
       /\ front' = Tail(front) \o SetToSeq(found)
  /\ UNCHANGED <<pile, partitions, entries, finished>>

CloseGroup ==
  /\ front = <<>> /\ component # {}
  /\ LET members == UNION {At(Current, c) : c \in component}
     IN  entries' = entries \cup
           {[id |-> Name(Current, members), members |-> members, cells |-> component,
             ranges |-> Rectangles(component)]}
  /\ component' = {}
  /\ partitions' = IF pending = {} THEN partitions \ {Current} ELSE partitions
  /\ UNCHANGED <<pile, pending, front, finished>>

(* _finish: in the order of the page (here that of their findings); of     *)
(* groups with one name the later ones are numbered.                       *)
InOrder(groups) ==
  LET firsts == SelectSeq([n \in 1..Len(pile) |-> n], LAMBDA n : \E g \in groups : n = Min(g.members))
  IN  [k \in DOMAIN firsts |-> CHOOSE g \in groups : Min(g.members) = firsts[k]]
Numbered(order, n) ==
  [order[n] EXCEPT !.id = <<@, Cardinality({k \in 1..n : order[k].id = order[n].id})>>]

Finish ==
  /\ Idle /\ pending = {} /\ partitions = {} /\ finished = <<>> /\ entries # {}
  /\ finished' = [n \in 1..Cardinality(entries) |-> Numbered(InOrder(entries), n)]
  /\ UNCHANGED <<pile, partitions, pending, front, component, entries>>

GroupsNext == BeginPartition \/ Seed \/ Spread \/ CloseGroup \/ Finish

GroupsSpec == GroupsInit /\ [][GroupsNext]_groupVars
-----------------------------------------------------------------------------
Covered(rectangle) == (rectangle[1]..rectangle[3]) \X (rectangle[2]..rectangle[4])

(* The cells of a key that can be reached from c. *)
Region(key, c) ==
  LET grow[k \in 0..Len(pile)] ==
        IF k = 0 THEN {c}
        ELSE grow[k - 1] \cup (CellsOf(key) \cap UNION {Neighbors(d) : d \in grow[k - 1]})
  IN  grow[Len(pile)]

(* When it is done each finding is in one group, a group of cells is all   *)
(* that touches, its rectangles cover these cells once, and no two groups  *)
(* have one name.                                                          *)
GroupsExact ==
  finished # <<>> =>
    /\ \A n \in DOMAIN pile : Cardinality({k \in DOMAIN finished : n \in finished[k].members}) = 1
    /\ \A k, l \in DOMAIN finished : finished[k].id = finished[l].id => k = l
    /\ \A k \in DOMAIN finished : LET g == finished[k] IN
         g.cells # {} =>
           /\ \A n \in g.members : g.cells = Region(pile[n].key, pile[n].cell)
           /\ g.cells = UNION {Covered(r) : r \in g.ranges}
           /\ \A q, r \in g.ranges : q # r => Covered(q) \cap Covered(r) = {}
=============================================================================
