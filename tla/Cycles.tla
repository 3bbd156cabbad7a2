------------------------------- MODULE Cycles --------------------------------
(***************************************************************************)
(* Circular references (FormulaCycleGraph in excel/dependency.py): an edge *)
(* from each formula to the formulas in a range it names, as long as the   *)
(* budget lasts; ranges that come again are answered from a bounded cache; *)
(* the circles are the strongly connected components, found in two passes. *)
(* Cells here are the columns of one row.                                  *)
(***************************************************************************)
EXTENDS Integers, Sequences, FiniteSetsExt

CONSTANTS
  References,  \* sequences of [cell, range] in the order of the workbook
  MaxEdges,    \* max_edges
  MaxCached,   \* max_candidate_cache_entries
  MaxMembers   \* max_candidate_cache_memberships

VARIABLES
  references, taken,      \* those named, and how many have been taken
  edges, missed,          \* _adjacency, omitted_range_references
  cached, held,           \* _candidate_cache, the oldest first; memberships
  visited, stack, order,  \* the walk under way; the cells that the first pass left
  circle, circles         \* the component under way and those found

graphVars == <<references, taken, edges, missed, cached, held>>
walkVars == <<visited, stack, order, circle, circles>>
cycleVars == <<graphVars, walkVars>>

Nodes == {references[i].cell : i \in DOMAIN references}
InRange(r) == {n \in Nodes : r[1] <= n /\ n <= r[2]}
Total(c) ==
  LET sum[k \in 0..Len(c)] == IF k = 0 THEN 0 ELSE sum[k - 1] + Cardinality(c[k].cells)
  IN  sum[Len(c)]

CyclesInit ==
  /\ references \in References
  /\ taken = 0 /\ edges = {} /\ missed = 0 /\ cached = <<>> /\ held = 0
  /\ visited = {} /\ stack = <<>> /\ order = <<>> /\ circle = {} /\ circles = {}
-----------------------------------------------------------------------------
(* add_range, with what _candidates keeps. *)

CachedAt(r) == {k \in DOMAIN cached : cached[k].range = r}
Hit(r) == CHOOSE k \in CachedAt(r) : TRUE
Candidate(r) == IF CachedAt(r) # {} THEN cached[Hit(r)].cells ELSE InRange(r)

(* The oldest go until the new entry fits. *)
Room(new, k) ==
  LET left == SubSeq(cached, k + 1, Len(cached))
  IN  left = <<>> \/ (Len(left) < MaxCached /\ Total(left) + Cardinality(new) <= MaxMembers)
Evicted(new) == Min({k \in 0..Len(cached) : Room(new, k)})

Remember(r, new) ==
  IF CachedAt(r) # {}
  THEN /\ cached' = SubSeq(cached, 1, Hit(r) - 1) \o SubSeq(cached, Hit(r) + 1, Len(cached)) \o <<cached[Hit(r)]>>
       /\ UNCHANGED held
  ELSE IF MaxCached = 0 \/ Cardinality(new) > MaxMembers THEN UNCHANGED <<cached, held>>
  ELSE LET k == Evicted(new)
       IN  /\ cached' = Append(SubSeq(cached, k + 1, Len(cached)), [range |-> r, cells |-> new])
           /\ held' = held - Total(SubSeq(cached, 1, k)) + Cardinality(new)

(* Mutant: as many as the budget allows are added, and no one is told. *)
FittingOne(new) == Cardinality(edges) < MaxEdges
Fitting(new) == Cardinality(edges) + Cardinality(new) <= MaxEdges

AddRange ==
  /\ taken < Len(references)
  /\ LET from == references[taken + 1].cell
         found == Candidate(references[taken + 1].range)
         new == {<<from, n>> : n \in found} \ edges
     IN  /\ Remember(references[taken + 1].range, found)
         /\ IF Fitting(new) THEN edges' = edges \cup new /\ UNCHANGED missed
            ELSE missed' = missed + 1 /\ UNCHANGED edges
  /\ taken' = taken + 1
  /\ UNCHANGED <<references, walkVars>>
-----------------------------------------------------------------------------
(* strongly_connected_components, the first pass: along the edges; a cell  *)
(* is left when all it leads to has been visited.                          *)

Forward(n) == {m \in Nodes : <<n, m>> \in edges}
Top == stack[Len(stack)]
Popped == SubSeq(stack, 1, Len(stack) - 1)
Built == taken = Len(references)
FirstPass == Built /\ Len(order) < Cardinality(Nodes)

StartWalk ==
  /\ FirstPass /\ stack = <<>>
  /\ LET n == Min(Nodes \ visited) IN visited' = visited \cup {n} /\ stack' = <<n>>
  /\ UNCHANGED <<graphVars, order, circle, circles>>

Descend ==
  /\ FirstPass /\ stack # <<>> /\ Forward(Top) \ visited # {}
  /\ LET n == Min(Forward(Top) \ visited) IN visited' = visited \cup {n} /\ stack' = Append(stack, n)
  /\ UNCHANGED <<graphVars, order, circle, circles>>

LeaveCell ==
  /\ FirstPass /\ stack # <<>> /\ Forward(Top) \subseteq visited
  /\ order' = Append(order, Top) /\ stack' = Popped
  /\ visited' = IF Len(order') = Cardinality(Nodes) THEN {} ELSE visited
  /\ UNCHANGED <<graphVars, circle, circles>>
-----------------------------------------------------------------------------
(* The second pass: against the edges, from the cell left last.            *)

(* Mutant: the second pass goes the way of the first. *)
BackwardAsForward(n) == {m \in Nodes : <<n, m>> \in edges}
Backward(n) == {m \in Nodes : <<m, n>> \in edges}
Descending(S) ==
  [k \in 1..Cardinality(S) |-> CHOOSE n \in S : Cardinality({m \in S : m < n}) = Cardinality(S) - k]

SecondPass == Built /\ Nodes # {} /\ Len(order) = Cardinality(Nodes)

StartCircle ==
  /\ SecondPass /\ stack = <<>> /\ circle = {} /\ Nodes \ visited # {}
  /\ LET n == order[Max({k \in DOMAIN order : order[k] \notin visited})]
     IN  visited' = visited \cup {n} /\ stack' = <<n>>
  /\ UNCHANGED <<graphVars, order, circle, circles>>

WidenCircle ==
  /\ SecondPass /\ stack # <<>>
  /\ LET more == Backward(Top) \ visited
     IN  visited' = visited \cup more /\ stack' = Popped \o Descending(more)
  /\ circle' = circle \cup {Top}
  /\ UNCHANGED <<graphVars, order, circles>>

(* Mutant: a formula that names its own cell is no circle. *)
CircularTwo(S) == Cardinality(S) > 1
Circular(S) == Cardinality(S) > 1 \/ \E n \in S : <<n, n>> \in edges

CloseCircle ==
  /\ SecondPass /\ stack = <<>> /\ circle # {}
  /\ circles' = IF Circular(circle) THEN circles \cup {circle} ELSE circles
  /\ circle' = {}
  /\ UNCHANGED <<graphVars, visited, stack, order>>

CyclesNext ==
  \/ AddRange \/ StartWalk \/ Descend \/ LeaveCell
  \/ StartCircle \/ WidenCircle \/ CloseCircle

CyclesSpec == CyclesInit /\ [][CyclesNext]_cycleVars
-----------------------------------------------------------------------------
(* What the formulas say: m can be reached from n. *)
Leads(n) ==
  LET names(S) == {m \in Nodes : \E i \in DOMAIN references :
                     references[i].cell \in S /\ m \in InRange(references[i].range)}
      grow[k \in 0..Cardinality(Nodes)] ==
        IF k = 0 THEN {} ELSE LET last == grow[k - 1] IN last \cup names({n} \cup last)
  IN  grow[Cardinality(Nodes)]
Whole == {{m \in Leads(n) : n \in Leads(m)} : n \in {x \in Nodes : x \in Leads(x)}}

Found == SecondPass /\ visited = Nodes /\ stack = <<>> /\ circle = {}

(* With no reference left out the circles found are those of the formulas, *)
(* and otherwise each is part of one; references are left out only when    *)
(* that is counted, which degrades the coverage item; and the cache holds  *)
(* what it counts, within its limits.                                      *)
CirclesExact ==
  /\ Found /\ missed = 0 => circles = Whole
  /\ Found /\ missed > 0 => \A c \in circles : \E w \in Whole : c \subseteq w
  /\ Cardinality(edges) <= MaxEdges
  /\ held = Total(cached) /\ Len(cached) <= MaxCached /\ (cached # <<>> => held <= MaxMembers)
=============================================================================
