------------------------------ MODULE MCFindings ------------------------------
(***************************************************************************)
(* What becomes of the findings of an analysis: many are told as one       *)
(* population, and all are stored in an order and found by their numbers.  *)
(***************************************************************************)
EXTENDS MCValues, Integers, Sequences, FiniteSets

CONSTANTS
  Candidates, MaxRectangles, MaxPairs,            \* Populations
  Spills, BlockRows, FanIn                        \* SpillMerge

VARIABLES
  spilled, group, acc, ordered, decisions, populations, replayed,
  todo, buffer, blocks, runs, passes, stored

Grouped == INSTANCE Populations WITH candidates <- spilled
Spilled == INSTANCE SpillMerge

popVars == <<spilled, group, acc, ordered, decisions, populations, replayed>>
spillVars == <<todo, buffer, blocks, runs, passes, stored>>
-----------------------------------------------------------------------------
IsCell(c) == c = <<c[1], c[2]>> /\ c[1] \in Int /\ c[2] \in Int

(* The candidates of a group are in the order of their rows, and a group is  *)
(* of one translation: all of it has baseline cells or none has              *)
(* (population_key, CandidateSpill.add).                                     *)
ASSUME PopulationConstants ==
  /\ None \notin Int \cup (Int \X Int)
  /\ \A s \in Candidates :
       /\ IsList(s)
       /\ \A g \in DOMAIN s : LET members == s[g].rows IN
            /\ IsList(members) /\ members = [k \in 1..Len(members) |-> members[k]]
            /\ \A k \in DOMAIN members : members[k].cell # None => IsCell(members[k].cell)
            /\ \A j, k \in DOMAIN members :
                 j < k /\ members[j].cell # None /\ members[k].cell # None
                   => members[j].cell[1] <= members[k].cell[1]
            /\ \/ \A k \in DOMAIN members :
                    members[k].cell # None => members[k].base # None /\ IsCell(members[k].base)
               \/ \A k \in DOMAIN members : members[k].cell # None => members[k].base = None

(* Blocks are not empty, a pass merges two runs at least, and no row is       *)
(* spilled twice: the order of production is part of its key                  *)
(* (BLOCK_FINDINGS, _MERGE_FAN_IN, SpillWriter.append).                       *)
ASSUME SpillConstants ==
  /\ BlockRows \in Nat \ {0} /\ FanIn \in Nat /\ FanIn >= 2
  /\ None \notin Seq(Seq(Seq(Nat)))
  /\ \A s \in Spills : s \in Seq(Nat) /\ \A i, j \in DOMAIN s : i # j => s[i] # s[j]
=============================================================================
