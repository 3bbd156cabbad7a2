------------------------------- MODULE MCValues -------------------------------
(***************************************************************************)
(* The values that the parts of an analysis share: what stands for nothing,*)
(* the cells that are told apart by name, and the count or score from which*)
(* changes are one population and slides are one pair.  A list is what     *)
(* Python calls one: it has a length, and its places are numbered.         *)
(***************************************************************************)
EXTENDS Integers, Sequences

CONSTANTS None, Cells, Threshold

IsList(s) == Len(s) \in Nat /\ DOMAIN s = 1..Len(s)
=============================================================================
