------------------------------- MODULE MCReview -------------------------------
(***************************************************************************)
(* How a review shows the findings of an analysis: as stories and in       *)
(* groups.                                                                 *)
(***************************************************************************)
EXTENDS MCValues, Integers, Sequences, FiniteSets

CONSTANTS
  Tales, Primary,                                 \* Stories
  Piles                                           \* ReviewGroups

VARIABLES
  tale, pass, at, machines, told,
  pile, partitions, pending, front, component, entries, finished

Telling == INSTANCE Stories
Review == INSTANCE ReviewGroups

storyVars == <<tale, pass, at, machines, told>>
groupVars == <<pile, partitions, pending, front, component, entries, finished>>
=============================================================================
