---------------------------- MODULE MCRunQueue ----------------------------
EXTENDS RunQueue
CONSTANT c1
R2 == 1..2
OwnNames == [c \in Callers |-> c]
===========================================================================
