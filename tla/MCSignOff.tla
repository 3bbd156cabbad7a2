----------------------------- MODULE MCSignOff -----------------------------
EXTENDS SignOff, TLC
CONSTANTS d1, v1, k1, f1, f2
Attempts == Permutations({f1, f2})
===========================================================================
