------------------------- MODULE MCPositionTracker -------------------------
EXTENDS PositionTracker, TLC
CONSTANTS f1, f2, f3, s1, s2
Sym == Permutations({f1, f2, f3}) \cup Permutations({s1, s2})
=============================================================================
