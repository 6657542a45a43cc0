----------------------------- MODULE MCDayRun -----------------------------
EXTENDS DayRun, TLC

CONSTANTS p1, p2, d1, d2, v, w

\* Processes are alike, and so are campaigns.
Symmetry == Permutations(Process) \cup Permutations(Campaign) \cup Permutations(Version)
=============================================================================
