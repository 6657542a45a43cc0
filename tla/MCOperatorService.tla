------------------------- MODULE MCOperatorService -------------------------
\* Every call, and those that set the status, under the lock only.
EXTENDS OperatorService, TLC
EveryCall == {"play", "stop", "emergency_stop", "reconcile", "test_connection"}
Symmetry == Permutations(Thread)
LockedCalls == {"play", "stop", "reconcile"}
=============================================================================
