--------------------------- MODULE MCAlertSweep ---------------------------
EXTENDS AlertSweep, TLC

Symmetry == Permutations(Sub) \cup Permutations(Event) \cup Permutations(Sweep)
=============================================================================
