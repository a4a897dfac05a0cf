----------------------------- MODULE MCNvdSync -----------------------------
EXTENDS NvdSync, TLC

NoBackfills == {}
\* Two past ranges: the first regresses the watermark, the second may start at it.
SomeBackfills == {<<0, 1>>, <<1, 2>>}
\* A range that may start after the watermark or end in the future.
GapBackfills == {<<2, 3>>}

Symmetry == Permutations(Run)
=============================================================================
