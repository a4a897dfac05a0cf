--------------------------- MODULE MCVulnMonitor ---------------------------
EXTENDS VulnMonitor

NoBackfills == {}

\* Two past ranges: the first regresses the watermark, the second may start at it.
SomeBackfills == {<<0, 1>>, <<1, 2>>}
=============================================================================
