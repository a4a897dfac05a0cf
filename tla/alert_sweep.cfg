CONSTANTS
  Sub = {s1}
  Event = {e1}
  Sweep = {w1, w2}
  Take = 1
  Lookback = 0
  MayDelete = TRUE
  MayAbort = TRUE
  MaxTime = 1
  MaxLost = 1
SPECIFICATION FairSpec
INVARIANTS BoundedDuplicates StatusHonest NoAlertMissed
PROPERTY EventuallyRecorded
