CONSTANTS
  Sub = {s1}
  Event = {e1}
  Sweep = {w1}
  Take = 1
  Lookback = 2
  MayDelete = FALSE
  MayAbort = FALSE
  MaxTime = 2
  MaxLost = 0
SPECIFICATION Spec
INVARIANT EveryEventAlerted
