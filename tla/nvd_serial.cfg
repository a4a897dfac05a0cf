CONSTANTS
  NumCve = 2
  Run = {r1}
  Window = 1
  Lookback = 1
  PageSize = 2
  UpsertMayFail = TRUE
  EmptyAnswers = TRUE
  Backfills <- SomeBackfills
  CarefulBackfills = TRUE
  MaxTime = 3
SPECIFICATION Spec
INVARIANT LossOnlyByRefusal
PROPERTY KeepsPromise
