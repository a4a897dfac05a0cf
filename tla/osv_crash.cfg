CONSTANTS
  NumVuln = 3
  Gone = {}
  CheckpointEvery = 1
  MaxItems = 3
  MayFail = TRUE
  MaxTime = 4
SPECIFICATION Spec
INVARIANT WatermarkSound
