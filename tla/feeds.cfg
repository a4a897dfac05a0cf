SPECIFICATION MonitorSafety
INVARIANTS NvdPresence OsvWatermark
PROPERTY GithubRunComplete
CONSTANTS
  Parts = {"nvd", "github", "osv"}
  NumCve = 1
  Run = {1, 2}
  Window = 1
  Lookback = 1
  PageSize = 1
  UpsertMayFail = TRUE
  EmptyAnswers = FALSE
  Backfills <- SomeBackfills
  CarefulBackfills = TRUE
  MaxTime = 3
  MayFail = TRUE
  NumAdv = 2
  AdvPerPage = 1
  MayBackfill = TRUE
  GithubMaxTime = 4
  NumVuln = 3
  Gone = {2}
  CheckpointEvery = 2
  MaxItems = 2
  OsvMaxTime = 4
  Fetcher = {}
  Key = {}
  BadKey = {}
  MaxRetries = 1
  Cooldown = 1
  MaxResets = 0
  PageMaxTime = 0
  Reader = {}
  TTL = 1
  MaxTotal = 0
