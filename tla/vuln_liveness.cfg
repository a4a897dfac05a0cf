SPECIFICATION MonitorSpec
INVARIANTS PageRequests SyncVisible
PROPERTIES VersionsStored NewKeyTried
CONSTANTS
  Parts = {"nvd", "page", "totals"}
  NumCve = 1
  Run = {1}
  Window = 1
  Lookback = 1
  PageSize = 2
  UpsertMayFail = FALSE
  EmptyAnswers = FALSE
  Backfills <- NoBackfills
  CarefulBackfills = TRUE
  MaxTime = 4
  Fetcher = {1, 2}
  Key = {"old", "new"}
  BadKey = {"old"}
  MaxRetries = 2
  Cooldown = 1
  MaxResets = 2
  PageMaxTime = 1
  Reader = {1, 2}
  TTL = 1
  MaxTotal = 2
  MayFail = FALSE
  NumAdv = 1
  AdvPerPage = 1
  MayBackfill = FALSE
  GithubMaxTime = 1
  NumVuln = 1
  Gone = {}
  CheckpointEvery = 1
  MaxItems = 1
  OsvMaxTime = 1
