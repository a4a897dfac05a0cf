# Verification of the Cogni-Threat backend

TLA+ models of the parts of the backend whose correctness depends on the order of
things: overlapping cron runs and requests, database writes between awaits, restarts,
failed calls. Each module translates the code under `src/src`; `PROJECT.json` gives, for
every definition, the file and the lines it stands for. `tlc -config X.cfg M` checks a
run, `tlapm M.tla` checks the proofs of a module.

Paths below are relative to `src/src/modules` of the repository unless they say
otherwise; "README.md:n" is the README of the repository itself.

## 1. Inventory

The backend is one NestJS process on one Node event loop, with one PostgreSQL database
(Prisma). All concurrency is interleaving at awaits: cron jobs, HTTP requests and
Telegram callbacks run in the same process, share singletons, and see each other's
database writes. There are no queues and no locks except an advisory lock in the vector
purge. A restart loses every local variable and singleton and keeps the database.

| Component | State | Operations | What is hard | What makes it correct | Module |
|---|---|---|---|---|---|
| Vulnerability collectors (`vuln-monitor/collectors`) and sync state | one row per source in `vuln_sync_state` (`lastSyncAt`, `lastCursor`, `lastError`), rows of `vuln_cves`, `rejectedKey`, locals of each run | `sync()` by a 30 minute cron, `POST /sync/trigger`, `POST /sync/backfill`; NVD: windows and pages; GitHub: cursor; OSV: newest-first list with checkpoints | runs overlap; failures and restarts between two windows; the upstream list moves while it is read; single upserts fail; retries share a flag | what the watermark claims is stored; every version is stored in the end; a page costs bounded requests | `SyncState`, `NvdSync`, `SyncPromise`, `NvdFetch`, `GithubSync`, `OsvSync` |
| KEV and EPSS collectors, CVE store (`vuln-cve.repository.ts`), severity backfill | `vuln_cves` | read, merge, write of `upsert()`; full refreshes; the script | lost updates between four sources and a batch | label and score are of one source; without an overlap only lists are replaced; KEV and EPSS values come back | `CveStore` |
| Queries and statistics cache | an in-memory cache | list, stats, invalidate after a sync | a computation that spans an invalidation | an answer after a sync counts what it stored | `StatsCache` |
| Alert sweep (`alerts/alert-processor.service.ts`) | `monitored_services.lastCheck`, `alert_history`, locals of each sweep | 5 minute cron, `POST /alerts/trigger-manual-check`, `dispatchEvent` | sweeps overlap; a delivery precedes its row; one failure ends a source but not `lastCheck`; events are stored later than they are stamped | no event that a sweep took up is missed; deliveries are bounded; the inbox tells the truth | `AlertSweep` |
| Subscriptions, channels, watch profiles, inbox | tables | CRUD | an update in two statements under a sweep; look-ups that no longer hold at the write | the items of one update; no event passed over silently; only a change since its look-up makes a request fail | `WatchProfiles` |
| Telegram monitor (`telegram-channel.service.ts`) | the client, handlers, reconnect flag and timers | connect, watchdog, reload, restart | several reconnects in flight; messages missed in an outage | one client; only listed channels; no message lost | `TelegramMonitor` |
| Telegram login (`platform-secrets`) | the pending login and its timer | start, code, password, cancel, expiry | expiry, or another start, against a login under way | the session stored was signed in; a pending login can be answered | `TelegramLogin` |
| Secret store and cache (`shared/secret-store`) | `platform_secrets`, a cache | get, set, delete | a read that fills the cache after a write cleared it | no value older than the last write stays cached | `SecretStore` |
| Ransomware sync, data sources and recovery | groups, victims, `data_source.lastSync`, progress of the groups job | list refresh, detail sync, victims by country, recovery at boot | overlapping syncs; partial failure that counts as success | progress is honest; details are kept; groups and victims are current in the end | `GroupsSync`, `RansomwareRecovery` |
| AI ingestion, vector index, purge (`ai-chat/ingestion`, `ai-chat/vector`) | chunk tables, `ai_sync_states`, `running`, `manualPaused`, number of chats | `ingestAll`, pause and resume, chat priority, `purge` | a waiter parked on a promise; a purge against a run; failure between delete and insert | the watermark claims what is indexed; nobody sleeps for ever; a purge leaves no pause | `EmbeddingIndex` |
| AI chat: conversations, orchestrator, tools | messages, sizes of a turn, the capability cache | ask, tool loop, fallback chain | sizes that add up; the model changed under a turn; concurrent questions | every prompt fits; the loop ends; the model blamed is the one asked; the history is the last turns | `ContextBudget`, `ToolSupport`, `Conversation` |
| Risk operations | risks, treatments, controls, KPIs | CRUD, scores | read, compute, write; look up, then link | scores follow factors; a link is the one last asked for; look-ups hold | `RiskRegister`, `RiskLinks` |
| Actors | actors, milestones, their chunks | update with list, edits of a milestone, ingestion | a deletion computed from what was read; an ingestion over many awaits | nothing unseen is deleted; chunks follow | `Actors` |
| Authentication and guards | users, tokens | login, register, guards, administration | a token outlives rights; administrators act on each other | guards read the row; an administrator is left | `Accounts`, `IpWhitelist` |
| Dashboard, health, storage, configuration, scripts | none between requests | queries, I/O | none | - | - |

How they interact. The collectors fill `vuln_cves` through the CVE store; the alert
sweep reads `vuln_cves`, the victims and the channel messages by their own time stamps;
the ingestion reads the same tables by `updatedAt`; a chat holds the ingestion back while
it is answered; the secrets feed the NVD key, the GitHub token, the bot token and the
Telegram session. The components know of each other only through tables and stamps,
which is why the watermarks, `lastCheck` and `ai_sync_states` come first.
The appearance of a single event loop is deceptive: nearly every hazard below is a value
read before an await and used after it.

`PROJECT.json` lists the hazards of the code at their lines, each with the properties that
would catch it going wrong or a note that says why none does.

## 2. Plan

Done, in this order: `SyncState`; `NvdSync` with `SyncPromise`; `GithubSync` and
`OsvSync`; `AlertSweep`; `EmbeddingIndex`; then `CveStore`, `NvdFetch` and `StatsCache`;
`SecretStore`, `TelegramLogin` and `TelegramMonitor`; `GroupsSync` and
`RansomwareRecovery`; `ContextBudget`, `ToolSupport` and `Conversation`; `RiskRegister`,
`RiskLinks`, `WatchProfiles`, `Actors`, `Accounts` and `IpWhitelist`; the compositions
`VulnMonitor`, `Telegram`, `Ransomware`, `AiChat` and `BackOffice`; and the proofs of every
invariant and action property that a passing run checks (section 6).

Left, the most important first:

1. `NvdPresence` with windows of several pages as long as nothing is modified between two of
   them.
2. Liveness of the ingestion under chats that keep overlapping.
3. A sweep that reads the rows of `CveStore` while collectors write them, in one module.

## 3. Modules and the code

In every module an action is the code between two awaits; `pc` names the await at which
the process stands and the other fields of its record are its local variables. Instants
are natural numbers, `Null` is a NULL column. Variables commented "history" are not in
the code; they record what a property needs and no guard of the code reads them (in
`AlertSweep`, `lost` carries the bound `MaxLost`).

### SyncState
`MarkProgress`, `MarkSuccess`, `MarkError` are the three writes of
`sync-state.repository.ts`, with their differences: progress keeps an omitted cursor and
an old error, success erases both.

### NvdSync
`nvd.collector.ts`, `date-range.util.ts`. State: `upstream` (at NVD), `store` (the
version each row of `vuln_cves` holds), `row`, one record per run.

| Action | Code |
|---|---|
| `ReadWatermark`, `PlanRange` | `sync()` up to `splitDateRange`, which throws outside the try on an empty range |
| `Backfill` | `sync(since, until)`; the DTO demands `since < until` |
| `FetchPage`, `EmptyPage` | one page, its total taken from index 0 only; an answer without body or list |
| `FindExisting`, `Write`, `UpsertFails` | `upsert()`: lookup, then create or update; its error is collected |
| `EndPage` | the do-while over `startIndex` |
| `Progress`, `Success`, `Fail`, `Reject` | `markProgress` after a window, `markSuccess`, `markError`, or nothing recorded |
| `Crash` | restart |

A CVE's content is the instant of its last modification: the properties ask only which
version is stored. What a row keeps when two sources merge is the matter of `CveStore`,
the retries inside one page that of `NvdFetch`.

### SyncPromise
What README.md:212 promises of a source, without runs, pages or windows: the watermark
may be set only where the copy below it is complete, up to versions explicitly given up
on. `NvdSync` maps to it with `Item <- Cve`, `watermark <- row.lastSyncAt`.

### GithubSync
`github-advisory.collector.ts`. The cursor is opaque to the code; it is modelled as the
position of an advisory in the order (updatedAt, id) the query asks for. Withdrawn
advisories are passed over and are left out. One run is in flight at a time: overlap is
studied on NVD.

### OsvSync
`osv.collector.ts`: the list of modified ids, newest first, cut at a cap for an
incremental manual sync; entries one by one; a checkpoint every `CheckpointEvery`
entries. One run at a time. The download of the list takes an instant; `ListFails` is a
request refused or a download that breaks off. The history variable `passed` collects the
versions that the watermark is moved past undone: by a checkpoint, those still to do or
failed (`left`); by a capped run, those beyond the cap.

### AlertSweep
`alert-processor.service.ts` for one of its three sources (they differ in the table they
read), plus `deleteSubscription`. `Begin` takes the snapshot of subscriptions,
`ReadSince` reads `lastCheck`, `Query` takes the newest `Take` events, `Check` / `Send` /
`Record` are the three parts of `dispatchEvent` with awaits between them, `RecordFails`
its rethrown error, `Finish` the `finally`. Every event matches every subscription:
filters only remove pairs, and pairs do not influence each other except by ending a
source. `Store` puts an event into the database at any time, under any stamp not later than
now: the stamps are those of the sources. Two history variables account for what goes
unseen: `out[w]`, what sweep `w` leaves out although it has no row (stored behind its query,
cut off by `Take`, too old for the default look-back, or behind an error), and `missed`,
what `lastCheck` is then moved past, or was past already when it was stored.

### EmbeddingIndex
`ingestion.service.ts`, `embedding-sync-control.service.ts`, `vector-purge.service.ts`,
`vector.repository.ts`, for one of the five sources. `Gate` and `Notify` are the two
halves of `waitIfPaused`: a released waiter does not look at the pause again. The gate is
passed at the start, before the first batch and between batches. `PurgeBegin`,
`PurgeLock`, `PurgeCommit` / `PurgeFails`, `PurgeEnd` follow the transaction of a purge.

### NvdFetch
`fetchPage()` and the head of `sync()` of `nvd.collector.ts`, for one page of each of two
runs. `Start` clears `rejectedKey` when the key changed or the cooldown is over; `Send`
decides whether the key goes along; `KeyRejected` (404 or 403 with a key), `RateLimited`
and `Done` are the answers. `resets` counts clears of `rejectedKey` by other runs while a
page is fetched: the code says that the branch of a rejected key cannot run twice for a
page; it can, once more for every reset.

### CveStore
`vuln-cve.repository.ts` `upsert()` for one row: `Find` or `FindKev` reads it, `Write`
merges with what was read and writes, with KEV, NVD, GitHub and OSV in flight at the same
time; the references and the packages of the row are not merged but replaced, by null when
the source has none (`MergedList`); `RefreshEpss` and the severity script (`ReadBatch`, `WriteBatch`) are single
statements over the same columns. `Resolve` and `SeverityFromScore` are the functions of
`cvss.util.ts` above the arithmetic of a vector; the score of a vector is data.

### StatsCache
`vuln-monitor.service.ts`: `Ask` looks into the cache, `Count` queries the database,
`Fill` writes the cache and answers; `Store` is a row stored by a collector, `StartJob`,
`EndJob` and `JobThrows` a manual sync with the invalidation that follows it.

### SecretStore
`secrets.service.ts` for one secret: `GetMisses`, `Query`, `Fill` are `get()`; `Put` and
`Forget` the two halves of `set()` and `clear()`; `Restart` empties the cache. The history
variable `raced` is set while a read began before a write and filled the cache after it.

### TelegramLogin
`telegram-auth.service.ts`: `Start`, `Discarded`, `Connect`, `CodeSent` / `CodeFails` are
`startLogin()`; `Answer` with `SignedIn`, `PasswordNeeded`, `Refused` the code and the
password; `Store` and `Finished` are `finish()`; `Expire` is the end of the five minutes a
login has. Each request is resumed with whatever `pending` is by then.

### TelegramMonitor
`telegram-channel.service.ts`. Three tasks share the client: `initialize` (boot, and
`restartWithFreshSession()` after a login), `reload` and `reconnect`. Each walks through
load, destroy, connect, listen, resolve and fetch; only `reconnect` is excluded by
`isReconnecting`. `Publish`, `Deliver` and `LoseConnection` are Telegram. `overlap`
(history) is set while two tasks were under way together: what is claimed is claimed of
tasks that do not overlap, and two that do leave two connections.

### GroupsSync
`RefreshList` (`ReadList`, `SaveListed`, `ListDone`) is `getGroups()`; a detail sync is
`Trigger` (followed, with a snapshot of its progress) or `SyncGroups` (recovery and
night, not followed), then batches of requests, saves and the stamp; `RefreshGroup` is the
refresh of one group; `Fails` any of the calls that may fail.

### RansomwareRecovery
`Boot` decides by `lastSync`; `StartSync`, the fetches by country or of the recent
victims, `Save` and the stamp are `syncData()` and `getVictimsByCountry()` with one
request at a time; `Crash`, `Age` (`RANSOMWARE_RECOVERY_STALE_HOURS` pass) and `DeleteSource` are the
environment. `lastSync` is "none" (no row), "never", "old" or "recent". A sync that fails
leaves it, but for the one an administrator asks of the data source, which stamps it all the
same (`SaveFails`).

### ContextBudget
The loop of `chat-orchestrator.ts` with the arithmetic of `context-budget.ts` in
estimated tokens: `Select` (the block of selected sources), `Ask`, `CallTools`,
`Execute`, `LeaveLoop`, `Answer`, `EmptyAnswer`, `Fail`, `Close`. What is trimmed, in
which order and down to what, is the code's; texts are their sizes.

### ToolSupport
`rag.service.ts` and `model-capability.service.ts`: tools, else the router, else
retrieval, with the cache of what each model supports and its expiry. `ChangeModel` is an
administrator who changes the configured model under a turn.

### Conversation
`ai-chat.service.ts` `ask()`: `Start` looks the conversation up, `Store` the question,
`Read` its first messages, `Answer` or `NoAnswer` after the model, `SetTitle`.

### RiskRegister, RiskLinks
`updateRisk()` and `updateTreatment()` as `Read` and `Write` of one row;
`createKpi()` and `updateKpi()` as look-up (`EnsureKpi`) and write (`WriteKpi`),
`createAction()` likewise, `updateAction()` in one statement that looks nothing up, against
deletions with `onDelete` of the schema. `asked` (history) is the control that the last
request answered gave a row, `saw` what a request looked up and found, `lost` what of that
was gone when it failed.

### WatchProfiles
`update()` of a watch profile as `Own`, `Empty`, `Write` (its two statements); creation of
a subscription as `Validate`, `Subscribe`; its update as `FindSubscription`, `EnsureChannel`,
`Resubscribe`, its deletion as `FindSubscription`, `Unsubscribe`; deletion of a channel as
`CountSubscriptions`, `DeleteChannel`; a sweep as `Sweep`, `Load`, `Match`.

### Actors
`updateActor()` reads the milestones, writes the actor and the list, deletes what is not
in it; milestones are also edited, moved and removed on their own. The ingestion is the
steps between its awaits: `IngestRead` reads the actors whose `updatedAt` moved,
`IngestDelete` and `IngestInsert` replace the chunks of one of them by what was read,
`IngestStamp` moves the watermark to the time of the end, `IngestFails` ends it before that.
`aside` (history) names the actors with a milestone changed on its own since they were read,
`late` those updated between the read and the end.

### Accounts
`Login`, `Register`, the guards (`Begin`) and the handler that runs later (`UpdateUser`,
`DeleteUser`, `Handle`), and `bootstrap-admin.service.ts` at `Restart`.

### IpWhitelist
`canActivate()` with the 32-bit shifts of JavaScript on a word of `Width` bits.

### VulnMonitor, Telegram, Ransomware, AiChat, BackOffice
Components that share no state of these models are put side by side, one per behaviour:
the variable `part`, chosen in `Init`, says which, and the others stay as they are. The
state spaces add up and do not multiply. Each of the five takes the constants of its parts
as its own, so what is proved of it is proved of every instance of each part;
`VulnMonitor` extends `NvdSync`, whose proofs it uses, and its `Parts` says which of the
five parts a run looks at. A property of such a module is the property of one component,
or the conjunction of those that answer one question: `LookUpsHold`, `ProfileWhole`,
`BudgetKept`, `ProgressHonest` and `OneConnection` are conjunctions. Fairness is that of
each component in its part; the specification without it is `MonitorSafety` in
`VulnMonitor`. The `MC` modules define the
constants that a configuration cannot write down: `Of`, ranges of backfills, documents.

`TypeOK` of a module documents its variables. It is proved for NVD, the alerts and the row
of a CVE, and the runs do not list it.

## 4. Runs

| Run | Instance | Checks | Shows | Distinct states |
|---|---|---|---|---|
| `nvd_serial` | 1 run, 2 CVEs, windows of 1, backfills, refusals, empty answers | `LossOnlyByRefusal`, `KeepsPromise` | the watermark passes only what is stored or was refused; the collector implements `SyncPromise` | 1.6 M |
| `feeds` | NVD with 2 overlapping runs; GitHub with 2 advisories, pages of 1, backfills, failures; OSV with 3 entries, one gone, a checkpoint at the second done, a cap of 2 | `NvdPresence`, `GithubRunComplete`, `OsvWatermark` | a claimed CVE may be stale but has a row; a successful GitHub run has settled its interval although the order moves; the OSV watermark passes nothing undone but what a checkpoint or the cap leaves behind | 7.9 M |
| `vuln_liveness` | the NVD windows; one page in 2 runs with a bad key and a replacement; the totals with 2 readers; fair but for the totals | `PageRequests`, `SyncVisible`, `VersionsStored`, `NewKeyTried` | failures and restarts only delay a version; a page costs bounded requests, one more for every reset of the rejected key; a new key is tried; an answer after a sync counts what it stored unless a count was in flight | 46 k |
| `cve_store` | the row of one CVE, NVD, GitHub and OSV delivering once each, two of them in flight together with KEV, EPSS and the script | `LabelFollowsScore`, `MergeErasesOnlyLists`, `BackfillOverwritesNothing`, `RefreshesRestore` | label and score stay of one source whatever overlaps; an upsert alone erases nothing but the lists it replaces; what an overlap undoes of KEV and EPSS comes back | 0.70 M |
| `alert_sweep` | 2 overlapping sweeps, every failure, deletion and restart, an event stored at any time; fair | `BoundedDuplicates`, `StatusHonest`, `NoAlertMissed`, `EventuallyRecorded` | alerts repeat only so often; the inbox does not misreport; what a sweep took up has its row once `lastCheck` is past it, and in the end | 54 k |
| `telegram` | one secret and 3 calls; 3 logins and 2 requests; one channel, one message, 2 clients, fair | `CacheCurrent`, `StoredIsAuthorized`, `PendingUsable`, `OneConnection`, `NothingMissed` | only the overlaps named leave an old secret, a session not signed in or a second client; no message is missed while the watchdog runs | 0.46 M |
| `ransomware` | 2 groups in batches of 1, 2 followed syncs and one that is not; one victim, 2 countries, 2 versions; fair | `ProgressHonest`, `DetailsKept`, `GroupsCurrent`, `VictimsRecovered` | the progress is that of the one followed job; a refresh of the list keeps the details; everything is current in the end | 0.31 M |
| `ai_chat` | 2 entities, 1 purge, 1 chat; a turn with the defaults of `.env`; 2 turns and 2 models; 3 questions | `IndexSound`, `NoLostWakeup`, `PauseAccounted`, `BudgetKept`, `BlameNeedsChange`, `ShortSendsLast`, `SupportSeen` | index and watermarks agree, no waiter and no pause is left behind; every prompt fits and the turn ends; no capable model is blamed unless it was changed | 0.52 M |
| `back_office` | 3 updates of a risk; 3 requests for links; 3 edits, 2 channels and 2 requests; 2 actors, 2 milestones, 3 requests; 2 accounts; words of 4 bits | `ScoresFollow`, `LookUpsHold`, `ProfileWhole`, `NothingUnseenDeleted`, `ChunksFollowActor`, `AdminLeft`, `AllowsExactlyTheBlocks` | what people edit keeps together what belongs together, but for the overlaps the properties name | 2.5 M |
| `osv_crash` | a checkpoint after every entry | `WatermarkSound` | violated, see findings | - |
| `alert_late` | one sweep, one event, no failure | `EveryEventAlerted` | violated, see findings | - |
| `chat_history` | 8 questions, one after the other | `SendsLastMessages` | violated, see findings | - |

### Bounds
`MaxTime` and `LastDay` stop a clock; `MaxChats`, `MaxLost`, `MaxLogin`, `MaxChanges`,
`MaxVersion`, `MaxTotal`, `MaxText`, `MaxSteps` of `Accounts`, `MaxEvents` and
`Deliveries` cap counters; sets commented "bound" are the requests ever sent or in
flight together. Everything else is a parameter of the code, scaled down from days and
hundreds.

- NVD. With `Window` 1 and `MaxTime` 3 a range has up to two windows, so a failure can
  fall between them and a boundary lies inside the range; two CVEs give a window with one
  of them settled and one pending; two runs are enough for one to overtake the other.
- GitHub and OSV. `PageSize` 1 with two advisories makes every run turn a page, and
  `GithubMaxTime` 4 leaves a run with an interval of its own the time in which an advisory
  moves while the pages are read. Three entries with one gone leave two to process, with a
  checkpoint at the second; a cap of 2 cuts one of three off.
- A page. Two runs and two keys suffice for a run that starts to clear the flag the other
  relies on; `MaxRetries` 2 leaves a retry to be spent after it, and `MaxResets` 2 pages that
  met a reset, to which the bound on requests applies.
- The row of a CVE. A score without a severity (CVSS 2.0), a severity without a score, and
  two OSV documents, one with three vectors, are the cases `mergeSeverity` and `Resolve`
  tell apart. Two upserts besides KEV may overlap; each source delivers once, so a later
  upsert is that of another source.
- Alerts. Two sweeps are enough for both to look before either writes, and for an event to be
  stored behind the query of one and before that of the other. With one event and one
  subscription nothing is cut off by `Take` and no pair is behind another one that fails:
  those cases are left to the proof, which has any number of both.
- Telegram. Three calls of the secret store are a read, a write and one more of either;
  three logins and two requests let a start fall between the answer and `finish()` of
  another; all three tasks of the monitor are there, with two clients to hold.
- Ransomware. Two groups in batches of one make a sync fail between batches; two followed
  syncs and one that is not are the ways they can meet; two countries let one fail.
- Assistant. Two entities with batches of one make the ingestion stop at the gate with
  work left. The window, the caps and the steps of a turn are those of the repository;
  texts take the sizes on each side of every cut. Two models, one with tools, are what a
  changed configuration tells apart.
- Back office. Three updates let two overlap and a third come after them. Three requests for
  links are a creation, an update of the row it made and another that overlaps, with the
  deletions between any two steps; two channels let a subscription move from one to another
  while the first, or the second, is deleted. `Width` 4 stands
  for 32: a shift by the width, and every prefix and pair of addresses, occur.

`EmbeddingIndex` also holds with `MaxTime` 3, and what section 6 lists is proved for every
size, under the assumptions it names. No run uses symmetry.

Deadlock is checked where a cron can always start another run. It is not checked in
`ai_chat`, `chat_history` and `back_office`: questions, turns and requests are sent a
bounded number of times there, and when they have been answered nothing is left to do.

### Instances kept out of the runs
They show, one each, that an assumption is needed, or where a promise of the repository
fails in another way. TLC finds the property violated in each.

| Module, property | Constants | What happens |
|---|---|---|
| NvdSync, `WatermarkSound` ("overlap") | `NumCve` 1, two runs, no backfill, no refusals | cron, manual trigger and backfill do not exclude each other (`nvd.collector.ts:147`): a run that fetched an older version writes it after one that stored the newer one, and the watermark is past both; `NvdPresence` shows the damage is limited to staleness |
| NvdSync, `WatermarkSound` ("paging") | `NumCve` 2, one run, `Window` 2, `PageSize` 1, no backfill, `MaxTime` 3 | a CVE of the first page is modified, leaves the window, and the list shifts under `startIndex`: a CVE is on neither page |
| NvdSync, `WatermarkSound` ("gap") | `NumCve` 1, `Window` 1, `PageSize` 1, `Backfills <- GapBackfills`, `CarefulBackfills` FALSE | a backfill of a later or future range moves the watermark over the gap before it; after one with a future end no run gets through until the clock passes it, because `splitDateRange` throws |
| NvdSync, `WatermarkSound` ("empty") | `NumCve` 1, `Window` 2, `PageSize` 2, `EmptyAnswers` TRUE | a 200 answer without a list counts as an empty window |
| NvdSync, `WatermarkSound` ("refused") | `NumCve` 1, `Window` 2, `PageSize` 2, `UpsertMayFail` TRUE | the upsert error is collected and the watermark moves |
| GithubSync, `WatermarkSound` | `NumAdv` 3, `PageSize` 1, `Lookback` 1, no backfill, no failure, `MaxTime` 4 | the watermark is the end of the run: an update after the last query is claimed and not stored |
| GithubSync, `BackfillComplete` | `NumAdv` 3, backfills, no failure | a backfill starts from the stored cursor of the last run whatever date it is asked for (`github-advisory.collector.ts:74`); README.md:226 calls it "Backfill por fecha" |
| OsvSync, `WatermarkSound` ("capped") | `NumVuln` 3, `Gone` {2}, `CheckpointEvery` 3, `MaxItems` 1, no failure, `MaxTime` 4 | an incremental manual sync takes the newest entries and moves the watermark to the oldest of them |
| EmbeddingIndex, `IndexSound` | `CarefulAdmin` FALSE, or two purges | the pause is lifted during a purge, an ingestion runs into the TRUNCATE and writes a watermark over rows no longer indexed |

The GitHub row on the watermark matters less than it looks: the next run starts from the
stored cursor as well as from the watermark, and `GithubRunComplete` shows what a run does
guarantee.

More disagreements are excluded by the wording of a property, which names them: milestones
edited on their own leave the chunks of their actor stale until its next update, and so does
an update of the actor between the read and the end of an ingestion, whose watermark is the
time of its end (`aside` and `late` in `ChunksFollowActor`); an upsert replaces the lists of
references and packages, by null when its source has none (`MergeErasesOnlyLists`); events
are left unalerted that were stored late or during a sweep, cut off at 500, older than the
look-back of the first sweep, without a bot token, or behind an insert that failed, be it of
a subscription that was deleted meanwhile (`missed` in `NoAlertMissed`); a residual factor
that is cleared keeps counting (`cleared` in `ScoresFollow`); a sync of the ransomware victims whose two fetches both
failed still reports success and moves `lastSync` (`ransomware.service.ts:528`), and the sync
of a data source moves it even when failure is reported (`data-sources.service.ts:149-156`):
`VictimsRecovered` rests on the nightly sync, which does not ask for it; a block of prefix 0
admits its network address alone (`AllowsExactlyTheBlocks`).

## 5. Fairness

- `NvdSync`: weak fairness of the clock and of the start of a run (the 30 minute cron
  fires for as long as the process is up), strong fairness of each step of a run. Strong,
  because a failure or a restart may disable a step again and again: the assumption is
  that not every attempt ends at the same point. Backfills, failures, restarts
  and refusals have no fairness. Without the strong part a page that is refused for ever
  is a counterexample, as it is in reality.
- `NvdFetch`: weak fairness of start, request and answer (axios has a timeout), and strong
  fairness of an answer that ends the page: the resets by other runs come half an hour
  apart, and `MaxResets` bounds the count. A key change has no fairness.
- `CveStore`: weak fairness of reading the KEV list (cron) and of the daily EPSS refresh,
  strong fairness of the write of KEV, which a restart may cut off. The upserts of the
  other sources, the script and the failures have none.
- `AlertSweep`: in the slot of the cron, strong fairness of a scheduled start (manual checks
  may take the slot in between, but not for ever) and of each step of a scheduled sweep, weak
  fairness of whatever runs there. Deletions, failures, restarts and manual checks have none.
  Deliveries may fail for ever: an ERROR row is a row, and the code does not try again.
- `TelegramMonitor`: weak fairness of the steps of the tasks and of the watchdog (two
  timers); connections are not lost for ever (`<>[]`); connecting, resolving and fetching
  succeed at last in a reconnection that is tried for ever. `NothingMissed` is about
  messages while the watchdog runs.
- `GroupsSync`: weak fairness of the list refresh (cron) and of the steps of a sync, strong
  fairness of the save of each listed group. `RansomwareRecovery`: weak fairness of the
  boot, of the nightly cron and of the steps, strong fairness of the answer for each
  country with a victim and of its save at night, and no crash for ever.
- `ToolSupport`: weak fairness of the steps of a turn (every request has a deadline) and of
  the expiry of a cached answer. Asking and changing the model have none.

The other runs check safety only.

## 6. Proofs

Proved for every value of the constants, by tlapm:

| Theorem | Statement | Assumes (besides the module's ASSUME) |
|---|---|---|
| `NvdSync_proofs!TypeCorrect` | `Spec => []TypeOK` | - |
| `NvdSync_proofs!NothingElseLost` | `Spec => []LossOnlyByRefusal` | `Serial`, `SinglePage`, `CarefulBackfills` |
| `NvdSync_proofs!WatermarkCorrect` | `Spec => []WatermarkSound` | the same, no refusals, no empty answers |
| `NvdSync_proofs!PromiseKept` | `Spec => KeepsPromise` | `Serial`, `SinglePage`, `CarefulBackfills` |
| `NvdSync_proofs!PresenceCorrect` | `Spec => []PresenceSound` | `SinglePage`, `CarefulBackfills` |
| `VulnMonitor_proofs!NvdPresenceCorrect` | `MonitorSafety => []NvdPresence` | `SinglePage`, `CarefulBackfills` |
| `VulnMonitor_proofs!OsvWatermarkCorrect` | `MonitorSafety => []OsvWatermark` | - |
| `VulnMonitor_proofs!GithubRunCorrect` | `MonitorSafety => GithubRunComplete` | - |
| `VulnMonitor_proofs!RequestsCorrect` | `MonitorSafety => []PageRequests` | - |
| `VulnMonitor_proofs!SyncVisibleCorrect` | `MonitorSafety => []SyncVisible` | - |
| `AlertSweep_proofs!TypeCorrect` | `Spec => []TypeOK` | - |
| `AlertSweep_proofs!StatusCorrect` | `Spec => []StatusHonest` | - |
| `AlertSweep_proofs!DuplicatesBounded` | `Spec => []BoundedDuplicates` | - |
| `AlertSweep_proofs!AlertsCorrect` | `Spec => []NoAlertMissed` | - |
| `CveStore_proofs!TypeCorrect` | `Spec => []TypeOK` | - |
| `CveStore_proofs!LabelCorrect` | `Spec => []LabelFollowsScore` | `ScoredAreLabelled` |
| `CveStore_proofs!MergeCorrect` | `Spec => MergeErasesOnlyLists` | - |
| `CveStore_proofs!BackfillCorrect` | `Spec => BackfillOverwritesNothing` | - |
| `Telegram_proofs!CacheCorrect` | `Spec => []CacheCurrent` | - |
| `Telegram_proofs!SessionAuthorized` | `Spec => []StoredIsAuthorized` | - |
| `Telegram_proofs!PendingAnswerable` | `Spec => []PendingUsable` | - |
| `Telegram_proofs!OneConnectionCorrect` | `Spec => []OneConnection` | - |
| `Ransomware_proofs!ProgressCorrect` | `Spec => []ProgressHonest` | - |
| `Ransomware_proofs!DetailsCorrect` | `Spec => DetailsKept` | - |
| `AiChat_proofs!IndexCorrect` | `Spec => []IndexSound` | `SerialPurges`, `CarefulAdmin` |
| `AiChat_proofs!WakeupCorrect` | `Spec => []NoLostWakeup` | - |
| `AiChat_proofs!PauseCorrect` | `Spec => []PauseAccounted` | - |
| `AiChat_proofs!BudgetCorrect` | `Spec => []BudgetKept` | - |
| `AiChat_proofs!BlameCorrect` | `Spec => []BlameNeedsChange` | - |
| `AiChat_proofs!ShortCorrect` | `Spec => []ShortSendsLast` | - |
| `BackOffice_proofs!ScoresCorrect` | `Spec => []ScoresFollow` | - |
| `BackOffice_proofs!LinksCorrect` | `Spec => []LookUpsHold` | - |
| `BackOffice_proofs!ProfileCorrect` | `Spec => []ProfileWhole` | - |
| `BackOffice_proofs!NothingUnseenCorrect` | `Spec => []NothingUnseenDeleted` | - |
| `BackOffice_proofs!ChunksCorrect` | `Spec => []ChunksFollowActor` | - |
| `BackOffice_proofs!AdminCorrect` | `Spec => []AdminLeft` | - |
| `BackOffice_proofs!WhitelistCorrect` | `Spec => []AllowsExactlyTheBlocks` | - |

These are all the invariants and action properties that the passing runs check. Of the
assumptions of the modules, those that are not ranges of numbers are that no channel
client and no actor is called like the value that stands for none, and that the context
window has room for what is never trimmed (`BudgetAssumption`, which the defaults of
`.env` satisfy).

**NVD.** None of the three assumptions can go: the instances
"overlap" (`Serial`), "paging" (`SinglePage`), "gap" (`CarefulBackfills`), "empty" and
"refused" violate `WatermarkSound` without them. They are what an operator can arrange: no manual
trigger during a cron run, windows small enough for one page, no backfill that leaves a
gap.

`LossOnlyByRefusal` speaks of a database between runs; it is not inductive because it
does not know what a run in flight will still write. `Inv` adds, for the run in flight
(`RunInv`): everything below the start of its window is settled (`SettledBelow`); while
it is between fetch and end of page, every CVE of the window is settled or in `Pending`;
and every pending version is current, or the watermark does not claim its CVE and neither
will this run (`Current`), because the modification happened at the end of the range or
later. The last part carries the proof: it is why an old page may overwrite a row
without making the watermark lie. `Exact` adds that the set of refused versions stays
empty. For the refinement `NoNewer` (no stored version is newer than the one upstream)
is needed, and each step is shown to be a step of `SyncPromise` or to stutter: `Write`
is `Copy` or `GiveUp`, `Progress` and `Success` are `Advance`, `PlanRange` and `Backfill`
are `RaiseHorizon`.

`PresenceSound` is about runs that overlap, where none of this holds: `PresenceInv` follows
rows only. Below the start of its window every CVE has a row, and while a run is between
fetch and end of page every CVE of the window has one or is held by this run
(`RunPresent`). What makes it stable is that no other run can break it (`Onward`): a row
once there stays, and what NVD publishes is dated now, past the end of every range.

**The other collectors.** For OSV, `OsvInv` says that everything up to the watermark, and up
to the `since` of a run, is done or was passed over (`DoneUpTo`), and that of what the list of
a run took in nothing is lost to it: a version is done, still to do or left (`OsvList`). The
entry just done is one of the newest of what remains (`NextIsNewest`), so what a checkpoint or
the end of a run claims beyond what is done is in `todo` and `left`, which is where `passed`
takes it from. For GitHub, `GithubInv`
says that what a run still owes was stored, is on the page, or lies behind its cursor
(`Reached`), and that the stored cursor lies before everything after the watermark, which
is why a run may start there. `FetchInv` counts the requests of a page: one for each
attempt, one for each time another run forgot the rejection of the key, and a spare one.
`StatsInv` keeps below the cached total and below what is about to be cached what the last
sync stored.

**Alerts.** `Remembered` ties what a sweep holds between `Send` and `Record` to what
Telegram accepted, and `HistoryInv` does so for the rows. `Paid` counts: while a pair has
no row, its deliveries are at most the lost ones plus the sweeps about to write it;
once it has one, deliveries plus the sweeps about to send it (which looked before the
row was there) are at most the lost ones plus the number of sweeps. Every delivery is
thus paid for by a sweep or a loss. `MissedInv` says that everything stamped
before `lastCheck` has its rows or was missed (`Settled`), that a sweep past its query
accounts for every pair that has none (`Held`: it still holds it, leaves it out, or the pair
was missed before), and that no sweep asks for less than what no check is past
(`SinceSound`).

**The row of a CVE.** `Pairs` says of the row, of what the upserts have read and hold, and of
the batch of the script that label and score are a pair that somebody gave; `MergePair`, that
`mergeSeverity()` takes the label from where `pickHigher()` takes the score. That needs every
score to come with a label, as it does in the collectors: NVD gives "UNKNOWN"
(`nvd.collector.ts:258`), a GitHub advisory always has a severity.

**Index.** `IndexSound` speaks of what lies before the watermark; while a run is under way
that is not enough. `IndexInv` adds that what the run holds is past the watermark
(`PendingSound`: so deleting its chunks takes nothing the watermark claims), that a version
it holds is the last one or is known to be late, and that a run past its query owes nothing
but what it holds, what came late and what the watermark claims already (`RunSound`); the
instant of the watermark itself is included (`Claim`), since the next query leaves it out.
`IngestShape` says that a purge finds the ingestion at rest and that a run's `since` is the
watermark; it is there that `SerialPurges` and `CarefulAdmin` are needed, and the two
instances of section 4 violate `IndexSound` without them. A pause nobody asked for is that
of a purge which began without one (`PauseInv`), however many overlap.

**A turn, the fallback chain and a conversation.** The size of a prompt is a sum over a
sequence. What it is for sequences that are longer, shorter or cut somewhere is proved
from its recursive definition, by taking a least counterexample (`LeastElement`), and
`AssembleFits` says that trimming ends in what fits; `BudgetInv` adds the count of the
rounds. `ChainInv` says that the model which rejects the tools is the configured one until
that changes; `ConversationInv`, that a question is stored once, right after the messages
that were read before it, and which messages the model gets if nothing came after it.

**Secrets, login and monitor.** `CacheInv` ties the values about to fill the cache to the
row, until the next write. What is pending during an answer is the login answered or
nothing (`SessionInv`), and a login that is pending without its client is about to be
dropped by the request that disconnected it (`PendingInv`); that rests on the login being
fresh when it is connected (`Fresh`). `MonitorInv` follows a task that is under way alone
from the client it destroys to the one it holds in the end (`Alone`).

**Ransomware.** At most one followed sync is under way, and exactly then the snapshot says
running (`Apart`); what a sync has still to ask for, has asked for and has counted add up to
all groups (`Counts`), so one with nothing left has counted them all.

**Back office.** The scores an update has computed are of the row as it is, unless another
wrote since (`ComputedFresh`). A row of the register was written by a
request that saw what it named (`NamesSeen`, `RowsApart`), and a request about subscriptions
has seen what its write needs (`NeedsSeen`), so that only a deletion can take it away.
`IngestSound` follows an ingestion: the actors before it have changed, and those it is done
with have the chunks of what it read, which is what they are unless they were changed aside
or late (`EditKeeps`). `DeletesRead` is inductive with the types. `OneAtATime` follows the two statements of an update of a profile; `EmptyExplained`
says who left a profile without items, and what a sweep that has read none knows of it.
`AdminsAtWork` says that an administrator's request that passed the guard is of one who still
is one, until two cross. For the whitelist, where loopback is let in and prefix 0 stands for
one address, a power of two is the number of subsets of an
interval (`FS_SUBSET`), hence the next one its double; `LeadingBits` says that two words have
the same quotient exactly if they agree in each of the leading bits, and `MaskBits`, which
bits the mask has.

**Model-checked only.** Liveness (`VersionsStored`, `EventuallyRecorded`, `NewKeyTried`,
`RefreshesRestore`, `NothingMissed`, `GroupsCurrent`, `VictimsRecovered`, `SupportSeen`) is
out of the prover's reach: it needs ENABLED, and `NothingMissed`, for one, an argument by
rounds. The prover has no induction rule over data either, but the natural numbers have a
least element in every nonempty set, which stands in for it. The properties of `osv_crash`,
`alert_late` and `chat_history` are false in their instances.

## 7. Findings

1. **OSV checkpoints** (`osv_crash`, `osv.collector.ts:78`). The list is newest first, so a
   checkpoint claims the older entries still to come; README.md:214-217 offers the
   checkpoints as recovery after a fall.
2. **History of a conversation** (`chat_history`, `ai-chat.service.ts:148`). `ask()` orders the
   messages by `timestamp` and reads the oldest twelve, not the newest: when every question was
   answered, from the eighth on the model is given neither the question from the table nor the
   turns before it; `docs/ai-chat-tools.md:45` says the last six messages are sent.
3. **Events stored late** (`alert_late`, `alert-processor.service.ts:494`). A sweep selects what
   its source stamped since `lastCheck`, which is the end of the sweep before, while the
   collectors store a CVE, a victim or a message after it was stamped: one stored after a sweep
   under an earlier stamp is never alerted. README.md:257 says "cron cada 5 min matchea CVEs
   contra paquetes/CPE del perfil". `NoAlertMissed` says what does hold.

The instances and the exclusions at the end of section 4 are the other places where code
and promise part.

## 8. Not modelled

Dashboard, health, storage, configuration and scripts other than the severity backfill:
queries and I/O without state between requests. Of the modelled components, what the
notes in `PROJECT.json` say is left out:

- formats, parsing and arithmetic of data: the score of a CVSS vector, mapping of upstream
  documents, encryption, hashing and token signatures, the text and media of messages,
  PDFs;
- CRUD of one statement: assets and their alerts, criteria, measurements, the other updates of
  channels, data sources other than the ransomware one, and queries;
- the filters of the alerts, the order in which the five sources are ingested, the batch
  fallback of the embeddings provider, what tools and retrieval return, and the deadlines
  of a turn, which end it like a failed request.

The database is assumed to execute single statements atomically. More than one process of
the backend is not considered: the in-memory gate, caches and flags assume one.
