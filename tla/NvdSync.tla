------------------------------ MODULE NvdSync ------------------------------
(***************************************************************************)
(* The NVD collector (vuln-monitor/collectors/nvd.collector.ts): the range *)
(* [since, until] is cut into windows, each window is fetched page by page *)
(* and its CVEs are upserted one at a time, and the watermark of the row   *)
(* 'nvd' of vuln_sync_state moves after every window and at the end.       *)
(*                                                                         *)
(* Runs are started by the 30 minute cron, by POST /sync/trigger and by    *)
(* POST /sync/backfill; nothing keeps two of them from overlapping.  Each  *)
(* action is the code between two awaits of one run.                       *)
(*                                                                         *)
(* A CVE's content is abstracted to the instant of its last modification.  *)
(* Retries of a page (429, 403, rejected key) are inside FetchPage and     *)
(* Fail: what matters here is whether the page is finally obtained.        *)
(***************************************************************************)
EXTENDS SyncState, FiniteSets

CONSTANTS
  NumCve,        \* CVEs published upstream are 1..NumCve
  Run,           \* slots for collector runs that may be in flight together
  Window,        \* NVD_MAX_WINDOW_DAYS, in instants
  Lookback,      \* defaultSince(): how far back a first run reaches
  PageSize,      \* RESULTS_PER_PAGE
  UpsertMayFail, \* whether the environment may reject a single upsert
  EmptyAnswers,  \* whether NVD may answer 200 without a list of vulnerabilities
  Backfills,     \* the <<since, until>> pairs an operator may ask for
  CarefulBackfills, \* whether operators leave no gap and ask for no future range
  MaxTime        \* bound: the clock stops here

ASSUME NvdAssumption ==
  /\ NumCve \in Nat \ {0}
  /\ Window \in Nat \ {0}
  /\ Lookback \in Nat \ {0}
  /\ PageSize \in Nat \ {0}
  /\ UpsertMayFail \in BOOLEAN /\ EmptyAnswers \in BOOLEAN
  /\ Backfills \subseteq Nat \X Nat
  /\ CarefulBackfills \in BOOLEAN
  /\ MaxTime \in Nat

VARIABLES
  now,       \* the clock
  upstream,  \* upstream[c]: lastModified of c at NVD
  store,     \* store[c]: the version of c held in vuln_cves, or Null
  row,       \* the row 'nvd' of vuln_sync_state
  run,       \* run[r]: the local variables of each run of sync()
  horizon,   \* history: oldest instant asked for while there was no watermark
  refused    \* history: the versions whose upsert was rejected, or kept back by an empty answer

vars == <<now, upstream, store, row, run, horizon, refused>>

Cve == 1..NumCve

NoItem == <<0, 0>>

Idle == [pc |-> "idle", since |-> Null, until |-> Null, start |-> Null, index |-> 0,
         total |-> 0, page |-> {}, item |-> NoItem, found |-> FALSE]

Later(a, b) == IF a < b THEN b ELSE a

\* The end of the window that starts at s (splitDateRange).
ChunkEnd(s, until) == IF s + Window < until THEN s + Window ELSE until

-----------------------------------------------------------------------------
Init ==
  /\ now = Lookback
  /\ upstream = [c \in Cve |-> 0]
  /\ store = [c \in Cve |-> Null]
  /\ row = SeedRow
  /\ run = [r \in Run |-> Idle]
  /\ horizon = 0
  /\ refused = {}

Tick ==
  /\ now < MaxTime
  /\ now' = now + 1
  /\ UNCHANGED <<upstream, store, row, run, horizon, refused>>

\* NVD publishes a modification of c.
Modify(c) ==
  /\ upstream[c] < now
  /\ now < MaxTime
  /\ upstream' = [upstream EXCEPT ![c] = now]
  /\ UNCHANGED <<now, store, row, run, horizon, refused>>

\* sync() without arguments reads the watermark.
ReadWatermark(r) ==
  /\ run[r].pc = "idle"
  /\ run' = [run EXCEPT ![r] = [Idle EXCEPT !.pc = "plan", !.since = row.lastSyncAt]]
  /\ UNCHANGED <<now, upstream, store, row, horizon, refused>>

\* The range ends at the time of the call; without watermark it starts Lookback earlier.
\* An empty range makes splitDateRange throw, outside the try: nothing is recorded.
PlanRange(r) ==
  /\ run[r].pc = "plan"
  /\ LET since == OrElse(run[r].since, now - Lookback)
     IN  /\ run' = [run EXCEPT ![r] =
                      IF since < now
                      THEN [Idle EXCEPT !.pc = "page", !.start = since, !.until = now]
                      ELSE Idle]
         /\ horizon' = IF run[r].since = Null THEN Later(horizon, since) ELSE horizon
  /\ UNCHANGED <<now, upstream, store, row, refused>>

\* sync(since, until) of a backfill request; the DTO requires since < until.
Backfill(r) ==
  /\ run[r].pc = "idle"
  /\ \E range \in Backfills :
       /\ range[1] < range[2]
       /\ CarefulBackfills => /\ row.lastSyncAt = Null \/ range[1] <= row.lastSyncAt
                              /\ range[2] <= now
       /\ horizon' = IF row.lastSyncAt = Null THEN Later(horizon, range[1]) ELSE horizon
       /\ run' = [run EXCEPT ![r] = [Idle EXCEPT !.pc = "page", !.start = range[1],
                                                 !.until = range[2]]]
  /\ UNCHANGED <<now, upstream, store, row, refused>>

-----------------------------------------------------------------------------
\* External: the CVEs NVD lists for a window, in a fixed order, cut at an index.
InWindow(start, end) == {c \in Cve : start <= upstream[c] /\ upstream[c] <= end}
Rank(c, list) == Cardinality({d \in list : d < c})
Slice(list, index) ==
  {c \in list : index <= Rank(c, list) /\ Rank(c, list) < index + PageSize}

\* One page arrives; the total is taken from the first page of the window only.
FetchPage(r) ==
  /\ run[r].pc = "page"
  /\ LET list == InWindow(run[r].start, ChunkEnd(run[r].start, run[r].until))
     IN  run' = [run EXCEPT ![r].pc = "items",
                            ![r].page = {<<c, upstream[c]>> : c \in Slice(list, run[r].index)},
                            ![r].total = IF run[r].index = 0 THEN Cardinality(list) ELSE @]
  /\ UNCHANGED <<now, upstream, store, row, horizon, refused>>

\* A 200 answer without a body ends the window; one without vulnerabilities is an empty
\* page, and on index 0 an empty window.
EmptyPage(r) ==
  /\ EmptyAnswers
  /\ run[r].pc = "page"
  /\ \/ run' = [run EXCEPT ![r].pc = "progress"]
     \/ run' = [run EXCEPT ![r].pc = "items", ![r].page = {},
                           ![r].total = IF run[r].index = 0 THEN 0 ELSE @]
  /\ LET list == InWindow(run[r].start, ChunkEnd(run[r].start, run[r].until))
     IN  refused' = refused \cup
                      {<<c, upstream[c]>> : c \in {d \in list : run[r].index <= Rank(d, list)}}
  /\ UNCHANGED <<now, upstream, store, row, horizon>>

\* upsert(): look the row of the next CVE up ...
FindExisting(r) ==
  /\ run[r].pc = "items"
  /\ \E item \in run[r].page :
       run' = [run EXCEPT ![r].pc = "write",
                          ![r].page = @ \ {item},
                          ![r].item = item,
                          ![r].found = store[item[1]] # Null]
  /\ UNCHANGED <<now, upstream, store, row, horizon, refused>>

\* ... then create or overwrite it.  A create that meets a row made in between is
\* rejected by the primary key; like every upsert error it is only collected.
Write(r) ==
  /\ run[r].pc = "write"
  /\ run' = [run EXCEPT ![r].pc = "items", ![r].item = NoItem, ![r].found = FALSE]
  /\ LET c == run[r].item[1]
     IN  IF run[r].found \/ store[c] = Null
         THEN store' = [store EXCEPT ![c] = run[r].item[2]] /\ UNCHANGED refused
         ELSE refused' = refused \cup {run[r].item} /\ UNCHANGED store
  /\ UNCHANGED <<now, upstream, row, horizon>>

UpsertFails(r) ==
  /\ UpsertMayFail
  /\ run[r].pc = "write"
  /\ run' = [run EXCEPT ![r].pc = "items", ![r].item = NoItem, ![r].found = FALSE]
  /\ refused' = refused \cup {run[r].item}
  /\ UNCHANGED <<now, upstream, store, row, horizon>>

\* The do-while over startIndex.
EndPage(r) ==
  /\ run[r].pc = "items"
  /\ run[r].page = {}
  /\ LET next == run[r].index + PageSize
     IN  run' = [run EXCEPT ![r].index = next,
                            ![r].pc = IF next < run[r].total THEN "page" ELSE "progress"]
  /\ UNCHANGED <<now, upstream, store, row, horizon, refused>>

\* Mutant: the next window starts two instants later.
Progress_Gap(r) ==
  /\ run[r].pc = "progress"
  /\ LET end == ChunkEnd(run[r].start, run[r].until)
     IN  /\ row' = MarkProgress(row, end, Null)
         /\ run' = [run EXCEPT ![r].pc = IF end < run[r].until THEN "page" ELSE "success",
                               ![r].start = IF end < run[r].until THEN end + 2 ELSE @,
                               ![r].index = 0,
                               ![r].total = 0]
  /\ UNCHANGED <<now, upstream, store, horizon, refused>>

\* markProgress after a window, and on to the next window, one instant later.
Progress(r) ==
  /\ run[r].pc = "progress"
  /\ LET end == ChunkEnd(run[r].start, run[r].until)
     IN  /\ row' = MarkProgress(row, end, Null)
         /\ run' = [run EXCEPT ![r].pc = IF end < run[r].until THEN "page" ELSE "success",
                               ![r].start = IF end < run[r].until THEN end + 1 ELSE @,
                               ![r].index = 0,
                               ![r].total = 0]
  /\ UNCHANGED <<now, upstream, store, horizon, refused>>

\* Mutant: the watermark becomes the time of the call.
Success_Now(r) ==
  /\ run[r].pc = "success"
  /\ row' = MarkSuccess(row, now, Null)
  /\ run' = [run EXCEPT ![r] = Idle]
  /\ UNCHANGED <<now, upstream, store, horizon, refused>>

Success(r) ==
  /\ run[r].pc = "success"
  /\ row' = MarkSuccess(row, run[r].until, Null)
  /\ run' = [run EXCEPT ![r] = Idle]
  /\ UNCHANGED <<now, upstream, store, horizon, refused>>

\* Mutant: a failed run moves the watermark to the end of its range.
Fail_Advances(r) ==
  /\ run[r].pc \in {"page", "progress", "success"}
  /\ run' = [run EXCEPT ![r] = Idle]
  /\ row' = MarkError(MarkProgress(row, run[r].until, Null))
  /\ UNCHANGED <<now, upstream, store, horizon, refused>>

\* A page is refused after its retries, or a sync-state write rejects: the run is over.
Fail(r) ==
  /\ run[r].pc \in {"page", "progress", "success"}
  /\ run' = [run EXCEPT ![r] = Idle]
  /\ row' = MarkError(row)
  /\ UNCHANGED <<now, upstream, store, horizon, refused>>

\* The watermark or the key cannot be read, or the error cannot be written: sync() rejects
\* and nothing is recorded.
Reject(r) ==
  /\ run[r].pc \in {"plan", "page", "progress", "success"}
  /\ run' = [run EXCEPT ![r] = Idle]
  /\ UNCHANGED <<now, upstream, store, row, horizon, refused>>

\* The process dies: every run is gone, the database stays.
Crash ==
  /\ \E r \in Run : run[r].pc # "idle"
  /\ run' = [r \in Run |-> Idle]
  /\ UNCHANGED <<now, upstream, store, row, horizon, refused>>

Step(r) ==
  \/ ReadWatermark(r) \/ PlanRange(r)
  \/ FetchPage(r) \/ FindExisting(r) \/ Write(r) \/ EndPage(r)
  \/ Progress(r) \/ Success(r)

Next ==
  \/ Tick
  \/ \E c \in Cve : Modify(c)
  \/ \E r \in Run : Step(r) \/ Backfill(r) \/ UpsertFails(r) \/ EmptyPage(r)
  \/ \E r \in Run : Fail(r) \/ Reject(r)
  \/ Crash

Spec == Init /\ [][Next]_vars

\* The clock runs, the cron fires again, and no run meets a refused page, a database
\* error or a restart at the same point for ever.
Fairness ==
  /\ WF_vars(Tick)
  /\ \A r \in Run :
       /\ WF_vars(ReadWatermark(r))
       /\ SF_vars(PlanRange(r)) /\ SF_vars(FetchPage(r))
       /\ SF_vars(FindExisting(r)) /\ SF_vars(Write(r))
       /\ SF_vars(EndPage(r)) /\ SF_vars(Progress(r)) /\ SF_vars(Success(r))

FairSpec == Spec /\ Fairness

-----------------------------------------------------------------------------
Page == SUBSET (Cve \X Nat)

RunState ==
  [pc: {"idle", "plan", "page", "items", "write", "progress", "success"},
   since: Instant, until: Instant, start: Instant, index: Nat, total: Nat,
   page: Page, item: (Cve \X Nat) \cup {NoItem}, found: BOOLEAN]

TypeOK ==
  /\ now \in Nat
  /\ upstream \in [Cve -> Nat]
  /\ store \in [Cve -> Instant]
  /\ row \in SyncRow
  /\ horizon \in Nat
  /\ refused \in Page
  /\ run \in [Run -> RunState]
  /\ \A r \in Run : run[r].pc = "write" => run[r].item # NoItem

\* The CVEs the watermark claims: last modified before it, and not before the instant
\* the first run asked for.
Claimed == {c \in Cve : horizon <= upstream[c] /\ upstream[c] < row.lastSyncAt}

\* lastSyncAt is "hasta que fecha se sincronizo la data" (README.md:212): every claimed
\* CVE is stored in exactly its current version.
WatermarkSound == \A c \in Claimed : store[c] = upstream[c]

\* When single upserts may be rejected and answers be empty, the watermark still passes
\* over them; those versions are the only claimed ones that are not stored.
LossOnlyByRefusal ==
  \A c \in Claimed : store[c] = upstream[c] \/ <<c, upstream[c]>> \in refused

\* With overlapping runs an older page may be written after a newer one, but every
\* claimed CVE still has a row in vuln_cves.
PresenceSound == \A c \in Claimed : store[c] # Null \/ <<c, upstream[c]>> \in refused

\* Failed runs, restarts and retries notwithstanding, every version published at NVD is
\* stored in the end unless a newer one replaces it.
EventuallyStored ==
  \A c \in Cve : \A t \in 0..MaxTime :
    (upstream[c] = t /\ horizon <= t)
      ~> (upstream[c] # t \/ store[c] = t \/ t < horizon)

\* The collector implements the abstract source.
Promise == INSTANCE SyncPromise WITH Item <- Cve, watermark <- row.lastSyncAt
KeepsPromise == Promise!Spec
=============================================================================
