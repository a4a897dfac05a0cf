---------------------------- MODULE VulnMonitor ----------------------------
(***************************************************************************)
(* The vulnerability monitor: the NVD collector (NvdSync, which this       *)
(* module extends), the GitHub and OSV collectors, the requests of one     *)
(* page of NVD and the cache of totals.  Each collector writes its own row *)
(* of vuln_sync_state and, here, the rows of its own vulnerabilities, so a *)
(* behaviour is about one of the five (part).                              *)
(***************************************************************************)
EXTENDS NvdSync

CONSTANTS
  Parts,                                                 \* those a run looks at
  MayFail,                                               \* GitHub and OSV
  NumAdv, AdvPerPage, MayBackfill, GithubMaxTime,        \* GithubSync
  NumVuln, Gone, CheckpointEvery, MaxItems, OsvMaxTime,  \* OsvSync
  Fetcher, Key, BadKey, MaxRetries, Cooldown, MaxResets, PageMaxTime,  \* NvdFetch
  Reader, TTL, MaxTotal                                  \* StatsCache

VARIABLES
  part,
  clock, secret, rejected, fetch,    \* a page
  total, cache, reader, job, floor   \* the totals

page == <<clock, secret, rejected, fetch>>
totals == <<total, cache, reader, job, floor>>
monitorVars == <<part, vars, page, totals>>

Github == INSTANCE GithubSync WITH PageSize <- AdvPerPage, MaxTime <- GithubMaxTime

Osv == INSTANCE OsvSync WITH MaxTime <- OsvMaxTime, passed <- refused

Fetch == INSTANCE NvdFetch WITH Run <- Fetcher, MaxTime <- PageMaxTime

Stats == INSTANCE StatsCache

ASSUME VulnMonitorAssumption ==
  /\ Parts \subseteq {"nvd", "github", "osv", "page", "totals"}
  /\ Github!GithubAssumption /\ Osv!OsvAssumption
  /\ Fetch!NvdFetchAssumption /\ Stats!StatsAssumption

\* The collectors share their variables (refused holds what a collector gave up on); a page and
\* the totals that a behaviour is not about start in one of their states.
MonitorInit ==
  /\ part \in Parts
  /\ \/ part = "github" /\ Github!Init /\ refused = {}
     \/ part = "osv" /\ Osv!Init
     \/ part \notin {"github", "osv"} /\ Init
  /\ Fetch!Init /\ (part # "page" => secret = Fetch!NoKey)
  /\ Stats!Init

Collects(p) == part = p /\ UNCHANGED <<part, page, totals>>
InPage == part = "page" /\ UNCHANGED <<part, vars, totals>>
InTotals == part = "totals" /\ UNCHANGED <<part, vars, page>>

MonitorNext ==
  \/ Collects("nvd") /\ Next
  \/ Collects("github") /\ Github!Next /\ UNCHANGED refused
  \/ Collects("osv") /\ Osv!Next
  \/ InPage /\ Fetch!Next
  \/ InTotals /\ Stats!Next

\* Fairness of NvdSync and NvdFetch, each in its own part.  The runs that clear rejectedKey
\* start half an hour apart, so a page does not meet them for ever.
MonitorFairness ==
  /\ WF_monitorVars(Collects("nvd") /\ Tick)
  /\ \A r \in Run :
       /\ WF_monitorVars(Collects("nvd") /\ ReadWatermark(r))
       /\ SF_monitorVars(Collects("nvd") /\ PlanRange(r))
       /\ SF_monitorVars(Collects("nvd") /\ FetchPage(r))
       /\ SF_monitorVars(Collects("nvd") /\ FindExisting(r))
       /\ SF_monitorVars(Collects("nvd") /\ Write(r))
       /\ SF_monitorVars(Collects("nvd") /\ EndPage(r))
       /\ SF_monitorVars(Collects("nvd") /\ Progress(r))
       /\ SF_monitorVars(Collects("nvd") /\ Success(r))
  /\ \A r \in Fetcher :
       /\ WF_monitorVars(InPage /\ Fetch!Start(r)) /\ WF_monitorVars(InPage /\ Fetch!Send(r))
       /\ WF_monitorVars(InPage /\ Fetch!Answered(r)) /\ SF_monitorVars(InPage /\ Fetch!Done(r))

MonitorSafety == MonitorInit /\ [][MonitorNext]_monitorVars

MonitorSpec == MonitorSafety /\ MonitorFairness

-----------------------------------------------------------------------------
\* NvdSync with overlapping runs: every CVE the watermark claims has a row.
NvdPresence == part = "nvd" => PresenceSound

\* OsvSync: what the watermark claims is stored, or was passed by it undone.
OsvWatermark == part = "osv" => Osv!LossesAccounted

\* GithubSync: a run that ends in success settled all updates between its since and its
\* start.
GithubRunComplete == [][part = "github" => Github!RunCompletes]_monitorVars

\* NvdFetch: a page costs a bounded number of requests.
PageRequests == Fetch!RequestsBounded

\* StatsCache: an answer after the end of a sync counts what it stored.
SyncVisible == Stats!SyncVisible

\* NvdSync: every published version is stored in the end.
VersionsStored == part = "nvd" => EventuallyStored

\* NvdFetch: a changed key is tried in the end.
NewKeyTried == part = "page" => Fetch!NewKeyTried
=============================================================================
