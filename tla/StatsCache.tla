---------------------------- MODULE StatsCache ----------------------------
(***************************************************************************)
(* The totals of vuln_cves that VulnMonitorService (vuln-monitor/          *)
(* vuln-monitor.service.ts) keeps for a minute: requests without filters   *)
(* and the statistics are answered from the cache, and a manual sync or a  *)
(* backfill that ends empties it.  The cron's runs leave it alone.         *)
(*                                                                         *)
(* The four counts are one number, the rows stored.                        *)
(***************************************************************************)
EXTENDS Integers

CONSTANTS
  Reader,   \* requests that may be in flight together
  TTL,      \* STATS_TTL_MS, in ticks
  MaxTotal  \* bound: the rows ever stored

\* Asserted by the module that instantiates this one.
StatsAssumption == TTL \in Nat \ {0} /\ MaxTotal \in Nat

VARIABLES
  total,   \* the rows of vuln_cves
  cache,   \* statsCache: the total and the ticks it has left
  reader,  \* reader[r]: the local variables of a request
  job,     \* whether a manual sync or a backfill runs
  floor    \* history: the total at the end of the last one that ended during no count

statsVars == <<total, cache, reader, job, floor>>

NoCache == [data |-> 0, left |-> -1]

NoAnswer == -1

\* floor of a reader is the value of floor when its request came.
Init ==
  /\ total = 0
  /\ cache = NoCache
  /\ reader = [r \in Reader |-> [pc |-> "idle", data |-> NoAnswer, floor |-> 0]]
  /\ job = FALSE
  /\ floor = 0

Fresh == cache # NoCache /\ cache.left > 0

\* getDbStats(), asked by getCves() without filters and by getStats().
Ask(r) ==
  /\ reader[r].pc = "idle"
  /\ reader' = [reader EXCEPT ![r] =
                  IF Fresh THEN [pc |-> "idle", data |-> cache.data, floor |-> floor]
                           ELSE [pc |-> "count", data |-> NoAnswer, floor |-> floor]]
  /\ UNCHANGED <<total, cache, job, floor>>

Count(r) ==
  /\ reader[r].pc = "count"
  /\ reader' = [reader EXCEPT ![r].pc = "fill", ![r].data = total]
  /\ UNCHANGED <<total, cache, job, floor>>

Fill(r) ==
  /\ reader[r].pc = "fill"
  /\ cache' = [data |-> reader[r].data, left |-> TTL]
  /\ reader' = [reader EXCEPT ![r].pc = "idle"]
  /\ UNCHANGED <<total, job, floor>>

\* A collector, of the cron or of the job, stores a new row.
Store ==
  /\ total < MaxTotal
  /\ total' = total + 1
  /\ UNCHANGED <<cache, reader, job, floor>>

\* triggerManualSync() or triggerBackfill()
StartJob ==
  /\ ~job
  /\ job' = TRUE
  /\ UNCHANGED <<total, cache, reader, floor>>

NewFloor == IF \E r \in Reader : reader[r].pc = "fill" THEN floor ELSE total

\* Mutant: the job does not empty the cache.
EndJob_Keeps ==
  /\ job
  /\ job' = FALSE
  /\ floor' = NewFloor
  /\ UNCHANGED <<total, cache, reader>>

\* ... and invalidateStatsCache() when it ends.
EndJob ==
  /\ job
  /\ job' = FALSE
  /\ cache' = NoCache
  /\ floor' = NewFloor
  /\ UNCHANGED <<total, reader>>

\* A backfill whose collector throws does not come to the invalidation.
JobThrows ==
  /\ job
  /\ job' = FALSE
  /\ UNCHANGED <<total, cache, reader, floor>>

Tick ==
  /\ cache.left > 0
  /\ cache' = [cache EXCEPT !.left = @ - 1]
  /\ UNCHANGED <<total, reader, job, floor>>

Next ==
  \/ \E r \in Reader : Ask(r) \/ Count(r) \/ Fill(r)
  \/ Store \/ StartJob \/ EndJob \/ JobThrows \/ Tick

-----------------------------------------------------------------------------
\* What the administrator waits for after a sync: a request that comes after its end is
\* answered with all it stored, unless a count was in flight when it ended.
SyncVisible ==
  \A r \in Reader : (reader[r].pc = "idle" /\ reader[r].data # NoAnswer)
                      => reader[r].floor <= reader[r].data
=============================================================================
