------------------------------ MODULE OsvSync ------------------------------
(***************************************************************************)
(* The OSV collector (vuln-monitor/collectors/osv.collector.ts): the list  *)
(* of modified ids is read down to the watermark, newest first, and the    *)
(* entries are fetched and upserted one at a time in that order.  Every    *)
(* CheckpointEvery entries the watermark is set to the instant of the last *)
(* entry done; an incremental manual sync takes the first MaxItems entries *)
(* only and makes no checkpoint.                                           *)
(*                                                                         *)
(* Runs of this module are serial: one run is in flight at a time.         *)
(***************************************************************************)
EXTENDS SyncState, FiniteSets, FiniteSetsExt

CONSTANTS
  NumVuln,         \* OSV ids are 1..NumVuln
  Gone,            \* ids listed whose detail answers 404
  CheckpointEvery, \* CHECKPOINT_EVERY
  MaxItems,        \* the cap of a manual sync
  MayFail,         \* whether an entry or the process may fail
  MaxTime          \* bound: the clock stops here

\* Asserted by the module that instantiates this one.
OsvAssumption ==
  /\ NumVuln \in Nat \ {0} /\ Gone \subseteq 1..NumVuln
  /\ CheckpointEvery \in Nat \ {0} /\ MaxItems \in Nat \ {0}
  /\ MayFail \in BOOLEAN /\ MaxTime \in Nat

VARIABLES
  now,       \* the clock
  upstream,  \* upstream[v]: when v was last modified at OSV
  store,     \* store[v]: the version of v held in vuln_cves, or Null
  row,       \* the row 'osv' of vuln_sync_state
  run,       \* the local variables of sync()
  horizon,   \* history: oldest instant asked for while there was no watermark
  passed     \* history: the versions that the watermark was moved past undone

vars == <<now, upstream, store, row, run, horizon, passed>>

Vuln == 1..NumVuln

\* left is history: the entries that the run cut off or failed on.
Idle == [pc |-> "idle", since |-> Null, capped |-> FALSE, todo |-> {}, cursor |-> Null,
         lastDone |-> Null, count |-> 0, errors |-> FALSE, left |-> {}]

Init ==
  /\ now = 1
  /\ upstream = [v \in Vuln |-> 0]
  /\ store = [v \in Vuln |-> Null]
  /\ row = SeedRow
  /\ run = Idle
  /\ horizon = 0
  /\ passed = {}

Tick ==
  /\ now < MaxTime
  /\ now' = now + 1
  /\ UNCHANGED <<upstream, store, row, run, horizon, passed>>

\* What is modified after a run that set the watermark to the present instant is later.
Modify(v) ==
  /\ upstream[v] < now
  /\ row.lastSyncAt < now
  /\ now < MaxTime
  /\ upstream' = [upstream EXCEPT ![v] = now]
  /\ UNCHANGED <<now, store, row, run, horizon, passed>>

-----------------------------------------------------------------------------
\* sync() and sync({ maxItems }) read the watermark.
Start(capped) ==
  /\ run.pc = "idle"
  /\ run' = [Idle EXCEPT !.pc = "list", !.since = row.lastSyncAt, !.capped = capped]
  /\ UNCHANGED <<now, upstream, store, row, horizon, passed>>

\* sync(since) of a backfill.  Operators are assumed to leave no gap after the watermark.
Backfill ==
  /\ run.pc = "idle"
  /\ \E since \in 0..(now - 1) :
       /\ row.lastSyncAt = Null \/ since <= row.lastSyncAt
       /\ run' = [Idle EXCEPT !.pc = "list", !.since = since]
       /\ horizon' = IF row.lastSyncAt = Null /\ horizon <= since THEN since + 1 ELSE horizon
  /\ UNCHANGED <<now, upstream, store, row, passed>>

\* The newest n entries of a list.
Newest(n, list) == {e \in list : Cardinality({d \in list : d[2] > e[2]
                                    \/ (d[2] = e[2] /\ d[1] > e[1])}) < n}

\* fetchModifiedIds: <<id, ts>> of what was modified after since, cut at the cap.  The
\* download takes an instant: what is modified later is later than every entry.
FetchList ==
  /\ run.pc = "list"
  /\ now < MaxTime
  /\ now' = now + 1
  /\ LET entries == {<<v, upstream[v]>> : v \in {u \in Vuln : upstream[u] > run.since}}
         todo == IF run.capped THEN Newest(MaxItems, entries) ELSE entries
     IN  run' = [run EXCEPT !.pc = "entries", !.todo = todo, !.left = entries \ todo,
                            !.cursor = Max({upstream[v] : v \in Vuln})]
  /\ UNCHANGED <<upstream, store, row, horizon, passed>>

NextEntry == CHOOSE e \in run.todo : Newest(1, run.todo) = {e}

\* A detail that answers 404 is passed over.
SkipGone ==
  /\ run.pc = "entries"
  /\ run.todo # {}
  /\ NextEntry[1] \in Gone
  /\ run' = [run EXCEPT !.todo = @ \ {NextEntry}]
  /\ UNCHANGED <<now, upstream, store, row, horizon, passed>>

\* The detail, in its present version, is upserted.  A capped run makes no checkpoint
\* and does not use its count.
Process ==
  /\ run.pc = "entries"
  /\ run.todo # {}
  /\ NextEntry[1] \notin Gone
  /\ store' = [store EXCEPT ![NextEntry[1]] = upstream[NextEntry[1]]]
  /\ LET count == IF run.capped THEN 0 ELSE run.count + 1
     IN  run' = [run EXCEPT !.todo = @ \ {NextEntry},
                            !.lastDone = NextEntry[2],
                            !.count = count,
                            !.pc = IF count >= CheckpointEvery THEN "checkpoint" ELSE "entries"]
  /\ passed' = passed \ {<<NextEntry[1], upstream[NextEntry[1]]>>}
  /\ UNCHANGED <<now, upstream, row, horizon>>

\* Of the vulnerabilities of a set of entries, the versions that a watermark claims.
Claims(entries, watermark) ==
  {e \in {<<d[1], upstream[d[1]]>> : d \in entries} : e[2] <= watermark}

\* The watermark goes to the entry just done, past the older ones still to do.
Checkpoint ==
  /\ run.pc = "checkpoint"
  /\ row' = MarkProgress(row, run.lastDone, run.cursor)
  /\ run' = [run EXCEPT !.pc = "entries", !.count = 0]
  /\ passed' = passed \cup Claims(run.todo \cup run.left, run.lastDone)
  /\ UNCHANGED <<now, upstream, store, horizon>>

\* A checkpoint that cannot be written counts as an error of its entry.
CheckpointFails ==
  /\ MayFail
  /\ run.pc = "checkpoint"
  /\ run' = [run EXCEPT !.pc = "entries", !.errors = TRUE]
  /\ UNCHANGED <<now, upstream, store, row, horizon, passed>>

\* The error of one entry is collected and the loop goes on.
EntryFails ==
  /\ MayFail
  /\ run.pc = "entries"
  /\ run.todo # {}
  /\ run' = [run EXCEPT !.todo = @ \ {NextEntry}, !.errors = TRUE, !.left = @ \cup {NextEntry}]
  /\ UNCHANGED <<now, upstream, store, row, horizon, passed>>

\* Mutant: a run with failed entries is a success.
Finish_Anyway ==
  /\ run.pc = "entries"
  /\ run.todo = {}
  /\ LET watermark == OrElse(run.lastDone, OrElse(run.since, now))
         cursor == IF run.capped THEN Null ELSE run.cursor
     IN  /\ row' = MarkSuccess(row, watermark, cursor)
         /\ passed' = IF run.errors THEN passed ELSE passed \cup Claims(run.left, watermark)
  /\ run' = Idle
  /\ UNCHANGED <<now, upstream, store, horizon>>

\* Success, with the oldest entry done as watermark, only if no entry failed; what a capped run
\* cut off is older.
Finish ==
  /\ run.pc = "entries"
  /\ run.todo = {}
  /\ LET watermark == OrElse(run.lastDone, OrElse(run.since, now))
         cursor == IF run.capped THEN Null ELSE run.cursor
     IN  /\ row' = IF run.errors THEN MarkError(row) ELSE MarkSuccess(row, watermark, cursor)
         /\ passed' = IF run.errors THEN passed ELSE passed \cup Claims(run.left, watermark)
  /\ run' = Idle
  /\ UNCHANGED <<now, upstream, store, horizon>>

\* The request is refused, or the download breaks off and the reader rejects.
ListFails ==
  /\ run.pc = "list"
  /\ row' = MarkError(row)
  /\ run' = Idle
  /\ UNCHANGED <<now, upstream, store, horizon, passed>>

Crash ==
  /\ MayFail
  /\ run.pc # "idle"
  /\ run' = Idle
  /\ UNCHANGED <<now, upstream, store, row, horizon, passed>>

Next ==
  \/ Tick
  \/ \E v \in Vuln : Modify(v)
  \/ \E capped \in BOOLEAN : Start(capped)
  \/ Backfill
  \/ FetchList \/ SkipGone \/ Process \/ Checkpoint \/ CheckpointFails \/ EntryFails
  \/ Finish
  \/ ListFails \/ Crash

Spec == Init /\ [][Next]_vars

-----------------------------------------------------------------------------
TypeOK ==
  /\ now \in Nat
  /\ upstream \in [Vuln -> Nat]
  /\ store \in [Vuln -> Instant]
  /\ row \in SyncRow
  /\ horizon \in Nat
  /\ passed \in SUBSET (Vuln \X Nat)
  /\ run \in [pc: {"idle", "list", "entries", "checkpoint"}, since: Instant,
              capped: BOOLEAN, todo: SUBSET (Vuln \X Nat), cursor: Instant,
              lastDone: Instant, count: Nat, errors: BOOLEAN, left: SUBSET (Vuln \X Nat)]

\* lastSyncAt is "hasta que fecha se sincronizo la data" (README.md:212); read where the
\* next run reads it, with no run in flight.
WatermarkSound ==
  run.pc = "idle" =>
    \A v \in Vuln \ Gone : (horizon <= upstream[v] /\ upstream[v] < row.lastSyncAt)
                             => store[v] = upstream[v]

\* What the watermark claims is stored, whatever failed, restarted or was read back by a
\* backfill, but for the versions it was moved past undone: by a checkpoint, older entries still
\* to do or equally old ones that failed; by a capped run, the entries beyond its cap.  A run
\* with a failed entry moves it past nothing else, and a run cut off past nothing more.
LossesAccounted ==
  \A v \in Vuln \ Gone : (horizon <= upstream[v] /\ upstream[v] <= row.lastSyncAt)
                           => store[v] = upstream[v] \/ <<v, upstream[v]>> \in passed
=============================================================================
