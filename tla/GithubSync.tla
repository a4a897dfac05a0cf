---------------------------- MODULE GithubSync ----------------------------
(***************************************************************************)
(* The GitHub advisory collector                                           *)
(* (vuln-monitor/collectors/github-advisory.collector.ts): advisories      *)
(* updated since the watermark are read in ascending order of update, one  *)
(* page at a time, from the cursor stored by the last successful run.      *)
(*                                                                         *)
(* GitHub's cursor is opaque to the code; here it is the position of an    *)
(* advisory in the order (updatedAt, id), which is what it stands for.     *)
(* Advisories withdrawn at GitHub are passed over by the loop and are no   *)
(* members of Adv.  A sync without token returns at once and does nothing. *)
(* Runs of this module are serial: one run is in flight at a time.         *)
(***************************************************************************)
EXTENDS SyncState, FiniteSets, FiniteSetsExt

CONSTANTS
  NumAdv,     \* advisories are 1..NumAdv
  Lookback,   \* defaultSince()
  PageSize,   \* first: 100
  MayBackfill, \* whether operators ask for backfills
  MayFail,    \* whether an upsert may be rejected and an answer be empty
  MaxTime     \* bound: the clock stops here

\* Asserted by the module that instantiates this one.
GithubAssumption ==
  /\ NumAdv \in Nat \ {0} /\ Lookback \in Nat \ {0}
  /\ PageSize \in Nat \ {0} /\ MaxTime \in Nat
  /\ MayBackfill \in BOOLEAN /\ MayFail \in BOOLEAN

VARIABLES
  now,       \* the clock
  upstream,  \* upstream[a]: updatedAt of advisory a
  store,     \* store[a]: the version of a held in vuln_cves, or Null
  row,       \* the row 'github' of vuln_sync_state
  run,       \* the local variables of sync()
  horizon    \* history: oldest instant asked for while there was no watermark

vars == <<now, upstream, store, row, run, horizon>>

Adv == 1..NumAdv

Idle == [pc |-> "idle", backfill |-> FALSE, since |-> Null, cursor |-> Null,
         page |-> {}, more |-> FALSE, started |-> Null,
         errors |-> {}, cut |-> FALSE]

Later(a, b) == IF a < b THEN b ELSE a

Init ==
  /\ now = Lookback
  /\ upstream = [a \in Adv |-> 0]
  /\ store = [a \in Adv |-> Null]
  /\ row = SeedRow
  /\ run = Idle
  /\ horizon = 0

Tick ==
  /\ now < MaxTime
  /\ now' = now + 1
  /\ UNCHANGED <<upstream, store, row, run, horizon>>

Update(a) ==
  /\ upstream[a] < now
  /\ now < MaxTime
  /\ upstream' = [upstream EXCEPT ![a] = now]
  /\ UNCHANGED <<now, store, row, run, horizon>>

-----------------------------------------------------------------------------
\* sync(): since is the watermark, or Lookback ago; then the stored cursor is read.
Start ==
  /\ run.pc = "idle"
  /\ LET since == OrElse(row.lastSyncAt, now - Lookback)
     IN  /\ run' = [Idle EXCEPT !.pc = "query", !.since = since, !.cursor = row.lastCursor,
                              !.started = now]
         /\ horizon' = IF row.lastSyncAt = Null THEN Later(horizon, since) ELSE horizon
  /\ UNCHANGED <<now, upstream, store, row>>

\* sync(since) of a backfill: another since, the same stored cursor.
Backfill ==
  /\ MayBackfill
  /\ run.pc = "idle"
  /\ \E since \in 0..(now - 1) :
       /\ run' = [Idle EXCEPT !.pc = "query", !.backfill = TRUE, !.since = since,
                              !.cursor = row.lastCursor, !.started = now]
       /\ horizon' = IF row.lastSyncAt = Null THEN Later(horizon, since) ELSE horizon
  /\ UNCHANGED <<now, upstream, store, row>>

\* External: position of an advisory in the ascending order, and one page of it.
Position(a) == upstream[a] * (NumAdv + 1) + a
After(since, cursor) == {a \in Adv : since <= upstream[a] /\ cursor < Position(a)}
FirstPage(list) == {a \in list : Cardinality({b \in list : Position(b) < Position(a)}) < PageSize}

\* Mutant: the cursor of the last page is taken instead of this page's.
Query_Skips ==
  /\ run.pc = "query"
  /\ LET list == After(run.since, run.cursor)
         page == FirstPage(list)
     IN  run' = [run EXCEPT !.pc = "nodes",
                            !.page = {<<a, upstream[a]>> : a \in page},
                            !.more = page # list,
                            !.cursor = IF page = {} THEN Null
                                       ELSE Max({Position(a) : a \in list})]
  /\ UNCHANGED <<now, upstream, store, row, horizon>>

\* One page arrives; endCursor is null when the page is empty.
Query ==
  /\ run.pc = "query"
  /\ LET list == After(run.since, run.cursor)
         page == FirstPage(list)
     IN  run' = [run EXCEPT !.pc = "nodes",
                            !.page = {<<a, upstream[a]>> : a \in page},
                            !.more = page # list,
                            !.cursor = IF page = {} THEN Null
                                       ELSE Max({Position(a) : a \in page})]
  /\ UNCHANGED <<now, upstream, store, row, horizon>>

\* A 200 answer without securityAdvisories ends the loop as if it were the last page.
NoPage ==
  /\ MayFail
  /\ run.pc = "query"
  /\ run' = [run EXCEPT !.pc = "success", !.cut = TRUE]
  /\ UNCHANGED <<now, upstream, store, row, horizon>>

Upsert ==
  /\ run.pc = "nodes"
  /\ \E node \in run.page :
       /\ store' = [store EXCEPT ![node[1]] = node[2]]
       /\ run' = [run EXCEPT !.page = @ \ {node}]
  /\ UNCHANGED <<now, upstream, row, horizon>>

\* A rejected upsert is reported among the errors of the result and nowhere else.
UpsertFails ==
  /\ MayFail
  /\ run.pc = "nodes"
  /\ \E node \in run.page :
       run' = [run EXCEPT !.page = @ \ {node}, !.errors = @ \cup {node}]
  /\ UNCHANGED <<now, upstream, store, row, horizon>>

EndPage ==
  /\ run.pc = "nodes"
  /\ run.page = {}
  /\ run' = [run EXCEPT !.pc = IF run.more THEN "query" ELSE "success"]
  /\ UNCHANGED <<now, upstream, store, row, horizon>>

\* markSuccess without a watermark: lastSyncAt becomes the time of the call.
Success ==
  /\ run.pc = "success"
  /\ row' = MarkSuccess(row, now, run.cursor)
  /\ run' = Idle
  /\ UNCHANGED <<now, upstream, store, horizon>>

Fail ==
  /\ run.pc \in {"query", "success"}
  /\ row' = MarkError(row)
  /\ run' = Idle
  /\ UNCHANGED <<now, upstream, store, horizon>>

Crash ==
  /\ run.pc # "idle"
  /\ run' = Idle
  /\ UNCHANGED <<now, upstream, store, row, horizon>>

Next ==
  \/ Tick
  \/ \E a \in Adv : Update(a)
  \/ Start \/ Backfill
  \/ Query \/ NoPage \/ Upsert \/ UpsertFails \/ EndPage \/ Success \/ Fail
  \/ Crash

Spec == Init /\ [][Next]_vars

-----------------------------------------------------------------------------
TypeOK ==
  /\ now \in Nat
  /\ upstream \in [Adv -> Nat]
  /\ store \in [Adv -> Instant]
  /\ row \in SyncRow
  /\ horizon \in Nat
  /\ run \in [pc: {"idle", "query", "nodes", "success"}, backfill: BOOLEAN,
              since: Instant, cursor: Instant, page: SUBSET (Adv \X Nat),
              more: BOOLEAN, started: Instant,
              errors: SUBSET (Adv \X Nat), cut: BOOLEAN]

\* lastSyncAt is "hasta que fecha se sincronizo la data" (README.md:212).
WatermarkSound ==
  \A a \in Adv : (horizon <= upstream[a] /\ upstream[a] < row.lastSyncAt)
                   => store[a] = upstream[a]

\* The step that records the success of a run.
Succeeds == run.pc = "success" /\ row' # row /\ ~row'.lastError

\* What a run leaves behind at GitHub's present state: stored, or reported as an error.
Settled(a) == store[a] = upstream[a] \/ <<a, upstream[a]>> \in run.errors

\* However many advisories move to the end of the order while pages are being stored, an
\* incremental run that ends in success, each of its queries answered with a page, has
\* settled every update between its since and its start that is not superseded.
RunCompletes ==
  (Succeeds /\ ~run.backfill /\ ~run.cut) =>
    \A a \in Adv : (run.since < upstream[a] /\ upstream[a] < run.started) => Settled(a)

RunComplete == [][RunCompletes]_vars

\* A backfill "por fecha" (README.md:226) that ends in success has settled what was
\* updated from its date on.
BackfillComplete ==
  [][(Succeeds /\ run.backfill /\ ~run.cut) =>
       \A a \in Adv : (run.since <= upstream[a] /\ upstream[a] < run.started)
                        => Settled(a)]_vars
=============================================================================
