-------------------------- MODULE EmbeddingIndex --------------------------
(***************************************************************************)
(* The vector index of the AI chat (ai-chat/ingestion, ai-chat/vector):    *)
(* ingestAll() embeds what changed since the watermark of ai_sync_states,  *)
(* batch by batch, while a gate holds it back whenever an administrator or *)
(* a purge paused it or a chat request is being answered.  A purge empties *)
(* the index and the watermarks in one transaction.                        *)
(*                                                                         *)
(* One source is modelled; the five differ in what they select, and the    *)
(* actors delete the old chunks before their embedding rather than after.  *)
(* An entity is abstracted to the instant of its last update, its chunks   *)
(* to the version they were made from.  Each action is the code between    *)
(* two awaits; a waiter that is released goes on in the same step, as no   *)
(* request is handled before its continuation.                             *)
(***************************************************************************)
EXTENDS SyncState, FiniteSets

CONSTANTS
  Entity,       \* rows of the source table
  Purge,        \* slots for purge requests that may be in flight together
  BatchSize,    \* BATCH_SIZE
  CarefulAdmin, \* whether administrators resume only when no purge is in flight
  MaxChats,     \* bound: chat requests answered at the same time
  MaxTime       \* bound: the clock stops here

\* Asserted by the module that instantiates this one.
EmbeddingAssumption ==
  /\ IsFiniteSet(Entity)
  /\ BatchSize \in Nat \ {0}
  /\ CarefulAdmin \in BOOLEAN
  /\ MaxChats \in Nat /\ MaxTime \in Nat

VARIABLES
  now,          \* the clock
  updated,      \* updated[e]: updatedAt of e; Null until the row exists
  index,        \* index[e]: the version of e its chunks were made from, or Null
  watermark,    \* lastSyncAt of the row of the source in ai_sync_states, or Null
  ingest,       \* the local variables of ingestAll(); it is running unless idle
  manualPaused, \* EmbeddingSyncControlService.manualPaused
  chats,        \* EmbeddingSyncControlService.activeInteractiveRequests
  purge,        \* purge[p]: the local variables of each purge()
  adminPaused,  \* history: whether the last word of an administrator was to pause
  overtaken     \* history: the versions a watermark passed without a run having read them

vars == <<now, updated, index, watermark, ingest, manualPaused, chats, purge, adminPaused,
          overtaken>>

NoItem == <<>>

IdleIngest == [pc |-> "idle", next |-> "idle", since |-> Null, todo |-> {}, batch |-> {},
               item |-> NoItem, late |-> {}]

IdlePurge == [pc |-> "idle", wasPaused |-> FALSE, hasRows |-> FALSE]

Init ==
  /\ now = 0
  /\ updated = [e \in Entity |-> Null]
  /\ index = [e \in Entity |-> Null]
  /\ watermark = Null
  /\ ingest = IdleIngest
  /\ manualPaused = FALSE
  /\ chats = 0
  /\ purge = [p \in Purge |-> IdlePurge]
  /\ adminPaused = FALSE
  /\ overtaken = {}

Paused == manualPaused \/ chats > 0

\* waitIfPaused() before going on at next; run is the state of the ingestion so far.
Gate(run, next) == [run EXCEPT !.pc = IF Paused THEN "waiting" ELSE next, !.next = next]

\* notifyIfResumed(): the waiter goes on, and does not look at the pause again.
Notify ==
  ingest' = IF ingest.pc = "waiting" /\ ~Paused' THEN [ingest EXCEPT !.pc = ingest.next]
                                                 ELSE ingest

-----------------------------------------------------------------------------
Tick ==
  /\ now < MaxTime
  /\ now' = now + 1
  /\ UNCHANGED <<updated, index, watermark, ingest, manualPaused, chats, purge, adminPaused,
                 overtaken>>

\* Whether the ingestion has made its query.
HasRead == ingest.todo # {} \/ ingest.batch # {} \/ ingest.pc \in {"items", "insert", "mark"}

\* A row is created or updated.  A run past its query will not see it, and neither will
\* the next one when it carries the very instant of the watermark.
Update(e) ==
  /\ updated[e] # now
  /\ updated' = [updated EXCEPT ![e] = now]
  /\ ingest' = IF HasRead THEN [ingest EXCEPT !.late = @ \cup {<<e, now>>}] ELSE ingest
  /\ overtaken' = IF watermark = now THEN overtaken \cup {<<e, now>>} ELSE overtaken
  /\ UNCHANGED <<now, index, watermark, manualPaused, chats, purge, adminPaused>>

-----------------------------------------------------------------------------
\* ingestAll(): one at a time.  The cron looks at the manual pause, the manual trigger
\* does not.
Start(cron) ==
  /\ ingest.pc = "idle"
  /\ cron => ~manualPaused
  /\ ingest' = Gate(IdleIngest, "read")
  /\ UNCHANGED <<now, updated, index, watermark, manualPaused, chats, purge, adminPaused,
                 overtaken>>

ReadWatermark ==
  /\ ingest.pc = "read"
  /\ ingest' = [ingest EXCEPT !.pc = "query", !.since = watermark]
  /\ UNCHANGED <<now, updated, index, watermark, manualPaused, chats, purge, adminPaused,
                 overtaken>>

\* updatedAt > since; without rows the source is left as it is, watermark included.
Query ==
  /\ ingest.pc = "query"
  /\ LET rows == {<<e, updated[e]>> : e \in {f \in Entity : updated[f] > ingest.since}}
     IN  ingest' = IF rows = {} THEN IdleIngest ELSE Gate([ingest EXCEPT !.todo = rows], "batch")
  /\ UNCHANGED <<now, updated, index, watermark, manualPaused, chats, purge, adminPaused,
                 overtaken>>

\* orderBy updatedAt asc: a batch is made of rows no later than those that stay.
Oldest(rows) ==
  {batch \in SUBSET rows :
     /\ Cardinality(batch) = IF Cardinality(rows) < BatchSize THEN Cardinality(rows)
                                                             ELSE BatchSize
     /\ \A a \in batch, b \in rows \ batch : a[2] <= b[2]}

\* The next batch is embedded.
TakeBatch ==
  /\ ingest.pc = "batch"
  /\ \E batch \in Oldest(ingest.todo) :
       ingest' = [ingest EXCEPT !.pc = "items", !.batch = batch, !.todo = @ \ batch]
  /\ UNCHANGED <<now, updated, index, watermark, manualPaused, chats, purge, adminPaused,
                 overtaken>>

\* deleteBySource() ...
DeleteChunks ==
  /\ ingest.pc = "items"
  /\ \E item \in ingest.batch :
       /\ ingest' = [ingest EXCEPT !.pc = "insert", !.batch = @ \ {item}, !.item = item]
       /\ index' = [index EXCEPT ![item[1]] = Null]
  /\ UNCHANGED <<now, updated, watermark, manualPaused, chats, purge, adminPaused, overtaken>>

\* ... and insertChunk(), from the row as the query read it.
InsertChunks ==
  /\ ingest.pc = "insert"
  /\ index' = [index EXCEPT ![ingest.item[1]] = ingest.item[2]]
  /\ ingest' = [ingest EXCEPT !.pc = "items", !.item = NoItem]
  /\ UNCHANGED <<now, updated, watermark, manualPaused, chats, purge, adminPaused, overtaken>>

\* After the delay between batches: the gate again, or the end of the source.
EndBatch ==
  /\ ingest.pc = "items"
  /\ ingest.batch = {}
  /\ ingest' = IF ingest.todo = {} THEN [ingest EXCEPT !.pc = "mark"] ELSE Gate(ingest, "batch")
  /\ UNCHANGED <<now, updated, index, watermark, manualPaused, chats, purge, adminPaused,
                 overtaken>>

\* upsertSyncState(): the watermark is the time of the end of the source.
Mark ==
  /\ ingest.pc = "mark"
  /\ watermark' = now
  /\ overtaken' = overtaken \cup ingest.late
  /\ ingest' = IdleIngest
  /\ UNCHANGED <<now, updated, index, manualPaused, chats, purge, adminPaused>>

\* Ollama or the database fails: ingestAll() rejects, and running is reset.
Fail ==
  /\ ingest.pc \notin {"idle", "waiting"}
  /\ ingest' = IdleIngest
  /\ UNCHANGED <<now, updated, index, watermark, manualPaused, chats, purge, adminPaused,
                 overtaken>>

-----------------------------------------------------------------------------
AdminPause ==
  /\ manualPaused' = TRUE
  /\ adminPaused' = TRUE
  /\ UNCHANGED <<now, updated, index, watermark, ingest, chats, purge, overtaken>>

AdminResume ==
  /\ CarefulAdmin => \A p \in Purge : purge[p].pc = "idle"
  /\ manualPaused' = FALSE
  /\ adminPaused' = FALSE
  /\ UNCHANGED <<now, updated, index, watermark, chats, purge, overtaken>>
  /\ Notify

\* runWithInteractivePriority()
ChatBegin ==
  /\ chats < MaxChats
  /\ chats' = chats + 1
  /\ UNCHANGED <<now, updated, index, watermark, ingest, manualPaused, purge, adminPaused,
                 overtaken>>

\* Mutant: the end of a chat request does not wake the ingestion.
ChatEnd_Silent ==
  /\ chats > 0
  /\ chats' = chats - 1
  /\ UNCHANGED <<now, updated, index, watermark, ingest, manualPaused, purge, adminPaused,
                 overtaken>>

ChatEnd ==
  /\ chats > 0
  /\ chats' = chats - 1
  /\ UNCHANGED <<now, updated, index, watermark, manualPaused, purge, adminPaused, overtaken>>
  /\ Notify

-----------------------------------------------------------------------------
\* Mutant: a purge does not ask whether the ingestion is running.
PurgeBegin_Unchecked(p) ==
  /\ purge[p].pc = "idle"
  /\ purge' = [purge EXCEPT ![p] = [IdlePurge EXCEPT !.pc = "begun", !.wasPaused = manualPaused]]
  /\ manualPaused' = TRUE
  /\ UNCHANGED <<now, updated, index, watermark, ingest, chats, adminPaused, overtaken>>

\* purge() is refused while the ingestion is running; otherwise it pauses it.
PurgeBegin(p) ==
  /\ purge[p].pc = "idle"
  /\ ingest.pc = "idle"
  /\ purge' = [purge EXCEPT ![p] = [IdlePurge EXCEPT !.pc = "begun", !.wasPaused = manualPaused]]
  /\ manualPaused' = TRUE
  /\ UNCHANGED <<now, updated, index, watermark, ingest, chats, adminPaused, overtaken>>

\* The transaction takes the advisory lock and looks for rows; a second one gives up.
PurgeLock(p) ==
  /\ purge[p].pc = "begun"
  /\ purge' = IF \E q \in Purge : purge[q].pc = "locked"
              THEN [purge EXCEPT ![p].pc = "end"]
              ELSE [purge EXCEPT ![p].pc = "locked",
                                 ![p].hasRows = \E e \in Entity : index[e] # Null]
  /\ UNCHANGED <<now, updated, index, watermark, ingest, manualPaused, chats, adminPaused,
                 overtaken>>

\* TRUNCATE, DELETE FROM ai_sync_states, COMMIT.
PurgeCommit(p) ==
  /\ purge[p].pc = "locked"
  /\ index' = IF purge[p].hasRows THEN [e \in Entity |-> Null] ELSE index
  /\ watermark' = Null
  /\ purge' = [purge EXCEPT ![p].pc = "end"]
  /\ UNCHANGED <<now, updated, ingest, manualPaused, chats, adminPaused, overtaken>>

\* A query fails or the table lock times out: the transaction is rolled back.
PurgeFails(p) ==
  /\ purge[p].pc \in {"begun", "locked"}
  /\ purge' = [purge EXCEPT ![p].pc = "end"]
  /\ UNCHANGED <<now, updated, index, watermark, ingest, manualPaused, chats, adminPaused,
                 overtaken>>

\* Mutant: only a purge that found rows lifts its pause.
PurgeEnd_Keeps(p) ==
  /\ purge[p].pc = "end"
  /\ manualPaused' = IF ~purge[p].wasPaused /\ purge[p].hasRows THEN FALSE
                                                             ELSE manualPaused
  /\ purge' = [purge EXCEPT ![p] = IdlePurge]
  /\ UNCHANGED <<now, updated, index, watermark, chats, adminPaused, overtaken>>
  /\ Notify

\* The finally of purge().
PurgeEnd(p) ==
  /\ purge[p].pc = "end"
  /\ manualPaused' = IF purge[p].wasPaused THEN manualPaused ELSE FALSE
  /\ purge' = [purge EXCEPT ![p] = IdlePurge]
  /\ UNCHANGED <<now, updated, index, watermark, chats, adminPaused, overtaken>>
  /\ Notify

\* The process restarts: nothing is paused and nothing is running.
Crash ==
  /\ ingest' = IdleIngest
  /\ manualPaused' = FALSE
  /\ chats' = 0
  /\ purge' = [p \in Purge |-> IdlePurge]
  /\ adminPaused' = FALSE
  /\ UNCHANGED <<now, updated, index, watermark, overtaken>>

Next ==
  \/ Tick
  \/ \E e \in Entity : Update(e)
  \/ \E cron \in BOOLEAN : Start(cron)
  \/ ReadWatermark \/ Query \/ TakeBatch \/ DeleteChunks \/ InsertChunks \/ EndBatch \/ Mark
  \/ Fail
  \/ AdminPause \/ AdminResume \/ ChatBegin \/ ChatEnd
  \/ \E p \in Purge : PurgeBegin(p) \/ PurgeLock(p) \/ PurgeCommit(p) \/ PurgeFails(p)
  \/ \E p \in Purge : PurgeEnd(p)
  \/ Crash

Spec == Init /\ [][Next]_vars

-----------------------------------------------------------------------------
Version == Entity \X Nat

IngestState ==
  [pc: {"idle", "waiting", "read", "query", "batch", "items", "insert", "mark"},
   next: {"idle", "read", "batch"}, since: Instant, todo: SUBSET Version,
   batch: SUBSET Version, item: Version \cup {NoItem}, late: SUBSET Version]

PurgeState ==
  [pc: {"idle", "begun", "locked", "end"}, wasPaused: BOOLEAN, hasRows: BOOLEAN]

TypeOK ==
  /\ now \in Nat
  /\ updated \in [Entity -> Instant]
  /\ index \in [Entity -> Instant]
  /\ watermark \in Instant
  /\ ingest \in IngestState
  /\ ingest.pc = "insert" => ingest.item # NoItem
  /\ Cardinality(ingest.batch) <= BatchSize
  /\ {manualPaused, adminPaused} \subseteq BOOLEAN
  /\ chats \in 0..MaxChats
  /\ purge \in [Purge -> PurgeState]
  /\ overtaken \in SUBSET Version

\* "resets every sync watermark so the next ingestion re-embeds" (vector-purge.service.ts:37):
\* whatever purges, pauses, failures and restarts do, a row older than the watermark is in
\* the index in its current version, unless it was updated behind the back of a run.
IndexSound ==
  \A e \in Entity :
    (updated[e] # Null /\ updated[e] < watermark)
      => index[e] = updated[e] \/ <<e, updated[e]>> \in overtaken

\* The ingestion waits only while there is a pause whose end will wake it: no wake-up of
\* embedding-sync-control.service.ts:65 is lost.
NoLostWakeup == ingest.pc = "waiting" => Paused

\* A purge never leaves the ingestion paused: a manual pause outlives the purges only if
\* the last word of an administrator was to pause.
PauseAccounted == (manualPaused /\ \A p \in Purge : purge[p].pc = "idle") => adminPaused
=============================================================================
