----------------------------- MODULE SyncState -----------------------------
(***************************************************************************)
(* One row of the table vuln_sync_state and the three writes of            *)
(* SyncStateRepository (repositories/sync-state.repository.ts) as          *)
(* operators on it.  Instants are natural numbers; Null stands for a NULL  *)
(* column.  lastCount and errorCount are reporting data and are left out;  *)
(* lastError keeps only whether an error text is stored.                   *)
(***************************************************************************)
EXTENDS Integers

Null == -1

Instant == Nat \cup {Null}

SyncRow == [lastSyncAt: Instant, lastCursor: Instant, lastError: BOOLEAN]

\* seed(): a row without watermark, created once per source.
SeedRow == [lastSyncAt |-> Null, lastCursor |-> Null, lastError |-> FALSE]

\* An omitted cursor keeps the stored one; lastError is not cleared.
MarkProgress(row, watermark, cursor) ==
  [row EXCEPT !.lastSyncAt = watermark,
              !.lastCursor = IF cursor = Null THEN @ ELSE cursor]

\* An omitted cursor erases the stored one.
MarkSuccess(row, watermark, cursor) ==
  [row EXCEPT !.lastSyncAt = watermark, !.lastCursor = cursor, !.lastError = FALSE]

MarkError(row) == [row EXCEPT !.lastError = TRUE]

\* a ?? b
OrElse(a, b) == IF a = Null THEN b ELSE a
=============================================================================
