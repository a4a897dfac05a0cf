--------------------------- MODULE AiChat_proofs ---------------------------
(***************************************************************************)
(* Proofs about the assistant, for any sizes.  Of the vector index: no     *)
(* waiter is forgotten and no pause is left behind, whatever overlaps, and *)
(* the index agrees with its watermark as long as purges do not overlap    *)
(* and administrators do not resume during one (README.md names, for both  *)
(* assumptions, an instance in which TLC finds that violated without it).  *)
(* Of a turn: every prompt fits into the context window.  Of the fallback  *)
(* chain and of a conversation: who is blamed, and what is sent.           *)
(***************************************************************************)
EXTENDS AiChat, WellFoundedInduction, FiniteSetTheorems, SequenceTheorems, TLAPS


\* The steps of the composition are steps of each part.
LEMMA IndexSteps ==
  /\ Init => Index!Init
  /\ [Next]_vars => [Index!Next]_(Index!vars)
<1>1. Init => Index!Init
  BY DEF Init
<1>2. [Next]_vars => [Index!Next]_(Index!vars)
  BY DEF Next, vars, Index!vars, indexed, budget, chain, conversation, InIndex, InTurn, InChain,
         InConversation
<1>3. QED
  BY <1>1, <1>2

SerialPurges == \A p, q \in Purge : p = q

IndexTyped ==
  /\ ingest \in Index!IngestState
  /\ ingest.pc = "insert" => ingest.item \in Index!Version
  /\ manualPaused \in BOOLEAN /\ adminPaused \in BOOLEAN
  /\ purge \in [Purge -> Index!PurgeState]
  /\ watermark \in Index!Instant /\ now \in Nat /\ chats \in Nat
  /\ updated \in [Entity -> Index!Instant]
  /\ index \in [Entity -> Index!Instant]

LEMMA IdleTypes ==
  /\ Index!IdleIngest \in Index!IngestState /\ Index!IdleIngest.pc = "idle"
  /\ Index!IdlePurge \in Index!PurgeState /\ Index!Null \in Index!Instant
  BY DEF Index!IdleIngest, Index!IngestState, Index!IdlePurge, Index!PurgeState, Index!Instant

LEMMA IndexTypedInit == Index!Init => IndexTyped
<1> SUFFICES ASSUME Index!Init PROVE IndexTyped
  OBVIOUS
<1>1. ingest \in Index!IngestState /\ ingest.pc = "idle"
  BY IdleTypes DEF Index!Init
<1>2. /\ updated \in [Entity -> Index!Instant] /\ index \in [Entity -> Index!Instant]
      /\ purge \in [Purge -> Index!PurgeState] /\ watermark \in Index!Instant
  BY IdleTypes DEF Index!Init
<1>3. QED
  BY <1>1, <1>2 DEF Index!Init, IndexTyped

LEMMA IndexTypedStep == IndexTyped /\ [Index!Next]_(Index!vars) => IndexTyped'
<1> SUFFICES ASSUME IndexTyped, [Index!Next]_(Index!vars) PROVE IndexTyped'
  OBVIOUS
<1> USE DEF IndexTyped, Index!IngestState
<1>1. CASE Index!Tick
  BY <1>1 DEF Index!Tick
<1>2. ASSUME NEW e \in Entity, Index!Update(e) PROVE IndexTyped'
  BY <1>2 DEF Index!Update, Index!Version, Index!Instant
<1>3. ASSUME NEW cron \in BOOLEAN, Index!Start(cron) PROVE IndexTyped'
  BY <1>3 DEF Index!Start, Index!Gate, Index!IdleIngest, Index!Instant
<1>4. CASE Index!ReadWatermark
  BY <1>4 DEF Index!ReadWatermark
<1>5. CASE Index!Query
  <2> DEFINE found == {<<e, updated[e]>> : e \in {f \in Entity : updated[f] > ingest.since}}
  <2>1. found \in SUBSET Index!Version
    BY DEF Index!Version, Index!Instant, Index!Null
  <2>2. CASE found = {}
    BY <1>5, <2>2, IdleTypes DEF Index!Query
  <2>3. CASE found # {}
    <3>1. ingest' = Index!Gate([ingest EXCEPT !.todo = found], "batch")
      BY <1>5, <2>3 DEF Index!Query
    <3>2. [ingest EXCEPT !.todo = found] \in Index!IngestState
      BY <2>1
    <3>3. QED
      BY <1>5, <3>1, <3>2 DEF Index!Query, Index!Gate
  <2>4. QED
    BY <2>2, <2>3
<1>6. CASE Index!TakeBatch
  <2>1. PICK batch \in SUBSET ingest.todo :
          ingest' = [ingest EXCEPT !.pc = "items", !.batch = batch, !.todo = @ \ batch]
    BY <1>6 DEF Index!TakeBatch, Index!Oldest
  <2>2. batch \in SUBSET Index!Version /\ ingest.todo \ batch \in SUBSET Index!Version
    OBVIOUS
  <2>3. QED
    BY <1>6, <2>1, <2>2 DEF Index!TakeBatch
<1>7. CASE Index!DeleteChunks
  <2>1. PICK item \in ingest.batch :
          /\ ingest' = [ingest EXCEPT !.pc = "insert", !.batch = @ \ {item}, !.item = item]
          /\ index' = [index EXCEPT ![item[1]] = Index!Null]
    BY <1>7 DEF Index!DeleteChunks
  <2>2. item \in Index!Version /\ ingest.batch \ {item} \in SUBSET Index!Version
    OBVIOUS
  <2>3. ingest' \in Index!IngestState
    BY <2>1, <2>2
  <2>4. index' \in [Entity -> Index!Instant]
    BY <2>1, IdleTypes
  <2>5. QED
    BY <1>7, <2>3, <2>4 DEF Index!DeleteChunks
<1>8. CASE Index!InsertChunks
  <2>1. ingest.item \in Index!Version
    BY <1>8 DEF Index!InsertChunks
  <2>2. ingest.item[1] \in Entity /\ ingest.item[2] \in Index!Instant
    BY <2>1 DEF Index!Version, Index!Instant
  <2>3. index' \in [Entity -> Index!Instant]
    BY <1>8, <2>2 DEF Index!InsertChunks
  <2>4. ingest' \in Index!IngestState
    BY <1>8 DEF Index!InsertChunks
  <2>5. QED
    BY <1>8, <2>3, <2>4 DEF Index!InsertChunks
<1>9. CASE Index!EndBatch
  BY <1>9 DEF Index!EndBatch, Index!Gate
<1>10. CASE Index!Mark
  BY <1>10 DEF Index!Mark, Index!IdleIngest, Index!Instant
<1>11. CASE Index!Fail
  BY <1>11 DEF Index!Fail, Index!IdleIngest, Index!Instant
<1>12. CASE Index!AdminPause \/ Index!AdminResume
  BY <1>12 DEF Index!AdminPause, Index!AdminResume, Index!Notify
<1>13. CASE Index!ChatBegin \/ Index!ChatEnd
  BY <1>13 DEF Index!ChatBegin, Index!ChatEnd, Index!Notify
<1>14. ASSUME NEW p \in Purge, Index!PurgeBegin(p) PROVE IndexTyped'
  BY <1>14 DEF Index!PurgeBegin, Index!PurgeState, Index!IdlePurge
<1>15. ASSUME NEW p \in Purge, Index!PurgeLock(p) PROVE IndexTyped'
  <2> DEFINE locked == \E q \in Purge : purge[q].pc = "locked"
             found == \E e \in Entity : index[e] # Index!Null
  <2>1. CASE locked
    BY <1>15, <2>1 DEF Index!PurgeLock, Index!PurgeState
  <2>2. CASE ~locked
    <3>1. purge' = [purge EXCEPT ![p].pc = "locked", ![p].hasRows = found]
      BY <1>15, <2>2 DEF Index!PurgeLock
    <3>2. found \in BOOLEAN
      OBVIOUS
    <3> HIDE DEF found
    <3>3. purge' \in [Purge -> Index!PurgeState]
      BY <3>1, <3>2 DEF Index!PurgeState
    <3>4. QED
      BY <1>15, <3>3 DEF Index!PurgeLock
  <2>3. QED
    BY <2>1, <2>2
<1>16. ASSUME NEW p \in Purge, Index!PurgeCommit(p) \/ Index!PurgeFails(p) PROVE IndexTyped'
  BY <1>16 DEF Index!PurgeCommit, Index!PurgeFails, Index!PurgeState, Index!Instant, Index!Null
<1>17. ASSUME NEW p \in Purge, Index!PurgeEnd(p) PROVE IndexTyped'
  BY <1>17 DEF Index!PurgeEnd, Index!Notify, Index!PurgeState, Index!IdlePurge
<1>18. CASE Index!Crash
  BY <1>18 DEF Index!Crash, Index!IdleIngest, Index!PurgeState, Index!IdlePurge, Index!Instant
<1>19. CASE UNCHANGED Index!vars
  BY <1>19 DEF Index!vars
<1>20. QED
  BY <1>1, <1>2, <1>3, <1>4, <1>5, <1>6, <1>7, <1>8, <1>9, <1>10, <1>11, <1>12, <1>13, <1>14,
     <1>15, <1>16, <1>17, <1>18, <1>19 DEF Index!Next

-----------------------------------------------------------------------------
\* The ingestion waits at the gate only while there is a pause, and its end will wake it.
LEMMA WakeupStep ==
  IndexTyped /\ Index!NoLostWakeup /\ [Index!Next]_(Index!vars) => Index!NoLostWakeup'
<1> SUFFICES ASSUME IndexTyped, Index!NoLostWakeup, [Index!Next]_(Index!vars)
             PROVE  Index!NoLostWakeup'
  OBVIOUS
<1> USE DEF Index!NoLostWakeup, Index!Paused, IndexTyped, Index!IngestState
<1>1. CASE Index!Tick \/ \E e \in Entity : Index!Update(e)
  BY <1>1 DEF Index!Tick, Index!Update
<1>2. ASSUME NEW cron \in BOOLEAN, Index!Start(cron) PROVE Index!NoLostWakeup'
  BY <1>2, IdleTypes DEF Index!Start, Index!Gate
<1>3. CASE Index!ReadWatermark \/ Index!TakeBatch \/ Index!DeleteChunks \/ Index!InsertChunks
  BY <1>3 DEF Index!ReadWatermark, Index!TakeBatch, Index!DeleteChunks, Index!InsertChunks
<1>4. CASE Index!Query
  <2> DEFINE found == {<<e, updated[e]>> : e \in {f \in Entity : updated[f] > ingest.since}}
  <2>1. ingest' = Index!IdleIngest \/ ingest' = Index!Gate([ingest EXCEPT !.todo = found], "batch")
    BY <1>4 DEF Index!Query
  <2> HIDE DEF found
  <2>2. QED
    BY <1>4, <2>1, IdleTypes DEF Index!Query, Index!Gate
<1>5. CASE Index!EndBatch
  BY <1>5 DEF Index!EndBatch, Index!Gate
<1>6. CASE Index!Mark \/ Index!Fail \/ Index!Crash
  <2>1. ingest' = Index!IdleIngest
    BY <1>6 DEF Index!Mark, Index!Fail, Index!Crash
  <2>2. QED
    BY <2>1, IdleTypes
<1>7. CASE Index!AdminPause \/ Index!ChatBegin
  BY <1>7 DEF Index!AdminPause, Index!ChatBegin
<1>8. CASE Index!AdminResume \/ Index!ChatEnd
  BY <1>8 DEF Index!AdminResume, Index!ChatEnd, Index!Notify
<1>9. ASSUME NEW p \in Purge,
             \/ Index!PurgeBegin(p) \/ Index!PurgeLock(p)
             \/ Index!PurgeCommit(p) \/ Index!PurgeFails(p)
      PROVE  Index!NoLostWakeup'
  BY <1>9 DEF Index!PurgeBegin, Index!PurgeLock, Index!PurgeCommit, Index!PurgeFails
<1>10. ASSUME NEW p \in Purge, Index!PurgeEnd(p) PROVE Index!NoLostWakeup'
  BY <1>10 DEF Index!PurgeEnd, Index!Notify
<1>11. CASE UNCHANGED Index!vars
  BY <1>11 DEF Index!vars
<1>12. QED
  BY <1>1, <1>2, <1>3, <1>4, <1>5, <1>6, <1>7, <1>8, <1>9, <1>10, <1>11 DEF Index!Next

\* No wake-up is lost: while the ingestion waits something is paused, whose end resumes it.
THEOREM WakeupCorrect == Spec => []NoLostWakeup
<1>1. Index!Init => Index!NoLostWakeup
  BY IdleTypes DEF Index!Init, Index!NoLostWakeup
<1>2. Index!NoLostWakeup => NoLostWakeup
  BY DEF NoLostWakeup
<1>3. QED
  BY IndexSteps, IndexTypedInit, IndexTypedStep, WakeupStep, <1>1, <1>2, PTL DEF Spec, Safety

-----------------------------------------------------------------------------
\* A pause no administrator asked for is that of a purge, which will lift it.
PauseInv ==
  manualPaused /\ ~adminPaused =>
    \E p \in Purge : purge[p].pc # "idle" /\ ~purge[p].wasPaused

LEMMA PauseStep == IndexTyped /\ PauseInv /\ [Index!Next]_(Index!vars) => PauseInv'
<1> SUFFICES ASSUME IndexTyped, PauseInv, [Index!Next]_(Index!vars) PROVE PauseInv'
  OBVIOUS
<1> USE DEF PauseInv, IndexTyped, Index!PurgeState
<1>1. CASE UNCHANGED <<manualPaused, adminPaused, purge>>
  BY <1>1
<1>2. CASE Index!AdminPause \/ Index!AdminResume \/ Index!Crash
  BY <1>2 DEF Index!AdminPause, Index!AdminResume, Index!Crash
<1>3. ASSUME NEW p \in Purge, Index!PurgeBegin(p) PROVE PauseInv'
  BY <1>3 DEF Index!PurgeBegin, Index!IdlePurge
<1>4. ASSUME NEW p \in Purge, Index!PurgeLock(p) PROVE PauseInv'
  BY <1>4 DEF Index!PurgeLock
<1>5. ASSUME NEW p \in Purge, Index!PurgeCommit(p) \/ Index!PurgeFails(p) PROVE PauseInv'
  BY <1>5 DEF Index!PurgeCommit, Index!PurgeFails
<1>6. ASSUME NEW p \in Purge, Index!PurgeEnd(p) PROVE PauseInv'
  BY <1>6 DEF Index!PurgeEnd, Index!IdlePurge
<1>7. QED
  BY <1>1, <1>2, <1>3, <1>4, <1>5, <1>6
     DEF Index!Next, Index!vars, Index!Tick, Index!Update, Index!Start, Index!ReadWatermark,
         Index!Query,
         Index!TakeBatch, Index!DeleteChunks,
         Index!InsertChunks, Index!EndBatch, Index!Mark, Index!Fail, Index!ChatBegin, Index!ChatEnd

\* However many purges overlap, with each other and with what administrators do, they leave no
\* pause behind that no administrator asked for.
THEOREM PauseCorrect == Spec => []PauseAccounted
<1>1. Index!Init => PauseInv
  BY DEF Index!Init, PauseInv
<1>2. PauseInv => PauseAccounted
  BY DEF PauseInv, PauseAccounted, Index!PauseAccounted
<1>3. QED
  BY IndexSteps, IndexTypedInit, IndexTypedStep, PauseStep, <1>1, <1>2, PTL DEF Spec, Safety

-----------------------------------------------------------------------------
\* What the ingestion holds at each of its stages, and that a purge finds it at rest.
IngestShape ==
  /\ ingest.pc = "waiting" => ingest.next \in {"read", "batch"}
  /\ (ingest.pc \in {"idle", "read", "query", "mark"}
        \/ (ingest.pc = "waiting" /\ ingest.next = "read"))
       => ingest.todo = {} /\ ingest.batch = {}
  /\ (ingest.pc = "batch" \/ (ingest.pc = "waiting" /\ ingest.next = "batch"))
       => ingest.todo # {} /\ ingest.batch = {}
  /\ ingest.pc = "query" => ingest.since = watermark
  /\ \A p \in Purge : purge[p].pc # "idle" =>
       manualPaused /\ (ingest.pc = "idle" \/ (ingest.pc = "waiting" /\ ingest.next = "read"))

LEMMA IngestShapeInit == Index!Init => IngestShape
  BY DEF Index!Init, IngestShape, Index!IdleIngest, Index!IdlePurge

LEMMA IngestShapeStep ==
  ASSUME SerialPurges, CarefulAdmin, IndexTyped, IngestShape, [Index!Next]_(Index!vars)
  PROVE  IngestShape'
<1> USE DEF IngestShape, IndexTyped, Index!IngestState, Index!PurgeState, Index!Paused
<1>1. CASE Index!Tick
  BY <1>1 DEF Index!Tick
<1>2. ASSUME NEW e \in Entity, Index!Update(e) PROVE IngestShape'
  BY <1>2 DEF Index!Update
<1>3. ASSUME NEW cron \in BOOLEAN, Index!Start(cron) PROVE IngestShape'
  BY <1>3 DEF Index!Start, Index!Gate, Index!IdleIngest
<1>4. CASE Index!ReadWatermark
  BY <1>4 DEF Index!ReadWatermark
<1>5. CASE Index!Query
  <2> DEFINE found == {<<e, updated[e]>> : e \in {f \in Entity : updated[f] > ingest.since}}
  <2>1. \/ found # {} /\ ingest' = Index!Gate([ingest EXCEPT !.todo = found], "batch")
        \/ ingest' = Index!IdleIngest
    BY <1>5 DEF Index!Query
  <2>2. ingest.pc = "query" /\ UNCHANGED <<manualPaused, purge, watermark>>
    BY <1>5 DEF Index!Query
  <2>6. found \in SUBSET Index!Version
    BY DEF Index!Version, Index!Instant, Index!Null
  <2> HIDE DEF found
  <2>3. CASE ingest' = Index!IdleIngest
    BY <2>2, <2>3 DEF Index!IdleIngest
  <2>4. CASE found # {} /\ ingest' = Index!Gate([ingest EXCEPT !.todo = found], "batch")
    <3>1. /\ ingest'.pc \in {"waiting", "batch"} /\ ingest'.next = "batch"
          /\ ingest'.todo = found /\ ingest'.batch = {}
      <4> DEFINE run == [ingest EXCEPT !.todo = found]
      <4>1. run \in Index!IngestState /\ run.todo = found /\ run.batch = {}
        BY <2>2, <2>6
      <4>2. ingest' = [run EXCEPT !.pc = IF Index!Paused THEN "waiting" ELSE "batch",
                                !.next = "batch"]
        BY <2>4 DEF Index!Gate
      <4>3. QED
        BY <4>1, <4>2
    <3>2. \A p \in Purge : purge'[p].pc = "idle"
      BY <2>2
    <3>3. QED
      BY <2>2, <2>4, <3>1, <3>2
  <2>5. QED
    BY <2>1, <2>3, <2>4
<1>6. CASE Index!TakeBatch \/ Index!DeleteChunks \/ Index!InsertChunks
  BY <1>6 DEF Index!TakeBatch, Index!DeleteChunks, Index!InsertChunks
<1>7. CASE Index!EndBatch
  BY <1>7 DEF Index!EndBatch, Index!Gate
<1>8. CASE Index!Mark
  BY <1>8 DEF Index!Mark, Index!IdleIngest
<1>9. CASE Index!Fail
  BY <1>9 DEF Index!Fail, Index!IdleIngest
<1>10. CASE Index!AdminPause
  BY <1>10 DEF Index!AdminPause
<1>11. CASE Index!AdminResume
  BY <1>11 DEF Index!AdminResume, Index!Notify
<1>12. CASE Index!ChatBegin \/ Index!ChatEnd
  BY <1>12 DEF Index!ChatBegin, Index!ChatEnd, Index!Notify
<1>13. ASSUME NEW p \in Purge, Index!PurgeBegin(p) PROVE IngestShape'
  <2>1. /\ UNCHANGED <<ingest, watermark>> /\ ingest.pc = "idle" /\ manualPaused' = TRUE
    BY <1>13 DEF Index!PurgeBegin
  <2>2. QED
    BY <2>1
<1>14. ASSUME NEW p \in Purge, Index!PurgeLock(p) PROVE IngestShape'
  <2>1. /\ UNCHANGED <<ingest, manualPaused, watermark>> /\ purge[p].pc = "begun"
        /\ \A q \in Purge \ {p} : purge'[q] = purge[q]
    BY <1>14 DEF Index!PurgeLock
  <2>2. QED
    BY <2>1
<1>15. ASSUME NEW p \in Purge, Index!PurgeCommit(p) \/ Index!PurgeFails(p) PROVE IngestShape'
  BY <1>15 DEF Index!PurgeCommit, Index!PurgeFails
<1>16. ASSUME NEW p \in Purge, Index!PurgeEnd(p) PROVE IngestShape'
  BY <1>16 DEF Index!PurgeEnd, Index!Notify, SerialPurges, Index!IdlePurge
<1>17. CASE Index!Crash
  BY <1>17 DEF Index!Crash, Index!IdleIngest, Index!IdlePurge
<1>18. CASE UNCHANGED Index!vars
  BY <1>18 DEF Index!vars
<1>19. QED
  BY <1>1, <1>2, <1>3, <1>4, <1>5, <1>6, <1>7, <1>8, <1>9, <1>10, <1>11, <1>12, <1>13, <1>14,
     <1>15, <1>16, <1>17, <1>18 DEF Index!Next

-----------------------------------------------------------------------------
\* The versions read and not yet in the index.
Pending == ingest.todo \cup ingest.batch \cup (IF ingest.pc = "insert" THEN {ingest.item} ELSE {})

Current(e) == index[e] = updated[e]

\* What the watermark claims is indexed, its own instant included, or was passed over.
Claim ==
  \A e \in Entity :
    (updated[e] # Index!Null /\ updated[e] <= watermark) =>
      Current(e) \/ <<e, updated[e]>> \in overtaken

\* A pending version is past the watermark; the run knows when it is no longer the last one.
PendingSound ==
  \A v \in Pending :
    /\ v[2] > watermark /\ v[2] <= updated[v[1]]
    /\ v[2] = updated[v[1]] \/ <<v[1], updated[v[1]]>> \in ingest.late

\* What a run past its query has yet to index, it holds, or knows to have come too late.
RunSound ==
  Index!HasRead =>
    \A e \in Entity : updated[e] # Index!Null =>
      \/ updated[e] <= watermark
      \/ Current(e)
      \/ <<e, updated[e]>> \in ingest.late \cup Pending

IndexInv ==
  /\ watermark <= now /\ \A e \in Entity : updated[e] <= now
  /\ Claim
  /\ PendingSound
  /\ RunSound

LEMMA IndexInit == Index!Init => IndexInv
<1> SUFFICES ASSUME Index!Init PROVE IndexInv
  OBVIOUS
<1>1. ~Index!HasRead /\ Pending = {}
  BY DEF Index!Init, Index!IdleIngest, Index!HasRead, Pending
<1>2. QED
  BY <1>1 DEF Index!Init, IndexInv, Claim, PendingSound, RunSound, Index!Null

\* A run that is at rest owes nothing.
LEMMA IngestAtRest ==
  ASSUME ingest.todo = {}, ingest.batch = {}, ingest.pc \notin {"items", "insert", "mark"}
  PROVE  ~Index!HasRead /\ Pending = {} /\ PendingSound /\ RunSound
  BY DEF Index!HasRead, Pending, PendingSound, RunSound

\* A step that touches neither the rows nor what a run holds preserves what is known of them.
LEMMA SameRun ==
  ASSUME IndexInv,
         UNCHANGED <<now, updated, index, watermark, overtaken>>,
         UNCHANGED <<Pending, Index!HasRead>>, ingest'.late = ingest.late
  PROVE  IndexInv'
  BY DEF IndexInv, Claim, PendingSound, RunSound, Current

LEMMA DroppedRun ==
  ASSUME IndexInv,
         UNCHANGED <<now, updated, index, watermark, overtaken>>, ingest' = Index!IdleIngest
  PROVE  IndexInv'
<1>1. ~Index!HasRead' /\ Pending' = {}
  BY DEF Index!IdleIngest, Index!HasRead, Pending
<1>2. QED
  BY <1>1 DEF IndexInv, Claim, PendingSound, RunSound, Current

LEMMA PastWatermark ==
  ASSUME IndexTyped, IndexInv, NEW v \in Index!Version, v \in Pending
  PROVE  v[1] \in Entity /\ v = <<v[1], v[2]>> /\ updated[v[1]] > watermark
<1>1. v[1] \in Entity /\ v[2] \in Nat /\ v = <<v[1], v[2]>>
  BY DEF Index!Version
<1>2. v[2] > watermark /\ v[2] <= updated[v[1]]
  BY DEF IndexInv, PendingSound
<1>3. updated[v[1]] \in Int /\ watermark \in Int
  BY <1>1 DEF IndexTyped, Index!Instant, Index!Null
<1>4. QED
  BY <1>1, <1>2, <1>3

LEMMA IndexStep ==
  ASSUME SerialPurges, IndexTyped, IngestShape, IndexInv, [Index!Next]_(Index!vars), IndexTyped',
         IngestShape'
  PROVE  IndexInv'
<1> DEFINE rest == <<now, updated, index, watermark, overtaken>>
<1>1. ASSUME Index!Notify, UNCHANGED rest PROVE IndexInv'
  <2>1. CASE ingest' = ingest
    BY <1>1, <2>1, SameRun DEF Pending, Index!HasRead
  <2>2. CASE ingest.pc = "waiting" /\ ingest' = [ingest EXCEPT !.pc = ingest.next]
    <3>1. /\ ingest'.pc \in {"read", "batch"} /\ ingest'.todo = ingest.todo
          /\ ingest'.batch = ingest.batch /\ ingest'.late = ingest.late
      BY <2>2 DEF IndexTyped, Index!IngestState, IngestShape
    <3>2. UNCHANGED <<Pending, Index!HasRead>>
      BY <2>2, <3>1 DEF Pending, Index!HasRead
    <3>3. QED
      BY <1>1, <3>1, <3>2, SameRun
  <2>3. QED
    BY <1>1, <2>1, <2>2 DEF Index!Notify
<1>2. ASSUME UNCHANGED <<now, updated, index, watermark, overtaken, ingest>> PROVE IndexInv'
  BY <1>2, SameRun DEF Pending, Index!HasRead
<1>3. CASE Index!Tick
  <2>1. UNCHANGED <<updated, index, watermark, overtaken, ingest>> /\ now' = now + 1
    BY <1>3 DEF Index!Tick
  <2>2. UNCHANGED <<Pending, Index!HasRead>>
    BY <2>1 DEF Pending, Index!HasRead
  <2>3. Claim' /\ PendingSound' /\ RunSound'
    BY <2>1, <2>2 DEF IndexInv, Claim, PendingSound, RunSound, Current
  <2>4. QED
    BY <2>1, <2>3 DEF IndexInv, IndexTyped, Index!Instant, Index!Null
<1>4. ASSUME NEW e \in Entity, Index!Update(e) PROVE IndexInv'
  <2>1. /\ updated[e] # now /\ updated' = [updated EXCEPT ![e] = now]
        /\ UNCHANGED <<now, index, watermark>>
        /\ overtaken \subseteq overtaken' /\ (watermark = now => <<e, now>> \in overtaken')
        /\ Pending' = Pending /\ Index!HasRead' = Index!HasRead
        /\ ingest.late \subseteq ingest'.late /\ (Index!HasRead => <<e, now>> \in ingest'.late)
    BY <1>4 DEF Index!Update, IndexTyped, Index!IngestState, Pending, Index!HasRead
  <2>2. \A v \in Pending : Index!HasRead /\ v[1] \in Entity /\ v[2] \in Nat
    BY DEF Pending, Index!HasRead, IndexTyped, Index!IngestState, Index!Version
  <2>3. Claim'
    <3>1. updated'[e] = now /\ (now <= watermark => watermark = now)
      BY <2>1 DEF IndexInv, IndexTyped, Index!Instant, Index!Null
    <3>2. \A f \in Entity : f # e => updated'[f] = updated[f]
      BY <2>1 DEF IndexTyped
    <3>3. QED
      BY <2>1, <3>1, <3>2 DEF IndexInv, Claim, Current
  <2>4. PendingSound'
    <3> SUFFICES ASSUME NEW v \in Pending
                 PROVE  /\ v[2] > watermark /\ v[2] <= updated'[v[1]]
                        /\ v[2] = updated'[v[1]] \/ <<v[1], updated'[v[1]]>> \in ingest'.late
      BY <2>1 DEF PendingSound
    <3>1. /\ v[2] > watermark /\ v[2] <= updated[v[1]]
          /\ v[2] = updated[v[1]] \/ <<v[1], updated[v[1]]>> \in ingest.late
      BY DEF IndexInv, PendingSound
    <3>2. CASE v[1] = e
      <4>1. updated'[v[1]] = now /\ updated[v[1]] <= now
        BY <2>1, <3>2 DEF IndexInv, IndexTyped
      <4>2. v[2] <= now
        BY <2>2, <3>1, <3>2, <4>1 DEF IndexTyped, Index!Instant, Index!Null
      <4>3. QED
        BY <2>1, <2>2, <3>1, <3>2, <4>1, <4>2
    <3>3. CASE v[1] # e
      <4>1. updated'[v[1]] = updated[v[1]]
        BY <2>1, <2>2, <3>3 DEF IndexTyped
      <4>2. QED
        BY <2>1, <3>1, <4>1
    <3>4. QED
      BY <3>2, <3>3
  <2>5. RunSound'
    BY <2>1 DEF IndexInv, RunSound, Current, IndexTyped
  <2>6. QED
    BY <2>1, <2>3, <2>4, <2>5 DEF IndexInv, IndexTyped
<1>5. ASSUME NEW cron \in BOOLEAN, Index!Start(cron) PROVE IndexInv'
  BY <1>5, IngestAtRest DEF Index!Start, Index!Gate, Index!IdleIngest, IndexInv, Claim, Current,
         PendingSound, RunSound,
                      Index!HasRead, Pending
<1>6. CASE Index!ReadWatermark
  <2>1. UNCHANGED rest /\ ingest'.pc = "query" /\ ingest'.late = ingest.late
    BY <1>6 DEF Index!ReadWatermark, IndexTyped, Index!IngestState
  <2>2. ingest.pc = "read" /\ ingest.todo = {} /\ ingest.batch = {}
        /\ ingest'.todo = {} /\ ingest'.batch = {}
    BY <1>6, <2>1 DEF Index!ReadWatermark, IngestShape
  <2>3. QED
    BY <2>1, <2>2, SameRun DEF Pending, Index!HasRead
<1>7. CASE Index!Query
  <2> DEFINE found == {<<e, updated[e]>> : e \in {f \in Entity : updated[f] > ingest.since}}
  <2>1. UNCHANGED rest /\ ingest.since = watermark
    BY <1>7 DEF Index!Query, IngestShape
  <2>2. CASE ingest' = Index!IdleIngest
    BY <2>1, <2>2, DroppedRun
  <2>3. CASE ingest' = Index!Gate([ingest EXCEPT !.todo = found], "batch")
    <3>1. \A v \in found : v[1] \in Entity /\ v[2] = updated[v[1]] /\ v[2] > watermark
      BY <2>1
    <3>2. \A e \in Entity : updated[e] > watermark => <<e, updated[e]>> \in found
      BY <2>1
    <3> HIDE DEF found
    <3>3. ingest'.todo = found /\ ingest'.pc \in {"waiting", "batch"}
          /\ ingest'.batch = ingest.batch
      BY <2>3 DEF Index!Gate, IndexTyped, Index!IngestState
    <3>4. Pending' = found
      <4>1. ingest.batch = {}
        BY <1>7 DEF Index!Query, IngestShape
      <4>2. QED
        BY <3>3, <4>1 DEF Pending
    <3>5. PendingSound'
      BY <2>1, <3>1, <3>4 DEF PendingSound, IndexTyped, Index!Instant, Index!Null
    <3>6. RunSound'
      BY <2>1, <3>2, <3>4 DEF RunSound, IndexTyped, Index!Instant, Index!Null
    <3>7. QED
      BY <2>1, <3>5, <3>6 DEF IndexInv, Claim, Current
  <2>4. QED
    BY <1>7, <2>2, <2>3 DEF Index!Query
<1>8. CASE Index!TakeBatch
  <2>1. UNCHANGED rest /\ ingest.pc = "batch" /\ ingest.batch = {}
    BY <1>8 DEF Index!TakeBatch, IngestShape
  <2>2. PICK batch \in SUBSET ingest.todo :
          ingest' = [ingest EXCEPT !.pc = "items", !.batch = batch, !.todo = @ \ batch]
    BY <1>8 DEF Index!TakeBatch, Index!Oldest
  <2>3. /\ ingest'.pc = "items" /\ ingest'.batch = batch
        /\ ingest'.todo = ingest.todo \ batch /\ ingest'.late = ingest.late
    BY <2>2 DEF IndexTyped, Index!IngestState
  <2>4. ingest.todo # {}
    BY <1>8 DEF Index!TakeBatch, IngestShape
  <2>5. QED
    BY <2>1, <2>3, <2>4, SameRun DEF Pending, Index!HasRead
<1>9. CASE Index!DeleteChunks
  <2>1. PICK item \in ingest.batch :
          /\ ingest' = [ingest EXCEPT !.pc = "insert", !.batch = @ \ {item}, !.item = item]
          /\ index' = [index EXCEPT ![item[1]] = Index!Null]
    BY <1>9 DEF Index!DeleteChunks
  <2>2. UNCHANGED <<now, updated, watermark, overtaken>> /\ ingest.pc = "items"
    BY <1>9 DEF Index!DeleteChunks
  <2>3. /\ ingest'.pc = "insert" /\ ingest'.batch = ingest.batch \ {item} /\ ingest'.item = item
        /\ ingest'.todo = ingest.todo /\ ingest'.late = ingest.late
    BY <2>1 DEF IndexTyped, Index!IngestState
  <2>4. Pending' = Pending /\ Index!HasRead
    BY <2>2, <2>3 DEF Pending, Index!HasRead
  <2>5. item \in Pending /\ item \in Index!Version
    <3>1. ingest.batch \subseteq Index!Version /\ ingest.batch \subseteq Pending
      BY DEF Pending, IndexTyped, Index!IngestState
    <3>2. QED
      BY <3>1
  <2>6. item[1] \in Entity /\ item = <<item[1], item[2]>> /\ updated[item[1]] > watermark
    BY <2>5, PastWatermark
  <2>7. \A e \in Entity : e # item[1] => (Current(e)' <=> Current(e))
    BY <2>1, <2>2, <2>6 DEF Current, IndexTyped
  <2>8. Claim'
    BY <2>2, <2>6, <2>7 DEF IndexInv, Claim, IndexTyped, Index!Instant, Index!Null
  <2>9. PendingSound'
    BY <2>2, <2>3, <2>4 DEF IndexInv, PendingSound
  <2>10. RunSound'
    <3>1. updated[item[1]] = item[2] \/ <<item[1], updated[item[1]]>> \in ingest.late
      BY <2>5 DEF IndexInv, PendingSound
    <3>2. QED
      BY <2>2, <2>3, <2>4, <2>5, <2>6, <2>7, <3>1 DEF IndexInv, RunSound
  <2>11. QED
    BY <2>2, <2>8, <2>9, <2>10 DEF IndexInv
<1>10. CASE Index!InsertChunks
  <2>1. PICK item \in Index!Version : item = ingest.item
    BY <1>10 DEF Index!InsertChunks, IndexTyped
  <2>2. /\ UNCHANGED <<now, updated, watermark, overtaken>> /\ ingest.pc = "insert"
        /\ index' = [index EXCEPT ![item[1]] = item[2]]
    BY <1>10, <2>1 DEF Index!InsertChunks
  <2>3. /\ ingest'.pc = "items" /\ ingest'.batch = ingest.batch
        /\ ingest'.todo = ingest.todo /\ ingest'.late = ingest.late
    BY <1>10 DEF Index!InsertChunks, IndexTyped, Index!IngestState
  <2>4. /\ Index!HasRead /\ item \in Pending
        /\ Pending' \subseteq Pending /\ Pending \subseteq Pending' \cup {item}
    BY <2>2, <2>3, <2>1 DEF Pending, Index!HasRead
  <2>5. item[1] \in Entity /\ item = <<item[1], item[2]>> /\ updated[item[1]] > watermark
    BY <2>4, <2>1, PastWatermark
  <2>6. \A e \in Entity : e # item[1] => (Current(e)' <=> Current(e))
    BY <2>2, <2>5 DEF Current, IndexTyped
  <2>7. Current(item[1])' \/ <<item[1], updated[item[1]]>> \in ingest.late
    <3>1. index'[item[1]] = item[2] /\ updated' = updated
      BY <2>2, <2>5 DEF IndexTyped
    <3>2. item[2] = updated[item[1]] \/ <<item[1], updated[item[1]]>> \in ingest.late
      BY <2>4 DEF IndexInv, PendingSound
    <3>3. QED
      BY <3>1, <3>2 DEF Current
  <2>8. Claim'
    BY <2>2, <2>5, <2>6 DEF IndexInv, Claim, IndexTyped, Index!Instant, Index!Null
  <2>9. PendingSound'
    BY <2>2, <2>3, <2>4 DEF IndexInv, PendingSound
  <2>10. RunSound'
    <3>1. ASSUME NEW e \in Entity, updated[e] # Index!Null
          PROVE  \/ updated[e] <= watermark
                 \/ Current(e)'
                 \/ <<e, updated[e]>> \in ingest.late \cup Pending'
      <4>1. CASE e = item[1]
        BY <2>7, <4>1
      <4>2. CASE e # item[1]
        <5>1. <<e, updated[e]>> # item
          BY <2>5, <4>2
        <5>2. QED
          BY <2>4, <2>6, <3>1, <4>2, <5>1 DEF IndexInv, RunSound
      <4>3. QED
        BY <4>1, <4>2
    <3>2. QED
      BY <2>2, <2>3, <3>1 DEF RunSound
  <2>11. QED
    BY <2>2, <2>8, <2>9, <2>10 DEF IndexInv
<1>11. CASE Index!EndBatch
  <2>1. UNCHANGED rest /\ ingest.pc = "items" /\ ingest.batch = {}
    BY <1>11 DEF Index!EndBatch
  <2>2. /\ ingest'.pc \in {"mark", "waiting", "batch"} /\ ingest'.batch = {}
        /\ ingest'.todo = ingest.todo /\ ingest'.late = ingest.late
        /\ ingest.todo = {} => ingest'.pc = "mark"
    BY <1>11 DEF Index!EndBatch, Index!Gate, IndexTyped, Index!IngestState
  <2>3. UNCHANGED <<Pending, Index!HasRead>>
    BY <2>1, <2>2 DEF Pending, Index!HasRead
  <2>4. QED
    BY <2>1, <2>2, <2>3, SameRun
<1>12. CASE Index!Mark
  <2>1. /\ UNCHANGED <<now, updated, index>> /\ watermark' = now
        /\ overtaken' = overtaken \cup ingest.late
        /\ ingest' = Index!IdleIngest /\ ingest.pc = "mark"
    BY <1>12 DEF Index!Mark
  <2>2. Index!HasRead /\ Pending = {} /\ ~Index!HasRead' /\ Pending' = {}
    BY <2>1 DEF Index!HasRead, Pending, Index!IdleIngest, IngestShape
  <2>3. Claim'
    <3> SUFFICES ASSUME NEW e \in Entity, updated[e] # Index!Null
                 PROVE  Current(e) \/ <<e, updated[e]>> \in overtaken \cup ingest.late
      BY <2>1 DEF Claim, Current
    <3>1. QED
      BY <2>2 DEF IndexInv, Claim, RunSound
  <2>4. PendingSound' /\ RunSound'
    BY <2>2 DEF PendingSound, RunSound
  <2>5. QED
    BY <2>1, <2>3, <2>4 DEF IndexInv, IndexTyped
<1>13. CASE Index!Fail \/ Index!Crash
  BY <1>13, DroppedRun DEF Index!Fail, Index!Crash
<1>14. CASE Index!AdminResume \/ Index!ChatEnd \/ \E p \in Purge : Index!PurgeEnd(p)
  BY <1>1, <1>14 DEF Index!AdminResume, Index!ChatEnd, Index!PurgeEnd
<1>15. CASE \/ Index!AdminPause \/ Index!ChatBegin \/ UNCHANGED Index!vars
            \/ \E p \in Purge : Index!PurgeBegin(p) \/ Index!PurgeLock(p) \/ Index!PurgeFails(p)
  BY <1>2, <1>15 DEF Index!AdminPause, Index!ChatBegin, Index!vars, Index!PurgeBegin,
                     Index!PurgeLock, Index!PurgeFails
<1>16. ASSUME NEW p \in Purge, Index!PurgeCommit(p) PROVE IndexInv'
  <2>1. /\ UNCHANGED <<now, updated, overtaken, ingest>> /\ watermark' = Index!Null
        /\ purge[p].pc = "locked"
    BY <1>16 DEF Index!PurgeCommit
  <2>2. ~Index!HasRead' /\ Pending' = {}
    BY <2>1 DEF IngestShape, Index!HasRead, Pending
  <2>3. \A e \in Entity : updated[e] # Index!Null => updated[e] > Index!Null
    BY DEF IndexTyped, Index!Instant, Index!Null
  <2>4. Claim' /\ PendingSound' /\ RunSound'
    BY <2>1, <2>2, <2>3 DEF Claim, PendingSound, RunSound, IndexTyped, Index!Instant, Index!Null
  <2>5. QED
    BY <2>1, <2>4 DEF IndexInv, IndexTyped, Index!Null
<1>17. QED
  BY <1>3, <1>4, <1>5, <1>6, <1>7, <1>8, <1>9, <1>10, <1>11, <1>12, <1>13, <1>14, <1>15, <1>16
     DEF Index!Next

\* "resets every sync watermark so the next ingestion re-embeds" (vector-purge.service.ts:37):
\* what is older than the watermark is in the index in its last version, or was updated behind
\* the back of a run.
THEOREM IndexCorrect ==
  ASSUME SerialPurges, CarefulAdmin
  PROVE  Spec => []IndexSound
<1>1. IndexTyped /\ IngestShape /\ [Index!Next]_(Index!vars) => IngestShape'
  BY IngestShapeStep
<1>2. IndexTyped /\ IngestShape /\ IndexInv /\ IndexTyped' /\ IngestShape'
        /\ [Index!Next]_(Index!vars) => IndexInv'
  BY IndexStep
<1>3. IndexTyped /\ IndexInv => IndexSound
  BY DEF IndexSound, IndexTyped, IndexInv, Claim, Current, Index!IndexSound,
         Index!Instant, Index!Null
<1>4. QED
  BY IndexSteps, IndexTypedInit, IndexTypedStep, IngestShapeInit, IndexInit, <1>1, <1>2, <1>3, PTL
  DEF Spec, Safety

-----------------------------------------------------------------------------
\* ContextBudget
LEMMA BudgetSteps ==
  /\ Init => Budget!Init
  /\ [Next]_vars => [Budget!Next]_(Budget!budgetVars)
<1>1. Init => Budget!Init
  BY DEF Init
<1>2. [Next]_vars => [Budget!Next]_(Budget!budgetVars)
  BY DEF Next, vars, Budget!budgetVars, indexed, budget, chain, conversation, InIndex, InTurn,
         InChain, InConversation
<1>3. QED
  BY <1>1, <1>2

\* Every set of naturals that is not empty has a least element.
LEMMA LeastElement ==
  ASSUME NEW T \in SUBSET Nat, T # {}
  PROVE  \E x \in T : \A y \in T : x <= y
<1>1. PICK n \in T : TRUE
  OBVIOUS
<1> DEFINE F == {0..k : k \in T \cap 0..n}
<1>2. IsFiniteSet(0..n)
  BY FS_Interval
<1>3. F \in SUBSET SUBSET (0..n) /\ F # {}
  BY <1>1
<1> HIDE DEF F
<1>4. \E X \in F : \A Y \in F : ~ (<<Y, X>> \in StrictSubsetOrdering(0..n))
  <2>1. IsWellFoundedOn(StrictSubsetOrdering(0..n), SUBSET (0..n))
    BY <1>2, FS_FiniteSubsetsOfFinite, FS_StrictSubsetOrderingWellFounded
  <2>2. QED
    BY <1>3, <2>1, WFMin
<1>5. PICK X \in F : \A Y \in F : ~ (Y \subseteq X /\ Y # X)
  BY <1>3, <1>4 DEF StrictSubsetOrdering
<1>6. PICK k \in T \cap 0..n : X = 0..k
  BY DEF F
<1>7. ASSUME NEW y \in T, y < k PROVE FALSE
  <2>1. 0..y \in F /\ 0..y \subseteq X /\ k \in X /\ k \notin 0..y
    BY <1>6, <1>7 DEF F
  <2>2. QED
    BY <1>5, <2>1
<1>8. \A y \in T : k <= y
  BY <1>7
<1>9. QED
  BY <1>8

\* f holds the partial sums of the first n elements of s.
PartialSums(f, s, n) == f = [i \in 0..n |-> IF i = 0 THEN 0 ELSE f[i - 1] + s[i]]

LEMMA PartialSumsExist ==
  ASSUME NEW s \in Seq(Nat)
  PROVE  \A n \in 0..Len(s) : \E f \in [0..n -> Nat] : PartialSums(f, s, n)
<1> DEFINE Good(n) == \E f \in [0..n -> Nat] : PartialSums(f, s, n)
           Bad == {n \in 0..Len(s) : ~Good(n)}
<1>1. Good(0)
  <2>1. PartialSums([i \in 0..0 |-> 0], s, 0)
    BY DEF PartialSums
  <2>2. QED
    BY <2>1
<1>2. ASSUME NEW k \in 1..Len(s), Good(k - 1) PROVE Good(k)
  <2>1. PICK f \in [0..(k-1) -> Nat] : PartialSums(f, s, k - 1)
    BY <1>2
  <2> DEFINE g == [i \in 0..k |-> IF i = k THEN f[k-1] + s[k] ELSE f[i]]
  <2>2. s[k] \in Nat /\ f[k-1] \in Nat
    OBVIOUS
  <2>3. g \in [0..k -> Nat]
    BY <2>2
  <2>4. ASSUME NEW i \in 0..k PROVE g[i] = IF i = 0 THEN 0 ELSE g[i - 1] + s[i]
    <3>1. CASE i = k
      BY <3>1
    <3>2. CASE i # k
      <4>1. i \in 0..(k-1) /\ (i # 0 => i - 1 \in 0..(k-1))
        BY <3>2
      <4>2. f[i] = IF i = 0 THEN 0 ELSE f[i-1] + s[i]
        BY <2>1, <4>1 DEF PartialSums
      <4>3. QED
        BY <4>1, <4>2, <3>2
    <3>3. QED
      BY <3>1, <3>2
  <2>5. PartialSums(g, s, k)
    BY <2>4 DEF PartialSums
  <2>6. QED
    BY <2>3, <2>5
<1> HIDE DEF Good
<1>3. ASSUME Bad # {} PROVE FALSE
  <2>1. PICK k \in Bad : \A n \in Bad : k <= n
    <3>1. Bad \in SUBSET Nat
      OBVIOUS
    <3> HIDE DEF Bad
    <3>2. QED
      BY <1>3, <3>1, LeastElement
  <2>2. k \in 1..Len(s) /\ ~Good(k)
    BY <1>1
  <2>3. Good(k - 1)
    BY <2>1, <2>2
  <2>4. QED
    BY <1>2, <2>2, <2>3
<1>4. QED
  BY <1>3 DEF Good

\* What Sum computes: the last of the partial sums.
LEMMA SumIsLastPartialSum ==
  ASSUME NEW s \in Seq(Nat)
  PROVE  \E f \in [0..Len(s) -> Nat] :
           PartialSums(f, s, Len(s)) /\ Budget!Sum(s) = f[Len(s)]
<1> DEFINE sum == CHOOSE f : PartialSums(f, s, Len(s))
<1>1. PICK f \in [0..Len(s) -> Nat] : PartialSums(f, s, Len(s))
  BY PartialSumsExist
<1>2. PartialSums(sum, s, Len(s))
  BY <1>1
<1>3. Budget!Sum(s) = sum[Len(s)]
  BY DEF Budget!Sum, PartialSums
<1> HIDE DEF sum
<1>4. sum = f
  <2> DEFINE Differ == {i \in 0..Len(s) : sum[i] # f[i]}
  <2>1. ASSUME Differ # {} PROVE FALSE
    <3>1. PICK k \in Differ : \A n \in Differ : k <= n
      <4>1. Differ \in SUBSET Nat
        OBVIOUS
      <4> HIDE DEF Differ
      <4>2. QED
        BY <2>1, <4>1, LeastElement
    <3>2. sum[k] = (IF k = 0 THEN 0 ELSE sum[k - 1] + s[k])
      BY <1>2 DEF PartialSums
    <3>3. f[k] = (IF k = 0 THEN 0 ELSE f[k - 1] + s[k])
      BY <1>1 DEF PartialSums
    <3>4. k # 0 => k - 1 \in 0..Len(s) /\ k - 1 \notin Differ
      BY <3>1
    <3>5. QED
      BY <3>2, <3>3, <3>4
  <2>2. DOMAIN sum = 0..Len(s) /\ sum = [i \in 0..Len(s) |-> sum[i]]
    BY <1>2 DEF PartialSums
  <2>3. QED
    BY <2>1, <2>2
<1>5. QED
  BY <1>1, <1>3, <1>4

\* Sizes add up to a size.
LEMMA SumType == ASSUME NEW s \in Seq(Nat) PROVE Budget!Sum(s) \in Nat
  BY SumIsLastPartialSum

\* The sum of no sizes, and of equal ones.
LEMMA SumConstant ==
  ASSUME NEW s \in Seq(Nat), NEW c \in Nat, \A i \in 1..Len(s) : s[i] = c
  PROVE  Budget!Sum(s) = Len(s) * c
<1>1. PICK f \in [0..Len(s) -> Nat] : PartialSums(f, s, Len(s)) /\ Budget!Sum(s) = f[Len(s)]
  BY SumIsLastPartialSum
<1> DEFINE Bad == {i \in 0..Len(s) : f[i] # i * c}
<1>2. ASSUME Bad # {} PROVE FALSE
  <2>1. PICK k \in Bad : \A n \in Bad : k <= n
    <3>1. Bad \in SUBSET Nat
      OBVIOUS
    <3> HIDE DEF Bad
    <3>2. QED
      BY <1>2, <3>1, LeastElement
  <2>2. f[k] = IF k = 0 THEN 0 ELSE f[k - 1] + s[k]
    BY <1>1 DEF PartialSums
  <2>3. k # 0 => k - 1 \in 0..Len(s) /\ k - 1 \notin Bad
    BY <2>1
  <2>4. k # 0 => (k - 1) * c + c = k * c
    OBVIOUS
  <2>5. QED
    BY <2>2, <2>3, <2>4
<1>3. QED
  BY <1>1, <1>2

LEMMA BudgetSizes ==
  /\ NumCtx \in Nat /\ Reserve \in Nat /\ MinRound \in Nat /\ MinCap \in Nat /\ MaxCap \in Nat
  /\ QuestionCap \in Nat /\ MinBlock \in Nat /\ Frame \in Nat /\ MaxSteps \in Nat
  /\ System \in Nat /\ Tools \in Nat /\ Closing \in Nat /\ Omitted \in Nat /\ Call \in Nat
  /\ MaxMessages \in Nat
  /\ HistorySizes \subseteq Nat /\ QuestionSizes \subseteq Nat /\ ResultSizes \subseteq Nat
  BY AiChatAssumption DEF Budget!BudgetAssumption

LEMMA BudgetRoom ==
  /\ Budget!Available \in Nat \ {0}
  /\ System + Tools <= Budget!Available
  /\ System + QuestionCap + MaxSteps * (Call + Omitted) + Closing <= Budget!Available
  /\ MaxSteps * (Call + Omitted) + Closing <= MinRound
  BY AiChatAssumption, BudgetSizes DEF Budget!BudgetAssumption, Budget!Available

LEMMA LeastIs ==
  ASSUME NEW S \in SUBSET Nat, S # {}
  PROVE  Budget!Least(S) \in S /\ \A y \in S : Budget!Least(S) <= y
  BY LeastElement DEF Budget!Least

LEMMA ProductType == ASSUME NEW x \in Nat, NEW y \in Nat PROVE x * y \in Nat
  OBVIOUS

LEMMA UsedIs ==
  ASSUME NEW h \in Seq(Nat), NEW q \in Nat, NEW rs \in Seq(Nat), NEW extra \in Nat,
         NEW tools \in Nat
  PROVE  /\ Budget!Used(h, q, rs, extra, tools) \in Nat
         /\ Budget!Used(h, q, rs, extra, tools)
              = System + Budget!Sum(h) + q + Budget!Sum(rs) + Len(rs) * Call + extra + tools
<1>1. Budget!Sum(h) \in Nat /\ Budget!Sum(rs) \in Nat
  BY SumType
<1> DEFINE calls == Len(rs) * Call
           fixed == System + Budget!Sum(h) + q + Budget!Sum(rs)
<1>2. calls \in Nat
  BY BudgetSizes, ProductType
<1>3. fixed \in Nat
  BY <1>1, BudgetSizes
<1>4. Budget!Used(h, q, rs, extra, tools) = fixed + calls + extra + tools
  BY DEF Budget!Used
<1> HIDE DEF calls, fixed
<1>5. fixed + calls + extra + tools \in Nat
  BY <1>2, <1>3
<1>6. QED
  BY <1>4, <1>5 DEF calls, fixed

LEMMA WithoutIs ==
  ASSUME NEW n \in Nat, NEW rs \in Seq(Nat)
  PROVE  /\ Budget!Without(n, rs) \in Seq(Nat) /\ Len(Budget!Without(n, rs)) = Len(rs)
         /\ n = 0 => Budget!Without(n, rs) = rs
         /\ n = Len(rs) => \A i \in 1..Len(rs) : Budget!Without(n, rs)[i] = Omitted
<1>1. /\ Budget!Without(n, rs) \in Seq(Nat) /\ Len(Budget!Without(n, rs)) = Len(rs)
      /\ \A i \in 1..Len(rs) : Budget!Without(n, rs)[i] = IF i <= n THEN Omitted ELSE rs[i]
  <2> DEFINE w == [i \in 1..Len(rs) |-> IF i <= n THEN Omitted ELSE rs[i]]
  <2>1. w \in [1..Len(rs) -> Nat] /\ Len(rs) \in Nat
    BY BudgetSizes, ElementOfSeq
  <2>2. w \in Seq(Nat) /\ Len(w) = Len(rs)
    BY <2>1, SeqDef, LenProperties
  <2>3. Budget!Without(n, rs) = w
    BY DEF Budget!Without
  <2>4. QED
    BY <2>2, <2>3
<1>2. QED
  <2>1. n = 0 => \A i \in 1..Len(rs) : Budget!Without(n, rs)[i] = rs[i]
    BY <1>1
  <2>2. QED
    BY <1>1, <2>1, SeqEqual

\* The messages that are kept fit with all results in full, or none is kept.
LEMMA KeptIs ==
  ASSUME NEW offered \in BOOLEAN, NEW extra \in Nat, history \in Seq(Nat), question \in Nat,
         block \in Nat, results \in Seq(Nat)
  PROVE  /\ Budget!Kept(offered, extra) \in Seq(Nat)
         /\ \/ Budget!Kept(offered, extra) = <<>>
            \/ Budget!Used(Budget!Kept(offered, extra), question + block, results, extra,
                           Budget!ToolSize(offered)) <= Budget!Target(offered)
<1> DEFINE Room(k) == Budget!Used(SubSeq(history, k + 1, Len(history)), question + block, results,
                                  extra, Budget!ToolSize(offered)) <= Budget!Target(offered)
           S == {k \in 0..Len(history) : k = Len(history) \/ Room(k)}
<1> HIDE DEF Room
<1>1. S \in SUBSET Nat /\ S # {}
  OBVIOUS
<1>2. Budget!Dropped(offered, extra) = Budget!Least(S)
  BY DEF Budget!Dropped, Room
<1>3. PICK k \in 0..Len(history) :
        (k = Len(history) \/ Room(k)) /\ k = Budget!Dropped(offered, extra)
  BY <1>1, <1>2, LeastIs
<1>4. Budget!Kept(offered, extra) = SubSeq(history, k + 1, Len(history))
  BY <1>3 DEF Budget!Kept
<1>5. SubSeq(history, k + 1, Len(history)) \in Seq(Nat)
  OBVIOUS
<1>6. k = Len(history) => SubSeq(history, k + 1, Len(history)) = <<>>
  OBVIOUS
<1>7. QED
  BY <1>3, <1>4, <1>5, <1>6 DEF Room

\* Of the results none is omitted if all fit, and all are if they do not fit otherwise.
LEMMA ShownIs ==
  ASSUME NEW offered \in BOOLEAN, NEW extra \in Nat, NEW h \in Seq(Nat), question \in Nat,
         block \in Nat, results \in Seq(Nat)
  PROVE  LET n == Budget!OmittedResults(h, offered, extra)
             rs == Budget!Without(n, results)
             tools == Budget!ToolSize(offered)
         IN  /\ rs \in Seq(Nat) /\ Len(rs) = Len(results)
             /\ \/ Budget!Used(h, question + block, rs, extra, tools) <= Budget!Target(offered)
                \/ \A i \in 1..Len(rs) : rs[i] = Omitted
             /\ Budget!Used(h, question + block, results, extra, tools) <= Budget!Target(offered)
                  => rs = results
<1> DEFINE Room(k) == Budget!Used(h, question + block, Budget!Without(k, results), extra,
                                  Budget!ToolSize(offered)) <= Budget!Target(offered)
           S == {k \in 0..Len(results) : k = Len(results) \/ Room(k)}
<1> HIDE DEF Room
<1>1. S \in SUBSET Nat /\ S # {}
  OBVIOUS
<1>2. Budget!OmittedResults(h, offered, extra) = Budget!Least(S)
  BY DEF Budget!OmittedResults, Room
<1>3. PICK n \in 0..Len(results) :
        /\ n = Budget!OmittedResults(h, offered, extra)
        /\ n = Len(results) \/ Room(n)
        /\ 0 \in S => n <= 0
  BY <1>1, <1>2, LeastIs
<1>4. Budget!Without(0, results) = results
  BY WithoutIs
<1>5. Budget!Used(h, question + block, results, extra, Budget!ToolSize(offered))
        <= Budget!Target(offered) => n = 0
  BY <1>3, <1>4 DEF Room
<1>6. QED
  BY <1>3, <1>4, <1>5, WithoutIs DEF Room

PromptType == [size: Nat, offered: BOOLEAN, forced: BOOLEAN, cut: BOOLEAN, cap: Nat]

\* The block of the sources a user selected took at most half of what was left.
BlockRoom ==
  block > 0 =>
    System + Budget!Sum(history) + question + 2 * block + Tools + MinRound <= Budget!Available

LEMMA ResultCapType == ASSUME NEW n \in Int PROVE Budget!ResultCap(n) \in Nat
<1> DEFINE share == (n * 6) \div 10
<1>1. share \in Int
  OBVIOUS
<1> HIDE DEF share
<1>2. (IF share < MinCap THEN MinCap ELSE Budget!Lesser(share, MaxCap)) \in Nat
  BY <1>1, BudgetSizes DEF Budget!Lesser
<1>3. QED
  BY <1>2 DEF Budget!ResultCap, share

\* What is left when everything has been dropped and omitted: the question with a result
\* replaced for every step.
LEMMA LeastPrompt ==
  ASSUME NEW rs \in Seq(Nat), Len(rs) <= MaxSteps, \A i \in 1..Len(rs) : rs[i] = Omitted,
         NEW extra \in 0..Closing, NEW q \in Nat
  PROVE  /\ Budget!Used(<<>>, q, rs, extra, 0) <= System + q + MaxSteps * (Call + Omitted) + Closing
         /\ MaxSteps * (Call + Omitted) \in Nat
<1>1. Budget!Sum(rs) = Len(rs) * Omitted /\ Budget!Sum(<<>>) = 0
  <2>1. <<>> \in Seq(Nat) /\ Len(<<>>) = 0
    BY EmptySeq
  <2>2. Budget!Sum(<<>>) = Len(<<>>) * Omitted
    <3>1. PICK e \in Seq(Nat) : e = <<>>
      BY <2>1
    <3>2. \A i \in 1..Len(e) : e[i] = Omitted
      BY <2>1, <3>1
    <3>3. Budget!Sum(e) = Len(e) * Omitted
      BY <3>2, SumConstant, BudgetSizes
    <3>4. QED
      BY <3>1, <3>3
  <2>3. 0 * Omitted = 0
    BY BudgetSizes
  <2>4. Budget!Sum(rs) = Len(rs) * Omitted
    BY SumConstant, BudgetSizes
  <2>5. QED
    BY <2>1, <2>2, <2>3, <2>4
<1>2. Budget!Used(<<>>, q, rs, extra, 0)
        = System + Budget!Sum(<<>>) + q + Budget!Sum(rs) + Len(rs) * Call + extra + 0
  BY DEF Budget!Used
<1>3. Len(rs) * Omitted + Len(rs) * Call <= MaxSteps * (Call + Omitted)
  <2>1. ASSUME NEW x \in Nat, NEW y \in Nat, NEW z \in Nat, x <= y PROVE x * z <= y * z
    <3>1. (y - x) * z >= 0 /\ y * z = x * z + (y - x) * z
      BY <2>1
    <3>2. QED
      BY <3>1
  <2>2. Len(rs) * (Call + Omitted) <= MaxSteps * (Call + Omitted)
    BY <2>1, BudgetSizes
  <2>3. Len(rs) * Omitted + Len(rs) * Call = Len(rs) * (Call + Omitted)
    BY BudgetSizes
  <2>4. QED
    BY <2>2, <2>3
<1>4. /\ Len(rs) * Omitted \in Nat /\ Len(rs) * Call \in Nat
      /\ MaxSteps * (Call + Omitted) \in Nat
  BY BudgetSizes, ProductType
<1> DEFINE a == Len(rs) * Omitted
           b == Len(rs) * Call
           c == MaxSteps * (Call + Omitted)
<1>5. Budget!Used(<<>>, q, rs, extra, 0) = System + q + a + b + extra
  BY <1>1, <1>2, <1>4, BudgetSizes
<1>6. a + b <= c /\ a \in Nat /\ b \in Nat /\ c \in Nat
  BY <1>3, <1>4
<1> HIDE DEF a, b, c
<1>7. System + q + a + b + extra <= System + q + c + Closing
  BY <1>6, BudgetSizes
<1>8. QED
  BY <1>5, <1>6, <1>7 DEF c

LEMMA AssembleFits ==
  ASSUME NEW offered \in BOOLEAN, NEW extra \in 0..Closing,
         NEW h \in Seq(Nat), NEW rs \in Seq(Nat), question \in Nat, block \in Nat,
         history \in Seq(Nat), BlockRoom, Len(rs) <= MaxSteps,
         Budget!Used(h, question + block, rs, extra, Budget!ToolSize(offered)) > Budget!Available
           => h = <<>> /\ \A i \in 1..Len(rs) : rs[i] = Omitted
  PROVE  LET fit == Budget!Assemble(h, rs, offered, extra)
         IN  /\ fit \in PromptType
             /\ fit.size <= Budget!Available
             /\ fit.offered => fit.size + MinRound <= Budget!Available
             /\ block > 0 => ~fit.cut
<1> DEFINE q == question + block
           tools == Budget!ToolSize(offered)
           all == Budget!Used(h, q, rs, extra, tools)
           bare == Budget!Used(h, q, rs, extra, 0)
           over == all > Budget!Available
           cut == over /\ Budget!Cut(h, rs, extra, tools)
           asked == IF cut THEN Budget!Lesser(q, QuestionCap) ELSE q
           left == Budget!Available - Budget!Used(h, asked, rs, extra, IF over THEN 0 ELSE tools)
           closed == over \/ left < MinRound
           size == Budget!Used(h, asked, rs, extra, IF closed THEN 0 ELSE tools)
<1>1. tools \in Nat /\ q \in Nat /\ extra \in Nat /\ asked \in Nat
  BY BudgetSizes DEF Budget!ToolSize, Budget!Lesser
<1>2. /\ all \in Nat /\ bare \in Nat /\ all = bare + tools
  <2> DEFINE fixed == System + Budget!Sum(h) + q + Budget!Sum(rs) + Len(rs) * Call + extra
  <2>1. all = fixed + tools /\ bare = fixed + 0
    BY DEF Budget!Used
  <2>4. all \in Nat
    BY <1>1, UsedIs
  <2>5. bare \in Nat
    BY <1>1, UsedIs
  <2>2. fixed \in Int
    <3>1. Budget!Sum(h) \in Nat /\ Budget!Sum(rs) \in Nat /\ Len(rs) * Call \in Nat
      BY SumType, ProductType, BudgetSizes
    <3>2. QED
      BY <1>1, <3>1, BudgetSizes
  <2> HIDE DEF fixed, all, bare, tools
  <2>3. QED
    BY <2>1, <2>2, <2>4, <2>5, <1>1
<1>3. Budget!Cut(h, rs, extra, tools) <=> bare > Budget!Available
  BY DEF Budget!Cut
<1>4. cut => /\ asked <= QuestionCap /\ asked <= q
             /\ Budget!Used(h, asked, rs, extra, 0)
                  <= System + asked + MaxSteps * (Call + Omitted) + Closing
             /\ bare <= System + q + MaxSteps * (Call + Omitted) + Closing
             /\ MaxSteps * (Call + Omitted) \in Nat
  <2>1. asked \in Nat /\ (cut => asked <= QuestionCap /\ asked <= q)
    BY <1>1, BudgetSizes DEF Budget!Lesser
  <2>2. cut => h = <<>> /\ \A i \in 1..Len(rs) : rs[i] = Omitted
    OBVIOUS
  <2> HIDE DEF asked, q, cut
  <2>3. ASSUME cut
        PROVE  /\ Budget!Used(h, asked, rs, extra, 0)
                    <= System + asked + MaxSteps * (Call + Omitted) + Closing
               /\ bare <= System + q + MaxSteps * (Call + Omitted) + Closing
               /\ MaxSteps * (Call + Omitted) \in Nat
    BY <2>1, <2>2, <2>3, <1>1, LeastPrompt
  <2>4. QED
    BY <2>1, <2>3
<1>5. size \in Nat /\ left \in Int
  <2> HIDE DEF asked
  <2>1. /\ Budget!Used(h, asked, rs, extra, 0) \in Nat
        /\ Budget!Used(h, asked, rs, extra, tools) \in Nat
    BY <1>1, UsedIs
  <2>2. QED
    BY <2>1, BudgetRoom
<1>6. size <= Budget!Available
  <2>1. CASE cut
    <3>1. size = Budget!Used(h, asked, rs, extra, 0)
      BY <2>1
    <3> HIDE DEF size, asked, q, bare, all
    <3>2. QED
      BY <1>1, <1>4, <2>1, <3>1, BudgetRoom, BudgetSizes, <1>5
  <2>2. CASE ~cut /\ over
    <3>1. size = bare
      BY <2>2
    <3>2. QED
      BY <1>2, <1>3, <2>2, <3>1, BudgetRoom
  <2>3. CASE ~over
    <3>1. size = all \/ size = bare
      BY <2>3
    <3>2. QED
      BY <1>1, <1>2, <2>3, <3>1, BudgetRoom
  <2>4. QED
    BY <2>1, <2>2, <2>3
<1>7. ~closed => size + MinRound <= Budget!Available
  <2>1. ~closed => left = Budget!Available - size /\ left >= MinRound
    BY <1>5, BudgetSizes
  <2> HIDE DEF left, size, closed
  <2>2. QED
    BY <1>5, <2>1, BudgetRoom, BudgetSizes
<1>8. block > 0 => ~cut
  <2>1. SUFFICES ASSUME block > 0, cut PROVE FALSE
    OBVIOUS
  <2>2. bare > Budget!Available
    BY <1>3, <2>1
  <2>3. Budget!Sum(history) \in Nat
    BY SumType
  <2>4. System + Budget!Sum(history) + question + 2 * block + Tools + MinRound
          <= Budget!Available
    BY <2>1 DEF BlockRoom
  <2>5. System + q + MinRound <= Budget!Available
    <3> HIDE DEF bare
    <3>1. QED
      BY <2>3, <2>4, BudgetRoom, BudgetSizes
  <2> HIDE DEF bare, q, asked, all
  <2>6. QED
    BY <1>1, <1>2, <1>4, <2>1, <2>2, <2>5, BudgetRoom, BudgetSizes
<1>9. Budget!Assemble(h, rs, offered, extra)
        = [size |-> size, offered |-> offered /\ ~closed, forced |-> closed,
           cut |-> cut /\ asked < q, cap |-> Budget!ResultCap(IF closed THEN 0 ELSE left)]
  BY DEF Budget!Assemble
<1>10. Budget!ResultCap(IF closed THEN 0 ELSE left) \in Nat
  <2> DEFINE rest == IF closed THEN 0 ELSE left
  <2> HIDE DEF left, closed
  <2>1. rest \in Int
    BY <1>5
  <2> HIDE DEF rest
  <2>2. Budget!ResultCap(rest) \in Nat
    BY <2>1, ResultCapType
  <2>3. QED
    BY <2>2 DEF rest
<1> DEFINE open == offered /\ ~closed
           shut == closed
           trimmed == cut /\ asked < q
           limit == Budget!ResultCap(IF closed THEN 0 ELSE left)
           fit == Budget!Assemble(h, rs, offered, extra)
<1>11. /\ open \in BOOLEAN /\ shut \in BOOLEAN /\ trimmed \in BOOLEAN
       /\ (block > 0 => ~trimmed) /\ (open => size + MinRound <= Budget!Available)
  BY <1>7, <1>8
<1>12. fit = [size |-> size, offered |-> open, forced |-> shut, cut |-> trimmed, cap |-> limit]
  BY <1>9
<1>13. limit \in Nat
  BY <1>10
<1> HIDE DEF size, open, shut, trimmed, limit
<1>14. fit \in PromptType
  BY <1>5, <1>11, <1>12, <1>13 DEF PromptType
<1>15. fit.size = size /\ fit.offered = open /\ fit.cut = trimmed
  BY <1>12
<1> HIDE DEF fit
<1>16. /\ fit.size <= Budget!Available
       /\ fit.offered => fit.size + MinRound <= Budget!Available
       /\ block > 0 => ~fit.cut
  BY <1>6, <1>11, <1>15
<1>17. QED
  BY <1>14, <1>16 DEF fit

BudgetTyped ==
  /\ pc \in {"select", "loop", "asked", "tools", "close", "closing", "answered", "failed"}
  /\ history \in Seq(Nat) /\ results \in Seq(Nat)
  /\ question \in Nat /\ block \in Nat /\ cap \in Nat /\ due \in Nat /\ requests \in Nat
  /\ prompt \in PromptType

LEMMA FitFits ==
  ASSUME NEW offered \in BOOLEAN, NEW extra \in 0..Closing, BudgetTyped, BlockRoom,
         Len(results) <= MaxSteps
  PROVE  LET fit == Budget!Fit(offered, extra)
         IN  /\ fit \in PromptType
             /\ fit.size <= Budget!Available
             /\ fit.offered => fit.size + MinRound <= Budget!Available
             /\ block > 0 => ~fit.cut
<1> DEFINE h == Budget!Kept(offered, extra)
           rs == Budget!Without(Budget!OmittedResults(h, offered, extra), results)
           q == question + block
           tools == Budget!ToolSize(offered)
<1>0. /\ question \in Nat /\ block \in Nat /\ history \in Seq(Nat) /\ results \in Seq(Nat)
      /\ extra \in Nat
  BY BudgetSizes DEF BudgetTyped
<1>1. h \in Seq(Nat) /\ (h = <<>> \/ Budget!Used(h, q, results, extra, tools)
                                       <= Budget!Target(offered))
  BY <1>0, KeptIs
<1> HIDE DEF h
<1>2. /\ rs \in Seq(Nat) /\ Len(rs) = Len(results)
      /\ \/ Budget!Used(h, q, rs, extra, tools) <= Budget!Target(offered)
         \/ \A i \in 1..Len(rs) : rs[i] = Omitted
      /\ Budget!Used(h, q, results, extra, tools) <= Budget!Target(offered) => rs = results
  <2>1. ASSUME NEW g \in Seq(Nat)
        PROVE  LET n == Budget!OmittedResults(g, offered, extra)
                   shown == Budget!Without(n, results)
                   ts == Budget!ToolSize(offered)
               IN  /\ shown \in Seq(Nat) /\ Len(shown) = Len(results)
                   /\ \/ Budget!Used(g, question + block, shown, extra, ts)
                           <= Budget!Target(offered)
                      \/ \A i \in 1..Len(shown) : shown[i] = Omitted
                   /\ Budget!Used(g, question + block, results, extra, ts)
                        <= Budget!Target(offered) => shown = results
    BY <1>0, ShownIs
  <2>2. QED
    BY <1>1, <2>1
<1> HIDE DEF rs
<1>3. Budget!Target(offered) \in Int /\ Budget!Target(offered) <= Budget!Available
  <2>1. Budget!Available \in Nat /\ MinRound \in Nat
    BY BudgetSizes, BudgetRoom
  <2>2. QED
    BY <2>1 DEF Budget!Target
<1>4. tools \in Nat /\ q \in Nat /\ extra \in Nat
  BY BudgetSizes DEF Budget!ToolSize, BudgetTyped
<1>5. Budget!Used(h, q, rs, extra, tools) \in Nat
  BY <1>1, <1>2, <1>4, UsedIs
<1>6. Budget!Used(h, q, rs, extra, tools) > Budget!Available
        => h = <<>> /\ \A i \in 1..Len(rs) : rs[i] = Omitted
  BY <1>1, <1>2, <1>3, <1>5, BudgetRoom
<1>7. Budget!Fit(offered, extra) = Budget!Assemble(h, rs, offered, extra)
  BY DEF Budget!Fit, h, rs
<1>8. QED
  BY <1>1, <1>2, <1>6, <1>7, AssembleFits DEF BudgetTyped

BudgetInv ==
  /\ BudgetTyped
  /\ BlockRoom
  /\ pc = "select" => block = 0 /\ ~prompt.cut
  /\ pc # "tools" => due = 0
  /\ pc \in {"select", "loop"} => requests <= Len(results)
  /\ pc \in {"asked", "tools"} => requests <= Len(results) + 1
  /\ pc = "asked" => Len(results) < MaxSteps
  /\ pc = "tools" => due > 0
  /\ pc = "close" => requests <= MaxSteps
  /\ Budget!PromptFits /\ Budget!BlockKept /\ Budget!StepsBounded

LEMMA BudgetInit == Budget!Init => BudgetInv
<1> SUFFICES ASSUME Budget!Init PROVE BudgetInv
  OBVIOUS
<1>1. history \in Seq(Nat)
  <2>1. PICK n \in 0..MaxMessages : history \in [1..n -> HistorySizes]
    BY DEF Budget!Init
  <2>2. n \in Nat /\ history \in [1..n -> Nat]
    <3>1. n \in Nat /\ HistorySizes \subseteq Nat
      BY BudgetSizes
    <3>2. QED
      BY <2>1, <3>1
  <2>3. QED
    BY <2>2, SeqDef
<1>2. question \in Nat /\ prompt \in PromptType /\ results = <<>>
  BY BudgetSizes DEF Budget!Init, Budget!NoPrompt, PromptType
<1>3. results \in Seq(Nat) /\ Len(results) = 0
  BY <1>2, EmptySeq
<1>4. prompt.size = 0 /\ ~prompt.offered /\ ~prompt.cut
  BY DEF Budget!Init, Budget!NoPrompt
<1>5. Budget!PromptFits /\ Budget!BlockKept
  BY <1>4, BudgetRoom DEF Budget!PromptFits, Budget!BlockKept
<1>6. Budget!StepsBounded
  BY <1>3, BudgetSizes DEF Budget!StepsBounded, Budget!Init
<1>7. /\ pc = "select" /\ block = 0 /\ cap = 0 /\ due = 0 /\ requests = 0
  BY DEF Budget!Init
<1>8. BudgetTyped /\ BlockRoom
  BY <1>1, <1>2, <1>3, <1>7 DEF BudgetTyped, BlockRoom
<1>9. QED
  BY <1>3, <1>4, <1>5, <1>6, <1>7, <1>8 DEF BudgetInv

LEMMA Halved == ASSUME NEW x \in Nat PROVE x \div 2 \in Nat /\ 2 * (x \div 2) <= x
  OBVIOUS

LEMMA PrefetchRoomIs ==
  ASSUME history \in Seq(Nat), question \in Nat
  PROVE  /\ Budget!PrefetchRoom \in Nat
         /\ Budget!PrefetchRoom > 0 =>
              System + Budget!Sum(history) + question + 2 * Budget!PrefetchRoom + Tools + MinRound
                <= Budget!Available
<1>1. PICK e \in Seq(Nat) : e = <<>> /\ Len(e) = 0
  BY EmptySeq
<1>2. Budget!Sum(e) = 0
  <2>1. \A i \in 1..Len(e) : e[i] = 0
    BY <1>1
  <2>2. Budget!Sum(e) = Len(e) * 0
    BY <2>1, SumConstant
  <2>3. QED
    BY <1>1, <2>2
<1>3. Budget!Sum(history) \in Nat
  BY SumType
<1> DEFINE used == System + Budget!Sum(history) + question + Tools
           fixed == Reserve + MinRound + used
<1>4. Budget!Used(history, question, <<>>, 0, Tools) = used
  <2>1. Budget!Used(history, question, e, 0, Tools)
          = System + Budget!Sum(history) + question + Budget!Sum(e) + Len(e) * Call + 0 + Tools
    BY DEF Budget!Used
  <2>2. Len(e) * Call = 0
    BY <1>1, BudgetSizes
  <2>3. QED
    BY <1>1, <1>2, <1>3, <2>1, <2>2, BudgetSizes
<1>5. used \in Nat /\ fixed \in Nat
  BY <1>3, BudgetSizes
<1>6. Budget!PrefetchRoom = IF fixed > NumCtx THEN 0 ELSE (NumCtx - fixed) \div 2
  BY <1>4 DEF Budget!PrefetchRoom
<1> HIDE DEF used, fixed
<1>7. CASE fixed > NumCtx
  BY <1>6, <1>7
<1>8. CASE fixed <= NumCtx
  <2>1. NumCtx - fixed \in Nat /\ Budget!PrefetchRoom = (NumCtx - fixed) \div 2
    BY <1>5, <1>6, <1>8, BudgetSizes
  <2>2. Budget!PrefetchRoom \in Nat /\ 2 * Budget!PrefetchRoom <= NumCtx - fixed
    BY <2>1, Halved
  <2>3. 2 * Budget!PrefetchRoom + fixed <= NumCtx
    BY <1>5, <2>2, BudgetSizes
  <2> DEFINE p == Budget!PrefetchRoom
             sum == Budget!Sum(history)
  <2>4. /\ p \in Nat /\ sum \in Nat /\ Budget!Available = NumCtx - Reserve
        /\ 2 * p + (Reserve + MinRound + (System + sum + question + Tools)) <= NumCtx
    BY <1>3, <2>2, <2>3 DEF Budget!Available, used, fixed
  <2> HIDE DEF p, sum
  <2>5. System + sum + question + 2 * p + Tools + MinRound <= Budget!Available
    BY <2>4, BudgetSizes
  <2>6. QED
    BY <2>4, <2>5 DEF p, sum
<1>9. QED
  BY <1>5, <1>7, <1>8, BudgetSizes

LEMMA BudgetStep == BudgetInv /\ [Budget!Next]_(Budget!budgetVars) => BudgetInv'
<1> SUFFICES ASSUME BudgetInv, [Budget!Next]_(Budget!budgetVars) PROVE BudgetInv'
  OBVIOUS
<1> USE DEF BudgetInv
<1>0. Len(results) \in Nat /\ Len(results) + due <= MaxSteps /\ due \in Nat /\ MaxSteps \in Nat
  BY BudgetSizes DEF Budget!StepsBounded, BudgetTyped
<1>1. CASE Budget!Select
  <2>1. /\ UNCHANGED <<history, question, results, cap, due, prompt, requests>>
        /\ pc = "select" /\ pc' = "loop" /\ block = 0
        /\ block' = block \/ block' = Budget!PrefetchRoom
    BY <1>1 DEF Budget!Select
  <2>2. block' \in Nat /\ BlockRoom'
    BY <2>1, PrefetchRoomIs DEF BlockRoom, BudgetTyped
  <2>3. ~prompt'.cut
    BY <2>1
  <2>4. Budget!PromptFits' /\ Budget!BlockKept' /\ Budget!StepsBounded'
    BY <2>1, <2>3 DEF Budget!PromptFits, Budget!BlockKept, Budget!StepsBounded
  <2>5. QED
    BY <2>1, <2>2, <2>4 DEF BudgetTyped
<1>2. CASE Budget!Ask
  <2>1. /\ UNCHANGED <<history, question, block, results, due>>
        /\ pc = "loop" /\ pc' = "asked" /\ Len(results) < MaxSteps
        /\ prompt' = Budget!Fit(TRUE, 0) /\ cap' = prompt'.cap /\ requests' = requests + 1
    BY <1>2 DEF Budget!Ask
  <2>2. /\ prompt' \in PromptType /\ Budget!PromptFits' /\ Budget!BlockKept'
    <3>1. 0 \in 0..Closing
      BY BudgetSizes
    <3>2. /\ prompt' \in PromptType
          /\ prompt'.size <= Budget!Available
          /\ prompt'.offered => prompt'.size + MinRound <= Budget!Available
          /\ block > 0 => ~prompt'.cut
      <4>1. Len(results) <= MaxSteps /\ BudgetTyped /\ BlockRoom /\ TRUE \in BOOLEAN
        BY <1>0
      <4>2. prompt' = Budget!Fit(TRUE, 0)
        BY <2>1
      <4>3. QED
        BY <3>1, <4>1, <4>2, FitFits
    <3>3. QED
      BY <2>1, <3>2 DEF Budget!PromptFits, Budget!BlockKept
  <2>3. cap' \in Nat /\ BlockRoom'
    BY <2>1, <2>2 DEF PromptType, BlockRoom
  <2>4. Budget!StepsBounded'
    BY <1>0, <2>1 DEF Budget!StepsBounded, BudgetTyped
  <2>5. requests' \in Nat /\ requests' <= Len(results') + 1
    <3>1. requests \in Nat /\ requests <= Len(results)
      BY <2>1 DEF BudgetTyped
    <3>2. QED
      BY <1>0, <2>1, <3>1
  <2>6. BudgetTyped'
    BY <2>1, <2>2, <2>3, <2>5 DEF BudgetTyped
  <2>7. due' = 0
    BY <2>1
  <2>8. QED
    BY <2>1, <2>2, <2>3, <2>4, <2>5, <2>6, <2>7
<1>3. CASE Budget!Close
  <2>1. /\ UNCHANGED <<history, question, block, results, due, cap>>
        /\ pc = "close" /\ pc' = "closing"
        /\ prompt' = Budget!Fit(FALSE, Closing) /\ requests' = requests + 1
    BY <1>3 DEF Budget!Close
  <2>2. /\ prompt' \in PromptType /\ Budget!PromptFits' /\ Budget!BlockKept'
    <3>1. Closing \in 0..Closing
      BY BudgetSizes
    <3>2. /\ prompt' \in PromptType
          /\ prompt'.size <= Budget!Available
          /\ prompt'.offered => prompt'.size + MinRound <= Budget!Available
          /\ block > 0 => ~prompt'.cut
      <4>1. Len(results) <= MaxSteps /\ BudgetTyped /\ BlockRoom /\ FALSE \in BOOLEAN
        BY <1>0
      <4>2. prompt' = Budget!Fit(FALSE, Closing)
        BY <2>1
      <4>3. QED
        BY <3>1, <4>1, <4>2, FitFits
    <3>3. QED
      BY <2>1, <3>2 DEF Budget!PromptFits, Budget!BlockKept
  <2>3. BlockRoom'
    BY <2>1 DEF BlockRoom
  <2>4. Budget!StepsBounded'
    BY <1>0, <2>1 DEF Budget!StepsBounded, BudgetTyped
  <2>5. BudgetTyped'
    <3>1. requests' \in Nat
      BY <2>1 DEF BudgetTyped
    <3>2. QED
      BY <2>1, <2>2, <3>1 DEF BudgetTyped
  <2>6. due' = 0
    BY <2>1
  <2>7. QED
    BY <2>1, <2>2, <2>3, <2>4, <2>5, <2>6
<1>4. CASE Budget!LeaveLoop \/ Budget!Answer \/ Budget!EmptyAnswer \/ Budget!Fail
  <2>1. /\ UNCHANGED <<history, question, block, results, cap, due, prompt, requests>>
        /\ \/ pc = "loop" /\ pc' = "close"
           \/ pc = "asked" /\ pc' = "close"
           \/ pc \in {"asked", "closing"} /\ pc' \in {"answered", "failed"}
    BY <1>4 DEF Budget!LeaveLoop, Budget!Answer, Budget!EmptyAnswer, Budget!Fail
  <2>2. BlockRoom' /\ Budget!PromptFits' /\ Budget!BlockKept' /\ Budget!StepsBounded'
    BY <2>1 DEF BlockRoom, Budget!PromptFits, Budget!BlockKept, Budget!StepsBounded
  <2>3. pc' = "close" => requests' <= MaxSteps
    BY <1>0, <2>1 DEF BudgetTyped
  <2>4. QED
    BY <2>1, <2>2, <2>3 DEF BudgetTyped
<1>5. CASE Budget!CallTools
  <2>1. PICK n \in 1..MaxSteps : due' = Budget!Calls(n)
    BY <1>5 DEF Budget!CallTools
  <2>2. /\ UNCHANGED <<history, question, block, results, cap, prompt, requests>>
        /\ pc = "asked" /\ pc' = "tools"
    BY <1>5 DEF Budget!CallTools
  <2>3. due' \in Nat /\ due' > 0 /\ Len(results) + due' <= MaxSteps
    BY <1>0, <2>1, <2>2 DEF Budget!Calls, Budget!Lesser
  <2>4. BlockRoom' /\ Budget!PromptFits' /\ Budget!BlockKept' /\ Budget!StepsBounded'
    BY <2>2, <2>3 DEF BlockRoom, Budget!PromptFits, Budget!BlockKept, Budget!StepsBounded
  <2>5. QED
    BY <2>2, <2>3, <2>4 DEF BudgetTyped
<1>6. CASE Budget!Execute
  <2>1. PICK n \in ResultSizes : results' = Append(results, Budget!Lesser(n, cap))
    BY <1>6 DEF Budget!Execute
  <2>2. /\ UNCHANGED <<history, question, block, cap, prompt, requests>>
        /\ pc = "tools" /\ due' = due - 1
        /\ pc' = IF due = 1 THEN "loop" ELSE "tools"
    BY <1>6 DEF Budget!Execute
  <2>3. results' \in Seq(Nat) /\ Len(results') = Len(results) + 1
    <3>1. Budget!Lesser(n, cap) \in Nat
      BY BudgetSizes DEF Budget!Lesser, BudgetTyped
    <3>2. QED
      BY <2>1, <3>1 DEF BudgetTyped
  <2>4. BlockRoom' /\ Budget!PromptFits' /\ Budget!BlockKept'
    BY <2>2 DEF BlockRoom, Budget!PromptFits, Budget!BlockKept
  <2>5. Budget!StepsBounded'
    BY <1>0, <2>2, <2>3 DEF Budget!StepsBounded
  <2>6. QED
    BY <1>0, <2>2, <2>3, <2>4, <2>5 DEF BudgetTyped
<1>7. CASE UNCHANGED Budget!budgetVars
  <2>1. UNCHANGED <<pc, history, question, block, results, cap, due, prompt, requests>>
    BY <1>7 DEF Budget!budgetVars
  <2>2. BlockRoom' /\ Budget!PromptFits' /\ Budget!BlockKept' /\ Budget!StepsBounded'
    BY <2>1 DEF BlockRoom, Budget!PromptFits, Budget!BlockKept, Budget!StepsBounded
  <2>3. QED
    BY <2>1, <2>2 DEF BudgetTyped
<1>8. QED
  BY <1>1, <1>2, <1>3, <1>4, <1>5, <1>6, <1>7 DEF Budget!Next

\* "so `fitContext` never has to trim the block" (context-budget.ts:135): whatever the sizes of
\* the messages and the results, every prompt leaves the reserve of the answer free, the block
\* of the selected sources is never cut, and the steps and requests are bounded.
THEOREM BudgetCorrect == Spec => []BudgetKept
<1>1. BudgetInv => BudgetKept
  BY DEF BudgetInv, BudgetKept
<1>2. QED
  BY BudgetSteps, BudgetInit, BudgetStep, <1>1, PTL DEF Spec, Safety

-----------------------------------------------------------------------------
\* ToolSupport
LEMMA ChainSteps ==
  /\ Init => Support!Init
  /\ [Next]_vars => [Support!Next]_(Support!supportVars)
<1>1. Init => Support!Init
  BY DEF Init
<1>2. [Next]_vars => [Support!Next]_(Support!supportVars)
  BY DEF Next, vars, Support!supportVars, indexed, budget, chain, conversation, InIndex, InTurn,
         InChain, InConversation
<1>3. QED
  BY <1>1, <1>2

TurnState ==
  [pc: {"idle", "detect", "tools", "sent", "mark", "router", "retrieve", "done"},
   asked: Model \cup {"none"}, reason: {"none", "model", "error"},
   via: {"none", "tools", "router", "retrieve", "nothing"}]

ChainTyped ==
  /\ model \in Model /\ changes \in Nat
  /\ support \in [Model -> {"absent", "supported", "unsupported", "unknown"}]
  /\ turn \in [Turn -> TurnState]

\* Until the model is changed, the model that rejects the tools is the one that is marked.
RejectedIsModel ==
  \A t \in Turn :
    /\ turn[t].pc \in {"sent", "mark"} => turn[t].asked = model \/ changes > 0
    /\ turn[t].pc = "mark" => turn[t].asked \notin WithTools

ChainInv == ChainTyped /\ RejectedIsModel /\ BlameNeedsChange

LEMMA ChainInit == Support!Init => ChainInv
<1> SUFFICES ASSUME Support!Init PROVE ChainInv
  OBVIOUS
<1>1. Support!NoTurn \in TurnState /\ Support!NoTurn.pc = "idle"
  BY DEF Support!NoTurn, TurnState
<1>2. ChainTyped
  BY <1>1 DEF Support!Init, ChainTyped
<1>3. RejectedIsModel
  BY <1>1 DEF Support!Init, RejectedIsModel
<1>4. BlameNeedsChange
  BY AiChatAssumption
  DEF Support!Init, BlameNeedsChange, Support!BlameNeedsChange, Support!SupportAssumption
<1>5. QED
  BY <1>2, <1>3, <1>4 DEF ChainInv

\* Where a turn that goes elsewhere than to the model ends up.
Left(t) ==
  /\ turn' \in [Turn -> TurnState]
  /\ turn'[t].pc \notin {"sent", "mark"}
  /\ \A u \in Turn \ {t} : turn'[u] = turn[u]

LEMMA EndedTurn ==
  ASSUME ChainTyped, NEW t \in Turn,
         NEW v \in {"none", "tools", "router", "retrieve", "nothing"},
         turn' = [turn EXCEPT ![t].pc = "done", ![t].via = v]
  PROVE  Left(t)
<1>1. turn' = [turn EXCEPT ![t] = [turn[t] EXCEPT !.pc = "done", !.via = v]]
  BY DEF ChainTyped
<1>2. turn[t] \in TurnState
  BY DEF ChainTyped
<1>3. /\ [turn[t] EXCEPT !.pc = "done", !.via = v] \in TurnState
      /\ [turn[t] EXCEPT !.pc = "done", !.via = v].pc = "done"
  BY <1>2 DEF TurnState
<1>4. QED
  BY <1>1, <1>3 DEF ChainTyped, Left

LEMMA DegradedTurn ==
  ASSUME ChainTyped, NEW t \in Turn, NEW r \in {"none", "model", "error"}, Support!Degrade(t, r)
  PROVE  Left(t)
<1>1. turn' = [turn EXCEPT ![t] = [turn[t] EXCEPT !.pc = "router", !.reason = r]]
  BY DEF ChainTyped, Support!Degrade
<1>2. turn[t] \in TurnState
  BY DEF ChainTyped
<1>3. /\ [turn[t] EXCEPT !.pc = "router", !.reason = r] \in TurnState
      /\ [turn[t] EXCEPT !.pc = "router", !.reason = r].pc = "router"
  BY <1>2 DEF TurnState
<1>4. QED
  BY <1>1, <1>3 DEF ChainTyped, Left

LEMMA MovedTurn ==
  ASSUME ChainTyped, NEW t \in Turn, NEW p \in {"tools", "retrieve"}, Support!Move(t, p)
  PROVE  Left(t)
<1>1. turn' = [turn EXCEPT ![t] = [turn[t] EXCEPT !.pc = p]]
  BY DEF ChainTyped, Support!Move
<1>2. turn[t] \in TurnState
  BY DEF ChainTyped
<1>3. /\ [turn[t] EXCEPT !.pc = p] \in TurnState
      /\ [turn[t] EXCEPT !.pc = p].pc = p
  BY <1>2 DEF TurnState
<1>4. QED
  BY <1>1, <1>3 DEF ChainTyped, Left

LEMMA LeftKeeps ==
  ASSUME RejectedIsModel, NEW t \in Turn, Left(t), UNCHANGED <<model, changes>>
  PROVE  RejectedIsModel'
<1>1. \A u \in Turn : turn'[u].pc \in {"sent", "mark"} => turn'[u] = turn[u]
  BY DEF Left
<1>2. QED
  BY <1>1 DEF RejectedIsModel

LEMMA ChainStep == ChainInv /\ [Support!Next]_(Support!supportVars) => ChainInv'
<1> SUFFICES ASSUME ChainInv, [Support!Next]_(Support!supportVars) PROVE ChainInv'
  OBVIOUS
<1> USE DEF ChainInv, BlameNeedsChange, Support!BlameNeedsChange
<1>0. WithTools \subseteq Model
  BY AiChatAssumption DEF Support!SupportAssumption
<1>1. ASSUME NEW t \in Turn, Support!Ask(t) PROVE ChainInv'
  <2>1. PICK s \in TurnState : turn' = [turn EXCEPT ![t] = s] /\ s.pc \notin {"sent", "mark"}
    <3> DEFINE s == [Support!NoTurn EXCEPT
                       !.pc = CASE support[model] = "absent"      -> "detect"
                                [] support[model] = "unsupported" -> "router"
                                [] OTHER                          -> "tools",
                       !.asked = model,
                       !.reason = IF support[model] = "unsupported" THEN "model" ELSE "none"]
    <3>1. s \in TurnState /\ s.pc \notin {"sent", "mark"}
      BY DEF ChainTyped, TurnState, Support!NoTurn
    <3>2. turn' = [turn EXCEPT ![t] = s]
      BY <1>1 DEF Support!Ask
    <3>3. QED
      BY <3>1, <3>2
  <2>2. UNCHANGED <<model, support, changes>>
    BY <1>1 DEF Support!Ask
  <2>3. ChainTyped'
    BY <2>1, <2>2 DEF ChainTyped
  <2>4. RejectedIsModel'
    BY <2>1, <2>2 DEF RejectedIsModel, ChainTyped
  <2>5. QED
    BY <2>2, <2>3, <2>4
<1>2. ASSUME NEW t \in Turn, Support!Detect(t) PROVE ChainInv'
  <2>1. PICK s \in Support!Detected(turn[t].asked) :
          /\ support' = [support EXCEPT ![turn[t].asked] = s]
          /\ IF s = "unsupported" THEN Support!Degrade(t, "model") ELSE Support!Move(t, "tools")
    BY <1>2 DEF Support!Detect
  <2>2. UNCHANGED <<model, changes>>
    BY <1>2 DEF Support!Detect
  <2>3. /\ s \in {"supported", "unsupported", "unknown"}
        /\ turn[t].asked \in WithTools => s # "unsupported"
    BY <2>1 DEF Support!Detected
  <2>4. Left(t)
    BY <2>1, DegradedTurn, MovedTurn
  <2>5. ChainTyped'
    BY <2>1, <2>2, <2>3, <2>4 DEF ChainTyped, Left
  <2>6. RejectedIsModel'
    BY <2>2, <2>4, LeftKeeps
  <2>7. BlameNeedsChange'
    BY <1>0, <2>1, <2>2, <2>3 DEF ChainTyped
  <2>8. QED
    BY <2>5, <2>6, <2>7
<1>3. ASSUME NEW t \in Turn, Support!Send(t) PROVE ChainInv'
  <2>1. ChainTyped'
    <3>1. /\ turn' = [turn EXCEPT ![t] = [turn[t] EXCEPT !.pc = "sent", !.asked = model]]
          /\ UNCHANGED <<model, support, changes>>
      BY <1>3 DEF Support!Send, ChainTyped
    <3>2. model \in Model \cup {"none"} /\ turn[t] \in TurnState
      BY DEF ChainTyped
    <3>3. [turn[t] EXCEPT !.pc = "sent", !.asked = model] \in TurnState
      BY <3>2 DEF TurnState
    <3>4. QED
      BY <3>1, <3>3 DEF ChainTyped
  <2>2. RejectedIsModel'
    BY <1>3 DEF Support!Send, ChainTyped, RejectedIsModel
  <2>3. QED
    BY <1>3, <2>1, <2>2 DEF Support!Send
<1>4. ASSUME NEW t \in Turn, Support!Rejected(t) PROVE ChainInv'
  <2>1. ChainTyped'
    BY <1>4 DEF Support!Rejected, Support!Move, ChainTyped, TurnState
  <2>2. RejectedIsModel'
    BY <1>4 DEF Support!Rejected, Support!Move, ChainTyped, RejectedIsModel
  <2>3. QED
    BY <1>4, <2>1, <2>2 DEF Support!Rejected
<1>5. ASSUME NEW t \in Turn, Support!Mark(t) PROVE ChainInv'
  <2>0. Left(t) /\ UNCHANGED <<model, changes>>
    BY <1>5, DegradedTurn DEF Support!Mark
  <2>1. ChainTyped'
    BY <1>5, <2>0 DEF Support!Mark, ChainTyped, Left
  <2>2. RejectedIsModel'
    BY <2>0, LeftKeeps
  <2>3. model \notin WithTools \/ changes > 0
    BY <1>5 DEF Support!Mark, RejectedIsModel
  <2>4. BlameNeedsChange'
    BY <1>0, <1>5, <2>3 DEF Support!Mark, ChainTyped
  <2>5. QED
    BY <2>1, <2>2, <2>4
<1>6. ASSUME NEW t \in Turn,
             \/ Support!Answered(t) \/ Support!RequestFails(t) \/ Support!ConfigError(t)
             \/ Support!Router(t) \/ Support!Retrieve(t) \/ Support!Done(t)
      PROVE  ChainInv'
  <2>1. UNCHANGED <<model, support, changes>>
    BY <1>6 DEF Support!Answered, Support!RequestFails, Support!ConfigError, Support!Router,
                Support!Retrieve, Support!Done
  <2>2. Left(t)
    <3>1. CASE Support!Answered(t)
      BY <3>1, EndedTurn DEF Support!Answered
    <3>2. CASE Support!RequestFails(t)
      BY <3>2, DegradedTurn DEF Support!RequestFails
    <3>3. CASE Support!ConfigError(t)
      BY <3>3, EndedTurn DEF Support!ConfigError
    <3>4. CASE Support!Router(t)
      BY <3>4, EndedTurn, MovedTurn DEF Support!Router
    <3>5. CASE Support!Retrieve(t)
      BY <3>5, EndedTurn DEF Support!Retrieve
    <3>6. CASE Support!Done(t)
      BY <3>6 DEF Support!Done, Support!NoTurn, ChainTyped, TurnState, Left
    <3>7. QED
      BY <1>6, <3>1, <3>2, <3>3, <3>4, <3>5, <3>6
  <2>3. ChainTyped'
    BY <2>1, <2>2 DEF ChainTyped, Left
  <2>4. RejectedIsModel'
    BY <2>1, <2>2, LeftKeeps
  <2>5. QED
    BY <2>1, <2>3, <2>4
<1>7. ASSUME NEW m \in Model, Support!Expire(m) PROVE ChainInv'
  BY <1>0, <1>7 DEF Support!Expire, ChainTyped, RejectedIsModel
<1>8. CASE Support!ChangeModel
  <2>1. changes' > 0 /\ ChainTyped'
    BY <1>8 DEF Support!ChangeModel, ChainTyped
  <2>2. QED
    BY <1>8, <2>1 DEF Support!ChangeModel, RejectedIsModel
<1>9. CASE UNCHANGED Support!supportVars
  BY <1>9 DEF Support!supportVars, ChainTyped, RejectedIsModel
<1>10. QED
  BY <1>1, <1>2, <1>3, <1>4, <1>5, <1>6, <1>7, <1>8, <1>9 DEF Support!Next, Support!Step

\* "Detection failures resolve to `unknown`" (model-capability.service.ts:24): as long as
\* nobody changes the model, overlapping turns never take one that supports tools for one that
\* does not, whatever fails.
THEOREM BlameCorrect == Spec => []BlameNeedsChange
<1>1. ChainInv => BlameNeedsChange
  BY DEF ChainInv
<1>2. QED
  BY ChainSteps, ChainInit, ChainStep, <1>1, PTL DEF Spec, Safety

-----------------------------------------------------------------------------
\* Conversation
LEMMA ConversationSteps ==
  /\ Init => Conversation!Init
  /\ [Next]_vars => [Conversation!Next]_(Conversation!conversationVars)
<1>1. Init => Conversation!Init
  BY DEF Init
<1>2. [Next]_vars => [Conversation!Next]_(Conversation!conversationVars)
  BY DEF Next, vars, Conversation!conversationVars, indexed, budget, chain, conversation, InIndex,
         InTurn, InChain, InConversation
<1>3. QED
  BY <1>1, <1>2

Message == [role: {"user", "assistant"}, ask: Asked]

AskState ==
  [pc: {"new", "store", "read", "answer", "title", "ended"}, title: {"default", "auto", "chosen"},
   before: Seq(Message), prompt: Seq(Message)]

ConversationTyped ==
  /\ rows \in Seq(Message) /\ ask \in [Asked -> AskState]
  /\ title \in {"default", "auto", "chosen"}

Stored(a) == ask[a].pc \in {"read", "answer"}

\* A question is stored once, right after the messages that were there, which stay.
StoredOnce ==
  \A a \in Asked :
    /\ ask[a].pc \in {"new", "store"} =>
         \A i \in 1..Len(rows) : rows[i] # Conversation!Question(a)
    /\ Stored(a) =>
         /\ Len(ask[a].before) < Len(rows)
         /\ \A i \in 1..Len(ask[a].before) : rows[i] = ask[a].before[i]
         /\ \A i \in 1..Len(rows) :
              rows[i] = Conversation!Question(a) <=> i = Len(ask[a].before) + 1

\* What the model is asked while nothing came after the question.
AsksLast ==
  \A a \in Asked :
    (ask[a].pc = "answer" /\ Len(rows) = Len(ask[a].before) + 1 /\ Len(rows) <= Take) =>
      ask[a].prompt = Append(Conversation!LastOf(ask[a].before, MaxHistory),
                             Conversation!Question(a))

ConversationInv == ConversationTyped /\ StoredOnce /\ AsksLast

LEMMA ConversationSizes == Take \in Nat \ {0} /\ MaxHistory \in Nat
  BY AiChatAssumption DEF Conversation!ConversationAssumption

LEMMA Messages ==
  ASSUME NEW a \in Asked
  PROVE  /\ Conversation!Question(a) \in Message /\ Conversation!Reply(a) \in Message
         /\ \A b \in Asked : Conversation!Question(a) # Conversation!Reply(b)
         /\ \A b \in Asked \ {a} : Conversation!Question(a) # Conversation!Question(b)
  BY DEF Conversation!Question, Conversation!Reply, Message

\* The question is taken from the messages read back, and put behind the last before it.
LEMMA PromptIs ==
  ASSUME NEW a \in Asked, NEW s \in Seq(Message), NEW h \in Seq(Message),
         Len(s) = Len(h) + 1, \A i \in 1..Len(h) : s[i] = h[i],
         s[Len(s)] = Conversation!Question(a)
  PROVE  Conversation!PromptOf(a, s)
           = Append(Conversation!LastOf(h, MaxHistory), Conversation!Question(a))
<1>1. s # <<>> /\ Conversation!Last(s) = Conversation!Question(a)
  <2>1. Len(s) # 0
    OBVIOUS
  <2>2. QED
    BY <2>1, EmptySeq DEF Conversation!Last
<1>2. Conversation!Front(s) = h
  <2>1. Conversation!Front(s) = SubSeq(s, 1, Len(s) - 1)
    BY DEF Conversation!Front
  <2>2. SubSeq(s, 1, Len(h)) \in Seq(Message) /\ Len(SubSeq(s, 1, Len(h))) = Len(h)
    OBVIOUS
  <2>3. \A i \in 1..Len(h) : SubSeq(s, 1, Len(h))[i] = h[i]
    OBVIOUS
  <2>4. SubSeq(s, 1, Len(h)) = h
    BY <2>2, <2>3, SeqEqual
  <2>5. Len(s) - 1 = Len(h)
    OBVIOUS
  <2>6. QED
    BY <2>1, <2>4, <2>5
<1>3. QED
  BY <1>1, <1>2 DEF Conversation!PromptOf

LEMMA PromptTyped ==
  ASSUME NEW a \in Asked, NEW s \in Seq(Message)
  PROVE  /\ Conversation!PromptOf(a, s) \in Seq(Message)
         /\ Conversation!FirstOf(s, Take) \in Seq(Message)
<1>1. ASSUME NEW h \in Seq(Message) PROVE Conversation!LastOf(h, MaxHistory) \in Seq(Message)
  <2>1. CASE Len(h) > MaxHistory
    <3>1. SubSeq(h, Len(h) - MaxHistory + 1, Len(h)) \in Seq(Message)
      BY <2>1, ConversationSizes
    <3>2. QED
      BY <2>1, <3>1 DEF Conversation!LastOf
  <2>2. CASE ~(Len(h) > MaxHistory)
    BY <2>2 DEF Conversation!LastOf
  <2>3. QED
    BY <2>1, <2>2
<1>2. s # <<>> => Conversation!Front(s) \in Seq(Message)
  BY DEF Conversation!Front
<1>3. Conversation!PromptOf(a, s) \in Seq(Message)
  <2> DEFINE earlier == IF s # <<>> /\ Conversation!Last(s) = Conversation!Question(a)
                        THEN Conversation!Front(s) ELSE s
  <2>1. earlier \in Seq(Message)
    BY <1>2
  <2> HIDE DEF earlier
  <2>2. Append(Conversation!LastOf(earlier, MaxHistory), Conversation!Question(a)) \in Seq(Message)
    <3>1. Conversation!LastOf(earlier, MaxHistory) \in Seq(Message)
      BY <1>1, <2>1
    <3>2. QED
      BY <3>1, Messages
  <2>3. QED
    BY <2>2 DEF Conversation!PromptOf, earlier
<1>4. Conversation!FirstOf(s, Take) \in Seq(Message)
  <2>1. Len(s) > Take => SubSeq(s, 1, Take) \in Seq(Message)
    BY ConversationSizes
  <2>2. QED
    BY <2>1 DEF Conversation!FirstOf
<1>5. QED
  BY <1>3, <1>4

LEMMA ConversationInit == Conversation!Init => ConversationInv
<1> SUFFICES ASSUME Conversation!Init PROVE ConversationInv
  OBVIOUS
<1>1. PICK e \in Seq(Message) : e = <<>> /\ Len(e) = 0
  BY EmptySeq
<1>2. rows \in Seq(Message) /\ Len(rows) = 0
  BY <1>1 DEF Conversation!Init
<1>3. Conversation!NoAsk \in AskState /\ Conversation!NoAsk.pc = "new"
  <2>1. Conversation!NoAsk
          = [pc |-> "new", title |-> "default", before |-> e, prompt |-> e]
    BY <1>1 DEF Conversation!NoAsk
  <2>2. QED
    BY <2>1 DEF AskState
<1>4. ConversationTyped
  BY <1>2, <1>3 DEF Conversation!Init, ConversationTyped
<1>5. \A a \in Asked : ask[a].pc = "new"
  BY <1>3 DEF Conversation!Init
<1>6. QED
  BY <1>2, <1>4, <1>5 DEF ConversationInv, StoredOnce, AsksLast, Stored

\* An ask of which nothing more is claimed, with or without a message that is no question.
LEMMA OtherMove ==
  ASSUME ConversationInv, title' \in {"default", "auto", "chosen"},
         NEW a \in Asked, NEW s \in AskState, s.pc \in {"ended", "title"}, NEW m \in Message,
         rows' = rows \/ (rows' = Append(rows, m) /\ \A b \in Asked : m # Conversation!Question(b)),
         ask' = [ask EXCEPT ![a] = s]
  PROVE  ConversationInv'
<1>1. /\ ask' \in [Asked -> AskState] /\ ask'[a].pc \in {"ended", "title"}
      /\ \A b \in Asked \ {a} : ask'[b] = ask[b]
  BY DEF ConversationInv, ConversationTyped
<1>2. /\ rows' \in Seq(Message) /\ Len(rows') >= Len(rows)
      /\ \A i \in 1..Len(rows) : rows'[i] = rows[i]
      /\ \A b \in Asked : \A i \in 1..Len(rows') : i > Len(rows) =>
           rows'[i] # Conversation!Question(b)
      /\ rows' = rows \/ Len(rows') = Len(rows) + 1
  <2>1. rows \in Seq(Message) /\ Len(rows) \in Nat
    BY DEF ConversationInv, ConversationTyped
  <2>2. CASE rows' = rows
    BY <2>1, <2>2
  <2>3. CASE rows' = Append(rows, m) /\ \A b \in Asked : m # Conversation!Question(b)
    <3>1. /\ rows' \in Seq(Message) /\ Len(rows') = Len(rows) + 1
          /\ \A i \in 1..Len(rows) : rows'[i] = rows[i]
          /\ rows'[Len(rows) + 1] = m
      BY <2>1, <2>3
    <3>2. \A i \in 1..Len(rows') : i > Len(rows) => i = Len(rows) + 1
      BY <2>1, <3>1
    <3>3. QED
      BY <2>1, <2>3, <3>1, <3>2
  <2>4. QED
    BY <2>2, <2>3
<1>3. /\ \A b \in Asked : ask[b].before \in Seq(Message)
      /\ rows \in Seq(Message)
  BY DEF ConversationInv, ConversationTyped, AskState
<1>4. ConversationTyped'
  BY <1>1, <1>2 DEF ConversationTyped
<1>5. StoredOnce'
  <2>1. ASSUME NEW b \in Asked \ {a}, ask[b].pc \in {"new", "store"}, NEW i \in 1..Len(rows')
        PROVE  rows'[i] # Conversation!Question(b)
    BY <1>2, <1>3, <2>1 DEF ConversationInv, StoredOnce
  <2>2. ASSUME NEW b \in Asked \ {a}, Stored(b)
        PROVE  /\ Len(ask[b].before) < Len(rows')
               /\ \A i \in 1..Len(ask[b].before) : rows'[i] = ask[b].before[i]
               /\ \A i \in 1..Len(rows') :
                    rows'[i] = Conversation!Question(b) <=> i = Len(ask[b].before) + 1
    <3>1. /\ Len(ask[b].before) < Len(rows)
          /\ \A i \in 1..Len(ask[b].before) : rows[i] = ask[b].before[i]
          /\ \A i \in 1..Len(rows) :
               rows[i] = Conversation!Question(b) <=> i = Len(ask[b].before) + 1
      BY <2>2 DEF ConversationInv, StoredOnce
    <3>2. Len(ask[b].before) \in Nat /\ Len(rows) \in Nat /\ Len(rows') \in Nat
      BY <1>2, <1>3
    <3>3. QED
      BY <1>2, <3>1, <3>2
  <2>3. QED
    BY <1>1, <2>1, <2>2 DEF StoredOnce, Stored
<1>6. AsksLast'
  <2>1. ASSUME NEW b \in Asked \ {a}, ask[b].pc = "answer", Len(rows') = Len(ask[b].before) + 1
        PROVE  rows' = rows
    <3>1. Len(ask[b].before) < Len(rows)
      BY <2>1 DEF ConversationInv, StoredOnce, Stored
    <3>2. QED
      BY <1>2, <1>3, <2>1, <3>1
  <2>2. QED
    BY <1>1, <2>1 DEF ConversationInv, AsksLast
<1>7. QED
  BY <1>4, <1>5, <1>6 DEF ConversationInv

LEMMA ConversationStep ==
  ConversationInv /\ [Conversation!Next]_(Conversation!conversationVars) => ConversationInv'
<1> SUFFICES ASSUME ConversationInv, [Conversation!Next]_(Conversation!conversationVars)
             PROVE  ConversationInv'
  OBVIOUS
<1>0. /\ ConversationTyped /\ StoredOnce /\ AsksLast /\ rows \in Seq(Message)
      /\ \A a \in Asked : ask[a] \in AskState /\ ask[a].before \in Seq(Message)
  BY DEF ConversationInv, ConversationTyped, AskState
<1>1. ASSUME NEW a \in Asked, Conversation!Start(a) PROVE ConversationInv'
  <2>1. /\ UNCHANGED <<rows, title>> /\ ask[a].pc = "new"
        /\ ask' = [ask EXCEPT ![a].pc = IF active THEN "store" ELSE "ended", ![a].title = title]
    BY <1>1 DEF Conversation!Start, Conversation!MayAsk
  <2> DEFINE s == [ask[a] EXCEPT !.pc = IF active THEN "store" ELSE "ended", !.title = title]
  <2>2. s \in AskState /\ s.pc \in {"store", "ended"}
    BY <1>0 DEF ConversationTyped, AskState
  <2>3. ask' = [ask EXCEPT ![a] = s]
    BY <2>1 DEF ConversationTyped
  <2> HIDE DEF s
  <2>4. /\ ask' \in [Asked -> AskState] /\ ask'[a].pc \in {"store", "ended"}
        /\ \A b \in Asked \ {a} : ask'[b] = ask[b]
    BY <1>0, <2>2, <2>3 DEF ConversationTyped
  <2>5. ConversationTyped'
    BY <1>0, <2>1, <2>4 DEF ConversationTyped
  <2>6. StoredOnce' /\ AsksLast'
    BY <1>0, <2>1, <2>4 DEF StoredOnce, AsksLast, Stored
  <2>7. QED
    BY <2>5, <2>6 DEF ConversationInv
<1>2. ASSUME NEW a \in Asked, Conversation!Store(a) PROVE ConversationInv'
  <2>1. /\ UNCHANGED title /\ ask[a].pc = "store" /\ rows' = Append(rows, Conversation!Question(a))
        /\ ask' = [ask EXCEPT ![a].pc = "read", ![a].before = rows]
    BY <1>2 DEF Conversation!Store
  <2> DEFINE s == [ask[a] EXCEPT !.pc = "read", !.before = rows]
  <2>2. s \in AskState /\ s.pc = "read" /\ s.before = rows
    BY <1>0 DEF ConversationTyped, AskState
  <2>3. ask' = [ask EXCEPT ![a] = s]
    BY <1>0, <2>1 DEF ConversationTyped
  <2> HIDE DEF s
  <2>4. /\ ask' \in [Asked -> AskState] /\ ask'[a].pc = "read" /\ ask'[a].before = rows
        /\ \A b \in Asked \ {a} : ask'[b] = ask[b]
    BY <1>0, <2>2, <2>3 DEF ConversationTyped
  <2>5. /\ rows' \in Seq(Message) /\ Len(rows') = Len(rows) + 1 /\ Len(rows) \in Nat
        /\ \A i \in 1..Len(rows) : rows'[i] = rows[i]
        /\ rows'[Len(rows')] = Conversation!Question(a)
    BY <1>0, <2>1, Messages
  <2>6. ConversationTyped'
    BY <1>0, <2>1, <2>4, <2>5 DEF ConversationTyped
  <2>7. /\ \A i \in 1..Len(rows') : rows'[i] = Conversation!Question(a) <=> i = Len(rows) + 1
        /\ \A i \in 1..Len(rows) : rows'[i] = rows[i]
        /\ Len(rows) < Len(rows')
    <3>1. \A i \in 1..Len(rows) : rows[i] # Conversation!Question(a)
      BY <1>0, <2>1 DEF StoredOnce
    <3>2. QED
      BY <2>5, <3>1
  <2>8. ASSUME NEW b \in Asked \ {a}, ask[b].pc \in {"new", "store"}, NEW i \in 1..Len(rows')
        PROVE  rows'[i] # Conversation!Question(b)
    <3>1. \A j \in 1..Len(rows) : rows[j] # Conversation!Question(b)
      BY <1>0, <2>8 DEF StoredOnce
    <3>2. Conversation!Question(a) # Conversation!Question(b)
      BY Messages
    <3>3. QED
      BY <2>5, <3>1, <3>2
  <2>9. ASSUME NEW b \in Asked \ {a}, Stored(b)
        PROVE  /\ Len(ask[b].before) < Len(rows)
               /\ \A i \in 1..Len(ask[b].before) : rows'[i] = ask[b].before[i]
               /\ \A i \in 1..Len(rows') :
                    rows'[i] = Conversation!Question(b) <=> i = Len(ask[b].before) + 1
    <3>1. /\ Len(ask[b].before) < Len(rows)
          /\ \A i \in 1..Len(ask[b].before) : rows[i] = ask[b].before[i]
          /\ \A i \in 1..Len(rows) :
               rows[i] = Conversation!Question(b) <=> i = Len(ask[b].before) + 1
      BY <1>0, <2>9 DEF StoredOnce
    <3>2. Conversation!Question(a) # Conversation!Question(b)
      BY Messages
    <3>3. Len(ask[b].before) \in Nat
      BY <1>0
    <3>4. QED
      BY <2>5, <3>1, <3>2, <3>3
  <2>10. StoredOnce'
    BY <2>4, <2>7, <2>8, <2>9, <2>5 DEF StoredOnce, Stored
  <2>11. AsksLast'
    <3>1. \A b \in Asked : ask'[b].pc = "answer" => b # a /\ Stored(b)
      BY <2>4 DEF Stored
    <3>2. ASSUME NEW b \in Asked, ask'[b].pc = "answer" PROVE Len(rows') # Len(ask'[b].before) + 1
      <4>1. Len(ask[b].before) < Len(rows) /\ ask'[b].before = ask[b].before
            /\ Len(ask[b].before) \in Nat
        BY <1>0, <2>4, <2>9, <3>1, <3>2
      <4>2. QED
        BY <2>5, <4>1
    <3>3. QED
      BY <3>2 DEF AsksLast
  <2>12. QED
    BY <2>6, <2>10, <2>11 DEF ConversationInv
<1>3. ASSUME NEW a \in Asked, Conversation!Read(a) PROVE ConversationInv'
  <2> DEFINE read == Conversation!PromptOf(a, Conversation!FirstOf(rows, Take))
  <2>1. /\ UNCHANGED <<rows, title>> /\ ask[a].pc = "read"
        /\ ask' = [ask EXCEPT ![a].pc = "answer", ![a].prompt = read]
    BY <1>3 DEF Conversation!Read
  <2>2. read \in Seq(Message)
    BY <1>0, PromptTyped
  <2>3. /\ Len(ask[a].before) < Len(rows)
        /\ \A i \in 1..Len(ask[a].before) : rows[i] = ask[a].before[i]
        /\ rows[Len(ask[a].before) + 1] = Conversation!Question(a)
    <3>1. Len(ask[a].before) \in Nat
      BY <1>0
    <3>2. QED
      BY <1>0, <2>1, <3>1 DEF StoredOnce, Stored
  <2>4. ASSUME Len(rows) = Len(ask[a].before) + 1, Len(rows) <= Take
        PROVE  read = Append(Conversation!LastOf(ask[a].before, MaxHistory),
                             Conversation!Question(a))
    <3>1. Conversation!FirstOf(rows, Take) = rows
      <4>1. ~(Len(rows) > Take)
        BY <1>0, <2>4, ConversationSizes
      <4>2. QED
        BY <4>1 DEF Conversation!FirstOf
    <3>2. QED
      BY <1>0, <2>3, <2>4, <3>1, PromptIs
  <2> HIDE DEF read
  <2> DEFINE s == [ask[a] EXCEPT !.pc = "answer", !.prompt = read]
  <2>5. s \in AskState /\ s.pc = "answer" /\ s.before = ask[a].before /\ s.prompt = read
    BY <1>0, <2>2 DEF AskState
  <2>6. ask' = [ask EXCEPT ![a] = s]
    BY <1>0, <2>1 DEF ConversationTyped
  <2> HIDE DEF s
  <2>7. /\ ask' \in [Asked -> AskState] /\ ask'[a].pc = "answer"
        /\ ask'[a].before = ask[a].before /\ ask'[a].prompt = read
        /\ \A b \in Asked \ {a} : ask'[b] = ask[b]
    BY <1>0, <2>5, <2>6 DEF ConversationTyped
  <2>8. ConversationTyped'
    BY <1>0, <2>1, <2>7 DEF ConversationTyped
  <2>9. StoredOnce'
    BY <1>0, <2>1, <2>7 DEF StoredOnce, Stored
  <2>10. AsksLast'
    BY <1>0, <2>1, <2>4, <2>7 DEF AsksLast
  <2>11. QED
    BY <2>8, <2>9, <2>10 DEF ConversationInv
<1>4. ASSUME NEW a \in Asked, Conversation!Answer(a) PROVE ConversationInv'
  <2> DEFINE p == IF ask[a].title = "default" THEN "title" ELSE "ended"
             s == [ask[a] EXCEPT !.pc = p]
  <2>1. /\ UNCHANGED title /\ rows' = Append(rows, Conversation!Reply(a))
        /\ ask' = [ask EXCEPT ![a].pc = p]
    BY <1>4 DEF Conversation!Answer
  <2>2. p \in {"ended", "title"}
    OBVIOUS
  <2> HIDE DEF p
  <2>3. s \in AskState /\ s.pc = p /\ ask' = [ask EXCEPT ![a] = s]
    BY <1>0, <2>1, <2>2 DEF ConversationTyped, AskState
  <2> HIDE DEF s
  <2>4. \A b \in Asked : Conversation!Reply(a) # Conversation!Question(b)
    BY Messages
  <2>5. QED
    BY <1>0, <2>1, <2>2, <2>3, <2>4, Messages, OtherMove DEF ConversationTyped
<1>5. ASSUME NEW a \in Asked, Conversation!NoAnswer(a) \/ Conversation!SetTitle(a)
      PROVE  ConversationInv'
  <2> DEFINE s == [ask[a] EXCEPT !.pc = "ended"]
  <2>1. /\ title' \in {"default", "auto", "chosen"} /\ rows' = rows
        /\ ask' = [ask EXCEPT ![a].pc = "ended"]
    BY <1>0, <1>5 DEF Conversation!NoAnswer, Conversation!SetTitle, ConversationTyped
  <2>2. s \in AskState /\ s.pc = "ended" /\ ask' = [ask EXCEPT ![a] = s]
    BY <1>0, <2>1 DEF ConversationTyped, AskState
  <2> HIDE DEF s
  <2>3. QED
    BY <2>1, <2>2, Messages, OtherMove
<1>6. CASE \/ Conversation!UpdateTitle \/ Conversation!DeleteConversation
           \/ UNCHANGED Conversation!conversationVars
  <2>1. title' \in {"default", "auto", "chosen"} /\ UNCHANGED <<rows, ask>>
    BY <1>0, <1>6 DEF Conversation!UpdateTitle, Conversation!DeleteConversation,
                      Conversation!conversationVars, ConversationTyped
  <2>2. QED
    BY <1>0, <2>1 DEF ConversationInv, ConversationTyped, StoredOnce, AsksLast, Stored
<1>7. QED
  BY <1>1, <1>2, <1>3, <1>4, <1>5, <1>6 DEF Conversation!Next

LEMMA ConversationInvImplies == ConversationInv => ShortSendsLast
<1> SUFFICES ASSUME ConversationInv, NEW a \in Asked, ask[a].pc = "answer", Len(rows) <= Take,
                    Conversation!Last(rows) = Conversation!Question(a)
             PROVE  ask[a].prompt = Append(Conversation!LastOf(ask[a].before, MaxHistory),
                                           Conversation!Question(a))
  BY DEF ShortSendsLast, Conversation!ShortSendsLast
<1>1. rows \in Seq(Message) /\ ask[a].before \in Seq(Message)
  BY DEF ConversationInv, ConversationTyped, AskState
<1>2. /\ Len(ask[a].before) < Len(rows)
      /\ \A i \in 1..Len(rows) :
           rows[i] = Conversation!Question(a) <=> i = Len(ask[a].before) + 1
  BY DEF ConversationInv, StoredOnce, Stored
<1>3. Len(rows) \in 1..Len(rows)
  BY <1>1, <1>2
<1>4. Len(rows) = Len(ask[a].before) + 1
  BY <1>2, <1>3 DEF Conversation!Last
<1>5. QED
  BY <1>4 DEF ConversationInv, AsksLast

\* As long as the conversation is short enough to be read as a whole, a question that is the last
\* message is put behind the last MaxHistory messages before it, however many questions overlap.
THEOREM ShortCorrect == Spec => []ShortSendsLast
  BY ConversationSteps, ConversationInit, ConversationStep, ConversationInvImplies, PTL
  DEF Spec, Safety
=============================================================================
