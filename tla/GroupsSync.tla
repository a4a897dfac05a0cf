----------------------------- MODULE GroupsSync -----------------------------
(***************************************************************************)
(* The ransomware groups (ransomware.service.ts, data-sources.service.ts,  *)
(* groups-sync-progress.service.ts).  Their rows are written by the list   *)
(* refresh of every half hour, by the detail sync of the night and of a    *)
(* recovery, by the detail sync an administrator starts and follows on a   *)
(* progress snapshot, and by the refresh of one group; nothing keeps those *)
(* apart but the snapshot, which keeps two followed syncs apart.           *)
(*                                                                         *)
(* What the API says of a group is abstracted to a version number.         *)
(***************************************************************************)
EXTENDS Naturals, FiniteSets

CONSTANTS
  Group,
  BatchSize,   \* requests sent at a time
  Followed,    \* bound: the detail syncs an administrator starts
  Unfollowed,  \* bound: the detail syncs, or refreshes of a group, nobody follows
  MaxVersion   \* bound: changes of the API's data

\* Asserted by the module that instantiates this one.
GroupsAssumption ==
  /\ IsFiniteSet(Group) /\ Group # {}
  /\ BatchSize \in Nat \ {0} /\ MaxVersion \in Nat \ {0}
  /\ Followed \cap Unfollowed = {}

VARIABLES
  version,     \* the version of the API's data
  row,         \* ransomware_groups_data: the versions of the summary and of the details
  source,      \* the row "ransomware-live" of data_sources exists
  progress,    \* GroupsSyncProgressService.snapshot
  job,         \* the local variables of the detail syncs
  list         \* those of the list refresh

groupsVars == <<version, row, source, progress, job, list>>

Absent == 0
NoList == [pc |-> "idle", got |-> Absent, todo |-> {}]
NoJob == [pc |-> "idle", todo |-> {}, asked |-> {}, got |-> [g \in Group |-> Absent], counted |-> 0]

Init ==
  /\ version = 1
  /\ row = [g \in Group |-> [victims |-> Absent, details |-> Absent]]
  /\ source \in BOOLEAN
  /\ progress = [status |-> "idle", total |-> 0, processed |-> 0]
  /\ job = [j \in Followed \cup Unfollowed |-> NoJob]
  /\ list = NoList

\* GroupsSyncProgressService: start(), update(), complete(), fail().
Started(total) ==
  [status |-> "running", total |-> total,
   processed |-> IF progress.status = "running" THEN progress.processed ELSE 0]
Updated(n) == IF progress.status = "running" THEN [progress EXCEPT !.processed = n] ELSE progress
Completed == [progress EXCEPT !.status = "completed", !.processed = progress.total]
Failed == [progress EXCEPT !.status = "failed"]

-----------------------------------------------------------------------------
\* Mutant: the snapshot is started only when the number of groups is known.
Trigger_Late(j) ==
  /\ job[j].pc = "idle"
  /\ progress.status # "running"
  /\ job' = [job EXCEPT ![j].pc = "names"]
  /\ UNCHANGED <<version, row, source, progress, list>>

\* triggerGroupsSyncInBackground()
Trigger(j) ==
  /\ job[j].pc = "idle"
  /\ progress.status # "running"
  /\ progress' = Started(0)
  /\ job' = [job EXCEPT ![j].pc = "names"]
  /\ UNCHANGED <<version, row, source, list>>

\* syncGroups() of the night or of a recovery ...
SyncGroups(j) ==
  /\ job[j].pc = "idle"
  /\ job' = [job EXCEPT ![j].pc = "names"]
  /\ UNCHANGED <<version, row, source, progress, list>>

\* ... or refreshGroupDetails() of one group.
RefreshGroup(j, g) ==
  /\ job[j].pc = "idle"
  /\ job' = [job EXCEPT ![j].pc = "pause", ![j].todo = {g}]
  /\ UNCHANGED <<version, row, source, progress, list>>

\* syncGroupsData() gets the names of the groups ...
Names(j) ==
  /\ job[j].pc = "names"
  /\ job' = [job EXCEPT ![j].pc = "pause", ![j].todo = Group]
  /\ progress' = IF j \in Followed THEN Started(Cardinality(Group)) ELSE progress
  /\ UNCHANGED <<version, row, source, list>>

\* ... or fails.
NamesFail(j) ==
  /\ job[j].pc = "names"
  /\ job' = [job EXCEPT ![j] = NoJob]
  /\ progress' = IF j \in Followed THEN Failed ELSE progress
  /\ UNCHANGED <<version, row, source, list>>

\* The requests of a batch.
Batch(j) ==
  /\ job[j].pc = "pause"
  /\ \E b \in SUBSET job[j].todo :
       /\ Cardinality(b) = BatchSize \/ (b = job[j].todo /\ Cardinality(b) < BatchSize)
       /\ job' = [job EXCEPT ![j].pc = "batch", ![j].todo = @ \ b, ![j].asked = b]
  /\ UNCHANGED <<version, row, source, progress, list>>

Answer(j, g) ==
  /\ g \in job[j].asked /\ job[j].got[g] = Absent
  /\ job' = [job EXCEPT ![j].got[g] = version]
  /\ UNCHANGED <<version, row, source, progress, list>>

Counted(j, g) ==
  job' = [job EXCEPT ![j].asked = @ \ {g}, ![j].got[g] = Absent,
                        ![j].counted = IF j \in Followed THEN @ + 1 ELSE @]

\* saveSingleGroupToDatabase() writes every column.
Save(j, g) ==
  /\ g \in job[j].asked /\ job[j].got[g] # Absent
  /\ row' = [row EXCEPT ![g] = [victims |-> job[j].got[g], details |-> job[j].got[g]]]
  /\ Counted(j, g)
  /\ UNCHANGED <<version, source, progress, list>>

\* The request, or the write, of a group fails.
GroupFails(j, g) ==
  /\ g \in job[j].asked
  /\ Counted(j, g)
  /\ UNCHANGED <<version, row, source, progress, list>>

BatchDone(j) ==
  /\ job[j].pc = "batch" /\ job[j].asked = {}
  /\ job' = [job EXCEPT ![j].pc = IF job[j].todo = {} THEN "stamp" ELSE "pause"]
  /\ progress' = IF j \in Followed THEN Updated(job[j].counted) ELSE progress
  /\ UNCHANGED <<version, row, source, list>>

\* executeGroupsSync() ends: without its data source a sync counts as failed.
Stamp(j) ==
  /\ job[j].pc = "stamp"
  /\ job' = [job EXCEPT ![j] = NoJob]
  /\ progress' = IF j \notin Followed THEN progress ELSE IF source THEN Completed ELSE Failed
  /\ UNCHANGED <<version, row, source, list>>

StampFails(j) ==
  /\ job[j].pc = "stamp"
  /\ job' = [job EXCEPT ![j] = NoJob]
  /\ progress' = IF j \in Followed THEN Failed ELSE progress
  /\ UNCHANGED <<version, row, source, list>>

-----------------------------------------------------------------------------
\* getGroups(), of syncData(), reads the list ...
ReadList ==
  /\ list.pc = "idle"
  /\ list' = [pc |-> "save", got |-> version, todo |-> Group]
  /\ UNCHANGED <<version, row, source, progress, job>>

\* Mutant: the list refresh writes the whole record, and the list has no details.
SaveListed_All(g) ==
  /\ list.pc = "save" /\ g \in list.todo
  /\ row' = [row EXCEPT ![g] = [victims |-> list.got, details |-> Absent]]
  /\ list' = [list EXCEPT !.todo = @ \ {g}]
  /\ UNCHANGED <<version, source, progress, job>>

\* Mutant: a group that has a row is left alone.
SaveListed_New(g) ==
  /\ list.pc = "save" /\ g \in list.todo
  /\ row' = IF row[g].victims = Absent THEN [row EXCEPT ![g].victims = list.got] ELSE row
  /\ list' = [list EXCEPT !.todo = @ \ {g}]
  /\ UNCHANGED <<version, source, progress, job>>

\* ... and saveGroupsToDatabase() writes its columns only.
SaveListed(g) ==
  /\ list.pc = "save" /\ g \in list.todo
  /\ row' = [row EXCEPT ![g].victims = list.got]
  /\ list' = [list EXCEPT !.todo = @ \ {g}]
  /\ UNCHANGED <<version, source, progress, job>>

\* performSync() stamps its data source, or creates it.
ListDone ==
  /\ list.pc = "save" /\ list.todo = {}
  /\ source' = TRUE
  /\ list' = NoList
  /\ UNCHANGED <<version, row, progress, job>>

ListFails ==
  /\ list.pc = "save"
  /\ list' = NoList
  /\ UNCHANGED <<version, row, source, progress, job>>

-----------------------------------------------------------------------------
ApiChanges ==
  /\ version < MaxVersion
  /\ version' = version + 1
  /\ UNCHANGED <<row, source, progress, job, list>>

\* createDataSource(), deleteDataSource()
ChangeSource ==
  /\ source' = ~source
  /\ UNCHANGED <<version, row, progress, job, list>>

\* The followed syncs are interchangeable: the next one is any that is not under way.
Free ==
  LET idle == {j \in Followed : job[j].pc = "idle"}
  IN  IF idle = {} THEN {} ELSE {CHOOSE j \in idle : TRUE}

Fails ==
  \/ \E j \in Followed \cup Unfollowed :
       NamesFail(j) \/ StampFails(j) \/ \E g \in Group : GroupFails(j, g)
  \/ ListFails

Proceed(j) ==
  Names(j) \/ Batch(j) \/ BatchDone(j) \/ Stamp(j) \/ \E g \in Group : Answer(j, g) \/ Save(j, g)

RefreshList == ReadList \/ ListDone \/ \E g \in Group : SaveListed(g)

Next ==
  \/ \E j \in Free : Trigger(j)
  \/ \E j \in Unfollowed : SyncGroups(j) \/ \E g \in Group : RefreshGroup(j, g)
  \/ \E j \in Followed \cup Unfollowed : Proceed(j)
  \/ RefreshList \/ Fails \/ ApiChanges \/ ChangeSource

-----------------------------------------------------------------------------
UnderWay(j) == job[j].pc # "idle"

TypeOK ==
  /\ version \in 1..MaxVersion
  /\ \A g \in Group : row[g].victims \in 0..version /\ row[g].details \in 0..version
  /\ progress.status \in {"idle", "running", "completed", "failed"}
  /\ progress.processed \in 0..progress.total

\* The snapshot says "running" while one followed sync is under way, never two, and no other
\* time: who asks for a second one is told so (data-sources.service.ts:195).
ProgressHonest ==
  Cardinality({j \in Followed : UnderWay(j)}) = IF progress.status = "running" THEN 1 ELSE 0

\* A sync about to be called completed has reported every group, those that failed too.
EveryGroupReported ==
  \A j \in Followed : job[j].pc = "stamp" =>
    progress.processed = progress.total /\ progress.total = Cardinality(Group)

\* The list refresh never takes the details of a group away, whatever runs with it.
DetailsKept ==
  \A g \in Group : row[g].details # Absent => row'[g].details # Absent

\* When the API has stopped changing and the list is not refused for ever, the summary of
\* every row is brought up to date for good, whatever older answers of detail syncs were
\* still to be written.
RowsCurrent == \A g \in Group : row[g].victims = version
=============================================================================
