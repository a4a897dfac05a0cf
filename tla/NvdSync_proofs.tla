-------------------------- MODULE NvdSync_proofs --------------------------
(***************************************************************************)
(* Proofs about the NVD collector, for every number of CVEs and runs.      *)
(***************************************************************************)
EXTENDS NvdSync, FiniteSetTheorems, TLAPS

-----------------------------------------------------------------------------
\* A set of CVEs is finite and has at most NumCve members.
LEMMA CveSets ==
  ASSUME NEW S \in SUBSET Cve
  PROVE  IsFiniteSet(S) /\ Cardinality(S) \in Nat /\ Cardinality(S) <= NumCve
<1>1. IsFiniteSet(Cve) /\ Cardinality(Cve) = NumCve
  BY FS_Interval, NvdAssumption DEF Cve
<1>2. QED
  BY <1>1, FS_Subset, FS_CardinalityType

\* TypeOK is inductive together with the fact that the clock never runs back behind its
\* start: the default range reaches Lookback instants into the past.
TypeInv == TypeOK /\ Lookback <= now

LEMMA TypeInit == Init => TypeInv
  BY NvdAssumption DEF Init, TypeInv, TypeOK, Idle, NoItem, RunState, SyncRow, SeedRow,
                       Instant, Null, Page

\* A run whose local variables change keeps the type of run.
LEMMA RunUpdate ==
  ASSUME TypeOK, NEW r \in Run, NEW R \in RunState,
         R.pc = "write" => R.item # NoItem,
         run' = [run EXCEPT ![r] = R]
  PROVE  /\ run' \in [Run -> RunState]
         /\ \A q \in Run : run'[q].pc = "write" => run'[q].item # NoItem
  BY DEF TypeOK

\* Assignments to the local variables of a run, field by field.
LEMMA FieldTypes ==
  ASSUME NEW R \in RunState
  PROVE  /\ \A x \in {"page", "items", "write", "progress", "success"} :
              [R EXCEPT !.pc = x] \in RunState
         /\ \A x \in Instant : [R EXCEPT !.start = x] \in RunState
         /\ \A x \in Nat : [R EXCEPT !.index = x] \in RunState
         /\ \A x \in Nat : [R EXCEPT !.total = x] \in RunState
         /\ \A x \in Page : [R EXCEPT !.page = x] \in RunState
         /\ \A x \in (Cve \X Nat) \cup {NoItem} : [R EXCEPT !.item = x] \in RunState
         /\ \A x \in BOOLEAN : [R EXCEPT !.found = x] \in RunState
  BY DEF RunState

LEMMA IdleType == Idle \in RunState /\ Idle.pc = "idle"
  BY DEF Idle, RunState, Instant, Null, Page, NoItem

LEMMA TypeStep ==
  ASSUME TypeInv, [Next]_vars
  PROVE  TypeInv'
<1> USE NvdAssumption DEF TypeInv, TypeOK
<1>1. CASE Tick
  BY <1>1 DEF Tick
<1>2. ASSUME NEW c \in Cve, Modify(c) PROVE TypeInv'
  BY <1>2 DEF Modify
<1>3. ASSUME NEW r \in Run, ReadWatermark(r) PROVE TypeInv'
  <2>1. [Idle EXCEPT !.pc = "plan", !.since = row.lastSyncAt] \in RunState
    BY DEF Idle, RunState, SyncRow, Instant, Null, Page, NoItem
  <2>2. QED
    BY <1>3, <2>1, RunUpdate DEF ReadWatermark, Idle
<1>4. ASSUME NEW r \in Run, PlanRange(r) PROVE TypeInv'
  <2> DEFINE since == OrElse(run[r].since, now - Lookback)
             R == IF since < now
                  THEN [Idle EXCEPT !.pc = "page", !.start = since, !.until = now]
                  ELSE Idle
  <2>1. since \in Nat
    BY DEF OrElse, RunState, Instant, Null
  <2>2. R \in RunState
    BY <2>1 DEF Idle, RunState, Instant, Null, Page, NoItem
  <2>3. run' = [run EXCEPT ![r] = R] /\ horizon' \in Nat
    BY <1>4, <2>1 DEF PlanRange, Later
  <2>4. QED
    BY <1>4, <2>2, <2>3, RunUpdate DEF PlanRange, Idle
<1>5. ASSUME NEW r \in Run, Backfill(r) PROVE TypeInv'
  <2>1. PICK range \in Backfills :
          /\ horizon' = IF row.lastSyncAt = Null THEN Later(horizon, range[1]) ELSE horizon
          /\ run' = [run EXCEPT ![r] = [Idle EXCEPT !.pc = "page", !.start = range[1],
                                                    !.until = range[2]]]
    BY <1>5 DEF Backfill
  <2>2. range[1] \in Nat /\ range[2] \in Nat
    OBVIOUS
  <2>3. [Idle EXCEPT !.pc = "page", !.start = range[1], !.until = range[2]] \in RunState
    BY <2>2 DEF Idle, RunState, Instant, Null, Page, NoItem
  <2>4. /\ run' \in [Run -> RunState]
        /\ \A q \in Run : run'[q].pc = "write" => run'[q].item # NoItem
    BY <2>1, <2>3, RunUpdate DEF Idle
  <2>5. horizon' \in Nat
    BY <2>1, <2>2 DEF Later
  <2>6. QED
    BY <1>5, <2>4, <2>5 DEF Backfill
<1>6. ASSUME NEW r \in Run, FetchPage(r) PROVE TypeInv'
  <2> DEFINE list == InWindow(run[r].start, ChunkEnd(run[r].start, run[r].until))
             page == {<<c, upstream[c]>> : c \in Slice(list, run[r].index)}
  <2>1. list \in SUBSET Cve
    BY DEF InWindow
  <2>2. Cardinality(list) \in Nat
    BY <2>1, CveSets
  <2>3. Slice(list, run[r].index) \in SUBSET Cve
    BY <2>1 DEF Slice
  <2>4. \A c \in Cve : <<c, upstream[c]>> \in Cve \X Nat
    OBVIOUS
  <2>5. page \in Page
    BY <2>3, <2>4 DEF Page
  <2> DEFINE total == IF run[r].index = 0 THEN Cardinality(list) ELSE run[r].total
             R == [run[r] EXCEPT !.pc = "items", !.page = page, !.total = total]
  <2>6. R \in RunState
    <3>1. total \in Nat
      BY <2>2 DEF RunState
    <3>2. [run[r] EXCEPT !.pc = "items"] \in RunState
      BY FieldTypes
    <3>3. [run[r] EXCEPT !.pc = "items", !.page = page] \in RunState
      BY <2>5, <3>2, FieldTypes
    <3>4. QED
      BY <3>1, <3>3, FieldTypes
  <2>7. run' = [run EXCEPT ![r] = R]
    BY <1>6 DEF FetchPage
  <2>8. R.pc = "items"
    BY DEF RunState
  <2>9. QED
    <3> HIDE DEF R
    <3> QED  BY <1>6, <2>6, <2>7, <2>8, RunUpdate DEF FetchPage
<1>7. ASSUME NEW r \in Run, FindExisting(r) PROVE TypeInv'
  <2>1. PICK item \in run[r].page :
          run' = [run EXCEPT ![r].pc = "write",
                             ![r].page = @ \ {item},
                             ![r].item = item,
                             ![r].found = store[item[1]] # Null]
    BY <1>7 DEF FindExisting
  <2> DEFINE page == run[r].page \ {item}
             found == store[item[1]] # Null
             R == [run[r] EXCEPT !.pc = "write", !.page = page, !.item = item, !.found = found]
  <2>2. page \in Page /\ item \in Cve \X Nat /\ item # NoItem /\ found \in BOOLEAN
    BY DEF RunState, Page, Cve, NoItem
  <2>3. R \in RunState
    <3> HIDE DEF page, found
    <3>1. [run[r] EXCEPT !.pc = "write"] \in RunState
      BY FieldTypes
    <3>2. [run[r] EXCEPT !.pc = "write", !.page = page] \in RunState
      BY <2>2, <3>1, FieldTypes
    <3>3. [run[r] EXCEPT !.pc = "write", !.page = page, !.item = item] \in RunState
      BY <2>2, <3>2, FieldTypes
    <3>4. QED
      BY <2>2, <3>3, FieldTypes
  <2>4. run' = [run EXCEPT ![r] = R]
    BY <2>1
  <2>5. R.item = item
    BY DEF RunState
  <2>6. QED
    <3> HIDE DEF R
    <3> QED  BY <1>7, <2>2, <2>3, <2>4, <2>5, RunUpdate DEF FindExisting
<1>8. ASSUME NEW r \in Run, Write(r) \/ UpsertFails(r) PROVE TypeInv'
  <2> DEFINE R == [run[r] EXCEPT !.pc = "items", !.item = NoItem, !.found = FALSE]
  <2>1. R \in RunState
    <3>1. [run[r] EXCEPT !.pc = "items"] \in RunState
      BY FieldTypes
    <3>2. [run[r] EXCEPT !.pc = "items", !.item = NoItem] \in RunState
      BY <3>1, FieldTypes DEF NoItem
    <3>3. QED
      BY <3>2, FieldTypes
  <2>2. /\ run' \in [Run -> RunState]
        /\ \A q \in Run : run'[q].pc = "write" => run'[q].item # NoItem
    <3>1. run' = [run EXCEPT ![r] = R]
      BY <1>8 DEF Write, UpsertFails
    <3>2. QED
      BY <2>1, <3>1, RunUpdate
  <2>3. run[r].item \in Cve \X Nat
    BY <1>8 DEF Write, UpsertFails, RunState
  <2>4. CASE Write(r)
    BY <2>2, <2>3, <2>4 DEF Write, RunState, Instant, Page
  <2>5. CASE UpsertFails(r)
    BY <2>2, <2>3, <2>5 DEF UpsertFails, RunState, Page
  <2>6. QED
    BY <1>8, <2>4, <2>5
<1>9. ASSUME NEW r \in Run, EndPage(r) PROVE TypeInv'
  <2> DEFINE next == run[r].index + PageSize
             R == [run[r] EXCEPT !.index = next,
                                 !.pc = IF next < run[r].total THEN "page" ELSE "progress"]
  <2>1. R \in RunState
    <3>1. [run[r] EXCEPT !.index = next] \in RunState
      BY FieldTypes DEF RunState
    <3>2. QED
      BY <3>1, FieldTypes
  <2>2. run' = [run EXCEPT ![r] = R]
    BY <1>9 DEF EndPage
  <2>3. QED
    BY <1>9, <2>1, <2>2, RunUpdate DEF EndPage
<1>10. ASSUME NEW r \in Run, Progress(r) PROVE TypeInv'
  <2> DEFINE end == ChunkEnd(run[r].start, run[r].until)
             R == [run[r] EXCEPT !.pc = IF end < run[r].until THEN "page" ELSE "success",
                                 !.start = IF end < run[r].until THEN end + 1 ELSE @,
                                 !.index = 0, !.total = 0]
  <2>1. end \in Instant /\ end + 1 \in Instant
    BY DEF RunState, Instant, Null, ChunkEnd
  <2>2. R \in RunState
    <3> HIDE DEF end
    <3>1. [run[r] EXCEPT !.pc = IF end < run[r].until THEN "page" ELSE "success"] \in RunState
      BY FieldTypes
    <3>2. [run[r] EXCEPT !.pc = IF end < run[r].until THEN "page" ELSE "success",
                         !.start = IF end < run[r].until THEN end + 1 ELSE @] \in RunState
      BY <2>1, <3>1, FieldTypes
    <3>3. [run[r] EXCEPT !.pc = IF end < run[r].until THEN "page" ELSE "success",
                         !.start = IF end < run[r].until THEN end + 1 ELSE @,
                         !.index = 0] \in RunState
      BY <3>2, FieldTypes
    <3>4. QED
      BY <3>3, FieldTypes
  <2>3. run' = [run EXCEPT ![r] = R] /\ row' = [row EXCEPT !.lastSyncAt = end]
    BY <1>10 DEF Progress, MarkProgress, SyncRow, Null
  <2>4. R.pc \in {"page", "success"}
    BY DEF RunState
  <2>5. row' \in SyncRow
    BY <2>1, <2>3 DEF SyncRow
  <2>6. QED
    <3> HIDE DEF R
    <3> QED  BY <1>10, <2>2, <2>3, <2>4, <2>5, RunUpdate DEF Progress
<1>11. ASSUME NEW r \in Run, Success(r) PROVE TypeInv'
  <2>1. row' \in SyncRow
    BY <1>11 DEF Success, MarkSuccess, SyncRow, RunState, Instant, Null
  <2>2. QED
    BY <1>11, <2>1, RunUpdate, IdleType DEF Success
<1>12. ASSUME NEW r \in Run, Fail(r) PROVE TypeInv'
  <2>1. row' \in SyncRow
    BY <1>12 DEF Fail, MarkError, SyncRow
  <2>2. QED
    BY <1>12, <2>1, RunUpdate, IdleType DEF Fail
<1>13. ASSUME NEW r \in Run, Reject(r) PROVE TypeInv'
  BY <1>13, RunUpdate, IdleType DEF Reject
<1>14. ASSUME NEW r \in Run, EmptyPage(r) PROVE TypeInv'
  <2> DEFINE P == [run[r] EXCEPT !.pc = "progress"]
             total == IF run[r].index = 0 THEN 0 ELSE run[r].total
             R == [run[r] EXCEPT !.pc = "items", !.page = {}, !.total = total]
  <2>1. P \in RunState /\ P.pc = "progress"
    <3>1. P \in RunState
      BY FieldTypes
    <3>2. QED
      BY <3>1 DEF RunState
  <2>2. total \in Nat
    BY DEF RunState
  <2>3. R \in RunState /\ R.pc = "items"
    <3> HIDE DEF total
    <3>1. [run[r] EXCEPT !.pc = "items"] \in RunState
      BY FieldTypes
    <3>2. [run[r] EXCEPT !.pc = "items", !.page = {}] \in RunState
      BY <3>1, FieldTypes DEF Page
    <3>3. R \in RunState
      BY <2>2, <3>2, FieldTypes
    <3>4. QED
      BY <3>3 DEF RunState
  <2>4. run' = [run EXCEPT ![r] = P] \/ run' = [run EXCEPT ![r] = R]
    BY <1>14 DEF EmptyPage
  <2>5. refused' \in Page
    <3> DEFINE list == InWindow(run[r].start, ChunkEnd(run[r].start, run[r].until))
    <3>1. list \subseteq Cve
      BY DEF InWindow
    <3>2. QED
      BY <1>14, <3>1 DEF EmptyPage, Page
  <2>6. QED
    <3> HIDE DEF P, R
    <3> QED  BY <1>14, <2>1, <2>3, <2>4, <2>5, RunUpdate DEF EmptyPage
<1>15. CASE Crash
  BY <1>15, IdleType DEF Crash
<1>16. CASE UNCHANGED vars
  BY <1>16 DEF vars
<1>17. QED
  BY <1>1, <1>2, <1>3, <1>4, <1>5, <1>6, <1>7, <1>8, <1>9, <1>10, <1>11, <1>12, <1>13,
     <1>14, <1>15, <1>16 DEF Next, Step

\* Every variable keeps its type, for every number of CVEs and of overlapping runs.
THEOREM TypeCorrect == Spec => []TypeOK
<1>1. TypeInv => TypeOK
  BY DEF TypeInv
<1>2. QED
  BY TypeInit, TypeStep, <1>1, PTL DEF Spec

-----------------------------------------------------------------------------
(***************************************************************************)
(* The watermark claims nothing that is neither stored nor given up on, as *)
(* long as runs do not overlap, a window fits in one page and operators    *)
(* ask for careful backfills, and nothing but what is stored when moreover *)
(* NVD never answers without a list and no upsert is rejected.  README.md  *)
(* names, for each of these assumptions, an instance in which TLC finds    *)
(* the statement violated without it.                                      *)
(***************************************************************************)
Serial == \A q, r \in Run : q = r
SinglePage == NumCve <= PageSize

Settled(c) == store[c] = upstream[c] \/ <<c, upstream[c]>> \in refused

SettledBelow(w) ==
  \A c \in Cve : (horizon <= upstream[c] /\ upstream[c] < w) => Settled(c)

\* The part of the present window that a run is answerable for: what is modified at the
\* end of the range or later is left to the next run.
InRange(r, c) ==
  /\ run[r].start <= upstream[c]
  /\ upstream[c] <= ChunkEnd(run[r].start, run[r].until)
  /\ upstream[c] < run[r].until

\* The versions fetched and not yet upserted.
Pending(r) == run[r].page \cup (IF run[r].pc = "write" THEN {run[r].item} ELSE {})

\* A pending version is the current one, or the watermark does not claim its CVE.
Current(r, item) ==
  \/ item[2] = upstream[item[1]]
  \/ row.lastSyncAt <= upstream[item[1]] /\ run[r].until <= upstream[item[1]]

Bounds(r) ==
  /\ run[r].start \in Nat /\ run[r].until \in Nat
  /\ run[r].start <= run[r].until /\ run[r].until <= now

RunInv(r) ==
  /\ run[r].pc = "plan" => run[r].since = row.lastSyncAt
  /\ run[r].pc \notin {"idle", "plan"} => Bounds(r) /\ SettledBelow(run[r].start)
  /\ run[r].pc \in {"page", "items", "write"} => run[r].index = 0
  /\ run[r].pc \in {"items", "write"} =>
       /\ run[r].total <= PageSize
       /\ \A c \in Cve : InRange(r, c) => Settled(c) \/ <<c, upstream[c]>> \in Pending(r)
       /\ \A item \in Pending(r) : Current(r, item)
  /\ run[r].pc = "progress" => \A c \in Cve : InRange(r, c) => Settled(c)
  /\ run[r].pc = "success" => SettledBelow(run[r].until)

Past ==
  /\ Lookback <= now
  /\ row.lastSyncAt <= now
  /\ \A c \in Cve : upstream[c] <= now

Inv ==
  /\ TypeOK
  /\ Past
  /\ SettledBelow(row.lastSyncAt)
  /\ \A r \in Run : RunInv(r)

-----------------------------------------------------------------------------
LEMMA InvInit == Init => Inv
<1> SUFFICES ASSUME Init PROVE Inv
  OBVIOUS
<1>1. TypeOK
  BY TypeInit DEF TypeInv
<1>2. Past /\ SettledBelow(row.lastSyncAt)
  BY NvdAssumption DEF Init, Past, SettledBelow, SeedRow, Null
<1>3. \A r \in Run : RunInv(r)
  BY DEF Init, RunInv, Idle
<1>4. QED
  BY <1>1, <1>2, <1>3 DEF Inv

\* A list of CVEs fits in the page that starts at index 0.
LEMMA OnePage ==
  ASSUME SinglePage, NEW list \in SUBSET Cve
  PROVE  Cardinality(list) <= PageSize /\ Slice(list, 0) = list
<1>1. Cardinality(list) <= PageSize
  BY CveSets, NvdAssumption DEF SinglePage
<1>2. ASSUME NEW c \in list PROVE Rank(c, list) \in Nat /\ Rank(c, list) < PageSize
  <2> DEFINE before == {d \in list : d < c}
  <2>1. c \in Int /\ 1 <= c /\ c <= NumCve
    BY NvdAssumption DEF Cve
  <2>2. IsFiniteSet(1..(c - 1)) /\ Cardinality(1..(c - 1)) = c - 1
    BY <2>1, FS_Interval
  <2>3. before \in SUBSET (1..(c - 1))
    <3>1. \A d \in before : d \in 1..NumCve /\ d < c
      BY DEF Cve
    <3>2. \A d \in before : d \in 1..(c - 1)
      BY <3>1, <2>1
    <3>3. QED
      BY <3>2
  <2>4. Cardinality(before) \in Nat /\ Cardinality(before) <= c - 1
    BY <2>2, <2>3, FS_Subset, FS_CardinalityType
  <2>5. QED
    BY <2>1, <2>4, NvdAssumption DEF Rank, SinglePage
<1>3. QED
  BY <1>1, <1>2, NvdAssumption DEF Slice

\* The step of the only run preserves the invariant of every run.
LEMMA OnlyRun ==
  ASSUME Serial, NEW r \in Run, RunInv(r)'
  PROVE  \A q \in Run : RunInv(q)'
  BY DEF Serial

\* The end of a window lies between its start and the end of the range.
LEMMA ChunkEndBounds ==
  ASSUME NEW s \in Nat, NEW u \in Nat, s <= u
  PROVE  ChunkEnd(s, u) \in Nat /\ s <= ChunkEnd(s, u) /\ ChunkEnd(s, u) <= u
  BY NvdAssumption DEF ChunkEnd

LEMMA InvStep ==
  ASSUME Serial, SinglePage, CarefulBackfills, Inv, [Next]_vars
  PROVE  Inv'
<1> USE NvdAssumption
<1>1. TypeOK'
  BY TypeStep DEF Inv, Past, TypeInv
<1>2. \A r \in Run : RunInv(r) /\ run[r] \in RunState
  BY DEF Inv, TypeOK
<1>3. Past /\ SettledBelow(row.lastSyncAt) /\ row.lastSyncAt \in Int /\ now \in Nat
  BY DEF Inv, TypeOK, SyncRow, Instant, Null
<1>4. horizon \in Nat /\ \A c \in Cve : upstream[c] \in Nat
  BY DEF Inv, TypeOK
<1>5. CASE Tick
  <2>1. Past' /\ SettledBelow(row.lastSyncAt)'
    BY <1>3, <1>4, <1>5 DEF Tick, Past, SettledBelow, Settled
  <2>2. \A r \in Run : RunInv(r)'
    <3>1. ASSUME NEW r \in Run PROVE RunInv(r)'
      <4>1. Bounds(r) => Bounds(r)'
        BY <1>3, <1>5 DEF Tick, Bounds
      <4>2. QED
        BY <1>2, <1>5, <4>1 DEF Tick, RunInv, SettledBelow, Settled, InRange, Pending, Current
    <3>2. QED
      BY <3>1
  <2>3. QED
    BY <1>1, <2>1, <2>2 DEF Inv
<1>6. ASSUME NEW c \in Cve, Modify(c) PROVE Inv'
  <2>1. /\ upstream' = [upstream EXCEPT ![c] = now] /\ upstream \in [Cve -> Nat]
        /\ UNCHANGED <<now, store, row, run, horizon, refused>>
    BY <1>6 DEF Modify, Inv, TypeOK
  <2>2. \A d \in Cve : upstream'[d] = IF d = c THEN now ELSE upstream[d]
    BY <2>1
  <2>3. \A d \in Cve : d # c /\ Settled(d) => Settled(d)'
    BY <2>1, <2>2 DEF Settled
  <2>4. \A w \in Int : w <= now /\ SettledBelow(w) => SettledBelow(w)'
    BY <1>3, <1>4, <2>1, <2>2, <2>3 DEF SettledBelow
  <2>5. Past' /\ SettledBelow(row.lastSyncAt)'
    BY <1>3, <2>1, <2>2, <2>4 DEF Past, SettledBelow
  <2>6. ASSUME NEW r \in Run PROVE RunInv(r)'
    <3>1. Bounds(r) => Bounds(r)' /\ (SettledBelow(run[r].start) => SettledBelow(run[r].start)')
      BY <1>3, <2>1, <2>4 DEF Bounds, SettledBelow
    <3>2. Bounds(r) /\ SettledBelow(run[r].until) => SettledBelow(run[r].until)'
      BY <1>3, <2>1, <2>4 DEF Bounds, SettledBelow
    <3>3. Bounds(r) => \A d \in Cve : InRange(r, d)' => d # c /\ InRange(r, d)
      BY <1>3, <2>1, <2>2 DEF Bounds, InRange
    <3>4. ASSUME Bounds(r), run[r].pc \in {"items", "write"}
          PROVE  \A item \in Pending(r)' : Current(r, item)'
      <4>1. Pending(r)' = Pending(r) /\ \A item \in Pending(r) : item[1] \in Cve
        BY <1>1, <1>2, <2>1 DEF Pending, Inv, TypeOK, RunState, Page
      <4>2. \A item \in Pending(r) : Current(r, item)
        BY <1>2, <3>4 DEF RunInv
      <4>3. QED
        BY <1>3, <2>1, <2>2, <3>4, <4>1, <4>2 DEF Current, Bounds, Past
    <3>5. QED
      BY <1>2, <2>1, <2>2, <2>3, <3>1, <3>2, <3>3, <3>4 DEF RunInv, Pending
  <2>7. QED
    BY <1>1, <2>5, <2>6 DEF Inv
<1>7. ASSUME UNCHANGED <<now, upstream, store, row, refused>>,
             horizon' \in Nat, horizon <= horizon'
      PROVE  /\ Past' /\ SettledBelow(row.lastSyncAt)'
             /\ \A w \in Int : SettledBelow(w) => SettledBelow(w)'
  BY <1>3, <1>4, <1>7 DEF Past, SettledBelow, Settled
<1>8. ASSUME NEW r \in Run, ReadWatermark(r) PROVE Inv'
  <2>1. run'[r].pc = "plan" /\ run'[r].since = row.lastSyncAt
    BY <1>1, <1>2, <1>8 DEF ReadWatermark, Inv, TypeOK, Idle
  <2>2. Past' /\ SettledBelow(row.lastSyncAt)' /\ row' = row
    BY <1>4, <1>7, <1>8 DEF ReadWatermark
  <2>3. RunInv(r)'
    BY <2>1, <2>2 DEF RunInv
  <2>4. QED
    BY <1>1, <2>2, <2>3, OnlyRun DEF Inv
<1>9. ASSUME NEW r \in Run, PlanRange(r) PROVE Inv'
  <2>0. PICK since : since = OrElse(run[r].since, now - Lookback)
    OBVIOUS
  <2>1. /\ run[r].since = row.lastSyncAt
        /\ since \in Nat /\ since <= now
        /\ horizon' = IF row.lastSyncAt = Null THEN Later(horizon, since) ELSE horizon
    BY <1>2, <1>3, <1>9, <2>0 DEF PlanRange, RunInv, OrElse, Past, RunState, Instant, Null
  <2>2. horizon' \in Nat /\ horizon <= horizon'
    BY <1>4, <2>1 DEF Later, Inv, TypeOK
  <2>3. /\ Past' /\ SettledBelow(row.lastSyncAt)'
        /\ \A w \in Int : SettledBelow(w) => SettledBelow(w)'
    BY <1>7, <1>9, <2>2 DEF PlanRange
  <2>4. SettledBelow(since)'
    <3>1. CASE row.lastSyncAt = Null
      BY <1>4, <1>9, <2>1, <3>1 DEF SettledBelow, Later, PlanRange, Inv, TypeOK
    <3>2. CASE row.lastSyncAt # Null
      <4>1. since = row.lastSyncAt
        BY <2>0, <2>1, <3>2 DEF OrElse
      <4>2. QED
        BY <1>9, <2>3, <4>1 DEF PlanRange, SettledBelow
    <3>3. QED
      BY <3>1, <3>2
  <2>5. RunInv(r)'
    <3>1. CASE since < now
      <4>1. /\ run'[r].pc = "page" /\ run'[r].start = since /\ run'[r].until = now
            /\ run'[r].index = 0 /\ now' = now
        BY <1>9, <2>0, <3>1 DEF PlanRange, Inv, TypeOK, Idle
      <4>2. Bounds(r)'
        BY <1>3, <2>1, <4>1 DEF Bounds
      <4>3. SettledBelow(run[r].start)'
        BY <2>4, <4>1 DEF SettledBelow, Settled
      <4>4. QED
        BY <4>1, <4>2, <4>3 DEF RunInv
    <3>2. CASE ~(since < now)
      <4>1. run'[r].pc = "idle"
        BY <1>9, <2>0, <3>2 DEF PlanRange, Inv, TypeOK, Idle
      <4>2. QED
        BY <4>1 DEF RunInv
    <3>3. QED
      BY <3>1, <3>2
  <2>6. QED
    BY <1>1, <2>3, <2>5, OnlyRun DEF Inv
<1>10. ASSUME NEW r \in Run, Backfill(r) PROVE Inv'
  <2>1. PICK range \in Backfills :
          /\ range[1] < range[2]
          /\ row.lastSyncAt = Null \/ range[1] <= row.lastSyncAt
          /\ range[2] <= now
          /\ horizon' = IF row.lastSyncAt = Null THEN Later(horizon, range[1]) ELSE horizon
          /\ run' = [run EXCEPT ![r] = [Idle EXCEPT !.pc = "page", !.start = range[1],
                                                    !.until = range[2]]]
    BY <1>10 DEF Backfill
  <2>2. range[1] \in Nat /\ range[2] \in Nat
    OBVIOUS
  <2>3. horizon' \in Nat /\ horizon <= horizon'
    BY <1>4, <2>1, <2>2 DEF Later, Inv, TypeOK
  <2>4. /\ Past' /\ SettledBelow(row.lastSyncAt)'
        /\ UNCHANGED <<now, upstream, store, row, refused>>
    BY <1>7, <1>10, <2>3 DEF Backfill
  <2>5. SettledBelow(range[1])'
    <3>1. CASE row.lastSyncAt = Null
      BY <1>4, <2>1, <2>2, <2>4, <3>1 DEF SettledBelow, Later, Inv, TypeOK
    <3>2. CASE row.lastSyncAt # Null
      BY <1>3, <1>4, <2>1, <2>2, <2>4, <3>2 DEF SettledBelow
    <3>3. QED
      BY <3>1, <3>2
  <2>6. /\ run'[r].pc = "page" /\ run'[r].start = range[1] /\ run'[r].until = range[2]
        /\ run'[r].index = 0
    BY <2>1 DEF Inv, TypeOK, Idle
  <2>7. Bounds(r)' /\ SettledBelow(run[r].start)'
    BY <1>3, <2>1, <2>2, <2>4, <2>5, <2>6 DEF Bounds, SettledBelow, Settled
  <2>8. RunInv(r)'
    BY <2>6, <2>7 DEF RunInv
  <2>9. QED
    BY <1>1, <2>4, <2>8, OnlyRun DEF Inv
<1>11. ASSUME NEW r \in Run, FetchPage(r) PROVE Inv'
  <2>1. PICK list : list = InWindow(run[r].start, ChunkEnd(run[r].start, run[r].until))
    OBVIOUS
  <2>2. /\ UNCHANGED <<now, upstream, store, row, horizon, refused>>
        /\ run[r].pc = "page" /\ run[r].index = 0
        /\ Bounds(r) /\ SettledBelow(run[r].start)
    BY <1>2, <1>11 DEF FetchPage, RunInv
  <2>3. list \in SUBSET Cve /\ Slice(list, 0) = list /\ Cardinality(list) <= PageSize
    BY <2>1, OnePage DEF InWindow
  <2>4. /\ run'[r].pc = "items" /\ run'[r].index = 0
        /\ run'[r].start = run[r].start /\ run'[r].until = run[r].until
        /\ run'[r].total = Cardinality(list)
        /\ run'[r].page = {<<c, upstream[c]>> : c \in list}
    <3> DEFINE page == {<<c, upstream[c]>> : c \in list}
               total == Cardinality(list)
    <3> HIDE DEF page, total
    <3>1. run' = [run EXCEPT ![r].pc = "items", ![r].page = page, ![r].total = total]
      BY <1>11, <2>1, <2>2, <2>3 DEF FetchPage, page, total
    <3>2. /\ run'[r].pc = "items" /\ run'[r].index = run[r].index
          /\ run'[r].start = run[r].start /\ run'[r].until = run[r].until
          /\ run'[r].total = total /\ run'[r].page = page
      BY <1>2, <3>1 DEF Inv, TypeOK, RunState
    <3>3. QED
      BY <2>2, <3>2 DEF page, total
  <2>5. /\ Past' /\ SettledBelow(row.lastSyncAt)'
        /\ \A w \in Int : SettledBelow(w) => SettledBelow(w)'
    BY <1>4, <1>7, <2>2
  <2>6. Bounds(r)' /\ SettledBelow(run[r].start)'
    BY <2>2, <2>4, <2>5 DEF Bounds, SettledBelow, Settled
  <2>7. \A c \in Cve : InRange(r, c)' => <<c, upstream[c]>>' \in Pending(r)'
    BY <2>1, <2>2, <2>4 DEF InRange, InWindow, Pending
  <2>8. \A item \in Pending(r)' : Current(r, item)'
    BY <2>2, <2>4 DEF Pending, Current
  <2>9. RunInv(r)'
    BY <2>3, <2>4, <2>6, <2>7, <2>8 DEF RunInv
  <2>10. QED
    BY <1>1, <2>5, <2>9, OnlyRun DEF Inv
<1>12. ASSUME NEW r \in Run, FindExisting(r) PROVE Inv'
  <2>1. PICK item \in run[r].page :
          run' = [run EXCEPT ![r].pc = "write",
                             ![r].page = @ \ {item},
                             ![r].item = item,
                             ![r].found = store[item[1]] # Null]
    BY <1>12 DEF FindExisting
  <2>2. /\ run'[r].pc = "write" /\ run'[r].index = run[r].index
        /\ run'[r].start = run[r].start /\ run'[r].until = run[r].until
        /\ run'[r].total = run[r].total
        /\ run'[r].page = run[r].page \ {item} /\ run'[r].item = item
    BY <1>2, <2>1 DEF Inv, TypeOK, RunState
  <2>3. run[r].pc = "items" /\ UNCHANGED <<now, upstream, store, row, horizon, refused>>
    BY <1>12 DEF FindExisting
  <2>4. Pending(r)' = Pending(r)
    BY <2>1, <2>2, <2>3 DEF Pending
  <2>5. /\ Past' /\ SettledBelow(row.lastSyncAt)'
        /\ \A w \in Int : SettledBelow(w) => SettledBelow(w)'
    BY <1>4, <1>7, <2>3
  <2>6. Bounds(r)' /\ SettledBelow(run[r].start)'
    BY <1>2, <2>2, <2>3, <2>5 DEF RunInv, Bounds, SettledBelow, Settled
  <2>7. RunInv(r)'
    BY <1>2, <2>2, <2>3, <2>4, <2>6 DEF RunInv, InRange, Settled, Current
  <2>8. QED
    BY <1>1, <2>5, <2>7, OnlyRun DEF Inv
<1>13. ASSUME NEW r \in Run, Write(r) \/ UpsertFails(r) PROVE Inv'
  <2>1. PICK item : item = run[r].item
    OBVIOUS
  <2>2. /\ run[r].pc = "write" /\ item \in Cve \X Nat
        /\ UNCHANGED <<now, upstream, row, horizon>>
    BY <1>2, <1>13, <2>1 DEF Write, UpsertFails, Inv, TypeOK, RunState
  <2>3. /\ run'[r].pc = "items" /\ run'[r].index = run[r].index
        /\ run'[r].start = run[r].start /\ run'[r].until = run[r].until
        /\ run'[r].total = run[r].total /\ run'[r].page = run[r].page
    BY <1>2, <1>13 DEF Write, UpsertFails, Inv, TypeOK, RunState
  <2>4. Current(r, item) /\ Bounds(r) /\ SettledBelow(run[r].start) /\ run[r].index = 0
    BY <1>2, <2>1, <2>2 DEF RunInv, Pending
  <2>5. /\ \A c \in Cve : c # item[1] /\ Settled(c) => Settled(c)'
        /\ item[2] = upstream[item[1]] => Settled(item[1])'
    <3>1. store \in [Cve -> Instant]
      BY DEF Inv, TypeOK
    <3>2. CASE Write(r)
      BY <2>1, <2>2, <3>1, <3>2 DEF Write, Settled
    <3>3. CASE UpsertFails(r)
      BY <2>1, <2>2, <3>3 DEF UpsertFails, Settled
    <3>4. QED
      BY <1>13, <3>2, <3>3
  <2>6. \A w \in Int : (w <= row.lastSyncAt \/ w <= run[r].until) /\ SettledBelow(w)
                         => SettledBelow(w)'
    <3> SUFFICES ASSUME NEW w \in Int, w <= row.lastSyncAt \/ w <= run[r].until,
                        SettledBelow(w), NEW c \in Cve, horizon <= upstream[c], upstream[c] < w
                 PROVE  Settled(c)'
      BY <2>2 DEF SettledBelow
    <3>1. CASE c = item[1]
      BY <1>3, <1>4, <2>4, <2>5, <3>1 DEF Current, Bounds
    <3>2. CASE c # item[1]
      BY <2>5, <3>2 DEF SettledBelow
    <3>3. QED
      BY <3>1, <3>2
  <2>7. Past' /\ SettledBelow(row.lastSyncAt)'
    <3>1. SettledBelow(row.lastSyncAt)'
      BY <1>3, <2>2, <2>6 DEF SettledBelow
    <3>2. QED
      BY <1>3, <2>2, <3>1 DEF Past
  <2>8. Bounds(r)' /\ SettledBelow(run[r].start)'
    BY <2>2, <2>3, <2>4, <2>6 DEF Bounds, SettledBelow
  <2>9. ASSUME NEW c \in Cve, InRange(r, c)'
        PROVE  Settled(c)' \/ <<c, upstream[c]>>' \in Pending(r)'
    <3>1. InRange(r, c) /\ upstream[c] < run[r].until
      BY <2>2, <2>3, <2>9 DEF InRange
    <3>2. Settled(c) \/ <<c, upstream[c]>> \in run[r].page \/ <<c, upstream[c]>> = item
      BY <1>2, <2>1, <2>2, <3>1 DEF RunInv, Pending
    <3>3. CASE c = item[1]
      BY <1>4, <2>4, <2>5, <3>1, <3>3 DEF Current, Bounds
    <3>4. CASE c # item[1]
      BY <2>2, <2>3, <2>5, <3>2, <3>4 DEF Pending
    <3>5. QED
      BY <3>3, <3>4
  <2>10. \A i \in Pending(r)' : Current(r, i)'
    BY <1>2, <2>2, <2>3 DEF RunInv, Pending, Current
  <2>11. RunInv(r)'
    BY <1>2, <2>2, <2>3, <2>4, <2>8, <2>9, <2>10 DEF RunInv
  <2>12. QED
    BY <1>1, <2>7, <2>11, OnlyRun DEF Inv
<1>14. ASSUME NEW r \in Run, EndPage(r) PROVE Inv'
  <2>1. /\ run[r].pc = "items" /\ run[r].page = {}
        /\ run[r].index = 0 /\ run[r].total <= PageSize /\ run[r].total \in Nat
        /\ UNCHANGED <<now, upstream, store, row, horizon, refused>>
    BY <1>2, <1>14 DEF EndPage, RunInv, RunState
  <2>2. /\ run'[r].pc = "progress"
        /\ run'[r].start = run[r].start /\ run'[r].until = run[r].until
    BY <1>2, <1>14, <2>1 DEF EndPage, Inv, TypeOK, RunState
  <2>3. /\ Past' /\ SettledBelow(row.lastSyncAt)'
        /\ \A w \in Int : SettledBelow(w) => SettledBelow(w)'
    BY <1>4, <1>7, <2>1
  <2>4. Bounds(r)' /\ SettledBelow(run[r].start)'
    BY <1>2, <2>1, <2>2, <2>3 DEF RunInv, Bounds, SettledBelow, Settled
  <2>5. \A c \in Cve : InRange(r, c) => Settled(c)
    BY <1>2, <2>1 DEF RunInv, Pending
  <2>6. \A c \in Cve : InRange(r, c)' => Settled(c)'
    BY <2>1, <2>2, <2>5 DEF InRange, Settled
  <2>7. RunInv(r)'
    BY <2>2, <2>4, <2>6 DEF RunInv
  <2>8. QED
    BY <1>1, <2>3, <2>7, OnlyRun DEF Inv
<1>15. ASSUME NEW r \in Run, Progress(r) PROVE Inv'
  <2>1. PICK end : end = ChunkEnd(run[r].start, run[r].until)
    OBVIOUS
  <2>2. /\ run[r].pc = "progress" /\ Bounds(r) /\ SettledBelow(run[r].start)
        /\ UNCHANGED <<now, upstream, store, horizon, refused>>
    BY <1>2, <1>15 DEF Progress, RunInv
  <2>3. end \in Nat /\ run[r].start <= end /\ end <= run[r].until
    BY <2>1, <2>2, ChunkEndBounds DEF Bounds
  <2>4. row'.lastSyncAt = end
    BY <1>15, <2>1 DEF Progress, MarkProgress, Inv, TypeOK, SyncRow
  <2>5. \A c \in Cve : InRange(r, c) => Settled(c)
    BY <1>2, <2>2 DEF RunInv
  <2>6. SettledBelow(end)
    BY <1>4, <2>1, <2>2, <2>3, <2>5 DEF SettledBelow, InRange, Bounds
  <2>7. Past' /\ SettledBelow(row.lastSyncAt)'
    <3>1. SettledBelow(row.lastSyncAt)'
      BY <2>2, <2>4, <2>6 DEF SettledBelow, Settled
    <3>2. QED
      BY <1>3, <2>2, <2>3, <2>4, <3>1 DEF Past, Bounds
  <2>8. CASE end < run[r].until
    <3>1. /\ run'[r].pc = "page" /\ run'[r].index = 0
          /\ run'[r].start = end + 1 /\ run'[r].until = run[r].until
      BY <1>2, <1>15, <2>1, <2>8 DEF Progress, Inv, TypeOK, RunState
    <3>2. Bounds(r)'
      BY <2>2, <2>3, <2>8, <3>1 DEF Bounds
    <3>3. SettledBelow(end + 1)
      BY <1>4, <2>1, <2>2, <2>3, <2>5, <2>8 DEF SettledBelow, InRange, Bounds
    <3>4. SettledBelow(run[r].start)'
      BY <2>2, <3>1, <3>3 DEF SettledBelow, Settled
    <3>5. RunInv(r)'
      BY <3>1, <3>2, <3>4 DEF RunInv
    <3>6. QED
      BY <1>1, <2>7, <3>5, OnlyRun DEF Inv
  <2>9. CASE ~(end < run[r].until)
    <3>1. /\ run'[r].pc = "success"
          /\ run'[r].start = run[r].start /\ run'[r].until = run[r].until
      BY <1>2, <1>15, <2>1, <2>9 DEF Progress, Inv, TypeOK, RunState
    <3>2. end = run[r].until
      BY <2>2, <2>3, <2>9 DEF Bounds
    <3>3. SettledBelow(run[r].until)' /\ SettledBelow(run[r].start)' /\ Bounds(r)'
      BY <2>2, <2>6, <3>1, <3>2 DEF SettledBelow, Settled, Bounds
    <3>4. RunInv(r)'
      BY <3>1, <3>3 DEF RunInv
    <3>5. QED
      BY <1>1, <2>7, <3>4, OnlyRun DEF Inv
  <2>10. QED
    BY <2>8, <2>9
<1>16. ASSUME NEW r \in Run, Success(r) PROVE Inv'
  <2>1. /\ run[r].pc = "success" /\ Bounds(r) /\ SettledBelow(run[r].until)
        /\ UNCHANGED <<now, upstream, store, horizon, refused>>
    BY <1>2, <1>16 DEF Success, RunInv
  <2>2. row'.lastSyncAt = run[r].until /\ run'[r].pc = "idle"
    BY <1>16 DEF Success, MarkSuccess, Inv, TypeOK, SyncRow, Idle
  <2>3. Past' /\ SettledBelow(row.lastSyncAt)'
    <3>1. SettledBelow(row.lastSyncAt)'
      BY <2>1, <2>2 DEF SettledBelow, Settled
    <3>2. QED
      BY <1>3, <2>1, <2>2, <3>1 DEF Past, Bounds
  <2>4. RunInv(r)'
    BY <2>2 DEF RunInv
  <2>5. QED
    BY <1>1, <2>3, <2>4, OnlyRun DEF Inv
<1>17. CASE \/ \E r \in Run : Fail(r) \/ Reject(r)
            \/ Crash
  <2>1. /\ UNCHANGED <<now, upstream, store, horizon, refused>>
        /\ row'.lastSyncAt = row.lastSyncAt
    BY <1>17 DEF Fail, Reject, Crash, MarkError, Inv, TypeOK, SyncRow
  <2>2. Past' /\ SettledBelow(row.lastSyncAt)'
    BY <1>3, <2>1 DEF Past, SettledBelow, Settled
  <2>3. \A r \in Run : run'[r].pc = "idle"
    BY <1>17 DEF Fail, Reject, Crash, Serial, Idle, Inv, TypeOK
  <2>4. \A r \in Run : RunInv(r)'
    BY <2>3 DEF RunInv
  <2>5. QED
    BY <1>1, <2>2, <2>4 DEF Inv
<1>18. ASSUME NEW r \in Run, EmptyPage(r) PROVE Inv'
  <2> DEFINE list == InWindow(run[r].start, ChunkEnd(run[r].start, run[r].until))
  <2>1. /\ run[r].pc = "page" /\ run[r].index = 0 /\ Bounds(r) /\ SettledBelow(run[r].start)
        /\ UNCHANGED <<now, upstream, store, row, horizon>>
    BY <1>2, <1>18 DEF EmptyPage, RunInv
  <2>2. /\ run'[r].pc \in {"items", "progress"} /\ run'[r].start = run[r].start
        /\ run'[r].until = run[r].until /\ run'[r].index = 0
        /\ run'[r].pc = "items" => run'[r].page = {} /\ run'[r].total = 0
    BY <1>18, <2>1 DEF EmptyPage, Inv, TypeOK, RunState
  <2>3. refused \subseteq refused' /\ \A c \in list : <<c, upstream[c]>> \in refused'
    <3>1. list \in SUBSET Cve
      BY DEF InWindow
    <3>2. Slice(list, 0) = list
      BY <3>1, OnePage
    <3>3. \A c \in list : 0 <= Rank(c, list)
      BY <3>2 DEF Slice
    <3>4. QED
      BY <1>18, <2>1, <3>3 DEF EmptyPage
  <2>4. \A c \in Cve : Settled(c) => Settled(c)'
    BY <2>1, <2>3 DEF Settled
  <2>5. Past' /\ SettledBelow(row.lastSyncAt)' /\ SettledBelow(run[r].start)'
    BY <1>3, <2>1, <2>2, <2>4 DEF Past, SettledBelow
  <2>6. \A c \in Cve : InRange(r, c)' => Settled(c)'
    BY <2>1, <2>2, <2>3 DEF InRange, InWindow, Settled
  <2>7. Bounds(r)'
    BY <2>1, <2>2 DEF Bounds
  <2>8. RunInv(r)'
    BY <2>2, <2>5, <2>6, <2>7, NvdAssumption DEF RunInv, Pending
  <2>9. QED
    BY <1>1, <2>5, <2>8, OnlyRun DEF Inv
<1>19. CASE UNCHANGED vars
  <2>1. Past' /\ SettledBelow(row.lastSyncAt)'
    BY <1>3, <1>19 DEF vars, Past, SettledBelow, Settled
  <2>2. \A r \in Run : RunInv(r)'
    BY <1>2, <1>19 DEF vars, RunInv, SettledBelow, Settled, InRange, Pending, Current, Bounds
  <2>3. QED
    BY <1>1, <2>1, <2>2 DEF Inv
<1>20. QED
  BY <1>5, <1>6, <1>8, <1>9, <1>10, <1>11, <1>12, <1>13, <1>14, <1>15, <1>16, <1>17, <1>18,
     <1>19 DEF Next, Step

\* Whatever the watermark of the NVD claims is stored in its current version, or that
\* very version was rejected when it was upserted or kept back by an empty answer: restarts,
\* failed pages and careful backfills lose nothing.
THEOREM NothingElseLost ==
  ASSUME Serial, SinglePage, CarefulBackfills
  PROVE  Spec => []LossOnlyByRefusal
<1>1. Inv => LossOnlyByRefusal
  BY DEF Inv, SettledBelow, Settled, LossOnlyByRefusal, Claimed
<1>2. Inv /\ [Next]_vars => Inv'
  BY InvStep
<1>3. QED
  BY InvInit, <1>1, <1>2, PTL DEF Spec

-----------------------------------------------------------------------------
\* A serial run meets no row made behind its back.
Exact ==
  /\ refused = {}
  /\ \A r \in Run : run[r].pc = "write" => (run[r].found <=> store[run[r].item[1]] # Null)

LEMMA ExactInit == Init => Exact
  BY DEF Init, Exact, Idle

LEMMA ExactStep ==
  ASSUME Serial, ~UpsertMayFail, ~EmptyAnswers, Inv, Exact, [Next]_vars
  PROVE  Exact'
<1>1. run \in [Run -> RunState]
  BY DEF Inv, TypeOK
<1>2. CASE Tick \/ (\E c \in Cve : Modify(c)) \/ UNCHANGED vars
  BY <1>2 DEF Tick, Modify, vars, Exact
<1>3. ASSUME NEW r \in Run, run'[r].pc # "write", refused' = refused PROVE Exact'
  BY <1>3 DEF Exact, Serial
<1>4. ASSUME NEW r \in Run,
             \/ ReadWatermark(r) \/ PlanRange(r) \/ Backfill(r)
             \/ EndPage(r) \/ Progress(r) \/ Success(r) \/ Fail(r) \/ Reject(r)
      PROVE  Exact'
  <2>1. CASE ReadWatermark(r)
    BY <1>1, <1>3, <2>1 DEF ReadWatermark, Idle
  <2>2. CASE PlanRange(r)
    BY <1>1, <1>3, <2>2 DEF PlanRange, Idle
  <2>3. CASE Backfill(r)
    BY <1>1, <1>3, <2>3 DEF Backfill, Idle
  <2>4. CASE EndPage(r)
    BY <1>1, <1>3, <2>4 DEF EndPage, RunState
  <2>5. CASE Progress(r)
    BY <1>1, <1>3, <2>5 DEF Progress, RunState
  <2>6. CASE Success(r) \/ Fail(r) \/ Reject(r)
    BY <1>1, <1>3, <2>6 DEF Success, Fail, Reject, Idle
  <2>7. QED
    BY <1>4, <2>1, <2>2, <2>3, <2>4, <2>5, <2>6
<1>5. ASSUME NEW r \in Run, FetchPage(r) PROVE Exact'
  <2> DEFINE list == InWindow(run[r].start, ChunkEnd(run[r].start, run[r].until))
             page == {<<c, upstream[c]>> : c \in Slice(list, run[r].index)}
             total == IF run[r].index = 0 THEN Cardinality(list) ELSE run[r].total
  <2>1. run' = [run EXCEPT ![r].pc = "items", ![r].page = page, ![r].total = total]
    BY <1>5 DEF FetchPage
  <2> HIDE DEF page, total
  <2>2. run'[r].pc = "items"
    BY <1>1, <2>1 DEF RunState
  <2>3. refused' = refused
    BY <1>5 DEF FetchPage
  <2>4. QED
    BY <1>3, <2>2, <2>3
<1>6. ASSUME NEW r \in Run, FindExisting(r) PROVE Exact'
  <2>1. PICK item \in run[r].page :
          run' = [run EXCEPT ![r].pc = "write",
                             ![r].page = @ \ {item},
                             ![r].item = item,
                             ![r].found = store[item[1]] # Null]
    BY <1>6 DEF FindExisting
  <2>2. /\ UNCHANGED <<store, refused>> /\ run'[r].item = item
        /\ run'[r].found = (store[item[1]] # Null)
    BY <1>1, <1>6, <2>1 DEF FindExisting, RunState
  <2>3. QED
    BY <2>2 DEF Exact, Serial
<1>7. ASSUME NEW r \in Run, Write(r) PROVE Exact'
  <2>1. run'[r].pc = "items" /\ refused' = refused
    BY <1>1, <1>7 DEF Write, RunState, Exact
  <2>2. QED
    BY <1>3, <2>1
<1>8. CASE Crash
  BY <1>8 DEF Crash, Exact, Idle
<1>9. QED
  BY <1>2, <1>4, <1>5, <1>6, <1>7, <1>8 DEF Next, Step, UpsertFails, EmptyPage

\* Without rejected upserts and empty answers the watermark is what README.md:212 says it
\* is: everything last modified before it is stored in its current version.
THEOREM WatermarkCorrect ==
  ASSUME Serial, SinglePage, CarefulBackfills, ~EmptyAnswers, ~UpsertMayFail
  PROVE  Spec => []WatermarkSound
<1>1. Inv /\ Exact => WatermarkSound
  BY DEF Inv, Exact, SettledBelow, Settled, WatermarkSound, Claimed
<1>2. Inv /\ [Next]_vars => Inv'
  BY InvStep
<1>3. Inv /\ Exact /\ [Next]_vars => Exact'
  BY ExactStep
<1>4. QED
  BY InvInit, ExactInit, <1>1, <1>2, <1>3, PTL DEF Spec

-----------------------------------------------------------------------------
\* What a run has fetched is never newer than what NVD has.
NoNewer ==
  \A r \in Run : run[r].pc \in {"items", "write"} =>
    \A item \in Pending(r) : item[2] <= upstream[item[1]]

LEMMA NoNewerInit == Init => NoNewer
  BY DEF Init, NoNewer, Idle

LEMMA NoNewerStep ==
  ASSUME Serial, Inv, NoNewer, [Next]_vars
  PROVE  NoNewer'
<1>1. run \in [Run -> RunState] /\ upstream \in [Cve -> Nat] /\ now \in Nat
  BY DEF Inv, TypeOK
<1>2. \A r \in Run : \A item \in Pending(r) :
        run[r].pc \in {"items", "write"} => item[1] \in Cve /\ item[2] \in Nat
  BY DEF Inv, TypeOK, RunState, Page, Pending, NoItem
<1>3. ASSUME NEW r \in Run, run'[r].pc \notin {"items", "write"} PROVE NoNewer'
  BY <1>3 DEF NoNewer, Serial
<1>4. ASSUME NEW r \in Run, Pending(r)' \subseteq Pending(r), upstream' = upstream,
             run[r].pc \in {"items", "write"} \/ Pending(r)' = {}
      PROVE  NoNewer'
  BY <1>4 DEF NoNewer, Serial
<1>5. CASE Tick \/ UNCHANGED vars
  BY <1>5 DEF Tick, vars, NoNewer, Pending
<1>6. ASSUME NEW c \in Cve, Modify(c) PROVE NoNewer'
  <2>1. /\ \A d \in Cve : upstream'[d] \in Nat /\ upstream[d] <= upstream'[d]
        /\ UNCHANGED run
    BY <1>1, <1>6 DEF Modify
  <2>2. ASSUME NEW r \in Run, run[r].pc \in {"items", "write"}, NEW item \in Pending(r)
        PROVE  item[2] <= upstream'[item[1]]
    BY <1>1, <1>2, <2>1, <2>2 DEF NoNewer
  <2>3. QED
    BY <2>1, <2>2 DEF NoNewer, Pending
<1>7. ASSUME NEW r \in Run,
             \/ ReadWatermark(r) \/ PlanRange(r) \/ Backfill(r)
             \/ EndPage(r) \/ Progress(r) \/ Success(r) \/ Fail(r) \/ Reject(r)
      PROVE  NoNewer'
  <2>1. CASE ReadWatermark(r)
    BY <1>1, <1>3, <2>1 DEF ReadWatermark, Idle
  <2>2. CASE PlanRange(r)
    BY <1>1, <1>3, <2>2 DEF PlanRange, Idle
  <2>3. CASE Backfill(r)
    BY <1>1, <1>3, <2>3 DEF Backfill, Idle
  <2>4. CASE EndPage(r)
    BY <1>1, <1>3, <2>4 DEF EndPage, RunState
  <2>5. CASE Progress(r)
    BY <1>1, <1>3, <2>5 DEF Progress, RunState
  <2>6. CASE Success(r) \/ Fail(r) \/ Reject(r)
    BY <1>1, <1>3, <2>6 DEF Success, Fail, Reject, Idle
  <2>7. QED
    BY <1>7, <2>1, <2>2, <2>3, <2>4, <2>5, <2>6
<1>8. ASSUME NEW r \in Run, FetchPage(r) PROVE NoNewer'
  <2>1. PICK page : page = {<<c, upstream[c]>> : c \in
                      Slice(InWindow(run[r].start, ChunkEnd(run[r].start, run[r].until)),
                            run[r].index)}
    OBVIOUS
  <2>2. \A item \in page : item[1] \in Cve /\ item[2] = upstream[item[1]]
    <3> DEFINE list == InWindow(run[r].start, ChunkEnd(run[r].start, run[r].until))
    <3>1. Slice(list, run[r].index) \subseteq Cve
      BY DEF Slice, InWindow
    <3>2. QED
      BY <2>1, <3>1
  <2>3. run'[r].pc = "items" /\ run'[r].page = page
    <3> DEFINE total == IF run[r].index = 0
                        THEN Cardinality(InWindow(run[r].start,
                                                  ChunkEnd(run[r].start, run[r].until)))
                        ELSE run[r].total
    <3> HIDE DEF total
    <3>1. run' = [run EXCEPT ![r].pc = "items", ![r].page = page, ![r].total = total]
      BY <1>8, <2>1 DEF FetchPage, total
    <3>2. QED
      BY <1>1, <3>1 DEF RunState
  <2>4. upstream' = upstream
    BY <1>8 DEF FetchPage
  <2>5. QED
    BY <1>1, <2>2, <2>3, <2>4 DEF NoNewer, Serial, Pending
<1>9. ASSUME NEW r \in Run, EmptyPage(r) PROVE NoNewer'
  <2>1. upstream' = upstream /\ (run'[r].pc = "progress" \/ Pending(r)' = {})
    BY <1>1, <1>9 DEF EmptyPage, RunState, Pending
  <2>2. QED
    BY <1>3, <1>4, <2>1
<1>10. ASSUME NEW r \in Run, FindExisting(r) PROVE NoNewer'
  <2>1. PICK item \in run[r].page :
          run' = [run EXCEPT ![r].pc = "write",
                             ![r].page = @ \ {item},
                             ![r].item = item,
                             ![r].found = store[item[1]] # Null]
    BY <1>10 DEF FindExisting
  <2>2. /\ run[r].pc = "items" /\ upstream' = upstream /\ run'[r].item = item
        /\ run'[r].page = run[r].page \ {item}
    BY <1>1, <1>10, <2>1 DEF FindExisting, RunState
  <2>3. Pending(r)' \subseteq Pending(r)
    BY <2>2 DEF Pending
  <2>4. QED
    BY <1>4, <2>2, <2>3
<1>11. ASSUME NEW r \in Run, Write(r) \/ UpsertFails(r) PROVE NoNewer'
  <2>1. /\ run[r].pc = "write" /\ upstream' = upstream
        /\ run'[r].pc = "items" /\ run'[r].page = run[r].page
    BY <1>1, <1>11 DEF Write, UpsertFails, RunState
  <2>2. QED
    BY <1>4, <2>1 DEF Pending
<1>12. CASE Crash
  BY <1>12 DEF Crash, NoNewer, Idle
<1>13. QED
  BY <1>5, <1>6, <1>7, <1>8, <1>9, <1>10, <1>11, <1>12 DEF Next, Step

-----------------------------------------------------------------------------
LEMMA PromiseInit == Init => Promise!Init
<1> SUFFICES ASSUME Init PROVE Promise!Init
  OBVIOUS
<1>1. now \in Nat /\ upstream \in [Cve -> 0..now] /\ row.lastSyncAt = -1
  BY NvdAssumption DEF Init, SeedRow, Null
<1>2. store = [c \in Cve |-> -1] /\ horizon = 0 /\ refused = {}
  BY DEF Init, Null
<1>3. QED
  BY <1>1, <1>2 DEF Promise!Init

\* A move of the watermark is a step of the abstract source when it is sound afterwards.
LEMMA AdvanceStep ==
  ASSUME UNCHANGED <<now, upstream, store, horizon, refused>>,
         row'.lastSyncAt \in 0..now, LossOnlyByRefusal'
  PROVE  Promise!Advance
  BY DEF Promise!Advance, Promise!Complete, LossOnlyByRefusal, Claimed

LEMMA PromiseStep ==
  ASSUME Serial, CarefulBackfills, Inv, NoNewer, Inv', LossOnlyByRefusal', [Next]_vars
  PROVE  [Promise!Next]_(Promise!vars)
<1> USE NvdAssumption
<1>1. /\ run \in [Run -> RunState] /\ store \in [Cve -> Instant]
      /\ upstream \in [Cve -> Nat] /\ now \in Nat /\ horizon \in Nat
      /\ row.lastSyncAt \in Int
  BY DEF Inv, TypeOK, SyncRow, Instant, Null
<1>2. CASE Tick
  BY <1>1, <1>2 DEF Tick, Promise!Tick, Promise!Next
<1>3. ASSUME NEW c \in Cve, Modify(c) PROVE Promise!Next
  <2>1. Promise!Modify(c)
    BY <1>3 DEF Modify, Promise!Modify, Inv, Past
  <2>2. QED
    BY <2>1 DEF Promise!Next
<1>4. ASSUME NEW r \in Run, PlanRange(r) \/ Backfill(r) PROVE [Promise!Next]_(Promise!vars)
  <2>1. UNCHANGED <<now, upstream, store, row, refused>>
    BY <1>4 DEF PlanRange, Backfill
  <2>2. CASE horizon' = horizon
    BY <2>1, <2>2 DEF Promise!vars
  <2>3. CASE horizon' # horizon
    <3>1. CASE PlanRange(r)
      <4>1. PICK since : since = OrElse(run[r].since, now - Lookback)
        OBVIOUS
      <4>2. horizon' = Later(horizon, since) /\ since = now - Lookback
        BY <2>3, <3>1, <4>1 DEF PlanRange, OrElse
      <4>3. QED
        BY <1>1, <2>1, <2>3, <4>2 DEF Later, Promise!RaiseHorizon, Promise!Next
    <3>2. CASE Backfill(r)
      <4>1. PICK range \in Backfills :
              range[1] < range[2] /\ range[2] <= now /\ horizon' = Later(horizon, range[1])
        BY <2>3, <3>2 DEF Backfill
      <4>2. range[1] \in Nat /\ range[2] \in Nat
        OBVIOUS
      <4>3. QED
        BY <1>1, <2>1, <2>3, <4>1, <4>2 DEF Later, Promise!RaiseHorizon, Promise!Next
    <3>3. QED
      BY <1>4, <3>1, <3>2
  <2>4. QED
    BY <2>2, <2>3
<1>5. ASSUME NEW r \in Run, Write(r) \/ UpsertFails(r) PROVE [Promise!Next]_(Promise!vars)
  <2>1. PICK item : item = run[r].item
    OBVIOUS
  <2>2. /\ run[r].pc = "write" /\ item \in Cve \X Nat
        /\ UNCHANGED <<now, upstream, row, horizon>>
    BY <1>1, <1>5, <2>1 DEF Write, UpsertFails, Inv, TypeOK, RunState
  <2>3. item[2] <= upstream[item[1]] /\ Current(r, item)
    BY <2>1, <2>2 DEF NoNewer, Inv, RunInv, Pending
  <2>4. item[1] \in Cve /\ item[2] \in 0..upstream[item[1]]
    BY <1>1, <2>2, <2>3
  <2>5. CASE store' = [store EXCEPT ![item[1]] = item[2]] /\ refused' = refused
    <3>1. (horizon <= upstream[item[1]] /\ upstream[item[1]] < row.lastSyncAt)
            => item[2] = upstream[item[1]]
      BY <1>1, <2>3, <2>4 DEF Current
    <3>2. Promise!Copy(item[1])
      BY <2>2, <2>4, <2>5, <3>1 DEF Promise!Copy
    <3>3. QED
      BY <2>4, <3>2 DEF Promise!Next
  <2>6. CASE refused' = refused \cup {item} /\ store' = store
    <3>1. Promise!GiveUp
      BY <2>2, <2>4, <2>6 DEF Promise!GiveUp
    <3>2. QED
      BY <3>1 DEF Promise!Next
  <2>7. QED
    BY <1>5, <2>1, <2>5, <2>6 DEF Write, UpsertFails
<1>6. ASSUME NEW r \in Run, Progress(r) PROVE Promise!Next
  <2>1. UNCHANGED <<now, upstream, store, horizon, refused>>
    BY <1>6 DEF Progress
  <2>2. Bounds(r)
    BY <1>6 DEF Inv, RunInv, Progress
  <2>3. row'.lastSyncAt = ChunkEnd(run[r].start, run[r].until)
    BY <1>6 DEF Progress, MarkProgress, Inv, TypeOK, SyncRow
  <2>4. row'.lastSyncAt \in 0..now
    BY <1>1, <2>2, <2>3, ChunkEndBounds DEF Bounds
  <2>5. QED
    BY <2>1, <2>4, AdvanceStep DEF Promise!Next
<1>7. ASSUME NEW r \in Run, Success(r) PROVE Promise!Next
  <2>1. UNCHANGED <<now, upstream, store, horizon, refused>>
    BY <1>7 DEF Success
  <2>2. Bounds(r)
    BY <1>7 DEF Inv, RunInv, Success
  <2>3. row'.lastSyncAt \in 0..now
    BY <1>1, <1>7, <2>2 DEF Success, MarkSuccess, Bounds, Inv, TypeOK, SyncRow
  <2>4. QED
    BY <2>1, <2>3, AdvanceStep DEF Promise!Next
<1>8. ASSUME NEW r \in Run,
             \/ ReadWatermark(r) \/ FetchPage(r) \/ FindExisting(r) \/ EndPage(r)
             \/ Fail(r) \/ Reject(r)
      PROVE  UNCHANGED Promise!vars
  BY <1>8 DEF ReadWatermark, FetchPage, FindExisting, EndPage, Fail, Reject, MarkError,
     Promise!vars,
              Inv, TypeOK, SyncRow
<1>9. ASSUME NEW r \in Run, EmptyPage(r) PROVE Promise!Next
  <2> DEFINE list == InWindow(run[r].start, ChunkEnd(run[r].start, run[r].until))
  <2>1. /\ UNCHANGED <<now, upstream, store, row, horizon>>
        /\ refused' = refused \cup
             {<<c, upstream[c]>> : c \in {d \in list : run[r].index <= Rank(d, list)}}
    BY <1>9 DEF EmptyPage
  <2>2. \A lost \in refused' \ refused : lost[1] \in Cve /\ lost[2] \in 0..upstream[lost[1]]
    <3>1. list \subseteq Cve
      BY DEF InWindow
    <3>2. \A lost \in refused' \ refused : \E c \in list : lost = <<c, upstream[c]>>
      BY <2>1
    <3>3. \A c \in list : c \in Cve /\ upstream[c] \in 0..upstream[c]
      BY <1>1, <3>1
    <3>4. QED
      BY <3>2, <3>3
  <2>3. Promise!GiveUp
    BY <2>1, <2>2 DEF Promise!GiveUp
  <2>4. QED
    BY <2>3 DEF Promise!Next
<1>10. CASE Crash \/ UNCHANGED vars
  BY <1>10 DEF Crash, vars, Promise!vars
<1>11. QED
  BY <1>2, <1>3, <1>4, <1>5, <1>6, <1>7, <1>8, <1>9, <1>10 DEF Next, Step

\* The collector implements the abstract source: whatever runs, windows, failures and
\* restarts do, lastSyncAt only ever promises what is stored or was given up on.
THEOREM PromiseKept ==
  ASSUME Serial, SinglePage, CarefulBackfills
  PROVE  Spec => KeepsPromise
<1>1. Inv => LossOnlyByRefusal
  BY DEF Inv, SettledBelow, Settled, LossOnlyByRefusal, Claimed
<1>2. Inv /\ [Next]_vars => Inv'
  BY InvStep
<1>3. Inv /\ NoNewer /\ [Next]_vars => NoNewer'
  BY NoNewerStep
<1>4. Inv /\ NoNewer /\ Inv' /\ LossOnlyByRefusal' /\ [Next]_vars
        => [Promise!Next]_(Promise!vars)
  BY PromiseStep
<1>5. QED
  BY InvInit, NoNewerInit, PromiseInit, <1>1, <1>2, <1>3, <1>4, PTL
     DEF Spec, KeepsPromise, Promise!Spec

-----------------------------------------------------------------------------
(***************************************************************************)
(* Runs that overlap.  Their watermarks may go back and an older version   *)
(* may be written over a newer one, so the invariant only speaks of rows.  *)
(***************************************************************************)
Present(c) == store[c] # Null \/ <<c, upstream[c]>> \in refused

PresentBelow(w) ==
  \A c \in Cve : (horizon <= upstream[c] /\ upstream[c] < w) => Present(c)

RunPresent(r) ==
  /\ run[r].pc = "plan" => run[r].since <= now /\ PresentBelow(run[r].since)
  /\ run[r].pc \notin {"idle", "plan"} => Bounds(r) /\ PresentBelow(run[r].start)
  /\ run[r].pc \in {"page", "items", "write"} => run[r].index = 0
  /\ run[r].pc \in {"items", "write"} =>
       /\ run[r].total <= PageSize
       /\ \A c \in Cve : InRange(r, c) => Present(c) \/ <<c, upstream[c]>> \in Pending(r)
  /\ run[r].pc = "progress" => \A c \in Cve : InRange(r, c) => Present(c)
  /\ run[r].pc = "success" => PresentBelow(run[r].until)

PresenceInv ==
  /\ TypeOK
  /\ Past
  /\ PresentBelow(row.lastSyncAt)
  /\ \A r \in Run : RunPresent(r)

\* What every step of every run respects: rows stay, and what NVD publishes is dated now.
Onward ==
  /\ now <= now' /\ horizon <= horizon'
  /\ \A c \in Cve : upstream'[c] = upstream[c] \/ upstream'[c] = now
  /\ \A c \in Cve : Present(c) /\ upstream'[c] = upstream[c] => Present(c)'

LEMMA PresenceInit == Init => PresenceInv
<1> SUFFICES ASSUME Init PROVE PresenceInv
  OBVIOUS
<1>1. TypeOK
  BY TypeInit DEF TypeInv
<1>2. Past /\ PresentBelow(row.lastSyncAt)
  BY NvdAssumption DEF Init, Past, PresentBelow, SeedRow, Null
<1>3. \A r \in Run : RunPresent(r)
  BY DEF Init, RunPresent, Idle
<1>4. QED
  BY <1>1, <1>2, <1>3 DEF PresenceInv

LEMMA OnwardStep ==
  ASSUME TypeOK, [Next]_vars
  PROVE  Onward
<1> USE NvdAssumption
<1>1. /\ store \in [Cve -> Instant] /\ upstream \in [Cve -> Nat] /\ now \in Nat
      /\ horizon \in Nat /\ run \in [Run -> RunState]
  BY DEF TypeOK
<1>2. CASE Tick \/ UNCHANGED vars
  BY <1>1, <1>2 DEF Tick, vars, Onward, Present
<1>3. ASSUME NEW c \in Cve, Modify(c) PROVE Onward
  BY <1>1, <1>3 DEF Modify, Onward, Present
<1>4. ASSUME UNCHANGED <<now, upstream, store>>, refused \subseteq refused',
             horizon <= horizon'
      PROVE  Onward
  BY <1>1, <1>4 DEF Onward, Present
<1>5. ASSUME NEW r \in Run, PlanRange(r) PROVE Onward
  <2>1. PICK since : since = OrElse(run[r].since, now - Lookback)
    OBVIOUS
  <2>2. since \in Int
    BY <1>1, <2>1 DEF OrElse, RunState, Instant, Null
  <2>3. horizon <= horizon'
    BY <1>1, <1>5, <2>1, <2>2 DEF PlanRange, Later
  <2>4. QED
    BY <1>4, <1>5, <2>3 DEF PlanRange
<1>6. ASSUME NEW r \in Run, Backfill(r) PROVE Onward
  <2>1. PICK range \in Backfills :
          horizon' = IF row.lastSyncAt = Null THEN Later(horizon, range[1]) ELSE horizon
    BY <1>6 DEF Backfill
  <2>2. range[1] \in Nat
    OBVIOUS
  <2>3. horizon <= horizon'
    BY <1>1, <2>1, <2>2 DEF Later
  <2>4. QED
    BY <1>4, <1>6, <2>3 DEF Backfill
<1>7. ASSUME NEW r \in Run, Write(r) PROVE Onward
  <2>1. PICK item : item = run[r].item
    OBVIOUS
  <2>2. run[r].pc = "write" /\ item \in Cve \X Nat /\ UNCHANGED <<now, upstream, horizon>>
    BY <1>1, <1>7, <2>1 DEF Write, TypeOK, RunState
  <2>3. item[1] \in Cve /\ item[2] # Null
    BY <2>2 DEF Null
  <2>4. CASE store' = [store EXCEPT ![item[1]] = item[2]] /\ refused' = refused
    BY <1>1, <2>2, <2>3, <2>4 DEF Onward, Present
  <2>5. CASE store' = store /\ refused' = refused \cup {item}
    BY <1>1, <1>4, <2>2, <2>5
  <2>6. QED
    BY <1>7, <2>1, <2>4, <2>5 DEF Write
<1>8. ASSUME NEW r \in Run,
             \/ ReadWatermark(r) \/ FetchPage(r) \/ EmptyPage(r) \/ FindExisting(r)
             \/ UpsertFails(r) \/ EndPage(r) \/ Progress(r) \/ Success(r)
             \/ Fail(r) \/ Reject(r)
      PROVE  Onward
  <2>1. UNCHANGED <<now, upstream, store>> /\ refused \subseteq refused' /\ horizon' = horizon
    BY <1>8 DEF ReadWatermark, FetchPage, EmptyPage, FindExisting, UpsertFails, EndPage,
                Progress, Success, Fail, Reject
  <2>2. QED
    BY <1>1, <1>4, <2>1
<1>9. CASE Crash
  BY <1>1, <1>4, <1>9 DEF Crash
<1>10. QED
  BY <1>2, <1>3, <1>5, <1>6, <1>7, <1>8, <1>9 DEF Next, Step

\* A claim up to now survives every step.
LEMMA PresentOnward ==
  ASSUME TypeOK, TypeOK', Onward, NEW w \in Int, w <= now, PresentBelow(w)
  PROVE  PresentBelow(w)'
<1>1. ASSUME NEW c \in Cve, horizon' <= upstream'[c], upstream'[c] < w PROVE Present(c)'
  <2>1. upstream[c] \in Nat /\ upstream'[c] \in Nat /\ now \in Nat /\ horizon \in Nat
        /\ horizon' \in Nat
    BY DEF TypeOK
  <2>2. upstream'[c] = upstream[c] /\ horizon <= upstream[c]
    BY <1>1, <2>1 DEF Onward
  <2>3. Present(c)
    BY <1>1, <2>2 DEF PresentBelow
  <2>4. QED
    BY <2>2, <2>3 DEF Onward
<1>2. QED
  BY <1>1 DEF PresentBelow

\* A run is not disturbed by the steps of others.
LEMMA RunOnward ==
  ASSUME TypeOK, TypeOK', Onward, NEW r \in Run, RunPresent(r), run'[r] = run[r]
  PROVE  RunPresent(r)'
<1>1. now \in Nat /\ now' \in Nat /\ now <= now' /\ run[r] \in RunState
  BY DEF TypeOK, Onward
<1>2. run[r].since \in Int
  BY <1>1 DEF RunState, Instant, Null
<1>3. ASSUME run[r].pc = "plan" PROVE run[r].since <= now' /\ PresentBelow(run[r].since)'
  <2>1. run[r].since <= now /\ PresentBelow(run[r].since)
    BY <1>3 DEF RunPresent
  <2>2. PICK w : w = run[r].since
    OBVIOUS
  <2>3. PresentBelow(w)'
    BY <1>2, <2>1, <2>2, PresentOnward
  <2>4. QED
    BY <1>1, <1>2, <2>1, <2>2, <2>3 DEF PresentBelow
<1>4. ASSUME Bounds(r) PROVE Bounds(r)'
  BY <1>1, <1>4 DEF Bounds
<1>5. ASSUME Bounds(r), PresentBelow(run[r].start) PROVE PresentBelow(run[r].start)'
  <2>1. PICK w : w = run[r].start
    OBVIOUS
  <2>2. w \in Int /\ w <= now
    BY <1>1, <1>5, <2>1 DEF Bounds
  <2>3. PresentBelow(w)'
    BY <1>5, <2>1, <2>2, PresentOnward
  <2>4. QED
    BY <2>1, <2>3 DEF PresentBelow
<1>6. ASSUME Bounds(r), PresentBelow(run[r].until) PROVE PresentBelow(run[r].until)'
  <2>1. PICK w : w = run[r].until
    OBVIOUS
  <2>2. w \in Int /\ w <= now
    BY <1>1, <1>6, <2>1 DEF Bounds
  <2>3. PresentBelow(w)'
    BY <1>6, <2>1, <2>2, PresentOnward
  <2>4. QED
    BY <2>1, <2>3 DEF PresentBelow
<1>7. ASSUME Bounds(r), NEW c \in Cve, InRange(r, c)'
      PROVE  upstream'[c] = upstream[c] /\ InRange(r, c) /\ (Present(c) => Present(c)')
  <2>1. upstream'[c] \in Nat /\ upstream'[c] < run[r].until /\ run[r].until <= now
        /\ run[r].until \in Nat
    BY <1>7 DEF InRange, Bounds, TypeOK
  <2>2. upstream'[c] = upstream[c]
    BY <1>1, <2>1 DEF Onward
  <2>3. QED
    BY <1>7, <2>2 DEF InRange, Onward
<1>8. run'[r].pc = run[r].pc /\ Pending(r)' = Pending(r)
  BY DEF Pending
<1>9. QED
  BY <1>3, <1>4, <1>5, <1>6, <1>7, <1>8 DEF RunPresent

LEMMA PresenceStep ==
  ASSUME SinglePage, CarefulBackfills, PresenceInv, [Next]_vars
  PROVE  PresenceInv'
<1> USE NvdAssumption
<1>1. TypeOK' /\ Onward /\ Past
  BY TypeStep, OnwardStep DEF PresenceInv, Past, TypeInv
<1>2. /\ TypeOK /\ run \in [Run -> RunState] /\ row \in SyncRow
      /\ \A r \in Run : RunPresent(r) /\ run[r] \in RunState
  BY DEF PresenceInv, TypeOK
<1>3. PresentBelow(row.lastSyncAt) /\ row.lastSyncAt \in Int /\ now \in Nat /\ now' \in Nat
  BY <1>1 DEF PresenceInv, TypeOK, SyncRow, Instant, Null
<1>4. /\ horizon \in Nat /\ horizon' \in Nat
      /\ \A c \in Cve : upstream[c] \in Nat /\ upstream'[c] \in Nat
  BY <1>1 DEF PresenceInv, TypeOK
<1>5. now <= now' /\ Lookback <= now' /\ \A c \in Cve : upstream'[c] <= now'
  BY <1>1, <1>3, <1>4 DEF Onward, Past
<1>6. ASSUME row'.lastSyncAt = row.lastSyncAt PROVE Past' /\ PresentBelow(row.lastSyncAt)'
  <2>1. PICK w : w = row.lastSyncAt
    OBVIOUS
  <2>2. PresentBelow(w)'
    BY <1>1, <1>2, <1>3, <2>1, PresentOnward DEF Past
  <2>3. QED
    BY <1>1, <1>3, <1>5, <1>6, <2>1, <2>2 DEF Past, PresentBelow
<1>7. ASSUME NEW r \in Run, RunPresent(r)', \A q \in Run \ {r} : run'[q] = run[q]
      PROVE  \A q \in Run : RunPresent(q)'
  BY <1>1, <1>2, <1>7, RunOnward
<1>8. ASSUME NEW r \in Run, RunPresent(r)', \A q \in Run \ {r} : run'[q] = run[q],
             row'.lastSyncAt = row.lastSyncAt
      PROVE  PresenceInv'
  BY <1>1, <1>6, <1>7, <1>8 DEF PresenceInv
<1>9. CASE Tick \/ (\E c \in Cve : Modify(c)) \/ UNCHANGED vars
  <2>1. run' = run /\ row' = row
    BY <1>9 DEF Tick, Modify, vars
  <2>2. QED
    BY <1>1, <1>2, <1>6, <2>1, RunOnward DEF PresenceInv
<1>10. ASSUME NEW r \in Run, ReadWatermark(r) PROVE PresenceInv'
  <2>1. /\ run'[r].pc = "plan" /\ run'[r].since = row.lastSyncAt /\ row' = row /\ now' = now
        /\ \A q \in Run \ {r} : run'[q] = run[q]
    BY <1>2, <1>10 DEF ReadWatermark, Idle
  <2>2. Past' /\ PresentBelow(row.lastSyncAt)'
    BY <1>6, <2>1
  <2>3. RunPresent(r)'
    BY <2>1, <2>2 DEF RunPresent, PresentBelow, Past
  <2>4. QED
    BY <1>8, <2>1, <2>3
<1>11. ASSUME NEW r \in Run, PlanRange(r) PROVE PresenceInv'
  <2>1. PICK since : since = OrElse(run[r].since, now - Lookback)
    OBVIOUS
  <2>2. run[r].pc = "plan" /\ run[r].since <= now /\ PresentBelow(run[r].since)
    BY <1>2, <1>11 DEF PlanRange, RunPresent
  <2>3. since \in Nat /\ since <= now
    BY <1>1, <1>2, <1>3, <2>1, <2>2 DEF OrElse, Past, RunState, Instant, Null
  <2>4. /\ row' = row /\ now' = now /\ UNCHANGED <<upstream, store, refused>>
        /\ \A q \in Run \ {r} : run'[q] = run[q]
    BY <1>2, <1>11 DEF PlanRange
  <2>5. PresentBelow(since)'
    <3>1. CASE run[r].since = Null
      <4>1. since <= horizon'
        BY <1>4, <1>11, <2>1, <2>3, <3>1 DEF PlanRange, Later
      <4>2. QED
        BY <1>4, <2>3, <4>1 DEF PresentBelow
    <3>2. CASE run[r].since # Null
      <4>1. since = run[r].since
        BY <2>1, <3>2 DEF OrElse
      <4>2. PresentBelow(since)
        BY <2>2, <4>1 DEF PresentBelow
      <4>3. QED
        BY <1>1, <1>2, <2>3, <4>2, PresentOnward
    <3>3. QED
      BY <3>1, <3>2
  <2>6. RunPresent(r)'
    <3>1. CASE since < now
      <4>1. /\ run'[r].pc = "page" /\ run'[r].start = since /\ run'[r].until = now
            /\ run'[r].index = 0
        BY <1>2, <1>11, <2>1, <3>1 DEF PlanRange, Idle
      <4>2. Bounds(r)'
        BY <1>3, <2>3, <2>4, <4>1 DEF Bounds
      <4>3. PresentBelow(run[r].start)'
        BY <2>5, <4>1 DEF PresentBelow
      <4>4. QED
        BY <4>1, <4>2, <4>3 DEF RunPresent
    <3>2. CASE ~(since < now)
      <4>1. run'[r].pc = "idle"
        BY <1>2, <1>11, <2>1, <3>2 DEF PlanRange, Idle
      <4>2. QED
        BY <4>1 DEF RunPresent
    <3>3. QED
      BY <3>1, <3>2
  <2>7. QED
    BY <1>8, <2>4, <2>6
<1>12. ASSUME NEW r \in Run, Backfill(r) PROVE PresenceInv'
  <2>1. PICK range \in Backfills :
          /\ range[1] < range[2]
          /\ row.lastSyncAt = Null \/ range[1] <= row.lastSyncAt
          /\ range[2] <= now
          /\ horizon' = IF row.lastSyncAt = Null THEN Later(horizon, range[1]) ELSE horizon
          /\ run' = [run EXCEPT ![r] = [Idle EXCEPT !.pc = "page", !.start = range[1],
                                                    !.until = range[2]]]
    BY <1>12 DEF Backfill
  <2>2. range[1] \in Nat /\ range[2] \in Nat
    OBVIOUS
  <2>3. row' = row /\ now' = now
    BY <1>12 DEF Backfill
  <2>4. /\ run'[r].pc = "page" /\ run'[r].start = range[1] /\ run'[r].until = range[2]
        /\ run'[r].index = 0 /\ \A q \in Run \ {r} : run'[q] = run[q]
    BY <1>2, <2>1 DEF Idle
  <2>5. PICK w : w = range[1]
    OBVIOUS
  <2>6. PresentBelow(w)'
    <3>1. CASE row.lastSyncAt = Null
      BY <1>4, <2>1, <2>2, <2>5, <3>1 DEF PresentBelow, Later
    <3>2. CASE row.lastSyncAt # Null
      <4>1. PresentBelow(w) /\ w <= now
        BY <1>3, <1>4, <2>1, <2>2, <2>5, <3>2 DEF PresentBelow
      <4>2. QED
        BY <1>1, <1>2, <2>2, <2>5, <4>1, PresentOnward
    <3>3. QED
      BY <3>1, <3>2
  <2>7. Bounds(r)' /\ PresentBelow(run[r].start)'
    BY <1>3, <2>1, <2>2, <2>3, <2>4, <2>5, <2>6 DEF Bounds, PresentBelow
  <2>8. RunPresent(r)'
    BY <2>4, <2>7 DEF RunPresent
  <2>9. QED
    BY <1>8, <2>3, <2>4, <2>8
\* A step inside a window leaves the claim up to its start alone.
<1>13. ASSUME NEW r \in Run, run[r].pc \notin {"idle", "plan"}, now' = now,
              run'[r].start = run[r].start, run'[r].until = run[r].until
       PROVE  Bounds(r)' /\ PresentBelow(run[r].start)'
  <2>1. Bounds(r) /\ PresentBelow(run[r].start)
    BY <1>2, <1>13 DEF RunPresent
  <2>2. PICK w : w = run[r].start
    OBVIOUS
  <2>3. w \in Nat /\ w <= now
    BY <1>3, <2>1, <2>2 DEF Bounds
  <2>4. PresentBelow(w)'
    BY <1>1, <1>2, <2>1, <2>2, <2>3, PresentOnward
  <2>5. QED
    BY <1>13, <2>1, <2>2, <2>4 DEF Bounds, PresentBelow
<1>14. ASSUME NEW r \in Run, FetchPage(r) PROVE PresenceInv'
  <2>1. PICK list : list = InWindow(run[r].start, ChunkEnd(run[r].start, run[r].until))
    OBVIOUS
  <2>2. /\ UNCHANGED <<now, upstream, store, row, horizon, refused>>
        /\ run[r].pc = "page" /\ run[r].index = 0
    BY <1>2, <1>14 DEF FetchPage, RunPresent
  <2>3. list \in SUBSET Cve /\ Slice(list, 0) = list /\ Cardinality(list) <= PageSize
    BY <2>1, OnePage DEF InWindow
  <2>4. /\ run'[r].pc = "items" /\ run'[r].index = 0
        /\ run'[r].start = run[r].start /\ run'[r].until = run[r].until
        /\ run'[r].total = Cardinality(list)
        /\ run'[r].page = {<<c, upstream[c]>> : c \in list}
        /\ \A q \in Run \ {r} : run'[q] = run[q]
    <3> DEFINE page == {<<c, upstream[c]>> : c \in list}
               total == Cardinality(list)
    <3> HIDE DEF page, total
    <3>1. run' = [run EXCEPT ![r].pc = "items", ![r].page = page, ![r].total = total]
      BY <1>14, <2>1, <2>2, <2>3 DEF FetchPage, page, total
    <3>2. /\ run'[r].pc = "items" /\ run'[r].index = run[r].index
          /\ run'[r].start = run[r].start /\ run'[r].until = run[r].until
          /\ run'[r].total = total /\ run'[r].page = page
          /\ \A q \in Run \ {r} : run'[q] = run[q]
      BY <1>2, <3>1 DEF RunState
    <3>3. QED
      BY <2>2, <3>2 DEF page, total
  <2>5. Bounds(r)' /\ PresentBelow(run[r].start)'
    BY <1>13, <2>2, <2>4
  <2>6. \A c \in Cve : InRange(r, c)' => <<c, upstream[c]>>' \in Pending(r)'
    BY <2>1, <2>2, <2>4 DEF InRange, InWindow, Pending
  <2>7. RunPresent(r)'
    BY <2>3, <2>4, <2>5, <2>6 DEF RunPresent
  <2>8. QED
    BY <1>8, <2>2, <2>4, <2>7
<1>15. ASSUME NEW r \in Run, EmptyPage(r) PROVE PresenceInv'
  <2> DEFINE list == InWindow(run[r].start, ChunkEnd(run[r].start, run[r].until))
  <2>1. /\ run[r].pc = "page" /\ run[r].index = 0
        /\ UNCHANGED <<now, upstream, store, row, horizon>>
    BY <1>2, <1>15 DEF EmptyPage, RunPresent
  <2>2. /\ run'[r].pc \in {"items", "progress"} /\ run'[r].start = run[r].start
        /\ run'[r].until = run[r].until /\ run'[r].index = 0
        /\ run'[r].pc = "items" => run'[r].page = {} /\ run'[r].total = 0
        /\ \A q \in Run \ {r} : run'[q] = run[q]
    BY <1>2, <1>15, <2>1 DEF EmptyPage, RunState
  <2>3. \A c \in list : <<c, upstream[c]>> \in refused'
    <3>1. list \in SUBSET Cve
      BY DEF InWindow
    <3>2. Slice(list, 0) = list
      BY <3>1, OnePage
    <3>3. \A c \in list : 0 <= Rank(c, list)
      BY <3>2 DEF Slice
    <3>4. QED
      BY <1>15, <2>1, <3>3 DEF EmptyPage
  <2>4. Bounds(r)' /\ PresentBelow(run[r].start)'
    BY <1>13, <2>1, <2>2
  <2>5. \A c \in Cve : InRange(r, c)' => Present(c)'
    BY <2>1, <2>2, <2>3 DEF InRange, InWindow, Present
  <2>6. RunPresent(r)'
    BY <2>2, <2>4, <2>5 DEF RunPresent
  <2>7. QED
    BY <1>8, <2>1, <2>2, <2>6
<1>16. ASSUME NEW r \in Run, FindExisting(r) PROVE PresenceInv'
  <2>1. PICK item \in run[r].page :
          run' = [run EXCEPT ![r].pc = "write",
                             ![r].page = @ \ {item},
                             ![r].item = item,
                             ![r].found = store[item[1]] # Null]
    BY <1>16 DEF FindExisting
  <2>2. /\ run'[r].pc = "write" /\ run'[r].index = run[r].index
        /\ run'[r].start = run[r].start /\ run'[r].until = run[r].until
        /\ run'[r].total = run[r].total
        /\ run'[r].page = run[r].page \ {item} /\ run'[r].item = item
        /\ \A q \in Run \ {r} : run'[q] = run[q]
    BY <1>2, <2>1 DEF RunState
  <2>3. run[r].pc = "items" /\ UNCHANGED <<now, upstream, store, row, horizon, refused>>
    BY <1>16 DEF FindExisting
  <2>4. Pending(r)' = Pending(r)
    BY <2>1, <2>2, <2>3 DEF Pending
  <2>5. Bounds(r)' /\ PresentBelow(run[r].start)'
    BY <1>13, <2>2, <2>3
  <2>6. RunPresent(r)'
    BY <1>2, <2>2, <2>3, <2>4, <2>5 DEF RunPresent, InRange, Present
  <2>7. QED
    BY <1>8, <2>2, <2>3, <2>6
<1>17. ASSUME NEW r \in Run, Write(r) \/ UpsertFails(r) PROVE PresenceInv'
  <2>1. PICK item : item = run[r].item
    OBVIOUS
  <2>2. /\ run[r].pc = "write" /\ item \in Cve \X Nat
        /\ UNCHANGED <<now, upstream, row, horizon>>
    BY <1>2, <1>17, <2>1 DEF Write, UpsertFails, TypeOK, RunState
  <2>3. /\ run'[r].pc = "items" /\ run'[r].index = run[r].index
        /\ run'[r].start = run[r].start /\ run'[r].until = run[r].until
        /\ run'[r].total = run[r].total /\ run'[r].page = run[r].page
        /\ \A q \in Run \ {r} : run'[q] = run[q]
    BY <1>2, <1>17 DEF Write, UpsertFails, RunState
  <2>4. Bounds(r)' /\ PresentBelow(run[r].start)'
    BY <1>13, <2>2, <2>3
  \* The version just upserted has a row now, or was rejected.
  <2>5. \A c \in Cve : item = <<c, upstream[c]>> => Present(c)'
    <3>1. store \in [Cve -> Instant] /\ item[1] \in Cve /\ item[2] # Null
      BY <1>2, <2>2 DEF TypeOK, Null
    <3>2. CASE Write(r)
      BY <2>1, <2>2, <3>1, <3>2 DEF Write, Present
    <3>3. CASE UpsertFails(r)
      BY <2>1, <2>2, <3>3 DEF UpsertFails, Present
    <3>4. QED
      BY <1>17, <3>2, <3>3
  <2>6. ASSUME NEW c \in Cve, InRange(r, c)'
        PROVE  Present(c)' \/ <<c, upstream[c]>>' \in Pending(r)'
    <3>1. InRange(r, c)
      BY <2>2, <2>3, <2>6 DEF InRange
    <3>2. Present(c) \/ <<c, upstream[c]>> \in run[r].page \/ <<c, upstream[c]>> = item
      BY <1>2, <2>1, <2>2, <3>1 DEF RunPresent, Pending
    <3>3. Present(c) => Present(c)'
      BY <1>1, <2>2 DEF Onward
    <3>4. QED
      BY <2>2, <2>3, <2>5, <3>2, <3>3 DEF Pending
  <2>7. run[r].index = 0 /\ run[r].total <= PageSize
    BY <1>2, <2>2 DEF RunPresent
  <2>8. RunPresent(r)'
    BY <2>3, <2>4, <2>6, <2>7 DEF RunPresent
  <2>9. QED
    BY <1>8, <2>2, <2>3, <2>8
<1>18. ASSUME NEW r \in Run, EndPage(r) PROVE PresenceInv'
  <2>1. /\ run[r].pc = "items" /\ run[r].page = {}
        /\ run[r].index = 0 /\ run[r].total <= PageSize /\ run[r].total \in Nat
        /\ UNCHANGED <<now, upstream, store, row, horizon, refused>>
    BY <1>2, <1>18 DEF EndPage, RunPresent, RunState
  <2>2. /\ run'[r].pc = "progress"
        /\ run'[r].start = run[r].start /\ run'[r].until = run[r].until
        /\ \A q \in Run \ {r} : run'[q] = run[q]
    BY <1>2, <1>18, <2>1 DEF EndPage, RunState
  <2>3. Bounds(r)' /\ PresentBelow(run[r].start)'
    BY <1>13, <2>1, <2>2
  <2>4. \A c \in Cve : InRange(r, c) => Present(c)
    BY <1>2, <2>1 DEF RunPresent, Pending
  <2>5. \A c \in Cve : InRange(r, c)' => Present(c)'
    BY <2>1, <2>2, <2>4 DEF InRange, Present
  <2>6. RunPresent(r)'
    BY <2>2, <2>3, <2>5 DEF RunPresent
  <2>7. QED
    BY <1>8, <2>1, <2>2, <2>6
<1>19. ASSUME NEW r \in Run, Progress(r) PROVE PresenceInv'
  <2>1. PICK end : end = ChunkEnd(run[r].start, run[r].until)
    OBVIOUS
  <2>2. /\ run[r].pc = "progress" /\ Bounds(r) /\ PresentBelow(run[r].start)
        /\ UNCHANGED <<now, upstream, store, horizon, refused>>
    BY <1>2, <1>19 DEF Progress, RunPresent
  <2>3. end \in Nat /\ run[r].start <= end /\ end <= run[r].until
    BY <2>1, <2>2, ChunkEndBounds DEF Bounds
  <2>4. row'.lastSyncAt = end
    BY <1>2, <1>19, <2>1 DEF Progress, MarkProgress, SyncRow
  <2>5. \A c \in Cve : InRange(r, c) => Present(c)
    BY <1>2, <2>2 DEF RunPresent
  <2>6. PresentBelow(end)
    BY <1>4, <2>1, <2>2, <2>3, <2>5 DEF PresentBelow, InRange, Bounds
  <2>7. Past' /\ PresentBelow(row.lastSyncAt)'
    <3>1. PresentBelow(row.lastSyncAt)'
      BY <2>2, <2>4, <2>6 DEF PresentBelow, Present
    <3>2. QED
      BY <1>3, <1>5, <2>2, <2>3, <2>4, <3>1 DEF Past, Bounds
  <2>8. CASE end < run[r].until
    <3>1. /\ run'[r].pc = "page" /\ run'[r].index = 0
          /\ run'[r].start = end + 1 /\ run'[r].until = run[r].until
          /\ \A q \in Run \ {r} : run'[q] = run[q]
      BY <1>2, <1>19, <2>1, <2>8 DEF Progress, RunState
    <3>2. Bounds(r)'
      BY <2>2, <2>3, <2>8, <3>1 DEF Bounds
    <3>3. PresentBelow(end + 1)
      BY <1>4, <2>1, <2>2, <2>3, <2>5, <2>8 DEF PresentBelow, InRange, Bounds
    <3>4. PresentBelow(run[r].start)'
      BY <2>2, <3>1, <3>3 DEF PresentBelow, Present
    <3>5. RunPresent(r)'
      BY <3>1, <3>2, <3>4 DEF RunPresent
    <3>6. QED
      BY <1>1, <1>7, <2>7, <3>1, <3>5 DEF PresenceInv
  <2>9. CASE ~(end < run[r].until)
    <3>1. /\ run'[r].pc = "success"
          /\ run'[r].start = run[r].start /\ run'[r].until = run[r].until
          /\ \A q \in Run \ {r} : run'[q] = run[q]
      BY <1>2, <1>19, <2>1, <2>9 DEF Progress, RunState
    <3>2. end = run[r].until
      BY <2>2, <2>3, <2>9 DEF Bounds
    <3>3. PresentBelow(run[r].until)' /\ PresentBelow(run[r].start)' /\ Bounds(r)'
      BY <2>2, <2>6, <3>1, <3>2 DEF PresentBelow, Present, Bounds
    <3>4. RunPresent(r)'
      BY <3>1, <3>3 DEF RunPresent
    <3>5. QED
      BY <1>1, <1>7, <2>7, <3>1, <3>4 DEF PresenceInv
  <2>10. QED
    BY <2>8, <2>9
<1>20. ASSUME NEW r \in Run, Success(r) PROVE PresenceInv'
  <2>1. /\ run[r].pc = "success" /\ Bounds(r) /\ PresentBelow(run[r].until)
        /\ UNCHANGED <<now, upstream, store, horizon, refused>>
    BY <1>2, <1>20 DEF Success, RunPresent
  <2>2. /\ row'.lastSyncAt = run[r].until /\ run'[r].pc = "idle"
        /\ \A q \in Run \ {r} : run'[q] = run[q]
    BY <1>2, <1>20 DEF Success, MarkSuccess, SyncRow, Idle
  <2>3. Past' /\ PresentBelow(row.lastSyncAt)'
    <3>1. PresentBelow(row.lastSyncAt)'
      BY <2>1, <2>2 DEF PresentBelow, Present
    <3>2. QED
      BY <1>3, <1>5, <2>1, <2>2, <3>1 DEF Past, Bounds
  <2>4. RunPresent(r)'
    BY <2>2 DEF RunPresent
  <2>5. QED
    BY <1>1, <1>7, <2>2, <2>3, <2>4 DEF PresenceInv
<1>21. ASSUME NEW r \in Run, Fail(r) \/ Reject(r) PROVE PresenceInv'
  <2>1. /\ run'[r].pc = "idle" /\ row'.lastSyncAt = row.lastSyncAt
        /\ \A q \in Run \ {r} : run'[q] = run[q]
    BY <1>2, <1>21 DEF Fail, Reject, MarkError, SyncRow, Idle
  <2>2. QED
    BY <1>8, <2>1 DEF RunPresent
<1>22. CASE Crash
  <2>1. row' = row /\ \A r \in Run : run'[r].pc = "idle"
    BY <1>22 DEF Crash, Idle
  <2>2. QED
    BY <1>1, <1>6, <2>1 DEF PresenceInv, RunPresent
<1>23. QED
  BY <1>9, <1>10, <1>11, <1>12, <1>14, <1>15, <1>16, <1>17, <1>18, <1>19, <1>20, <1>21,
     <1>22 DEF Next, Step

\* However many runs overlap, every CVE the watermark of the NVD claims has a row, unless
\* its version was rejected when it was upserted or kept back by an empty answer.
THEOREM PresenceCorrect ==
  ASSUME SinglePage, CarefulBackfills
  PROVE  Spec => []PresenceSound
<1>1. PresenceInv => PresenceSound
  BY DEF PresenceInv, PresentBelow, Present, PresenceSound, Claimed
<1>2. PresenceInv /\ [Next]_vars => PresenceInv'
  BY PresenceStep
<1>3. QED
  BY PresenceInit, <1>1, <1>2, PTL DEF Spec
=============================================================================
