------------------------ MODULE VulnMonitor_proofs ------------------------
(***************************************************************************)
(* Proofs about the vulnerability monitor, for every number of CVEs,       *)
(* advisories, runs, requests and retries.                                 *)
(***************************************************************************)
EXTENDS VulnMonitor, NvdSync_proofs

-----------------------------------------------------------------------------
\* A behaviour about one part takes that part's steps.
LEMMA NvdSteps ==
  /\ MonitorInit /\ part = "nvd" => Init
  /\ [MonitorNext]_monitorVars => part' = part
  /\ part = "nvd" /\ [MonitorNext]_monitorVars => [Next]_vars
<1>1. MonitorInit /\ part = "nvd" => Init
  BY DEF MonitorInit
<1>2. [MonitorNext]_monitorVars => part' = part
  BY DEF MonitorNext, monitorVars, Collects, InPage, InTotals
<1>3. part = "nvd" /\ [MonitorNext]_monitorVars => [Next]_vars
  BY DEF MonitorNext, monitorVars, Collects, InPage, InTotals
<1>4. QED
  BY <1>1, <1>2, <1>3

LEMMA GithubSteps ==
  /\ MonitorInit /\ part = "github" => Github!Init
  /\ part = "github" /\ [MonitorNext]_monitorVars => [Github!Next]_(Github!vars)
<1>1. MonitorInit /\ part = "github" => Github!Init
  BY DEF MonitorInit
<1>2. part = "github" /\ [MonitorNext]_monitorVars => [Github!Next]_(Github!vars)
  BY DEF MonitorNext, monitorVars, vars, Github!vars, Collects, InPage, InTotals
<1>3. QED
  BY <1>1, <1>2

LEMMA OsvSteps ==
  /\ MonitorInit /\ part = "osv" => Osv!Init
  /\ part = "osv" /\ [MonitorNext]_monitorVars => [Osv!Next]_(Osv!vars)
<1>1. MonitorInit /\ part = "osv" => Osv!Init
  BY DEF MonitorInit
<1>2. part = "osv" /\ [MonitorNext]_monitorVars => [Osv!Next]_(Osv!vars)
  BY DEF MonitorNext, monitorVars, vars, Osv!vars, Collects, InPage, InTotals
<1>3. QED
  BY <1>1, <1>2

LEMMA FetchSteps ==
  /\ MonitorInit => Fetch!Init
  /\ [MonitorNext]_monitorVars => [Fetch!Next]_(Fetch!fetchVars)
<1>1. MonitorInit => Fetch!Init
  BY DEF MonitorInit
<1>2. [MonitorNext]_monitorVars => [Fetch!Next]_(Fetch!fetchVars)
  BY DEF MonitorNext, monitorVars, page, Fetch!fetchVars, Collects, InPage, InTotals
<1>3. QED
  BY <1>1, <1>2

LEMMA StatsSteps ==
  /\ MonitorInit => Stats!Init
  /\ [MonitorNext]_monitorVars => [Stats!Next]_(Stats!statsVars)
<1>1. MonitorInit => Stats!Init
  BY DEF MonitorInit
<1>2. [MonitorNext]_monitorVars => [Stats!Next]_(Stats!statsVars)
  BY DEF MonitorNext, monitorVars, totals, Stats!statsVars, Collects, InPage, InTotals
<1>3. QED
  BY <1>1, <1>2

-----------------------------------------------------------------------------
(***************************************************************************)
(* NvdSync                                                                 *)
(***************************************************************************)
\* However many runs of the NVD collector overlap, every CVE its watermark claims has a
\* row, unless its version was rejected or kept back.
THEOREM NvdPresenceCorrect ==
  ASSUME SinglePage, CarefulBackfills
  PROVE  MonitorSafety => []NvdPresence
<1> DEFINE I == part = "nvd" => PresenceInv
<1>1. MonitorInit => I
  BY NvdSteps, PresenceInit
<1>2. I /\ [MonitorNext]_monitorVars => I'
  BY NvdSteps, PresenceStep
<1>3. I => NvdPresence
  BY DEF NvdPresence, PresenceInv, PresentBelow, Present, PresenceSound, Claimed
<1>4. QED
  BY <1>1, <1>2, <1>3, PTL DEF MonitorSafety

-----------------------------------------------------------------------------
(***************************************************************************)
(* StatsCache                                                              *)
(***************************************************************************)
StatsReader == [pc: {"idle", "count", "fill"}, data: Int, floor: Int]

\* The floor is below what the cache holds, and below what a request is about to put there.
StatsInv ==
  /\ total \in Int /\ floor \in Int /\ floor <= total
  /\ cache \in [data: Int, left: Int]
  /\ cache # Stats!NoCache => floor <= cache.data
  /\ reader \in [Reader -> StatsReader]
  /\ \A r \in Reader :
       /\ reader[r].floor <= floor
       /\ reader[r].pc = "fill" => floor <= reader[r].data
       /\ reader[r].pc = "idle" /\ reader[r].data # Stats!NoAnswer
            => reader[r].floor <= reader[r].data

LEMMA StatsInit == Stats!Init => StatsInv
  BY DEF Stats!Init, StatsInv, StatsReader, Stats!NoCache, Stats!NoAnswer

LEMMA StatsStep == StatsInv /\ [Stats!Next]_(Stats!statsVars) => StatsInv'
<1> SUFFICES ASSUME StatsInv, [Stats!Next]_(Stats!statsVars) PROVE StatsInv'
  OBVIOUS
<1> USE DEF StatsInv, StatsReader
<1>1. ASSUME NEW r \in Reader, Stats!Ask(r) PROVE StatsInv'
  BY <1>1 DEF Stats!Ask, Stats!Fresh, Stats!NoAnswer, Stats!NoCache
<1>2. ASSUME NEW r \in Reader, Stats!Count(r) PROVE StatsInv'
  BY <1>2 DEF Stats!Count
<1>3. ASSUME NEW r \in Reader, Stats!Fill(r) PROVE StatsInv'
  <2>1. TTL \in Int
    BY VulnMonitorAssumption DEF Stats!StatsAssumption
  <2>2. QED
    BY <1>3, <2>1 DEF Stats!Fill
<1>4. CASE Stats!Store
  BY <1>4 DEF Stats!Store
<1>5. CASE Stats!EndJob
  <2>1. floor' \in Int /\ floor <= floor' /\ floor' <= total
    BY <1>5 DEF Stats!EndJob, Stats!NewFloor
  <2>2. \A r \in Reader : reader[r].pc = "fill" => floor' = floor
    BY <1>5 DEF Stats!EndJob, Stats!NewFloor
  <2>3. UNCHANGED <<total, reader>> /\ cache' = Stats!NoCache
    BY <1>5 DEF Stats!EndJob
  <2>4. QED
    BY <2>1, <2>2, <2>3 DEF Stats!NoCache
<1>6. CASE Stats!StartJob \/ Stats!JobThrows \/ UNCHANGED Stats!statsVars
  BY <1>6 DEF Stats!StartJob, Stats!JobThrows, Stats!statsVars
<1>7. CASE Stats!Tick
  BY <1>7 DEF Stats!Tick, Stats!NoCache
<1>8. QED
  BY <1>1, <1>2, <1>3, <1>4, <1>5, <1>6, <1>7 DEF Stats!Next

\* An answer to a request made after the end of a manual sync counts all it stored, unless
\* a count was in flight when it ended: the cache never holds an older total.
THEOREM SyncVisibleCorrect == MonitorSafety => []SyncVisible
<1>1. MonitorInit => StatsInv
  BY StatsSteps, StatsInit
<1>2. StatsInv /\ [MonitorNext]_monitorVars => StatsInv'
  BY StatsSteps, StatsStep
<1>3. StatsInv => SyncVisible
  BY DEF StatsInv, SyncVisible, Stats!SyncVisible
<1>4. QED
  BY <1>1, <1>2, <1>3, PTL DEF MonitorSafety

-----------------------------------------------------------------------------
(***************************************************************************)
(* NvdFetch                                                                *)
(***************************************************************************)
FetchState ==
  [pc: {"idle", "send", "wait"}, key: Key \cup {Fetch!NoKey}, attempt: 0..MaxRetries,
   withKey: BOOLEAN, requests: Nat, resets: Nat]

\* The request that the rejection of the key adds has been made, or is still to come.
Spare(f) == IF rejected = Fetch!NotRejected \/ f.withKey THEN 0 ELSE 1

\* A page that waits has made a request per attempt, one per reset, and one more only when
\* the key was rejected since.
FetchInv ==
  /\ secret \in Key \cup {Fetch!NoKey}
  /\ fetch \in [Fetcher -> FetchState]
  /\ \A r \in Fetcher :
       /\ fetch[r].pc = "idle" => fetch[r].requests = 0
       /\ fetch[r].pc = "wait" /\ fetch[r].withKey => fetch[r].key # Fetch!NoKey
       /\ fetch[r].resets < MaxResets =>
            /\ fetch[r].pc = "send" =>
                 fetch[r].requests <= fetch[r].attempt - 1 + fetch[r].resets
                                        + (IF rejected = Fetch!NotRejected THEN 0 ELSE 1)
            /\ fetch[r].pc = "wait" =>
                 fetch[r].requests <= fetch[r].attempt + fetch[r].resets + Spare(fetch[r])

LEMMA FetchInit == Fetch!Init => FetchInv
  BY VulnMonitorAssumption
     DEF Fetch!Init, FetchInv, FetchState, Fetch!NoFetch, Fetch!NoKey,
         Fetch!NvdFetchAssumption

LEMMA FetchStep == FetchInv /\ [Fetch!Next]_(Fetch!fetchVars) => FetchInv'
<1> SUFFICES ASSUME FetchInv, [Fetch!Next]_(Fetch!fetchVars) PROVE FetchInv'
  OBVIOUS
<1>1. MaxRetries \in Nat \ {0} /\ MaxResets \in Nat
  BY VulnMonitorAssumption DEF Fetch!NvdFetchAssumption
<1> USE DEF FetchInv, FetchState, Spare
<1>2. CASE Fetch!Tick \/ UNCHANGED Fetch!fetchVars
  BY <1>2 DEF Fetch!Tick, Fetch!fetchVars
<1>3. ASSUME NEW k \in Key \cup {Fetch!NoKey}, Fetch!ChangeKey(k) PROVE FetchInv'
  BY <1>3 DEF Fetch!ChangeKey
<1>4. ASSUME NEW r \in Fetcher, Fetch!Start(r) PROVE FetchInv'
  <2>1. PICK s : s = [Fetch!NoFetch EXCEPT !.pc = "send", !.key = secret, !.attempt = 1]
    OBVIOUS
  <2>2. /\ s \in FetchState /\ s.pc = "send" /\ s.requests = 0 /\ s.attempt = 1
        /\ s.resets = 0
    <3>1. s = [pc |-> "send", key |-> secret, attempt |-> 1, withKey |-> FALSE,
               requests |-> 0, resets |-> 0]
      BY <2>1 DEF Fetch!NoFetch
    <3>2. 1 \in 0..MaxRetries
      BY <1>1
    <3>3. QED
      BY <3>1, <3>2
  <2>3. CASE Fetch!Stale(secret)
    <3>1. /\ rejected # Fetch!NotRejected /\ rejected' = Fetch!NotRejected
          /\ secret' = secret
      BY <1>4, <2>3 DEF Fetch!Start, Fetch!Stale
    <3>2. fetch' = [q \in Fetcher |->
                      IF q = r THEN s
                      ELSE IF fetch[q].pc # "idle" THEN Fetch!CountReset(fetch[q])
                      ELSE fetch[q]]
      BY <1>4, <2>1, <2>3 DEF Fetch!Start
    <3>3. ASSUME NEW q \in Fetcher
          PROVE  LET f == Fetch!CountReset(fetch[q])
                 IN  /\ f \in FetchState
                     /\ f.pc = fetch[q].pc /\ f.key = fetch[q].key
                     /\ f.attempt = fetch[q].attempt /\ f.withKey = fetch[q].withKey
                     /\ f.requests = fetch[q].requests
                     /\ f.resets < MaxResets => f.resets = fetch[q].resets + 1
      BY <1>1 DEF Fetch!CountReset
    <3>4. QED
      BY <1>1, <2>2, <3>1, <3>2, <3>3
  <2>4. CASE ~Fetch!Stale(secret)
    <3>1. /\ rejected' = rejected /\ secret' = secret
          /\ fetch' = [q \in Fetcher |-> IF q = r THEN s ELSE fetch[q]]
      BY <1>4, <2>1, <2>4 DEF Fetch!Start
    <3>2. QED
      BY <1>1, <2>2, <3>1
  <2>5. QED
    BY <2>3, <2>4
<1>5. ASSUME NEW r \in Fetcher, Fetch!Send(r) PROVE FetchInv'
  <2>1. PICK withKey \in BOOLEAN :
          withKey = (fetch[r].key # Fetch!NoKey /\ rejected = Fetch!NotRejected)
    OBVIOUS
  <2>2. PICK n \in Nat : n = Fetch!CountRequest(fetch[r].requests)
                         /\ n <= fetch[r].requests + 1
    BY DEF Fetch!CountRequest
  <2>3. /\ fetch[r].pc = "send" /\ UNCHANGED <<secret, rejected>>
        /\ fetch' = [fetch EXCEPT ![r].pc = "wait", ![r].requests = n, ![r].withKey = withKey]
    BY <1>5, <2>1, <2>2 DEF Fetch!Send
  <2>4. PICK s : s = fetch'[r]
    OBVIOUS
  <2>5. /\ s \in FetchState /\ s.pc = "wait" /\ s.requests = n /\ s.withKey = withKey
        /\ s.key = fetch[r].key /\ s.attempt = fetch[r].attempt /\ s.resets = fetch[r].resets
        /\ fetch' = [fetch EXCEPT ![r] = s]
    BY <2>3, <2>4
  <2>6. s.withKey => s.key # Fetch!NoKey
    BY <2>1, <2>5
  <2>7. s.resets < MaxResets => s.requests <= s.attempt + s.resets + Spare(s)
    BY <1>1, <2>1, <2>2, <2>3, <2>5
  <2>8. /\ rejected' = rejected /\ secret' = secret /\ fetch' \in [Fetcher -> FetchState]
        /\ \A q \in Fetcher : fetch'[q] = IF q = r THEN s ELSE fetch[q]
    <3>1. fetch \in [Fetcher -> FetchState]
      OBVIOUS
    <3>2. rejected' = rejected /\ secret' = secret
      BY <2>3
    <3> HIDE DEF FetchInv, FetchState, Spare
    <3>3. s \in FetchState /\ fetch' = [fetch EXCEPT ![r] = s]
      BY <2>5
    <3>4. fetch' \in [Fetcher -> FetchState]
      BY <3>1, <3>3
    <3>5. \A q \in Fetcher : fetch'[q] = IF q = r THEN s ELSE fetch[q]
      BY <3>1, <3>3
    <3>6. QED
      BY <3>2, <3>4, <3>5
  <2>9. QED
    <3> HIDE DEF FetchState
    <3> QED  BY <2>5, <2>6, <2>7, <2>8
<1>6. ASSUME NEW r \in Fetcher, Fetch!KeyRejected(r) PROVE FetchInv'
  <2>1. rejected' # Fetch!NotRejected
    <3>1. rejected'.key = fetch[r].key /\ fetch[r].key # Fetch!NoKey
      BY <1>6 DEF Fetch!KeyRejected
    <3>2. QED
      BY <3>1 DEF Fetch!NotRejected
  <2>2. QED
    BY <1>1, <1>6, <2>1 DEF Fetch!KeyRejected
<1>7. ASSUME NEW r \in Fetcher, Fetch!RateLimited(r) PROVE FetchInv'
  BY <1>1, <1>7 DEF Fetch!RateLimited
<1>8. ASSUME NEW r \in Fetcher, Fetch!Done(r) PROVE FetchInv'
  BY <1>1, <1>8 DEF Fetch!Done, Fetch!NoFetch
<1>9. QED
  BY <1>2, <1>3, <1>4, <1>5, <1>6, <1>7, <1>8 DEF Fetch!Next, Fetch!Answered

\* A page of the NVD costs no more requests than its attempts and one for each time the
\* key could be rejected, whatever other runs do to rejectedKey meanwhile.
THEOREM RequestsCorrect == MonitorSafety => []PageRequests
<1>1. MonitorInit => FetchInv
  BY FetchSteps, FetchInit
<1>2. FetchInv /\ [MonitorNext]_monitorVars => FetchInv'
  BY FetchSteps, FetchStep
<1>3. MaxRetries \in Nat /\ MaxResets \in Nat
  BY VulnMonitorAssumption DEF Fetch!NvdFetchAssumption
<1>4. FetchInv => PageRequests
  BY <1>3 DEF FetchInv, FetchState, Spare, PageRequests, Fetch!RequestsBounded
<1>5. QED
  BY <1>1, <1>2, <1>4, PTL DEF MonitorSafety

-----------------------------------------------------------------------------
(***************************************************************************)
(* GithubSync                                                              *)
(***************************************************************************)
\* The last position of an instant in the order of the advisories.
Ceiling(t) == t * (NumAdv + 1) + NumAdv

\* The updates an incremental run is answerable for.
Owed(a) == run.since < upstream[a] /\ upstream[a] < run.started

Reached(a) ==
  \/ Github!Settled(a)
  \/ <<a, upstream[a]>> \in run.page
  \/ /\ Github!Position(a) > run.cursor
     /\ run.pc = "query" \/ (run.pc = "nodes" /\ run.more)

GithubRun ==
  /\ run.since \in Nat /\ run.started \in Nat /\ run.started <= now
  /\ run.cursor <= Ceiling(now)
  /\ \A n \in run.page : n[2] = upstream[n[1]] \/ run.started <= upstream[n[1]]
  /\ run.pc # "nodes" => run.page = {}
  /\ (~run.backfill /\ ~run.cut) => \A a \in Github!Adv : Owed(a) => Reached(a)

\* The stored cursor lies before everything updated after the watermark, and what a run
\* has not reached yet lies after its cursor.
GithubInv ==
  /\ Github!TypeOK
  /\ Lookback <= now /\ row.lastSyncAt <= now /\ \A a \in Github!Adv : upstream[a] <= now
  /\ row.lastCursor <= Ceiling(row.lastSyncAt)
  /\ run.pc # "idle" => GithubRun

LEMMA GithubInit == Github!Init => GithubInv
<1> SUFFICES ASSUME Github!Init PROVE GithubInv
  OBVIOUS
<1>1. NumAdv \in Nat /\ Lookback \in Nat
  BY VulnMonitorAssumption DEF Github!GithubAssumption
<1>2. now = Lookback /\ run.pc = "idle"
  BY DEF Github!Init, Github!Idle
<1>3. row.lastSyncAt = -1 /\ row.lastCursor = -1
  BY DEF Github!Init, Github!SeedRow, Github!Null
<1>4. Github!TypeOK
  BY <1>1 DEF Github!Init, Github!TypeOK, Github!Idle, Github!SeedRow, Github!SyncRow,
              Github!Instant, Github!Null
<1>5. \A a \in Github!Adv : upstream[a] <= now
  BY <1>1 DEF Github!Init
<1>6. row.lastCursor <= Ceiling(row.lastSyncAt)
  BY <1>1, <1>3 DEF Ceiling
<1>7. QED
  BY <1>1, <1>2, <1>3, <1>4, <1>5, <1>6 DEF GithubInv

LEMMA CeilingMonotone ==
  ASSUME NEW s \in Int, NEW t \in Int, s <= t
  PROVE  Ceiling(s) \in Int /\ Ceiling(t) \in Int /\ Ceiling(s) <= Ceiling(t)
<1>1. NumAdv \in Nat
  BY VulnMonitorAssumption DEF Github!GithubAssumption
<1>2. PICK m \in Nat : m = NumAdv + 1
  BY <1>1
<1>3. s * m <= t * m
  BY <1>2
<1>4. QED
  BY <1>1, <1>2, <1>3 DEF Ceiling

\* Positions follow the instants.
LEMMA PositionBounds ==
  ASSUME Github!TypeOK, NEW a \in Github!Adv
  PROVE  /\ Github!Position(a) \in Nat
         /\ Github!Position(a) <= Ceiling(upstream[a])
         /\ \A s \in Int : s < upstream[a] => Ceiling(s) < Github!Position(a)
<1>1. NumAdv \in Nat /\ a \in Nat /\ 1 <= a /\ a <= NumAdv /\ upstream[a] \in Nat
  BY VulnMonitorAssumption DEF Github!GithubAssumption, Github!Adv, Github!TypeOK
<1>2. PICK m \in Nat : m = NumAdv + 1
  BY <1>1
<1>3. PICK u \in Nat : u = upstream[a]
  BY <1>1
<1>4. u * m \in Nat
  BY <1>2, <1>3
<1>5. ASSUME NEW s \in Int, s < u PROVE s * m + NumAdv < u * m + a
  <2>1. (s + 1) * m <= u * m
    BY <1>2, <1>3, <1>5
  <2>2. (s + 1) * m = s * m + m
    BY <1>2
  <2>3. s * m \in Int
    BY <1>2
  <2>4. QED
    BY <1>1, <1>2, <1>4, <2>1, <2>2, <2>3
<1>6. QED
  BY <1>1, <1>2, <1>3, <1>4, <1>5 DEF Ceiling, Github!Position

\* Every set of naturals that is not empty has a least element.
LEMMA LeastElement ==
  ASSUME NEW T \in SUBSET Nat, T # {}
  PROVE  \E x \in T : \A y \in T : x <= y
<1>1. PICK n \in T : TRUE
  OBVIOUS
<1> DEFINE F == {0..k : k \in T \cap 0..n}
<1>2. IsFiniteSet(0..n)
  BY FS_Interval
<1>3. F \in SUBSET SUBSET (0..n) /\ F # {}
  BY <1>1
<1> HIDE DEF F
<1>4. \E X \in F : \A Y \in F : ~ (<<Y, X>> \in StrictSubsetOrdering(0..n))
  <2>1. IsWellFoundedOn(StrictSubsetOrdering(0..n), SUBSET (0..n))
    BY <1>2, FS_FiniteSubsetsOfFinite, FS_StrictSubsetOrderingWellFounded
  <2>2. QED
    BY <1>3, <2>1, WFMin
<1>5. PICK X \in F : \A Y \in F : ~ (Y \subseteq X /\ Y # X)
  BY <1>3, <1>4 DEF StrictSubsetOrdering
<1>6. PICK k \in T \cap 0..n : X = 0..k
  BY DEF F
<1>7. ASSUME NEW y \in T, y < k PROVE FALSE
  <2>1. 0..y \in F /\ 0..y \subseteq X /\ k \in X /\ k \notin 0..y
    BY <1>6, <1>7 DEF F
  <2>2. QED
    BY <1>5, <2>1
<1>8. \A y \in T : k <= y
  BY <1>7
<1>9. QED
  BY <1>8

\* The greatest number of a bounded set.
LEMMA GreatestElement ==
  ASSUME NEW S \in SUBSET Nat, S # {}, NEW b \in Nat, \A x \in S : x <= b
  PROVE  \E x \in S : \A y \in S : x >= y
<1> DEFINE Gaps == {b - x : x \in S}
<1>0. \A x \in S : b - x \in Nat
  OBVIOUS
<1>1. Gaps \in SUBSET Nat /\ Gaps # {}
  BY <1>0
<1>2. PICK g \in Gaps : \A h \in Gaps : g <= h
  <2> HIDE DEF Gaps
  <2> QED  BY <1>1, LeastElement
<1>3. PICK x \in S : g = b - x
  BY <1>2
<1>4. \A y \in S : b - y \in Gaps
  OBVIOUS
<1>5. \A y \in S : b - x <= b - y
  <2> HIDE DEF Gaps
  <2> QED  BY <1>2, <1>3, <1>4
<1>6. QED
  BY <1>5

\* What a page leaves out comes after all it holds.
LEMMA PageIsFirst ==
  ASSUME Github!TypeOK, NEW list \in SUBSET Github!Adv,
         NEW a \in list, a \notin Github!FirstPage(list), NEW b \in Github!FirstPage(list)
  PROVE  Github!Position(b) < Github!Position(a)
<1> DEFINE Before(c) == {d \in list : Github!Position(d) < Github!Position(c)}
<1>1. \A c \in list : Github!Position(c) \in Nat
  BY PositionBounds
<1>2. IsFiniteSet(list) /\ AdvPerPage \in Nat
  <2>1. IsFiniteSet(1..NumAdv) /\ AdvPerPage \in Nat
    BY VulnMonitorAssumption, FS_Interval DEF Github!GithubAssumption
  <2>2. QED
    BY <2>1, FS_Subset DEF Github!Adv
<1>3. \A S : Github!Cardinality(S) = Cardinality(S)
  BY DEF Github!Cardinality, Cardinality
<1>4. ASSUME NEW c \in list
      PROVE  /\ IsFiniteSet(Before(c)) /\ Cardinality(Before(c)) \in Nat
             /\ c \in Github!FirstPage(list) <=> Cardinality(Before(c)) < AdvPerPage
  <2>1. Before(c) \in SUBSET list
    OBVIOUS
  <2>2. IsFiniteSet(Before(c)) /\ Cardinality(Before(c)) \in Nat
    BY <1>2, <2>1, FS_Subset, FS_CardinalityType
  <2>3. QED
    BY <1>3, <2>2 DEF Github!FirstPage
<1>5. SUFFICES ASSUME Github!Position(a) <= Github!Position(b) PROVE FALSE
  <2>1. b \in list
    BY DEF Github!FirstPage
  <2>2. QED
    BY <1>1, <2>1
<1>6. b \in list /\ Before(a) \subseteq Before(b)
  <2>1. b \in list
    BY DEF Github!FirstPage
  <2>2. QED
    BY <1>1, <1>5, <2>1
<1>7. Cardinality(Before(a)) <= Cardinality(Before(b))
  BY <1>4, <1>6, FS_Subset
<1>8. QED
  <2> HIDE DEF Before
  <2> QED  BY <1>2, <1>4, <1>6, <1>7

\* The local variables of a run.
GithubRunType ==
  [pc: {"idle", "query", "nodes", "success"}, backfill: BOOLEAN,
   since: Nat \cup {-1}, cursor: Nat \cup {-1}, page: SUBSET (Github!Adv \X Nat),
   more: BOOLEAN, started: Nat \cup {-1},
   errors: SUBSET (Github!Adv \X Nat), cut: BOOLEAN]

GithubRowType == [lastSyncAt: Nat \cup {-1}, lastCursor: Nat \cup {-1}, lastError: BOOLEAN]

LEMMA GithubTypes ==
  Github!TypeOK <=>
    /\ now \in Nat /\ upstream \in [Github!Adv -> Nat]
    /\ store \in [Github!Adv -> Nat \cup {-1}]
    /\ row \in GithubRowType /\ horizon \in Nat /\ run \in GithubRunType
  BY DEF Github!TypeOK, Github!SyncRow, Github!Instant, Github!Null, GithubRunType,
         GithubRowType

LEMMA GithubIdle ==
  /\ Github!Idle \in GithubRunType /\ Github!Idle.pc = "idle"
  /\ Github!Idle.page = {} /\ Github!Idle.backfill = FALSE
  BY DEF Github!Idle, GithubRunType, Github!Null

LEMMA GithubStep ==
  GithubInv /\ [Github!Next]_(Github!vars) => GithubInv'
<1> SUFFICES ASSUME GithubInv, [Github!Next]_(Github!vars) PROVE GithubInv'
  OBVIOUS
<1>1. NumAdv \in Nat /\ Lookback \in Nat /\ MayBackfill \in BOOLEAN
  BY VulnMonitorAssumption DEF Github!GithubAssumption
<1>2. /\ Github!TypeOK /\ now \in Nat /\ upstream \in [Github!Adv -> Nat]
      /\ store \in [Github!Adv -> Nat \cup {-1}]
      /\ row \in GithubRowType /\ horizon \in Nat /\ run \in GithubRunType
  BY GithubTypes DEF GithubInv
<1>3. /\ Lookback <= now /\ row.lastSyncAt <= now
      /\ \A a \in Github!Adv : upstream[a] <= now
      /\ row.lastCursor <= Ceiling(row.lastSyncAt)
      /\ row.lastSyncAt \in Int /\ row.lastCursor \in Int
  BY <1>2 DEF GithubInv, GithubRowType
<1>4. run.pc # "idle" => GithubRun
  BY DEF GithubInv
<1>5. Ceiling(now) \in Int /\ Ceiling(row.lastSyncAt) \in Int
  BY <1>2, <1>3, CeilingMonotone
\* The steps that leave the row alone, and what they owe.
<1>6. ASSUME UNCHANGED <<now, upstream, row>>, horizon' \in Nat,
             store' \in [Github!Adv -> Nat \cup {-1}],
             run' \in GithubRunType, run'.pc # "idle" => GithubRun'
      PROVE  GithubInv'
  <2>1. Github!TypeOK'
    BY <1>2, <1>6 DEF Github!TypeOK, Github!SyncRow, Github!Instant, Github!Null,
                      GithubRunType, GithubRowType
  <2>2. QED
    BY <1>3, <1>6, <2>1 DEF GithubInv, Ceiling
<1>7. CASE Github!Tick
  <2>1. now' = now + 1 /\ UNCHANGED <<upstream, store, row, run, horizon>>
    BY <1>7 DEF Github!Tick
  <2>2. Github!TypeOK'
    BY <1>2, <2>1 DEF Github!TypeOK
  <2>3. Ceiling(now) <= Ceiling(now')
    BY <1>2, <2>1, CeilingMonotone
  <2>4. run.pc # "idle" => GithubRun'
    <3>1. run.cursor \in Int
      BY <1>2 DEF GithubRunType
    <3>2. Ceiling(now') \in Int /\ Ceiling(now)' = Ceiling(now')
      BY <1>1, <1>2, <2>1, CeilingMonotone DEF Ceiling
    <3>3. run.pc # "idle" => run.started <= now' /\ run.cursor <= Ceiling(now)'
      BY <1>2, <1>4, <1>5, <2>1, <2>3, <3>1, <3>2 DEF GithubRun
    <3>4. QED
      BY <1>4, <2>1, <3>3 DEF GithubRun, Owed, Reached, Github!Settled, Github!Position
  <2>5. Lookback <= now' /\ row.lastSyncAt <= now' /\ \A a \in Github!Adv : upstream[a] <= now'
    BY <1>1, <1>2, <1>3, <2>1
  <2>6. QED
    BY <1>3, <2>1, <2>2, <2>4, <2>5 DEF GithubInv, Ceiling
<1>8. ASSUME NEW a \in Github!Adv, Github!Update(a) PROVE GithubInv'
  <2>1. /\ upstream' = [upstream EXCEPT ![a] = now]
        /\ UNCHANGED <<now, store, row, run, horizon>>
    BY <1>8 DEF Github!Update
  <2>2. \A b \in Github!Adv : upstream'[b] = IF b = a THEN now ELSE upstream[b]
    BY <1>2, <2>1
  <2>3. Github!TypeOK' /\ \A b \in Github!Adv : upstream'[b] <= now
    BY <1>2, <1>3, <2>1, <2>2 DEF Github!TypeOK
  <2>4. run.pc # "idle" => GithubRun'
    <3> SUFFICES ASSUME run.pc # "idle" PROVE GithubRun'
      OBVIOUS
    <3>1. GithubRun /\ run.started \in Nat /\ run.started <= now
      BY <1>4 DEF GithubRun
    <3>2. \A n \in run.page : n[1] \in Github!Adv
      BY <1>2 DEF GithubRunType
    <3>3. \A n \in run.page : n[2] = upstream'[n[1]] \/ run.started <= upstream'[n[1]]
      BY <2>2, <3>1, <3>2 DEF GithubRun
    <3>4. \A b \in Github!Adv : Owed(b)' => b # a /\ Owed(b)
      BY <1>2, <2>1, <2>2, <3>1 DEF Owed
    <3>5. \A b \in Github!Adv : b # a /\ Reached(b) => Reached(b)'
      BY <2>1, <2>2 DEF Reached, Github!Settled, Github!Position
    <3>6. QED
      BY <2>1, <3>1, <3>3, <3>4, <3>5 DEF GithubRun, Ceiling
  <2>5. QED
    BY <1>3, <2>1, <2>3, <2>4 DEF GithubInv, Ceiling
<1>9. CASE Github!Start
  <2>1. PICK since : since = Github!OrElse(row.lastSyncAt, now - Lookback)
    OBVIOUS
  <2>2. since \in Nat /\ row.lastSyncAt <= since
    BY <1>1, <1>2, <1>3, <2>1 DEF Github!OrElse, Github!Null, GithubRowType
  <2>3. /\ UNCHANGED <<now, upstream, store, row>> /\ horizon' \in Nat
        /\ run' = [Github!Idle EXCEPT !.pc = "query", !.since = since,
                                      !.cursor = row.lastCursor, !.started = now]
    BY <1>2, <1>9, <2>1, <2>2 DEF Github!Start, Github!Later
  <2>4. /\ run' \in GithubRunType /\ run'.pc = "query" /\ run'.since = since
        /\ run'.cursor = row.lastCursor /\ run'.started = now /\ run'.page = {}
    BY <1>2, <2>2, <2>3 DEF Github!Idle, GithubRunType, GithubRowType
  <2>5. row.lastCursor <= Ceiling(now)
    BY <1>2, <1>3, <1>5, CeilingMonotone
  <2>6. ASSUME NEW a \in Github!Adv, since < upstream[a]
        PROVE  Github!Position(a) > row.lastCursor
    <3>1. Ceiling(row.lastSyncAt) < Github!Position(a) /\ Github!Position(a) \in Nat
      BY <1>2, <1>3, <2>2, <2>6, PositionBounds DEF Github!TypeOK
    <3>2. QED
      BY <1>3, <1>5, <3>1
  <2>7. GithubRun'
    BY <1>2, <1>5, <2>2, <2>3, <2>4, <2>5, <2>6
       DEF GithubRun, Owed, Reached, Ceiling, Github!Position
  <2>8. QED
    BY <1>2, <1>6, <2>3, <2>4, <2>7
<1>10. CASE Github!Backfill
  <2>1. PICK since \in 0..(now - 1) :
          /\ run' = [Github!Idle EXCEPT !.pc = "query", !.backfill = TRUE, !.since = since,
                                        !.cursor = row.lastCursor, !.started = now]
          /\ horizon' = IF row.lastSyncAt = Github!Null THEN Github!Later(horizon, since)
                        ELSE horizon
    BY <1>10 DEF Github!Backfill
  <2>2. /\ UNCHANGED <<now, upstream, store, row>> /\ horizon' \in Nat
    BY <1>2, <1>10, <2>1 DEF Github!Backfill, Github!Later
  <2>3. /\ run' \in GithubRunType /\ run'.pc = "query" /\ run'.since = since
        /\ run'.cursor = row.lastCursor /\ run'.started = now /\ run'.page = {}
        /\ run'.backfill
    <3>1. row.lastCursor \in Nat \cup {-1} /\ since \in Nat
      BY <1>2 DEF GithubRowType
    <3>2. run' = [pc |-> "query", backfill |-> TRUE, since |-> since,
                  cursor |-> row.lastCursor, page |-> {}, more |-> FALSE, started |-> now,
                  errors |-> {}, cut |-> FALSE]
      BY <2>1 DEF Github!Idle
    <3>3. QED
      BY <1>2, <3>1, <3>2 DEF GithubRunType
  <2>4. row.lastCursor <= Ceiling(now)
    BY <1>2, <1>3, <1>5, CeilingMonotone
  <2>5. GithubRun'
    BY <1>2, <1>5, <2>2, <2>3, <2>4 DEF GithubRun, Ceiling
  <2>6. QED
    BY <1>2, <1>6, <2>2, <2>3, <2>5
<1>11. CASE Github!Query
  <2>1. PICK list : list = Github!After(run.since, run.cursor)
    OBVIOUS
  <2>2. PICK first : first = Github!FirstPage(list)
    OBVIOUS
  <2>3. PICK nodes : nodes = {<<a, upstream[a]>> : a \in first}
    OBVIOUS
  <2>4. PICK cursor : cursor = IF first = {} THEN Github!Null
                               ELSE Github!Max({Github!Position(a) : a \in first})
    OBVIOUS
  <2>5. /\ run.pc = "query" /\ UNCHANGED <<now, upstream, store, row, horizon>>
        /\ run' = [run EXCEPT !.pc = "nodes", !.page = nodes, !.more = first # list,
                              !.cursor = cursor]
    BY <1>11, <2>1, <2>2, <2>3, <2>4 DEF Github!Query
  <2>6. list \in SUBSET Github!Adv /\ first \in SUBSET list
    BY <2>1, <2>2 DEF Github!After, Github!FirstPage
  <2>7. nodes \in SUBSET (Github!Adv \X Nat) /\ \A n \in nodes : n[2] = upstream[n[1]]
    BY <1>2, <2>3, <2>6
  <2>8. \A a \in first : Github!Position(a) \in Nat /\ Github!Position(a) <= Ceiling(now)
    <3>1. ASSUME NEW a \in first
          PROVE  Github!Position(a) \in Nat /\ Github!Position(a) <= Ceiling(now)
      <4>1. a \in Github!Adv /\ upstream[a] \in Int /\ upstream[a] <= now
        BY <1>2, <1>3, <2>6
      <4>2. Ceiling(upstream[a]) \in Int /\ Ceiling(upstream[a]) <= Ceiling(now)
        BY <1>2, <4>1, CeilingMonotone
      <4>3. QED
        BY <1>2, <1>5, <4>1, <4>2, PositionBounds
    <3>2. QED
      BY <3>1
  <2>9. /\ cursor \in Nat \cup {-1} /\ cursor <= Ceiling(now)
        /\ \A a \in list \ first : cursor < Github!Position(a)
    <3>1. \A a \in list : Github!Position(a) \in Nat
      BY <1>2, <2>6, PositionBounds
    <3>2. CASE first = {}
      <4>1. cursor = -1 /\ Ceiling(now) >= 0
        BY <1>1, <1>2, <2>4, <3>2 DEF Github!Null, Ceiling
      <4>2. QED
        BY <1>5, <3>1, <4>1
    <3>3. CASE first # {}
      <4>1. PICK places : places = {Github!Position(a) : a \in first}
        OBVIOUS
      <4>2. places \in SUBSET Nat /\ places # {} /\ \A x \in places : x <= Ceiling(now)
        BY <2>8, <3>3, <4>1
      <4>3. Ceiling(now) \in Nat
        BY <1>1, <1>2 DEF Ceiling
      <4>4. \E x \in places : \A y \in places : x >= y
        BY <4>2, <4>3, GreatestElement
      <4>5. cursor \in places
        BY <2>4, <3>3, <4>1, <4>4 DEF Github!Max
      <4>6. PICK b \in first : cursor = Github!Position(b)
        BY <4>1, <4>5
      <4>7. \A a \in list \ first : Github!Position(b) < Github!Position(a)
        BY <1>2, <2>2, <2>6, PageIsFirst
      <4>8. cursor \in Nat /\ cursor <= Ceiling(now)
        BY <2>8, <4>6
      <4>9. \A a \in list \ first : cursor < Github!Position(a)
        BY <4>6, <4>7
      <4>10. QED
        BY <4>8, <4>9
    <3>4. QED
      BY <3>2, <3>3
  <2>10. /\ run' \in GithubRunType /\ run'.pc = "nodes" /\ run'.page = nodes
         /\ run'.more = (first # list) /\ run'.cursor = cursor /\ run'.since = run.since
         /\ run'.started = run.started /\ run'.errors = run.errors
         /\ run'.backfill = run.backfill /\ run'.cut = run.cut
    BY <1>2, <2>5, <2>7, <2>9 DEF GithubRunType
  <2>11. GithubRun /\ run.page = {}
    BY <1>4, <2>5 DEF GithubRun
  <2>12. ASSUME ~run.backfill, ~run.cut, NEW a \in Github!Adv, Owed(a) PROVE Reached(a)'
    <3>1. Reached(a)
      BY <2>11, <2>12 DEF GithubRun
    <3>2. CASE Github!Settled(a)
      BY <2>5, <2>10, <3>2 DEF Reached, Github!Settled
    <3>3. CASE Github!Position(a) > run.cursor
      <4>1. a \in list
        <5>1. run.since <= upstream[a]
          BY <1>2, <2>11, <2>12 DEF Owed, GithubRun
        <5>2. run.cursor < Github!Position(a)
          BY <3>3
        <5>3. QED
          BY <2>1, <5>1, <5>2 DEF Github!After
      <4>2. CASE a \in first
        BY <2>3, <2>5, <2>10, <4>2 DEF Reached
      <4>3. CASE a \notin first
        <5>1. cursor < Github!Position(a) /\ run'.more
          BY <2>9, <2>10, <4>1, <4>3
        <5>2. Github!Position(a)' = Github!Position(a)
          BY <2>5 DEF Github!Position
        <5>3. QED
          BY <2>10, <5>1, <5>2 DEF Reached
      <4>4. QED
        BY <4>2, <4>3
    <3>4. QED
      BY <2>11, <3>1, <3>2, <3>3 DEF Reached
  <2>13. GithubRun'
    BY <2>5, <2>7, <2>9, <2>10, <2>11, <2>12 DEF GithubRun, Owed, Ceiling
  <2>14. QED
    BY <1>2, <1>6, <2>5, <2>10, <2>13
<1>12. CASE Github!NoPage
  <2>1. /\ run.pc = "query" /\ UNCHANGED <<now, upstream, store, row, horizon>>
        /\ run' = [run EXCEPT !.pc = "success", !.cut = TRUE]
    BY <1>12 DEF Github!NoPage
  <2>2. /\ run' \in GithubRunType /\ run'.pc = "success" /\ run'.cut
        /\ run'.page = run.page /\ run'.cursor = run.cursor /\ run'.since = run.since
        /\ run'.started = run.started
    BY <1>2, <2>1 DEF GithubRunType
  <2>3. GithubRun'
    BY <1>4, <2>1, <2>2 DEF GithubRun, Ceiling
  <2>4. QED
    BY <1>2, <1>6, <2>1, <2>2, <2>3
<1>13. CASE Github!Upsert \/ Github!UpsertFails
  <2>1. PICK node \in run.page :
          \/ /\ store' = [store EXCEPT ![node[1]] = node[2]]
             /\ run' = [run EXCEPT !.page = run.page \ {node}]
          \/ /\ store' = store
             /\ run' = [run EXCEPT !.page = run.page \ {node},
                                   !.errors = run.errors \cup {node}]
    BY <1>13 DEF Github!Upsert, Github!UpsertFails
  <2>2. run.pc = "nodes" /\ UNCHANGED <<now, upstream, row, horizon>>
    BY <1>13 DEF Github!Upsert, Github!UpsertFails
  <2>3. node \in Github!Adv \X Nat
    BY <1>2 DEF GithubRunType
  <2>4. /\ run' \in GithubRunType /\ run'.pc = "nodes" /\ run'.page = run.page \ {node}
        /\ run'.more = run.more /\ run'.cursor = run.cursor /\ run'.since = run.since
        /\ run'.started = run.started /\ run.errors \subseteq run'.errors
        /\ run'.backfill = run.backfill /\ run'.cut = run.cut
        /\ store' \in [Github!Adv -> Nat \cup {-1}]
        /\ \A a \in Github!Adv \ {node[1]} : store'[a] = store[a]
        /\ store'[node[1]] = node[2] \/ (node \in run'.errors /\ store' = store)
    <3>1. CASE /\ store' = [store EXCEPT ![node[1]] = node[2]]
               /\ run' = [run EXCEPT !.page = run.page \ {node}]
      <4>1. node[1] \in Github!Adv /\ node[2] \in Nat
        BY <2>3
      <4>2. store' \in [Github!Adv -> Nat \cup {-1}] /\ store'[node[1]] = node[2]
        BY <1>2, <3>1, <4>1
      <4>3. \A a \in Github!Adv \ {node[1]} : store'[a] = store[a]
        BY <1>2, <3>1
      <4>4. run' \in GithubRunType /\ run'.page = run.page \ {node}
        BY <1>2, <3>1 DEF GithubRunType
      <4>5. QED
        BY <1>2, <2>2, <3>1, <4>2, <4>3, <4>4 DEF GithubRunType
    <3>2. CASE /\ store' = store
               /\ run' = [run EXCEPT !.page = run.page \ {node},
                                     !.errors = run.errors \cup {node}]
      <4>1. run.page \ {node} \in SUBSET (Github!Adv \X Nat)
        BY <1>2 DEF GithubRunType
      <4>2. run.errors \cup {node} \in SUBSET (Github!Adv \X Nat)
        BY <1>2, <2>3 DEF GithubRunType
      <4>3. PICK pages, errors : pages = run.page \ {node} /\ errors = run.errors \cup {node}
        OBVIOUS
      <4>4. run' = [run EXCEPT !.page = pages, !.errors = errors]
        BY <3>2, <4>3
      <4>5. /\ run' \in GithubRunType /\ run'.pc = run.pc /\ run'.page = pages
            /\ run'.more = run.more /\ run'.cursor = run.cursor /\ run'.since = run.since
            /\ run'.started = run.started /\ run'.errors = errors
            /\ run'.backfill = run.backfill /\ run'.cut = run.cut
        BY <1>2, <4>1, <4>2, <4>3, <4>4 DEF GithubRunType
      <4>6. QED
        BY <1>2, <2>2, <3>2, <4>3, <4>5
    <3>3. QED
      BY <2>1, <3>1, <3>2
  <2>5. GithubRun /\ (node[2] = upstream[node[1]] \/ run.started <= upstream[node[1]])
    BY <1>4, <2>2 DEF GithubRun
  <2>6. ASSUME ~run.backfill, ~run.cut, NEW a \in Github!Adv, Owed(a) PROVE Reached(a)'
    <3>1. Reached(a)
      BY <2>5, <2>6 DEF GithubRun
    <3>2. CASE a = node[1]
      <4>1. node[2] = upstream[a] /\ node = <<a, upstream[a]>>
        BY <1>2, <2>3, <2>5, <2>6, <3>2 DEF Owed, GithubRun
      <4>2. QED
        BY <2>2, <2>4, <3>2, <4>1 DEF Reached, Github!Settled
    <3>3. CASE a # node[1]
      <4>1. store'[a] = store[a] /\ <<a, upstream[a]>> # node
        BY <2>4, <3>3
      <4>2. Github!Position(a)' = Github!Position(a)
        BY <2>2 DEF Github!Position
      <4>3. QED
        BY <2>2, <2>4, <3>1, <4>1, <4>2 DEF Reached, Github!Settled
    <3>4. QED
      BY <3>2, <3>3
  <2>7. GithubRun'
    BY <2>2, <2>4, <2>5, <2>6 DEF GithubRun, Owed, Ceiling
  <2>8. QED
    BY <1>2, <1>6, <2>2, <2>4, <2>7
<1>14. CASE Github!EndPage
  <2>1. /\ run.pc = "nodes" /\ run.page = {}
        /\ UNCHANGED <<now, upstream, store, row, horizon>>
        /\ run' = [run EXCEPT !.pc = IF run.more THEN "query" ELSE "success"]
    BY <1>14 DEF Github!EndPage
  <2>2. /\ run' \in GithubRunType /\ run'.pc = (IF run.more THEN "query" ELSE "success")
        /\ run'.page = {} /\ run'.cursor = run.cursor /\ run'.since = run.since
        /\ run'.started = run.started /\ run.errors = run'.errors
        /\ run'.backfill = run.backfill /\ run'.cut = run.cut
    BY <1>2, <2>1 DEF GithubRunType
  <2>3. \A a \in Github!Adv : Reached(a) => Reached(a)'
    BY <2>1, <2>2 DEF Reached, Github!Settled, Github!Position
  <2>4. GithubRun'
    BY <1>4, <2>1, <2>2, <2>3 DEF GithubRun, Owed, Ceiling
  <2>5. QED
    BY <1>2, <1>6, <2>1, <2>2, <2>4
<1>15. CASE Github!Success
  <2>1. /\ run.pc = "success" /\ run' = Github!Idle
        /\ UNCHANGED <<now, upstream, store, horizon>>
        /\ row' = [lastSyncAt |-> now, lastCursor |-> run.cursor, lastError |-> FALSE]
    BY <1>2, <1>15 DEF Github!Success, Github!MarkSuccess, GithubRowType
  <2>2. run.cursor \in Nat \cup {-1} /\ run.cursor <= Ceiling(now)
    BY <1>2, <1>4, <2>1 DEF GithubRun, GithubRunType
  <2>3. Github!TypeOK'
    <3>1. row' \in GithubRowType
      BY <1>2, <2>1, <2>2 DEF GithubRowType
    <3>2. QED
      BY <1>2, <2>1, <3>1, GithubIdle
         DEF Github!TypeOK, Github!SyncRow, Github!Instant, Github!Null, GithubRunType,
             GithubRowType
  <2>4. row'.lastCursor <= Ceiling(row'.lastSyncAt)
    BY <2>1, <2>2
  <2>5. /\ Lookback <= now' /\ row'.lastSyncAt <= now' /\ run'.pc = "idle"
        /\ \A a \in Github!Adv : upstream'[a] <= now'
    BY <1>2, <1>3, <2>1, GithubIdle
  <2>6. QED
    BY <2>3, <2>4, <2>5 DEF GithubInv, Ceiling
<1>16. CASE Github!Fail \/ Github!Crash
  <2>1. /\ run' = Github!Idle /\ UNCHANGED <<now, upstream, store, horizon>>
        /\ row' \in GithubRowType /\ row'.lastSyncAt = row.lastSyncAt
        /\ row'.lastCursor = row.lastCursor
    BY <1>2, <1>16 DEF Github!Fail, Github!Crash, Github!MarkError, GithubRowType
  <2>2. Github!TypeOK'
    BY <1>2, <2>1, GithubIdle
       DEF Github!TypeOK, Github!SyncRow, Github!Instant, Github!Null, GithubRunType,
           GithubRowType
  <2>3. (row.lastCursor <= Ceiling(row.lastSyncAt))'
    BY <1>3, <2>1 DEF Ceiling
  <2>4. /\ Lookback <= now' /\ row'.lastSyncAt <= now' /\ run'.pc = "idle"
        /\ \A a \in Github!Adv : upstream'[a] <= now'
    BY <1>3, <2>1, GithubIdle
  <2>5. QED
    BY <2>2, <2>3, <2>4 DEF GithubInv, Ceiling
<1>17. CASE UNCHANGED Github!vars
  BY <1>2, <1>3, <1>4, <1>17
     DEF Github!vars, GithubInv, GithubRun, Owed, Reached, Ceiling, Github!TypeOK,
         Github!Settled, Github!Position
<1>18. QED
  BY <1>7, <1>8, <1>9, <1>10, <1>11, <1>12, <1>13, <1>14, <1>15, <1>16, <1>17
     DEF Github!Next

\* An incremental run of the GitHub collector that ends in success, each of its queries
\* answered with a page, has stored or reported every update between its since and its
\* start, however many advisories move to the end of the order meanwhile.
THEOREM GithubRunCorrect == MonitorSafety => GithubRunComplete
<1> DEFINE I == part = "github" => GithubInv
<1>1. MonitorInit => I
  BY GithubSteps, GithubInit
<1>2. I /\ [MonitorNext]_monitorVars => I'
  BY NvdSteps, GithubSteps, GithubStep
<1>3. GithubInv => Github!RunCompletes
  <2> SUFFICES ASSUME GithubInv, Github!Succeeds, ~run.backfill, ~run.cut,
                      NEW a \in Github!Adv, Owed(a)
               PROVE  Github!Settled(a)
    BY DEF Github!RunCompletes, Owed
  <2>1. run.pc = "success"
    BY DEF Github!Succeeds
  <2>2. GithubRun /\ run.page = {}
    BY <2>1 DEF GithubInv, GithubRun
  <2>3. Reached(a)
    BY <2>2 DEF GithubRun
  <2>4. QED
    BY <2>1, <2>2, <2>3 DEF Reached
<1>4. I => [part = "github" => Github!RunCompletes]_monitorVars
  BY <1>3
<1>5. QED
  BY <1>1, <1>2, <1>4, PTL DEF MonitorSafety, GithubRunComplete
-----------------------------------------------------------------------------
(***************************************************************************)
(* OsvSync.  What a run may claim is judged by its list: a version that    *)
(* the list took in is done, still to do or left.                          *)
(***************************************************************************)
Served == Osv!Vuln \ Gone

OsvRunType ==
  [pc: {"idle", "list", "entries", "checkpoint"}, since: Nat \cup {-1},
   capped: BOOLEAN, todo: SUBSET (Osv!Vuln \X Nat), cursor: Nat \cup {-1},
   lastDone: Nat \cup {-1}, count: Nat, errors: BOOLEAN, left: SUBSET (Osv!Vuln \X Nat)]

OsvRowType == [lastSyncAt: Nat \cup {-1}, lastCursor: Nat \cup {-1}, lastError: BOOLEAN]

Done(v) == store[v] = upstream[v] \/ <<v, upstream[v]>> \in refused

DoneUpTo(w) ==
  \A v \in Served : (horizon <= upstream[v] /\ upstream[v] <= w) => Done(v)

Listed == run.todo \cup run.left

\* The list is newer than since and older than the clock; of what it took in, nothing is lost
\* to the run.
OsvList ==
  /\ run.since < now /\ run.cursor < now /\ run.lastDone <= run.cursor
  /\ \A v \in Served : run.since < upstream[v] /\ upstream[v] <= run.cursor
                         => Done(v) \/ <<v, upstream[v]>> \in Listed
  /\ run.since = -1 /\ run.lastDone = -1 /\ ~run.errors =>
       \A v \in Served : \E e \in Listed : e[1] = v
  /\ run.pc = "checkpoint" => run.lastDone # -1

OsvTodo == IsFiniteSet(run.todo) /\ \A e \in run.todo : e[2] <= run.cursor

OsvRun ==
  /\ DoneUpTo(run.since)
  /\ run.pc = "list" => /\ run.since < now \/ run.since <= row.lastSyncAt
                        /\ run.errors = FALSE /\ run.lastDone = -1
  /\ run.pc # "list" => OsvList

OsvSound ==
  /\ row.lastSyncAt <= now
  /\ DoneUpTo(row.lastSyncAt)
  /\ run.pc # "idle" => OsvRun

OsvInv ==
  /\ Osv!TypeOK
  /\ OsvTodo /\ \A v \in Osv!Vuln : upstream[v] <= now
  /\ OsvSound

LEMMA OsvTypes ==
  Osv!TypeOK <=>
    /\ now \in Nat /\ upstream \in [Osv!Vuln -> Nat]
    /\ store \in [Osv!Vuln -> Nat \cup {-1}]
    /\ row \in OsvRowType /\ horizon \in Nat /\ run \in OsvRunType
    /\ refused \in SUBSET (Osv!Vuln \X Nat)
  BY DEF Osv!TypeOK, Osv!SyncRow, Osv!Instant, Osv!Null, OsvRunType, OsvRowType

LEMMA OsvIdle == Osv!Idle \in OsvRunType /\ Osv!Idle.pc = "idle"
  BY DEF Osv!Idle, OsvRunType, Osv!Null

LEMMA OsvIdleTodo == run = Osv!Idle => OsvTodo
<1>1. Osv!Idle.todo = {}
  BY DEF Osv!Idle
<1>2. QED
  BY <1>1, FS_EmptySet DEF OsvTodo

\* The ids are a finite set, and so is any part of it.
LEMMA OsvIds ==
  /\ NumVuln \in Nat \ {0} /\ Osv!Vuln # {}
  /\ \A S \in SUBSET Osv!Vuln : IsFiniteSet(S)
<1>1. NumVuln \in Nat \ {0}
  BY VulnMonitorAssumption DEF Osv!OsvAssumption
<1>2. IsFiniteSet(Osv!Vuln) /\ 1 \in Osv!Vuln
  BY <1>1, FS_Interval DEF Osv!Vuln
<1>3. \A S \in SUBSET Osv!Vuln : IsFiniteSet(S)
  BY <1>2, FS_Subset
<1>4. QED
  BY <1>1, <1>2, <1>3

LEMMA OsvInit == Osv!Init => OsvInv
<1> SUFFICES ASSUME Osv!Init PROVE OsvInv
  OBVIOUS
<1>1. Osv!TypeOK
  BY DEF Osv!Init, Osv!TypeOK, Osv!Idle, Osv!SeedRow, Osv!SyncRow, Osv!Instant, Osv!Null
<1>2. /\ now = 1 /\ run.pc = "idle" /\ row.lastSyncAt = -1
      /\ \A v \in Osv!Vuln : upstream[v] = 0
  BY DEF Osv!Init, Osv!Idle, Osv!SeedRow, Osv!Null
<1>3. OsvSound
  BY <1>2 DEF OsvSound, DoneUpTo, Served
<1>4. QED
  BY <1>1, <1>2, <1>3, OsvIdleTodo DEF OsvInv, Osv!Init

\* The order of the list: by instant, then by id.
Above(d, e) == d[2] > e[2] \/ (d[2] = e[2] /\ d[1] > e[1])

LEMMA NewestIs ==
  ASSUME NEW n \in Nat, NEW list, IsFiniteSet(list)
  PROVE  /\ Osv!Newest(n, list)
              = {e \in list : Cardinality({d \in list : Above(d, e)}) < n}
         /\ \A e \in list : /\ IsFiniteSet({d \in list : Above(d, e)})
                            /\ Cardinality({d \in list : Above(d, e)}) \in Nat
<1>1. \A S : Osv!Cardinality(S) = Cardinality(S)
  BY DEF Osv!Cardinality, Cardinality
<1>2. Osv!Newest(n, list) = {e \in list : Cardinality({d \in list : Above(d, e)}) < n}
  BY <1>1 DEF Osv!Newest, Above
<1>3. ASSUME NEW e \in list
      PROVE  /\ IsFiniteSet({d \in list : Above(d, e)})
             /\ Cardinality({d \in list : Above(d, e)}) \in Nat
  <2>1. {d \in list : Above(d, e)} \subseteq list
    OBVIOUS
  <2>2. QED
    BY <2>1, FS_Subset, FS_CardinalityType
<1>4. QED
  BY <1>2, <1>3


\* The loop takes one of the newest entries.
LEMMA NextIsNewest ==
  ASSUME Osv!TypeOK, run.todo # {}, IsFiniteSet(run.todo), run.cursor \in Nat,
         \A e \in run.todo : e[2] <= run.cursor
  PROVE  Osv!NextEntry \in run.todo /\ \A e \in run.todo : e[2] <= Osv!NextEntry[2]
<1>1. run.todo \in SUBSET (Osv!Vuln \X Nat) /\ NumVuln \in Nat
  BY OsvTypes, OsvIds DEF OsvRunType
<1>2. PICK times : times = {e[2] : e \in run.todo}
  OBVIOUS
<1>3. times \in SUBSET Nat /\ times # {} /\ \A t \in times : t <= run.cursor
  BY <1>1, <1>2
<1>4. PICK t \in times : \A u \in times : t >= u
  BY <1>3, GreatestElement
<1>5. PICK ids : ids = {e[1] : e \in {f \in run.todo : f[2] = t}}
  OBVIOUS
<1>6. ids \in SUBSET Nat /\ ids # {} /\ \A v \in ids : v <= NumVuln
  BY <1>1, <1>2, <1>4, <1>5 DEF Osv!Vuln
<1>7. PICK v \in ids : \A w \in ids : v >= w
  BY <1>1, <1>6, GreatestElement
<1>8. PICK e \in run.todo : e[1] = v /\ e[2] = t
  BY <1>5, <1>7
<1>9. ASSUME NEW f \in run.todo PROVE f = e \/ Above(e, f)
  <2>1. /\ f \in Osv!Vuln \X Nat /\ e \in Osv!Vuln \X Nat
        /\ f[1] \in Nat /\ f[2] \in Nat /\ e[1] \in Nat /\ e[2] \in Nat
    BY <1>1 DEF Osv!Vuln
  <2>2. f[2] <= e[2]
    BY <1>2, <1>4, <1>8, <2>1
  <2>3. f[2] = e[2] => f[1] <= e[1]
    BY <1>5, <1>7, <1>8, <2>1
  <2>4. f[1] = e[1] /\ f[2] = e[2] => f = e
    BY <2>1
  <2>5. QED
    BY <2>1, <2>2, <2>3, <2>4 DEF Above
<1>10. \A f \in run.todo : f[1] \in Int /\ f[2] \in Int
  BY <1>1 DEF Osv!Vuln
<1> DEFINE Over(f) == {g \in run.todo : Above(g, f)}
<1>11. Over(e) = {}
  <2>1. ASSUME NEW f \in run.todo, Above(f, e) PROVE FALSE
    BY <1>9, <1>10, <2>1 DEF Above
  <2>2. QED
    BY <2>1
<1>12. ASSUME NEW f \in run.todo, f # e PROVE e \in Over(f)
  BY <1>9, <1>12
<1>13. \A f \in run.todo : IsFiniteSet(Over(f)) /\ Cardinality(Over(f)) \in Nat
  BY NewestIs
<1>14. Osv!Newest(1, run.todo) = {e}
  <2>1. Osv!Newest(1, run.todo) = {f \in run.todo : Cardinality(Over(f)) < 1}
    BY NewestIs
  <2> HIDE DEF Over
  <2>2. Cardinality(Over(e)) = 0
    BY <1>11, FS_EmptySet
  <2>3. ASSUME NEW f \in run.todo, f # e PROVE ~(Cardinality(Over(f)) < 1)
    <3>1. Over(f) # {} /\ IsFiniteSet(Over(f)) /\ Cardinality(Over(f)) \in Nat
      BY <1>12, <1>13, <2>3
    <3>2. Cardinality(Over(f)) # 0
      BY <3>1, FS_EmptySet
    <3>3. QED
      BY <3>1, <3>2
  <2>4. QED
    BY <2>1, <2>2, <2>3
<1>15. Osv!NextEntry = e
  BY <1>14 DEF Osv!NextEntry
<1>16. QED
  BY <1>2, <1>4, <1>8, <1>15

LEMMA OsvStep == OsvInv /\ [Osv!Next]_(Osv!vars) => OsvInv'
<1> SUFFICES ASSUME OsvInv, [Osv!Next]_(Osv!vars) PROVE OsvInv'
  OBVIOUS
<1>1. /\ Osv!TypeOK /\ now \in Nat /\ upstream \in [Osv!Vuln -> Nat]
      /\ store \in [Osv!Vuln -> Nat \cup {-1}]
      /\ row \in OsvRowType /\ horizon \in Nat /\ run \in OsvRunType
      /\ refused \in SUBSET (Osv!Vuln \X Nat)
  BY OsvTypes DEF OsvInv
<1>2. OsvSound /\ OsvTodo /\ \A v \in Osv!Vuln : upstream[v] <= now
  BY DEF OsvInv
<1>3. \A v \in Served : v \in Osv!Vuln /\ upstream[v] \in Nat /\ upstream[v] <= now
  BY <1>1, <1>2 DEF Served
<1>4. row.lastSyncAt \in Nat \cup {-1} /\ run.since \in Nat \cup {-1}
      /\ run.cursor \in Nat \cup {-1} /\ run.lastDone \in Nat \cup {-1} /\ run.count \in Nat
      /\ run.todo \in SUBSET (Osv!Vuln \X Nat) /\ run.left \in SUBSET (Osv!Vuln \X Nat)
  BY <1>1 DEF OsvRowType, OsvRunType
\* A step that leaves the clock, the list of OSV and the row alone, and what was done done.
<1>5. ASSUME UNCHANGED <<now, upstream, row, horizon>>, run' \in OsvRunType,
             store' \in [Osv!Vuln -> Nat \cup {-1}], OsvTodo',
             refused' \in SUBSET (Osv!Vuln \X Nat),
             \A v \in Served : Done(v) => Done(v)',
             run'.pc # "idle" => OsvRun'
      PROVE  OsvInv'
  <2>1. Osv!TypeOK'
    BY <1>1, <1>5 DEF Osv!TypeOK, Osv!SyncRow, Osv!Instant, Osv!Null, OsvRunType, OsvRowType
  <2>2. DoneUpTo(row.lastSyncAt)'
    BY <1>2, <1>5 DEF OsvSound, DoneUpTo
  <2>3. QED
    BY <1>2, <1>5, <2>1, <2>2 DEF OsvInv, OsvSound
<1>6. CASE Osv!Tick
  <2>1. now' = now + 1 /\ UNCHANGED <<upstream, store, row, run, horizon, refused>>
    BY <1>6 DEF Osv!Tick
  <2>2. Osv!TypeOK'
    BY <1>1, <2>1 DEF Osv!TypeOK
  <2>3. OsvRun => OsvRun'
    <3>1. run.since < now => run.since < now'
      BY <1>1, <1>4, <2>1
    <3>2. OsvList => OsvList'
      BY <1>1, <1>4, <2>1, <3>1 DEF OsvList, Done, Listed
    <3>3. QED
      BY <2>1, <3>1, <3>2 DEF OsvRun, DoneUpTo, Done
  <2>4. OsvSound'
    BY <1>1, <1>2, <1>4, <2>1, <2>3 DEF OsvSound, DoneUpTo, Done
  <2>5. \A v \in Osv!Vuln : upstream'[v] <= now'
    BY <1>1, <1>2, <2>1
  <2>6. QED
    BY <1>2, <2>1, <2>2, <2>4, <2>5 DEF OsvInv, OsvTodo
<1>7. ASSUME NEW w \in Osv!Vuln, Osv!Modify(w) PROVE OsvInv'
  <2>1. /\ upstream' = [upstream EXCEPT ![w] = now] /\ row.lastSyncAt < now
        /\ UNCHANGED <<now, store, row, run, horizon, refused>>
    BY <1>7 DEF Osv!Modify
  <2>2. \A v \in Osv!Vuln : upstream'[v] = IF v = w THEN now ELSE upstream[v]
    BY <1>1, <2>1
  <2>3. Osv!TypeOK'
    BY <1>1, <2>1 DEF Osv!TypeOK
  <2>4. \A t \in Int : t < now /\ DoneUpTo(t) => DoneUpTo(t)'
    BY <1>1, <1>3, <2>1, <2>2 DEF DoneUpTo, Done
  <2>5. DoneUpTo(row.lastSyncAt)'
    BY <1>2, <1>4, <2>1, <2>4 DEF OsvSound, DoneUpTo
  <2>6. run.pc # "idle" => OsvRun'
    <3> SUFFICES ASSUME run.pc # "idle" PROVE OsvRun'
      OBVIOUS
    <3>1. OsvRun
      BY <1>2 DEF OsvSound
    <3>2. run.since < now
      BY <1>1, <1>4, <2>1, <3>1 DEF OsvRun, OsvList
    <3>3. DoneUpTo(run.since)'
      BY <1>4, <2>1, <2>4, <3>1, <3>2 DEF OsvRun, DoneUpTo
    <3>4. ASSUME run.pc # "list" PROVE OsvList'
      <4>1. OsvList
        BY <3>1, <3>4 DEF OsvRun
      <4>2. ASSUME NEW v \in Served, run.since < upstream'[v], upstream'[v] <= run.cursor
            PROVE  Done(v)' \/ <<v, upstream'[v]>> \in Listed
        <5>1. v # w
          BY <1>1, <1>3, <1>4, <2>2, <4>1, <4>2 DEF OsvList
        <5>2. upstream'[v] = upstream[v]
          BY <1>3, <2>2, <5>1
        <5>3. QED
          BY <2>1, <4>1, <4>2, <5>2 DEF OsvList, Done
      <4>3. QED
        BY <2>1, <4>1, <4>2 DEF OsvList, Listed
    <3>5. QED
      BY <2>1, <3>1, <3>3, <3>4 DEF OsvRun
  <2>7. OsvSound'
    BY <1>2, <2>1, <2>5, <2>6 DEF OsvSound
  <2>8. \A v \in Osv!Vuln : upstream'[v] <= now'
    BY <1>1, <1>2, <2>1, <2>2
  <2>9. QED
    BY <1>2, <2>1, <2>3, <2>7, <2>8 DEF OsvInv, OsvTodo
<1>8. ASSUME NEW capped \in BOOLEAN, Osv!Start(capped) PROVE OsvInv'
  <2>1. /\ UNCHANGED <<now, upstream, store, row, horizon, refused>>
        /\ run' = [pc |-> "list", since |-> row.lastSyncAt, capped |-> capped, todo |-> {},
                   cursor |-> -1, lastDone |-> -1, count |-> 0, errors |-> FALSE,
                   left |-> {}]
    BY <1>8 DEF Osv!Start, Osv!Idle, Osv!Null
  <2>2. run' \in OsvRunType
    BY <1>4, <2>1 DEF OsvRunType
  <2>3. OsvRun'
    BY <1>2, <1>4, <2>1 DEF OsvSound, OsvRun, DoneUpTo, Done
  <2>4. OsvTodo'
    BY <2>1, FS_EmptySet DEF OsvTodo
  <2>5. QED
    BY <1>1, <1>5, <2>1, <2>2, <2>3, <2>4 DEF Done
<1>9. CASE Osv!Backfill
  <2>1. PICK since \in 0..(now - 1) :
          /\ row.lastSyncAt = -1 \/ since <= row.lastSyncAt
          /\ run' = [Osv!Idle EXCEPT !.pc = "list", !.since = since]
          /\ horizon' = IF row.lastSyncAt = -1 /\ horizon <= since THEN since + 1
                        ELSE horizon
    BY <1>9 DEF Osv!Backfill, Osv!Null
  <2>2. UNCHANGED <<now, upstream, store, row, refused>>
    BY <1>9 DEF Osv!Backfill
  <2>3. run' = [pc |-> "list", since |-> since, capped |-> FALSE, todo |-> {},
                cursor |-> -1, lastDone |-> -1, count |-> 0, errors |-> FALSE, left |-> {}]
    BY <2>1 DEF Osv!Idle, Osv!Null
  <2>4. since \in Nat /\ since < now
    BY <1>1, <2>1
  <2>5. run' \in OsvRunType /\ horizon' \in Nat /\ horizon <= horizon'
    <3>1. run' \in OsvRunType
      BY <2>3, <2>4 DEF OsvRunType
    <3>2. horizon' \in Nat /\ horizon <= horizon'
      BY <1>1, <2>1, <2>4
    <3>3. QED
      BY <3>1, <3>2
  <2>6. Osv!TypeOK'
    BY <1>1, <2>2, <2>5
       DEF Osv!TypeOK, Osv!SyncRow, Osv!Instant, Osv!Null, OsvRunType, OsvRowType
  <2>7. \A w : DoneUpTo(w) => DoneUpTo(w)'
    BY <1>1, <1>3, <2>2, <2>5 DEF DoneUpTo, Done
  <2>8. DoneUpTo(row.lastSyncAt)'
    BY <1>2, <2>2, <2>7 DEF OsvSound, DoneUpTo
  <2>9. DoneUpTo(run.since)'
    <3>1. CASE row.lastSyncAt = -1
      <4>1. horizon' > since
        BY <1>1, <2>1, <2>4, <3>1
      <4>2. QED
        BY <1>3, <2>2, <2>3, <2>4, <2>5, <4>1 DEF DoneUpTo
    <3>2. CASE row.lastSyncAt # -1
      <4>1. since <= row.lastSyncAt /\ row.lastSyncAt \in Nat
        BY <1>4, <2>1, <3>2
      <4>2. QED
        BY <1>2, <1>3, <2>2, <2>3, <2>4, <2>8, <4>1 DEF DoneUpTo
    <3>3. QED
      BY <3>1, <3>2
  <2>10. OsvRun'
    BY <2>2, <2>3, <2>4, <2>9 DEF OsvRun
  <2>11. OsvTodo'
    BY <2>3, FS_EmptySet DEF OsvTodo
  <2>12. QED
    BY <1>2, <2>2, <2>6, <2>8, <2>10, <2>11 DEF OsvInv, OsvSound
<1>10. CASE Osv!FetchList
  <2>1. PICK entries :
          entries = {<<v, upstream[v]>> : v \in {u \in Osv!Vuln : upstream[u] > run.since}}
    OBVIOUS
  <2>2. PICK todo : todo = IF run.capped THEN Osv!Newest(MaxItems, entries) ELSE entries
    OBVIOUS
  <2>3. PICK cursor : cursor = Osv!Max({upstream[v] : v \in Osv!Vuln})
    OBVIOUS
  <2>4. /\ run.pc = "list" /\ now' = now + 1
        /\ UNCHANGED <<upstream, store, row, horizon, refused>>
        /\ run' = [run EXCEPT !.pc = "entries", !.todo = todo, !.left = entries \ todo,
                              !.cursor = cursor]
    BY <1>10, <2>1, <2>2, <2>3 DEF Osv!FetchList
  <2>5. entries \in SUBSET (Osv!Vuln \X Nat) /\ IsFiniteSet(entries)
    <3>1. PICK range : range = {u \in Osv!Vuln : upstream[u] > run.since}
      OBVIOUS
    <3>2. range \in SUBSET Osv!Vuln /\ entries = {<<v, upstream[v]>> : v \in range}
      BY <2>1, <3>1
    <3>3. IsFiniteSet(range)
      BY <3>2, OsvIds
    <3>4. PICK f : f = [v \in range |-> <<v, upstream[v]>>]
      OBVIOUS
    <3>5. f \in Surjection(range, entries)
      BY <3>2, <3>4 DEF Surjection
    <3>6. IsFiniteSet(entries)
      BY <3>3, <3>5, FS_Surjection
    <3>7. QED
      BY <1>1, <3>2, <3>6
  <2>6. todo \subseteq entries /\ IsFiniteSet(todo)
    <3>1. todo \subseteq entries
      BY <2>2 DEF Osv!Newest
    <3>2. QED
      BY <2>5, <3>1, FS_Subset
  <2>7. cursor \in Nat /\ cursor <= now /\ \A v \in Osv!Vuln : upstream[v] <= cursor
    <3>1. PICK times : times = {upstream[v] : v \in Osv!Vuln}
      OBVIOUS
    <3>2. times \in SUBSET Nat /\ times # {}
      BY <1>1, <3>1, OsvIds
    <3>3. \A t \in times : t <= now
      BY <1>2, <3>1
    <3>4. \E x \in times : \A y \in times : x >= y
      BY <1>1, <3>2, <3>3, GreatestElement
    <3>5. cursor \in times /\ \A y \in times : cursor >= y
      BY <2>3, <3>1, <3>4 DEF Osv!Max
    <3>6. QED
      BY <1>1, <3>1, <3>2, <3>3, <3>5
  <2>8. /\ run' \in OsvRunType /\ run'.pc = "entries" /\ run'.todo = todo
        /\ run'.left = entries \ todo
        /\ run'.cursor = cursor /\ run'.since = run.since /\ run'.lastDone = run.lastDone
        /\ run'.errors = run.errors
    BY <1>1, <2>4, <2>5, <2>6, <2>7 DEF OsvRunType
  <2>9. Osv!TypeOK'
    BY <1>1, <2>4, <2>8
       DEF Osv!TypeOK, Osv!SyncRow, Osv!Instant, Osv!Null, OsvRunType, OsvRowType
  <2>10. OsvRun /\ run.lastDone = -1
    BY <1>2, <2>4 DEF OsvSound, OsvRun
  <2>11. Listed' = entries
    BY <2>6, <2>8 DEF Listed
  <2>12. \A v \in Served : upstream[v] <= run.since \/ <<v, upstream[v]>> \in entries
    BY <1>3, <1>4, <2>1
  <2>13. OsvList'
    <3>1. run.since < now' /\ cursor < now' /\ -1 <= cursor
      BY <1>1, <1>2, <1>4, <2>4, <2>7, <2>10 DEF OsvRun, OsvSound
    <3>2. ASSUME NEW v \in Served, run.since < upstream[v]
          PROVE  <<v, upstream[v]>> \in entries
      BY <1>3, <1>4, <2>12, <3>2
    <3>3. ASSUME run.since = -1, NEW v \in Served PROVE \E e \in entries : e[1] = v
      <4>1. <<v, upstream[v]>> \in entries
        BY <1>3, <3>2, <3>3
      <4>2. QED
        BY <4>1
    <3>4. QED
      BY <2>4, <2>8, <2>10, <2>11, <3>1, <3>2, <3>3 DEF OsvList
  <2>14. DoneUpTo(run.since)' /\ DoneUpTo(row.lastSyncAt)'
    BY <1>2, <2>4, <2>8, <2>10 DEF OsvRun, OsvSound, DoneUpTo, Done
  <2>15. row.lastSyncAt <= now'
    BY <1>1, <1>2, <1>4, <2>4 DEF OsvSound
  <2>16. OsvSound'
    BY <2>4, <2>8, <2>13, <2>14, <2>15 DEF OsvSound, OsvRun
  <2>17. \A v \in Osv!Vuln : upstream'[v] <= now'
    BY <1>1, <1>2, <2>4
  <2>18. OsvTodo'
    <3>1. \A e \in entries : e[2] <= cursor
      BY <2>1, <2>7
    <3>2. QED
      BY <2>6, <2>8, <3>1 DEF OsvTodo
  <2>19. QED
    BY <2>9, <2>16, <2>17, <2>18 DEF OsvInv
\* A step of the loop: the entry that it takes, and what the list is without it.
<1>11. ASSUME run.todo # {}
       PROVE  /\ Osv!NextEntry \in run.todo /\ Osv!NextEntry \in Osv!Vuln \X Nat
              /\ Osv!NextEntry[1] \in Osv!Vuln
              /\ Osv!NextEntry[2] \in Nat /\ Osv!NextEntry[2] <= run.cursor
  <2>1. PICK e : e \in run.todo
    BY <1>11
  <2>2. e[2] \in Nat /\ e[2] <= run.cursor
    BY <1>2, <1>4, <2>1 DEF OsvTodo
  <2>3. run.cursor \in Nat
    BY <1>4, <2>2
  <2>4. Osv!NextEntry \in run.todo
    BY <1>1, <1>2, <1>11, <2>3, NextIsNewest DEF OsvTodo
  <2>5. QED
    BY <1>2, <1>4, <2>4 DEF OsvTodo
<1>12. \A todo \in SUBSET run.todo :
         IsFiniteSet(todo) /\ todo \in SUBSET (Osv!Vuln \X Nat)
         /\ \A e \in todo : e[2] <= run.cursor
  BY <1>2, <1>4, FS_Subset DEF OsvTodo
<1>13. ASSUME run.pc \in {"entries", "checkpoint"} PROVE OsvRun /\ OsvList
  BY <1>2, <1>13 DEF OsvSound, OsvRun
<1>14. CASE Osv!SkipGone
  <2>1. PICK e : e = Osv!NextEntry
    OBVIOUS
  <2>2. /\ run.pc = "entries" /\ e \in run.todo /\ e[1] \in Gone
        /\ UNCHANGED <<now, upstream, store, row, horizon, refused>>
        /\ run' = [run EXCEPT !.todo = run.todo \ {e}]
    BY <1>11, <1>14, <2>1 DEF Osv!SkipGone
  <2>3. PICK todo : todo = run.todo \ {e}
    OBVIOUS
  <2>4. todo \in SUBSET run.todo
    BY <2>3
  <2>5. /\ run' \in OsvRunType /\ run'.todo = todo /\ run'.pc = "entries"
        /\ run'.left = run.left /\ run'.cursor = run.cursor /\ run'.since = run.since
        /\ run'.lastDone = run.lastDone /\ run'.errors = run.errors
    BY <1>1, <1>12, <2>2, <2>3, <2>4 DEF OsvRunType
  <2>6. OsvTodo'
    BY <1>12, <2>4, <2>5 DEF OsvTodo
  <2>7. OsvRun'
    <3>1. OsvRun /\ OsvList
      BY <1>13, <2>2
    <3>2. \A f \in Listed : f[1] \in Served => f \in Listed'
      BY <2>2, <2>3, <2>5 DEF Listed, Served
    <3>3. OsvList'
      BY <2>2, <2>5, <3>1, <3>2 DEF OsvList, Done
    <3>4. QED
      BY <2>2, <2>5, <3>1, <3>3 DEF OsvRun, DoneUpTo, Done
  <2>8. QED
    BY <1>1, <1>5, <2>2, <2>5, <2>6, <2>7 DEF Done
<1>15. CASE Osv!Process
  <2>1. PICK e : e = Osv!NextEntry
    OBVIOUS
  <2>2. PICK count : count = IF run.capped THEN 0 ELSE run.count + 1
    OBVIOUS
  <2>3. PICK pc : pc = IF count >= CheckpointEvery THEN "checkpoint" ELSE "entries"
    OBVIOUS
  <2>4. PICK todo : todo = run.todo \ {e}
    OBVIOUS
  <2>5. /\ run.pc = "entries" /\ e \in run.todo
        /\ UNCHANGED <<now, upstream, row, horizon>>
        /\ store' = [store EXCEPT ![e[1]] = upstream[e[1]]]
        /\ run' = [run EXCEPT !.todo = todo, !.lastDone = e[2], !.count = count, !.pc = pc]
        /\ refused' = refused \ {<<e[1], upstream[e[1]]>>}
    BY <1>11, <1>15, <2>1, <2>2, <2>3, <2>4 DEF Osv!Process
  <2>6. e[1] \in Osv!Vuln /\ e[2] \in Nat /\ e[2] <= run.cursor
    BY <1>11, <2>1, <2>5
  <2>7. todo \in SUBSET run.todo /\ count \in Nat /\ pc \in {"entries", "checkpoint"}
    BY <1>4, <2>2, <2>3, <2>4
  <2>8. /\ run' \in OsvRunType /\ run'.todo = todo /\ run'.pc = pc
        /\ run'.left = run.left /\ run'.cursor = run.cursor /\ run'.since = run.since
        /\ run'.lastDone = e[2] /\ run'.errors = run.errors
    BY <1>1, <1>12, <2>5, <2>6, <2>7 DEF OsvRunType
  <2>9. OsvTodo'
    BY <1>12, <2>7, <2>8 DEF OsvTodo
  <2>10. /\ store' \in [Osv!Vuln -> Nat \cup {-1}]
         /\ \A v \in Osv!Vuln : store'[v] = IF v = e[1] THEN upstream[v] ELSE store[v]
    BY <1>1, <2>5, <2>6
  <2>11. \A v \in Served : v = e[1] => Done(v)'
    BY <1>3, <2>5, <2>10 DEF Done
  <2>12. \A v \in Served : Done(v) => Done(v)'
    BY <1>3, <2>5, <2>10, <2>11 DEF Done
  <2>13. OsvRun'
    <3>1. OsvRun /\ OsvList
      BY <1>13, <2>5
    <3>2. ASSUME NEW v \in Served, run.since < upstream[v], upstream[v] <= run.cursor
          PROVE  Done(v)' \/ <<v, upstream[v]>> \in Listed'
      <4>1. Done(v) \/ <<v, upstream[v]>> \in Listed
        BY <3>1, <3>2 DEF OsvList
      <4>2. v # e[1] => (<<v, upstream[v]>> \in Listed => <<v, upstream[v]>> \in Listed')
        BY <2>4, <2>8 DEF Listed
      <4>3. QED
        BY <2>11, <2>12, <4>1, <4>2
    <3>3. e[2] # -1
      BY <2>6
    <3>4. OsvList'
      BY <2>5, <2>6, <2>8, <3>1, <3>2, <3>3 DEF OsvList
    <3>5. DoneUpTo(run.since)'
      BY <2>5, <2>8, <2>12, <3>1 DEF OsvRun, DoneUpTo
    <3>6. QED
      BY <2>7, <2>8, <3>4, <3>5 DEF OsvRun
  <2>14. QED
    BY <1>1, <1>5, <2>5, <2>8, <2>9, <2>10, <2>12, <2>13
<1>16. CASE Osv!CheckpointFails
  <2>1. /\ run.pc = "checkpoint" /\ UNCHANGED <<now, upstream, store, row, horizon, refused>>
        /\ run' = [run EXCEPT !.pc = "entries", !.errors = TRUE]
    BY <1>16 DEF Osv!CheckpointFails
  <2>2. /\ run' \in OsvRunType /\ run'.todo = run.todo /\ run'.pc = "entries"
        /\ run'.left = run.left /\ run'.cursor = run.cursor /\ run'.since = run.since
        /\ run'.lastDone = run.lastDone /\ run'.errors = TRUE
    BY <1>1, <2>1 DEF OsvRunType
  <2>3. OsvRun'
    <3>1. OsvRun /\ OsvList
      BY <1>13, <2>1
    <3>2. OsvList'
      BY <2>1, <2>2, <3>1 DEF OsvList, Done, Listed
    <3>3. QED
      BY <2>1, <2>2, <3>1, <3>2 DEF OsvRun, DoneUpTo, Done
  <2>4. OsvTodo'
    BY <1>2, <2>2 DEF OsvTodo
  <2>5. QED
    BY <1>1, <1>5, <2>1, <2>2, <2>3, <2>4 DEF Done
<1>17. CASE Osv!EntryFails
  <2>1. PICK e : e = Osv!NextEntry
    OBVIOUS
  <2>2. PICK todo, left : todo = run.todo \ {e} /\ left = run.left \cup {e}
    OBVIOUS
  <2>3. /\ run.pc = "entries" /\ e \in run.todo
        /\ UNCHANGED <<now, upstream, store, row, horizon, refused>>
        /\ run' = [run EXCEPT !.todo = todo, !.errors = TRUE, !.left = left]
    BY <1>11, <1>17, <2>1, <2>2 DEF Osv!EntryFails
  <2>4. todo \in SUBSET run.todo /\ left \in SUBSET (Osv!Vuln \X Nat)
    BY <1>4, <2>2, <2>3
  <2>5. /\ run' \in OsvRunType /\ run'.todo = todo /\ run'.pc = "entries"
        /\ run'.left = left /\ run'.cursor = run.cursor /\ run'.since = run.since
        /\ run'.lastDone = run.lastDone /\ run'.errors = TRUE
    BY <1>1, <1>12, <2>3, <2>4 DEF OsvRunType
  <2>6. OsvTodo'
    BY <1>12, <2>4, <2>5 DEF OsvTodo
  <2>7. OsvRun'
    <3>1. OsvRun /\ OsvList
      BY <1>13, <2>3
    <3>2. Listed' = Listed
      BY <2>2, <2>3, <2>5 DEF Listed
    <3>3. OsvList'
      BY <2>3, <2>5, <3>1, <3>2 DEF OsvList, Done
    <3>4. QED
      BY <2>3, <2>5, <3>1, <3>3 DEF OsvRun, DoneUpTo, Done
  <2>8. QED
    BY <1>1, <1>5, <2>3, <2>5, <2>6, <2>7 DEF Done
\* The watermark moved over what the list holds: what it passes undone is put on record.
<1>18. ASSUME OsvRun, OsvList, NEW w \in Nat, w <= run.cursor,
              UNCHANGED <<now, upstream, store, horizon>>,
              refused' = refused \cup Osv!Claims(Listed, w)
       PROVE  DoneUpTo(w)'
  <2>1. ASSUME NEW v \in Served, horizon <= upstream[v], upstream[v] <= w
        PROVE  Done(v)'
    <3>1. Done(v) => Done(v)'
      BY <1>18 DEF Done
    <3>2. CASE upstream[v] <= run.since
      BY <1>18, <2>1, <3>1, <3>2 DEF OsvRun, DoneUpTo
    <3>3. CASE run.since < upstream[v]
      <4>1. upstream[v] <= run.cursor
        BY <1>3, <1>4, <1>18, <2>1
      <4>2. Done(v) \/ <<v, upstream[v]>> \in Listed
        BY <1>18, <3>3, <4>1 DEF OsvList
      <4>3. <<v, upstream[v]>> \in Listed => <<v, upstream[v]>> \in Osv!Claims(Listed, w)
        BY <2>1 DEF Osv!Claims
      <4>4. QED
        BY <1>18, <3>1, <4>2, <4>3 DEF Done
    <3>4. QED
      BY <1>3, <1>4, <3>2, <3>3
  <2>2. QED
    BY <1>18, <2>1 DEF DoneUpTo
<1>19. ASSUME NEW entries \in SUBSET (Osv!Vuln \X Nat), NEW w
       PROVE  Osv!Claims(entries, w) \in SUBSET (Osv!Vuln \X Nat)
  BY <1>1 DEF Osv!Claims
<1>20. CASE Osv!Checkpoint
  <2>1. /\ run.pc = "checkpoint" /\ UNCHANGED <<now, upstream, store, horizon>>
        /\ row' = [row EXCEPT !.lastSyncAt = run.lastDone,
                              !.lastCursor = IF run.cursor = -1 THEN row.lastCursor
                                             ELSE run.cursor]
        /\ run' = [run EXCEPT !.pc = "entries", !.count = 0]
        /\ refused' = refused \cup Osv!Claims(Listed, run.lastDone)
    BY <1>20 DEF Osv!Checkpoint, Osv!MarkProgress, Osv!Null, Listed
  <2>2. row' \in OsvRowType /\ row'.lastSyncAt = run.lastDone
    BY <1>1, <1>4, <2>1 DEF OsvRowType
  <2>3. /\ run' \in OsvRunType /\ run'.todo = run.todo /\ run'.pc = "entries"
        /\ run'.left = run.left /\ run'.cursor = run.cursor /\ run'.since = run.since
        /\ run'.lastDone = run.lastDone /\ run'.errors = run.errors
    BY <1>1, <2>1 DEF OsvRunType
  <2>4. refused' \in SUBSET (Osv!Vuln \X Nat)
    BY <1>1, <1>4, <1>19, <2>1 DEF Listed
  <2>5. Osv!TypeOK'
    BY <1>1, <2>1, <2>2, <2>3, <2>4
       DEF Osv!TypeOK, Osv!SyncRow, Osv!Instant, Osv!Null, OsvRunType, OsvRowType
  <2>6. OsvRun /\ OsvList
    BY <1>13, <2>1
  <2>7. run.lastDone \in Nat /\ run.lastDone <= run.cursor /\ run.lastDone <= now
    BY <1>1, <1>4, <2>1, <2>6 DEF OsvList
  <2>8. DoneUpTo(row.lastSyncAt)'
    <3>1. DoneUpTo(run.lastDone)'
      BY <1>18, <2>1, <2>6, <2>7
    <3>2. QED
      BY <2>2, <2>3, <3>1 DEF DoneUpTo
  <2>9. OsvRun'
    <3>1. \A v \in Served : Done(v) => Done(v)'
      BY <2>1 DEF Done
    <3>2. OsvList'
      BY <2>1, <2>3, <2>6, <3>1 DEF OsvList, Listed
    <3>3. QED
      BY <2>1, <2>3, <2>6, <3>1, <3>2 DEF OsvRun, DoneUpTo
  <2>10. OsvSound'
    BY <2>1, <2>2, <2>7, <2>8, <2>9 DEF OsvSound
  <2>11. OsvTodo' /\ \A v \in Osv!Vuln : upstream'[v] <= now'
    BY <1>2, <2>1, <2>3 DEF OsvTodo
  <2>12. QED
    BY <2>5, <2>10, <2>11 DEF OsvInv
\* The ends of a run.
<1>21. ASSUME UNCHANGED <<now, upstream, store, horizon>>, run' = Osv!Idle,
              row' \in OsvRowType, refused' \in SUBSET (Osv!Vuln \X Nat),
              row'.lastSyncAt <= now, DoneUpTo(row.lastSyncAt)'
       PROVE  OsvInv'
  <2>1. run' \in OsvRunType /\ run'.pc = "idle" /\ OsvTodo'
    <3>1. OsvTodo'
      BY <1>21, FS_EmptySet DEF OsvTodo, Osv!Idle
    <3>2. QED
      BY <1>21, <3>1, OsvIdle
  <2>2. Osv!TypeOK'
    BY <1>1, <1>21, <2>1
       DEF Osv!TypeOK, Osv!SyncRow, Osv!Instant, Osv!Null, OsvRunType, OsvRowType
  <2>3. OsvSound'
    BY <1>21, <2>1 DEF OsvSound
  <2>4. QED
    BY <1>2, <1>21, <2>1, <2>2, <2>3 DEF OsvInv
<1>22. row.lastSyncAt <= now /\ DoneUpTo(row.lastSyncAt)
  BY <1>2 DEF OsvSound
<1>23. CASE Osv!Finish
  <2>1. PICK watermark :
          watermark = Osv!OrElse(run.lastDone, Osv!OrElse(run.since, now))
    OBVIOUS
  <2>2. PICK cursor : cursor = IF run.capped THEN -1 ELSE run.cursor
    OBVIOUS
  <2>3. /\ run.pc = "entries" /\ run.todo = {} /\ run' = Osv!Idle
        /\ UNCHANGED <<now, upstream, store, horizon>>
        /\ row' = IF run.errors THEN [row EXCEPT !.lastError = TRUE]
                  ELSE [row EXCEPT !.lastSyncAt = watermark, !.lastCursor = cursor,
                                   !.lastError = FALSE]
        /\ refused' = IF run.errors THEN refused
                      ELSE refused \cup Osv!Claims(run.left, watermark)
    BY <1>23, <2>1, <2>2 DEF Osv!Finish, Osv!MarkError, Osv!MarkSuccess, Osv!Null
  <2>4. /\ cursor \in Nat \cup {-1} /\ watermark \in Nat
        /\ watermark = IF run.lastDone # -1 THEN run.lastDone
                       ELSE IF run.since # -1 THEN run.since ELSE now
    BY <1>1, <1>4, <2>1, <2>2 DEF Osv!OrElse, Osv!Null
  <2>5. row' \in OsvRowType
    BY <1>1, <2>3, <2>4 DEF OsvRowType
  <2>6. row'.lastSyncAt = IF run.errors THEN row.lastSyncAt ELSE watermark
    BY <1>1, <2>3 DEF OsvRowType
  <2>7. refused' \in SUBSET (Osv!Vuln \X Nat)
    BY <1>1, <1>4, <1>19, <2>3
  <2>8. OsvRun /\ OsvList /\ Listed = run.left
    BY <1>13, <2>3 DEF Listed
  <2>9. row'.lastSyncAt <= now /\ DoneUpTo(row.lastSyncAt)'
    <3>1. CASE run.errors
      BY <1>22, <2>3, <2>6, <3>1 DEF DoneUpTo, Done
    <3>2. CASE ~run.errors /\ run.lastDone # -1
      <4>1. watermark = run.lastDone /\ watermark <= run.cursor /\ watermark <= now
        BY <1>1, <1>4, <2>4, <2>8, <3>2 DEF OsvList
      <4>2. DoneUpTo(watermark)'
        BY <1>18, <2>3, <2>4, <2>8, <3>2, <4>1
      <4>3. QED
        BY <2>6, <3>2, <4>1, <4>2 DEF DoneUpTo
    <3>3. CASE ~run.errors /\ run.lastDone = -1 /\ run.since # -1
      <4>1. row'.lastSyncAt = run.since /\ run.since <= now
        BY <1>1, <1>4, <2>4, <2>6, <2>8, <3>3 DEF OsvList
      <4>2. QED
        BY <2>3, <2>8, <3>3, <4>1 DEF OsvRun, DoneUpTo, Done
    <3>4. CASE ~run.errors /\ run.lastDone = -1 /\ run.since = -1
      <4>1. row'.lastSyncAt = now
        BY <2>4, <2>6, <3>4
      <4>2. ASSUME NEW v \in Served PROVE Done(v)'
        <5>1. PICK e \in run.left : e[1] = v
          BY <2>8, <3>4 DEF OsvList
        <5>2. <<v, upstream[v]>> \in Osv!Claims(run.left, now)
          BY <1>3, <5>1 DEF Osv!Claims
        <5>3. QED
          BY <2>3, <2>4, <3>4, <5>2 DEF Done
      <4>3. QED
        BY <1>1, <4>1, <4>2 DEF DoneUpTo
    <3>5. QED
      BY <3>1, <3>2, <3>3, <3>4
  <2>10. QED
    BY <1>21, <2>3, <2>5, <2>7, <2>9
<1>24. CASE Osv!ListFails
  <2>1. /\ run' = Osv!Idle /\ UNCHANGED <<now, upstream, store, horizon, refused>>
        /\ row' = [row EXCEPT !.lastError = TRUE]
    BY <1>24 DEF Osv!ListFails, Osv!MarkError
  <2>2. row' \in OsvRowType /\ row'.lastSyncAt = row.lastSyncAt
    BY <1>1, <2>1 DEF OsvRowType
  <2>3. DoneUpTo(row.lastSyncAt)'
    BY <1>22, <2>1, <2>2 DEF DoneUpTo, Done
  <2>4. QED
    BY <1>1, <1>21, <1>22, <2>1, <2>2, <2>3
<1>25. CASE Osv!Crash
  <2>1. run' = Osv!Idle /\ UNCHANGED <<now, upstream, store, row, horizon, refused>>
    BY <1>25 DEF Osv!Crash
  <2>2. DoneUpTo(row.lastSyncAt)'
    BY <1>22, <2>1 DEF DoneUpTo, Done
  <2>3. QED
    BY <1>1, <1>21, <1>22, <2>1, <2>2
<1>26. CASE UNCHANGED Osv!vars
  <2>1. UNCHANGED <<now, upstream, store, row, run, horizon, refused>>
    BY <1>26 DEF Osv!vars
  <2>2. Osv!TypeOK'
    BY <1>1, <2>1 DEF Osv!TypeOK
  <2>3. OsvSound'
    BY <1>2, <2>1 DEF OsvSound, OsvRun, OsvList, DoneUpTo, Done, Listed
  <2>4. QED
    BY <1>2, <2>1, <2>2, <2>3 DEF OsvInv, OsvTodo
<1>27. QED
  BY <1>6, <1>7, <1>8, <1>9, <1>10, <1>14, <1>15, <1>16, <1>17, <1>20, <1>23, <1>24, <1>25,
     <1>26 DEF Osv!Next

\* What the watermark of OSV claims is stored or was passed by it undone, whatever fails, restarts
\* or is read back.
THEOREM OsvWatermarkCorrect == MonitorSafety => []OsvWatermark
<1> DEFINE I == part = "osv" => OsvInv
<1>1. MonitorInit => I
  BY OsvInit DEF MonitorInit
<1>2. I /\ [MonitorNext]_monitorVars => I'
  <2>1. SUFFICES ASSUME OsvInv, part = "osv", [MonitorNext]_monitorVars PROVE OsvInv'
    BY DEF MonitorNext, monitorVars, Collects, InPage, InTotals
  <2>2. QED
    BY <2>1, OsvSteps, OsvStep
<1>3. I => OsvWatermark
  BY DEF OsvWatermark, OsvInv, OsvSound, DoneUpTo, Done, Served, Osv!LossesAccounted
<1> HIDE DEF I
<1>4. QED
  BY <1>1, <1>2, <1>3, PTL DEF MonitorSafety
=============================================================================
