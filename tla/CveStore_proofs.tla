-------------------------- MODULE CveStore_proofs --------------------------
(***************************************************************************)
(* Proofs about the row of a vulnerability, for any number of scores,      *)
(* labels and documents the sources deliver, and however many upserts      *)
(* overlap: its score and its label come from the same source, an upsert   *)
(* that is alone loses nothing but the lists it replaces, and the backfill *)
(* overwrites nothing.                                                     *)
(***************************************************************************)
EXTENDS CveStore, WellFoundedInduction, FiniteSetTheorems, TLAPS

\* NVD says UNKNOWN of a score it gives no severity with (nvd.collector.ts:258), and GitHub gives
\* every advisory a severity.
ScoredAreLabelled == \A s \in DOMAIN Offers : \A o \in Offers[s] : o[1] # NoScore => o[2] # NoLabel

Pair == Score \X Label

-----------------------------------------------------------------------------
(***************************************************************************)
(* What the sources deliver.                                               *)
(***************************************************************************)

LEMMA LabelOfScore ==
  ASSUME NEW score \in Score, score # NoScore, NEW version
  PROVE  SeverityFromScore(score, version) \in Severity
<1>1. CASE score >= 90 /\ version # "2.0"
  BY <1>1 DEF SeverityFromScore, Severity, Score, NoScore
<1>2. CASE score >= 70 /\ ~(score >= 90 /\ version # "2.0")
  BY <1>2 DEF SeverityFromScore, Severity, Score, NoScore
<1>3. CASE score \in 40..69
  BY <1>3 DEF SeverityFromScore, Severity, Score, NoScore
<1>4. CASE score \in 0..39
  BY <1>4 DEF SeverityFromScore, Severity, Score, NoScore
<1>5. score >= 70 \/ score \in 40..69 \/ score \in 0..39
  BY DEF Score, NoScore
<1>6. QED
  BY <1>1, <1>2, <1>3, <1>4, <1>5

\* Every set of naturals that is not empty has a least element.
LEMMA LeastElement ==
  ASSUME NEW T \in SUBSET Nat, T # {}
  PROVE  \E x \in T : \A y \in T : x <= y
<1>1. PICK n \in T : TRUE
  OBVIOUS
<1> DEFINE F == {0..k : k \in T \cap 0..n}
<1>2. IsFiniteSet(0..n)
  BY FS_Interval
<1>3. F \in SUBSET SUBSET (0..n) /\ F # {}
  BY <1>1
<1> HIDE DEF F
<1>4. \E X \in F : \A Y \in F : ~ (<<Y, X>> \in StrictSubsetOrdering(0..n))
  <2>1. IsWellFoundedOn(StrictSubsetOrdering(0..n), SUBSET (0..n))
    BY <1>2, FS_FiniteSubsetsOfFinite, FS_StrictSubsetOrderingWellFounded
  <2>2. QED
    BY <1>3, <2>1, WFMin
<1>5. PICK X \in F : \A Y \in F : ~ (Y \subseteq X /\ Y # X)
  BY <1>3, <1>4 DEF StrictSubsetOrdering
<1>6. PICK k \in T \cap 0..n : X = 0..k
  BY DEF F
<1>7. ASSUME NEW y \in T, y < k PROVE FALSE
  <2>1. 0..y \in F /\ 0..y \subseteq X /\ k \in X /\ k \notin 0..y
    BY <1>6, <1>7 DEF F
  <2>2. QED
    BY <1>5, <2>1
<1>8. \A y \in T : k <= y
  BY <1>7
<1>9. QED
  BY <1>8

LEMMA MinIn ==
  ASSUME NEW T \in SUBSET Nat, T # {}
  PROVE  Min(T) \in T
  BY LeastElement DEF Min

\* resolveOsvSeverity() gives a score of a vector, with a label, or none.
LEMMA ResolvePair ==
  ASSUME NEW doc \in OsvDoc
  PROVE  /\ Resolve(doc) \in Pair
         /\ Resolve(doc)[1] # NoScore => Resolve(doc)[2] # NoLabel
<1> DEFINE scored == {i \in DOMAIN doc.vectors : doc.vectors[i].score # NoScore}
           v31 == {i \in scored : doc.vectors[i].version = "3.1"}
           best == doc.vectors[Min(IF v31 = {} THEN scored ELSE v31)]
<1>0. /\ doc.label \in Label /\ DOMAIN doc.vectors \subseteq Nat
      /\ \A i \in DOMAIN doc.vectors : doc.vectors[i].score \in Score
  <2>1. PICK V : V = [version : {"2.0", "3.0", "3.1", "4.0"}, score : Score]
    OBVIOUS
  <2>2. doc.label \in Label /\ doc.vectors \in Seq(V)
    BY <2>1 DEF OsvDoc
  <2>3. DOMAIN doc.vectors = 1..Len(doc.vectors) /\ Len(doc.vectors) \in Nat
        /\ \A i \in DOMAIN doc.vectors : doc.vectors[i] \in V
    BY <2>2
  <2>4. QED
    BY <2>1, <2>2, <2>3
<1>1. CASE scored = {}
  <2>1. Resolve(doc) = <<NoScore, doc.label>>
    BY <1>1 DEF Resolve
  <2>2. QED
    BY <1>0, <2>1 DEF Pair, Score, NoScore
<1>2. CASE scored # {}
  <2>1. Min(IF v31 = {} THEN scored ELSE v31) \in scored
    <3>1. (IF v31 = {} THEN scored ELSE v31) \in SUBSET Nat
      BY <1>0
    <3>2. (IF v31 = {} THEN scored ELSE v31) # {}
      BY <1>2
    <3>3. Min(IF v31 = {} THEN scored ELSE v31) \in (IF v31 = {} THEN scored ELSE v31)
      BY <3>1, <3>2, MinIn
    <3>4. QED
      BY <3>3
  <2>2. best.score \in Score /\ best.score # NoScore
    BY <1>0, <2>1
  <2>3. Resolve(doc) = <<best.score, SeverityFromScore(best.score, best.version)>>
    BY <1>2 DEF Resolve
  <2> HIDE DEF best, scored, v31
  <2>4. SeverityFromScore(best.score, best.version) \in Severity
    BY <2>2, LabelOfScore
  <2>5. QED
    BY <2>2, <2>3, <2>4 DEF Pair, Label, Severity, NoLabel
<1>3. QED
  BY <1>1, <1>2

LEMMA NoDocPair == NoDoc \in OsvDoc /\ Resolve(NoDoc) = NoBatch
<1>1. NoDoc \in OsvDoc
  BY DEF NoDoc, OsvDoc, Label
<1>2. DOMAIN NoDoc.vectors = {}
  BY DEF NoDoc
<1>3. QED
  BY <1>1, <1>2 DEF Resolve, NoBatch, NoDoc

LEMMA NoBatchPair == NoBatch \in Pair
  BY DEF NoBatch, Pair, Score, NoScore, Label

\* The pairs of a score and a label that a source may give.
Given ==
  (UNION {Offers[s] : s \in DOMAIN Offers}) \cup {Resolve(doc) : doc \in OsvDocs} \cup {NoBatch}

LEMMA GivenPairs ==
  /\ Given \subseteq Pair /\ NoBatch \in Given
  /\ \A doc \in OsvDocs \cup {NoDoc} : Resolve(doc) \in Given
  /\ \A s \in {"nvd", "github"} : Offers[s] \subseteq Given
<1>1. \A s \in DOMAIN Offers : Offers[s] \subseteq Pair
  BY CveStoreAssumption DEF CveStoreAssumption, Pair
<1>2. \A doc \in OsvDocs : Resolve(doc) \in Pair
  BY CveStoreAssumption, ResolvePair DEF CveStoreAssumption
<1>3. DOMAIN Offers = {"nvd", "github"}
  BY CveStoreAssumption DEF CveStoreAssumption
<1>4. QED
  BY <1>1, <1>2, <1>3, NoBatchPair, NoDocPair DEF Given

\* A pair with a score has a label.
LEMMA GivenLabelled ==
  ASSUME ScoredAreLabelled, NEW p \in Given, p[1] # NoScore
  PROVE  p[2] # NoLabel
<1>1. CASE \E s \in DOMAIN Offers : p \in Offers[s]
  BY <1>1 DEF ScoredAreLabelled
<1>2. CASE \E doc \in OsvDocs : p = Resolve(doc)
  BY <1>2, CveStoreAssumption, ResolvePair DEF CveStoreAssumption
<1>3. CASE p = NoBatch
  BY <1>3 DEF NoBatch
<1>4. QED
  BY <1>1, <1>2, <1>3 DEF Given

-----------------------------------------------------------------------------
(***************************************************************************)
(* Types.                                                                  *)
(***************************************************************************)

Upsert == [pc : {"idle", "write"}, existing : Row, data : Data]

LEMMA NoRowTypes == NoRow \in Row /\ NoData \in Data /\ Idle \in Upsert
<1>1. NoScore \in Score /\ NoScore \in NoScore..LastDay /\ NoLabel \in Label
  BY CveStoreAssumption DEF CveStoreAssumption, NoScore, Score, Label
<1>2. QED
  BY <1>1 DEF NoRow, NoData, Idle, Row, Data, Upsert

\* What a source delivers.
LEMMA EntryTypes ==
  ASSUME NEW p \in Given, NEW e \in NoScore..LastDay, NEW l \in BOOLEAN \X BOOLEAN,
         NEW doc \in OsvDocs \cup {NoDoc}
  PROVE  Entry(p, e, l, doc) \in Data
  BY GivenPairs DEF Entry, Data, Pair

LEMMA EntriesGiven ==
  ASSUME day \in 1..LastDay, NEW s \in {"nvd", "github", "osv"}, NEW data \in Entries(s)
  PROVE  data \in Data /\ <<data.score, data.label>> \in Given
<1>1. NoScore \in NoScore..LastDay /\ day \in NoScore..LastDay
  BY CveStoreAssumption DEF CveStoreAssumption, NoScore
<1>2. PICK p \in Given, e \in NoScore..LastDay, l \in BOOLEAN \X BOOLEAN,
           doc \in OsvDocs \cup {NoDoc} : data = Entry(p, e, l, doc)
  <2>0. Lists[s] \subseteq BOOLEAN \X BOOLEAN
    BY CveStoreAssumption DEF CveStoreAssumption
  <2>1. CASE s = "nvd"
    BY <1>1, <2>0, <2>1, GivenPairs DEF Entries
  <2>2. CASE s = "github"
    BY <1>1, <2>0, <2>2, GivenPairs DEF Entries
  <2>3. CASE s = "osv"
    BY <1>1, <2>0, <2>3, GivenPairs DEF Entries
  <2>4. QED
    BY <2>1, <2>2, <2>3
<1>3. p = <<p[1], p[2]>>
  BY GivenPairs DEF Pair
<1>4. QED
  BY <1>2, <1>3, EntryTypes DEF Entry

LEMMA MergeTypes ==
  ASSUME NEW s \in Source, NEW existing \in Row, NEW data \in Data
  PROVE  /\ Merge(s, existing, data) \in Row
         /\ Created(s, data) \in Row
<1>1. Higher(existing.score, data.score) \in Score
  BY DEF Higher, Row, Data
<1>2. MergedLabel(existing, data) \in Label
  BY DEF MergedLabel, ElseLabel, Row, Data
<1>3. MergedDesc(s, existing, data) \in Source \cup {"none"}
  BY DEF MergedDesc, Row
<1>4. Else(data.epss, existing.epss) \in NoScore..LastDay
  BY DEF Else, Row, Data
<1>5. /\ MergedList(GivesRefs, s, existing.refs, data.refs) \in GivesRefs \cup {"none"}
      /\ MergedList(GivesPkgs, s, existing.pkgs, data.pkgs) \in GivesPkgs \cup {"none"}
      /\ MergedList(GivesRefs, s, "none", data.refs) \in GivesRefs \cup {"none"}
      /\ MergedList(GivesPkgs, s, "none", data.pkgs) \in GivesPkgs \cup {"none"}
  BY DEF MergedList, Row, Data
<1>6. Merge(s, existing, data) \in Row
  BY <1>1, <1>2, <1>3, <1>4, <1>5 DEF Merge, Row, Data
<1>7. Created(s, data) \in Row
  BY <1>5 DEF Created, Row, Data
<1>8. QED
  BY <1>6, <1>7

LEMMA TypeInit == Init => TypeOK
<1> SUFFICES ASSUME Init PROVE TypeOK
  OBVIOUS
<1>1. \A doc \in OsvDocs : LegacyRow(doc) \in Row
  BY NoRowTypes DEF LegacyRow, Row, Source
<1>2. row \in Row
  BY <1>1, NoRowTypes DEF Init
<1>3. script \in Score \X Label
  BY NoBatchPair DEF Init, Pair
<1>4. left \in [Source \ {"kev"} -> 0..Deliveries] /\ day \in 1..LastDay
  BY CveStoreAssumption DEF Init, CveStoreAssumption
<1>5. QED
  BY <1>2, <1>3, <1>4, NoRowTypes DEF Init, TypeOK, Upsert

LEMMA TypeStep == TypeOK /\ [Next]_vars => TypeOK'
<1> SUFFICES ASSUME TypeOK, [Next]_vars PROVE TypeOK'
  OBVIOUS
<1>0. upsert \in [Source -> Upsert]
  BY DEF TypeOK, Upsert
<1>1. ASSUME NEW s \in Source, Find(s) PROVE TypeOK'
  <2>1. s \in {"nvd", "github", "osv"}
    BY <1>1 DEF Find, Source
  <2>2. PICK data \in Entries(s) :
          upsert' = [upsert EXCEPT ![s] = [pc |-> "write", existing |-> row, data |-> data]]
    BY <1>1 DEF Find
  <2>3. data \in Data
    BY <2>1, EntriesGiven DEF TypeOK
  <2>4. [pc |-> "write", existing |-> row, data |-> data] \in Upsert
    BY <2>3 DEF Upsert, TypeOK
  <2>5. upsert' \in [Source -> Upsert]
    BY <1>0, <2>2, <2>4
  <2>6. left' \in [Source \ {"kev"} -> 0..Deliveries]
    BY <1>1, CveStoreAssumption DEF Find, TypeOK, CveStoreAssumption
  <2>7. QED
    BY <1>1, <2>5, <2>6 DEF Find, TypeOK, Upsert
<1>2. CASE FindKev
  <2>1. [NoData EXCEPT !.desc = TRUE, !.isKev = TRUE] \in Data
    BY NoRowTypes DEF Data
  <2>2. [pc |-> "write", existing |-> row, data |-> [NoData EXCEPT !.desc = TRUE, !.isKev = TRUE]]
          \in Upsert
    BY <2>1 DEF Upsert, TypeOK
  <2>3. upsert' \in [Source -> Upsert]
    BY <1>0, <1>2, <2>2 DEF FindKev
  <2>4. QED
    BY <1>2, <2>3 DEF FindKev, TypeOK, Upsert
<1>3. ASSUME NEW s \in Source, Write(s) PROVE TypeOK'
  <2>1. upsert[s].existing \in Row /\ upsert[s].data \in Data
    BY <1>0 DEF Upsert
  <2>2. row' \in Row
    BY <1>3, <2>1, MergeTypes DEF Write, TypeOK
  <2>3. upsert' \in [Source -> Upsert]
    BY <1>0, <1>3, NoRowTypes DEF Write
  <2>4. QED
    BY <1>3, <2>2, <2>3 DEF Write, TypeOK, Upsert
<1>4. ASSUME NEW s \in Source, Drop(s) PROVE TypeOK'
  <2>1. upsert' \in [Source -> Upsert]
    BY <1>0, <1>4, NoRowTypes DEF Drop
  <2>2. QED
    BY <1>4, <2>1 DEF Drop, TypeOK, Upsert
<1>5. CASE NextDay
  BY <1>5, CveStoreAssumption DEF NextDay, TypeOK, CveStoreAssumption
<1>6. CASE RefreshEpss
  <2>1. day \in NoScore..LastDay
    BY CveStoreAssumption DEF CveStoreAssumption, TypeOK, NoScore
  <2>2. QED
    BY <1>6, <2>1 DEF RefreshEpss, TypeOK, Row
<1>7. CASE ReadBatch
  <2>1. row.rawOsv \in OsvDocs \cup {NoDoc}
    BY DEF TypeOK, Row
  <2>2. QED
    BY <1>7, <2>1, GivenPairs DEF ReadBatch, TypeOK, Pair
<1>8. CASE WriteBatch
  <2>1. Else(row.score, script[1]) \in Score /\ script[2] \in Label
    BY DEF Else, TypeOK, Row
  <2>2. row' \in Row
    BY <1>8, <2>1 DEF WriteBatch, TypeOK, Row
  <2>3. script' \in Score \X Label
    BY <1>8, NoBatchPair DEF WriteBatch, Pair
  <2>4. QED
    BY <1>8, <2>2, <2>3 DEF WriteBatch, TypeOK
<1>9. CASE UNCHANGED vars
  BY <1>9 DEF vars, TypeOK
<1>10. QED
  BY <1>1, <1>2, <1>3, <1>4, <1>5, <1>6, <1>7, <1>8, <1>9 DEF Next

\* The row, and what the upserts and the script hold, have their types.
THEOREM TypeCorrect == Spec => []TypeOK
  BY TypeInit, TypeStep, PTL DEF Spec

-----------------------------------------------------------------------------
(***************************************************************************)
(* LabelFollowsScore.  What upserts have read and what they bring are      *)
(* pairs somebody gave as well, and a row without a label has no score.    *)
(***************************************************************************)

PairOf(r) == <<r.score, r.label>>

Pairs ==
  /\ PairOf(row) \in Given /\ script \in Given
  /\ \A s \in Source : PairOf(upsert[s].existing) \in Given /\ PairOf(upsert[s].data) \in Given

\* mergeSeverity() takes the label of the score that pickHigher() takes.
LEMMA MergePair ==
  ASSUME ScoredAreLabelled, NEW s \in Source, NEW existing \in Row, NEW data \in Data,
         PairOf(existing) \in Given, PairOf(data) \in Given
  PROVE  PairOf(Merge(s, existing, data)) \in {PairOf(existing), PairOf(data)}
<1>1. /\ existing.score # NoScore => existing.label # NoLabel
      /\ data.score # NoScore => data.label # NoLabel
  BY GivenLabelled DEF PairOf
<1>2. /\ existing.score \in Score /\ data.score \in Score
      /\ Merge(s, existing, data).score = Higher(existing.score, data.score)
      /\ Merge(s, existing, data).label = MergedLabel(existing, data)
  BY DEF Merge, Row, Data
<1>3. CASE data.score = NoScore \/ data.score < existing.score
  <2>1. Higher(existing.score, data.score) = existing.score
    BY <1>2, <1>3 DEF Higher, Score, NoScore
  <2>2. existing.label = NoLabel => existing.score = NoScore /\ data.score = NoScore
    BY <1>1, <1>2, <1>3 DEF Score, NoScore
  <2>3. MergedLabel(existing, data) =
          IF existing.label = NoLabel THEN data.label ELSE existing.label
    BY <1>3 DEF MergedLabel, ElseLabel
  <2>4. QED
    BY <1>2, <2>1, <2>2, <2>3 DEF PairOf
<1>4. CASE ~(data.score = NoScore \/ data.score < existing.score)
  <2>1. Higher(existing.score, data.score) = data.score
    BY <1>2, <1>4 DEF Higher, Score, NoScore
  <2>2. MergedLabel(existing, data) = data.label
    BY <1>1, <1>4 DEF MergedLabel, ElseLabel
  <2>3. QED
    BY <1>2, <2>1, <2>2 DEF PairOf
<1>5. QED
  BY <1>3, <1>4

LEMMA PairsInit == Init => Pairs
<1>1. PairOf(NoRow) = NoBatch /\ PairOf(NoData) = NoBatch
  BY DEF PairOf, NoRow, NoData, NoBatch
<1>2. \A doc \in OsvDocs : PairOf(LegacyRow(doc)) = NoBatch
  BY DEF PairOf, LegacyRow, NoRow, NoBatch
<1>3. QED
  BY <1>1, <1>2, GivenPairs DEF Init, Pairs, Idle

LEMMA PairsStep == ScoredAreLabelled /\ TypeOK /\ Pairs /\ [Next]_vars => Pairs'
<1> SUFFICES ASSUME ScoredAreLabelled, TypeOK, Pairs, [Next]_vars PROVE Pairs'
  OBVIOUS
<1>0. /\ upsert \in [Source -> Upsert]
      /\ PairOf(NoRow) \in Given /\ PairOf(NoData) \in Given
      /\ PairOf(Idle.existing) \in Given /\ PairOf(Idle.data) \in Given
  BY GivenPairs DEF TypeOK, Upsert, PairOf, NoRow, NoData, NoBatch, Idle
<1>1. ASSUME NEW s \in Source, Find(s) PROVE Pairs'
  <2>1. s \in {"nvd", "github", "osv"}
    BY <1>1 DEF Find, Source
  <2>2. PICK data \in Entries(s) :
          upsert' = [upsert EXCEPT ![s] = [pc |-> "write", existing |-> row, data |-> data]]
    BY <1>1 DEF Find
  <2>3. PairOf(data) \in Given
    BY <2>1, EntriesGiven DEF TypeOK, PairOf
  <2>4. QED
    BY <1>0, <1>1, <2>2, <2>3 DEF Find, Pairs
<1>2. CASE FindKev
  <2>1. PICK data : /\ data = [NoData EXCEPT !.desc = TRUE, !.isKev = TRUE]
                    /\ PairOf(data) = PairOf(NoData)
    <3>1. PairOf([NoData EXCEPT !.desc = TRUE, !.isKev = TRUE]) = PairOf(NoData)
      BY DEF PairOf, NoData
    <3>2. QED
      BY <3>1
  <2>2. upsert' = [upsert EXCEPT !["kev"] = [pc |-> "write", existing |-> row, data |-> data]]
    BY <1>2, <2>1 DEF FindKev
  <2>3. QED
    BY <1>0, <1>2, <2>1, <2>2 DEF FindKev, Pairs
<1>3. ASSUME NEW s \in Source, Write(s) PROVE Pairs'
  <2>1. upsert[s].existing \in Row /\ upsert[s].data \in Data
    BY <1>0 DEF Upsert
  <2>2. PairOf(Created(s, upsert[s].data)) = PairOf(upsert[s].data)
    BY DEF PairOf, Created
  <2>3. PairOf(row') \in Given
    BY <1>3, <2>1, <2>2, MergePair DEF Write, Pairs
  <2>4. QED
    BY <1>0, <1>3, <2>3 DEF Write, Pairs, PairOf
<1>4. ASSUME NEW s \in Source, Drop(s) PROVE Pairs'
  BY <1>0, <1>4 DEF Drop, Pairs, PairOf
<1>5. CASE NextDay
  BY <1>5 DEF NextDay, Pairs, PairOf
<1>6. CASE RefreshEpss
  <2>1. PairOf(row') = PairOf(row)
    BY <1>6 DEF RefreshEpss, PairOf, TypeOK, Row
  <2>2. QED
    BY <1>6, <2>1 DEF RefreshEpss, Pairs, PairOf
<1>7. CASE ReadBatch
  <2>1. row.rawOsv \in OsvDocs \cup {NoDoc}
    BY DEF TypeOK, Row
  <2>2. QED
    BY <1>7, <2>1, GivenPairs DEF ReadBatch, Pairs, PairOf
<1>8. CASE WriteBatch
  <2>1. CASE row.label = NoLabel
    <3>1. row.score = NoScore
      BY <2>1, GivenLabelled DEF Pairs, PairOf
    <3>2. row' = [row EXCEPT !.label = script[2], !.score = script[1]]
      BY <1>8, <2>1, <3>1 DEF WriteBatch, Else
    <3>3. PairOf(row') = script
      BY <3>2 DEF PairOf, TypeOK, Row
    <3>4. QED
      BY <1>8, <3>3, GivenPairs DEF WriteBatch, Pairs, PairOf
  <2>2. CASE row.label # NoLabel
    BY <1>8, <2>2, GivenPairs DEF WriteBatch, Pairs, PairOf
  <2>3. QED
    BY <2>1, <2>2
<1>9. CASE UNCHANGED vars
  BY <1>9 DEF vars, Pairs, PairOf
<1>10. QED
  BY <1>1, <1>2, <1>3, <1>4, <1>5, <1>6, <1>7, <1>8, <1>9 DEF Next

\* However upserts and the backfill overlap, the score and the label of the row were given
\* together by one source, as long as a source that gives a score gives a label.
THEOREM LabelCorrect ==
  ASSUME ScoredAreLabelled
  PROVE  Spec => []LabelFollowsScore
<1>1. Pairs => LabelFollowsScore
  BY DEF Pairs, PairOf, Given, LabelFollowsScore
<1>2. QED
  BY ScoredAreLabelled, TypeInit, TypeStep, PairsInit, PairsStep, <1>1, PTL DEF Spec

-----------------------------------------------------------------------------
(***************************************************************************)
(* MergeErasesOnlyLists and BackfillOverwritesNothing.                     *)
(***************************************************************************)

LEMMA MergeKeeps ==
  ASSUME NEW s \in Source, NEW r \in Row, NEW data \in Data
  PROVE  /\ NothingLost(r, Merge(s, r, data)) /\ NothingLost(r, r)
         /\ r = NoRow => NothingLost(r, Created(s, data))
<1>0. "none" \notin Source
  BY DEF Source
<1>1. r.score \in Score /\ data.score \in Score
  BY DEF Row, Data
<1>2. NothingLost(r, Merge(s, r, data))
  <2>1. r.score <= Higher(r.score, data.score)
    BY <1>1 DEF Higher, Score, NoScore
  <2>2. r.label # NoLabel => MergedLabel(r, data) # NoLabel
    BY DEF MergedLabel, ElseLabel
  <2>3. r.desc # "none" => MergedDesc(s, r, data) # "none"
    BY <1>0 DEF MergedDesc
  <2>4. r.epss # NoScore => Else(data.epss, r.epss) # NoScore
    BY DEF Else
  <2>5. QED
    BY <2>1, <2>2, <2>3, <2>4 DEF NothingLost, Merge
<1>3. NothingLost(r, r)
  BY <1>1 DEF NothingLost, Score, NoScore
<1>4. ASSUME r = NoRow PROVE NothingLost(r, Created(s, data))
  BY <1>1, <1>4 DEF NothingLost, Created, NoRow, Score, NoScore
<1>5. QED
  BY <1>2, <1>3, <1>4

\* The lists that an upsert writes are those of the row, or its own.
LEMMA ListsKept ==
  ASSUME NEW s \in Source, NEW r \in Row, NEW data \in Data
  PROVE  /\ ListsReplaced(s, data, r, Merge(s, r, data)) /\ ListsReplaced(s, data, r, r)
         /\ r = NoRow => ListsReplaced(s, data, r, Created(s, data))
<1>1. s \in GivesRefs => s # "kev"
  BY DEF GivesRefs
<1>2. ListsReplaced(s, data, r, Merge(s, r, data)) /\ ListsReplaced(s, data, r, r)
  BY <1>1 DEF ListsReplaced, Merge, MergedList
<1>3. r = NoRow => ListsReplaced(s, data, r, Created(s, data))
  BY <1>1 DEF ListsReplaced, Created, MergedList, NoRow
<1>4. QED
  BY <1>2, <1>3

\* An upsert that overlaps with no other write of the row erases none of its merged columns, and
\* changes its lists only to what its source delivers.
THEOREM MergeCorrect == Spec => MergeErasesOnlyLists
<1> DEFINE Kept ==
      \A s \in Source :
        (upsert[s].pc = "write" /\ upsert'[s].pc = "idle" /\ upsert[s].existing = row)
          => NothingLost(row, row') /\ ListsReplaced(s, upsert[s].data, row, row')
<1>1. TypeOK /\ [Next]_vars => [Kept]_vars
  <2> SUFFICES ASSUME TypeOK, Next, NEW s \in Source, upsert[s].pc = "write",
                      upsert'[s].pc = "idle", upsert[s].existing = row
               PROVE  NothingLost(row, row') /\ ListsReplaced(s, upsert[s].data, row, row')
    BY DEF vars
  <2>1. upsert \in [Source -> Upsert] /\ row \in Row /\ upsert[s].data \in Data
    BY DEF TypeOK, Upsert
  <2>2. CASE row' = row
    BY <2>1, <2>2, MergeKeeps, ListsKept
  <2>3. ASSUME NEW c \in Source, Write(c), c # s PROVE FALSE
    BY <2>1, <2>3 DEF Write
  <2>4. CASE Write(s)
    <3>1. row' = IF row = NoRow THEN Created(s, upsert[s].data) ELSE Merge(s, row, upsert[s].data)
      BY <2>4 DEF Write
    <3>2. QED
      BY <2>1, <3>1, MergeKeeps, ListsKept
  <2>5. CASE RefreshEpss \/ WriteBatch
    BY <2>5 DEF RefreshEpss, WriteBatch
  <2>6. QED
    BY <2>2, <2>3, <2>4, <2>5 DEF Next, Find, Drop, FindKev, NextDay, ReadBatch
<1>2. QED
  BY TypeInit, TypeStep, <1>1, PTL DEF Spec, MergeErasesOnlyLists

\* The backfill overwrites neither a label nor a score, even from a batch read before they were
\* written.
THEOREM BackfillCorrect == Spec => BackfillOverwritesNothing
<1> DEFINE Kept ==
      (script # NoBatch /\ script' = NoBatch)
        => /\ row.label # NoLabel => row'.label = row.label
           /\ row.score # NoScore => row'.score = row.score
<1>1. TypeOK /\ [Next]_vars => [Kept]_vars
  <2> SUFFICES ASSUME TypeOK, Next, script # NoBatch, script' = NoBatch
               PROVE  /\ row.label # NoLabel => row'.label = row.label
                      /\ row.score # NoScore => row'.score = row.score
    OBVIOUS
  <2>1. WriteBatch
    BY DEF Next, Find, Write, Drop, FindKev, NextDay, RefreshEpss, ReadBatch
  <2>2. CASE row.label = NoLabel
    BY <2>1, <2>2 DEF WriteBatch, Else, TypeOK, Row
  <2>3. CASE row.label # NoLabel
    BY <2>1, <2>3 DEF WriteBatch
  <2>4. QED
    BY <2>2, <2>3
<1>2. QED
  BY TypeInit, TypeStep, <1>1, PTL DEF Spec, BackfillOverwritesNothing
=============================================================================
