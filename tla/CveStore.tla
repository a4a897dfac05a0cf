----------------------------- MODULE CveStore -----------------------------
(***************************************************************************)
(* The row of one vulnerability in vuln_cves under its writers: the        *)
(* upserts of the NVD, KEV, GitHub and OSV collectors                      *)
(* (repositories/vuln-cve.repository.ts), which read the row, merge in     *)
(* memory and write every merged column back, and the two lists of the     *)
(* row (references and affected packages) as the source gives them; the    *)
(* daily EPSS refresh and the severity backfill script, which are single   *)
(* statements.                                                             *)
(*                                                                         *)
(* A CVSS score is ten times its value, an EPSS value the day it was       *)
(* published and a list the source it came from.  Vector, version, title,  *)
(* dates and the raw documents other than OSV's are merged like the        *)
(* columns kept here and are left out.  The vulnerability keeps the id it  *)
(* was first stored under.                                                 *)
(***************************************************************************)
EXTENDS Integers, FiniteSets, Sequences, FiniteSetsExt

CONSTANTS
  Offers,     \* Offers[s]: what NVD and GitHub may deliver, sets of <<score, label>>
  OsvDocs,    \* what OSV may deliver: [vectors: Seq([version, score]), label]
  Lists,      \* Lists[s]: whether an entry of s comes with references and with packages
  Deliveries, \* bound: how often NVD, GitHub and OSV deliver the vulnerability
  MaxOpen,    \* bound: the upserts of NVD, GitHub and OSV in flight at a time
  LastDay     \* bound: the last day EPSS publishes

NoScore == -1       \* a NULL number
NoLabel == "null"   \* a NULL text
Score == NoScore..100
Severity == {"NONE", "LOW", "MEDIUM", "HIGH", "CRITICAL"}
Label == Severity \cup {"UNKNOWN", NoLabel}
OsvDoc == [vectors: Seq([version: {"2.0", "3.0", "3.1", "4.0"}, score: Score]), label: Label]

ASSUME CveStoreAssumption ==
  /\ Offers \in [{"nvd", "github"} -> SUBSET (Score \X Label)]
  /\ OsvDocs \subseteq OsvDoc
  /\ Lists \in [{"nvd", "github", "osv"} -> SUBSET (BOOLEAN \X BOOLEAN)]
  /\ Deliveries \in Nat
  /\ MaxOpen \in Nat
  /\ LastDay \in Nat \ {0}

VARIABLES
  row,     \* the row, or NoRow
  upsert,  \* upsert[s]: the local variables of upsert() called by collector s
  left,    \* left[s]: deliveries left to s
  script,  \* the <<score, label>> the severity backfill is about to write, or NoBatch
  day      \* the last day EPSS published

vars == <<row, upsert, left, script, day>>

Source == {"nvd", "kev", "github", "osv"}

NoDoc == [vectors |-> <<>>, label |-> NoLabel]

NoRow == [sources |-> {}, score |-> NoScore, label |-> NoLabel, desc |-> "none",
          isKev |-> FALSE, epss |-> NoScore, refs |-> "none", pkgs |-> "none", rawOsv |-> NoDoc]

NoData == [score |-> NoScore, label |-> NoLabel, desc |-> FALSE, isKev |-> FALSE,
           epss |-> NoScore, refs |-> FALSE, pkgs |-> FALSE, rawOsv |-> NoDoc]

\* A row stored before the OSV collector computed scores (osv-severity-backfill.ts:2).
LegacyRow(doc) == [NoRow EXCEPT !.sources = {"osv"}, !.rawOsv = doc]

NoBatch == <<NoScore, NoLabel>>

Idle == [pc |-> "idle", existing |-> NoRow, data |-> NoData]

Init ==
  /\ row \in {NoRow} \cup {LegacyRow(doc) : doc \in OsvDocs}
  /\ upsert = [s \in Source |-> Idle]
  /\ left = [s \in Source \ {"kev"} |-> Deliveries]
  /\ script = NoBatch
  /\ day = 1

-----------------------------------------------------------------------------
\* a ?? b, for numbers and for texts
Else(a, b) == IF a = NoScore THEN b ELSE a
ElseLabel(a, b) == IF a = NoLabel THEN b ELSE a

\* severityFromScore(): CVSS 2.0 has no CRITICAL band.
SeverityFromScore(score, version) ==
  CASE score = NoScore                   -> NoLabel
    [] score >= 90 /\ version # "2.0"    -> "CRITICAL"
    [] score >= 70 /\ ~(score >= 90 /\ version # "2.0") -> "HIGH"
    [] score \in 40..69                  -> "MEDIUM"
    [] score \in 0..39                   -> IF score > 0 \/ version = "2.0" THEN "LOW" ELSE "NONE"

\* resolveOsvSeverity(): the first scored 3.1 vector, else the first scored one, else the label.
Resolve(doc) ==
  LET scored == {i \in DOMAIN doc.vectors : doc.vectors[i].score # NoScore}
      v31    == {i \in scored : doc.vectors[i].version = "3.1"}
      best   == doc.vectors[Min(IF v31 = {} THEN scored ELSE v31)]
  IN  IF scored = {} THEN <<NoScore, doc.label>>
      ELSE <<best.score, SeverityFromScore(best.score, best.version)>>

\* pickHigher()
Higher(a, b) == IF a < b THEN b ELSE a

\* Mutant: the label of the latest source that has one, whichever score wins.
MergedLabel_Latest(existing, data) == ElseLabel(data.label, existing.label)

\* mergeSeverity(): the label follows the score that wins; without a new score, a label
\* is only filled in.
MergedLabel(existing, data) ==
  IF data.score = NoScore \/ data.score < existing.score
  THEN ElseLabel(existing.label, data.label)
  ELSE ElseLabel(data.label, existing.label)

\* mergeDescription(): NVD replaces, GitHub and OSV fill in, KEV does neither.
MergedDesc(s, existing, data) ==
  IF data.desc /\ (s = "nvd" \/ (s \in {"github", "osv"} /\ existing.desc = "none"))
  THEN s ELSE existing.desc

\* The sources that set the two lists; to the others they are undefined.
GivesRefs == {"nvd", "github", "osv"}
GivesPkgs == {"github", "osv"}

\* A list is not merged: a source that sets it replaces it, by null when it has none.
MergedList(givers, s, existing, given) ==
  IF s \notin givers THEN existing ELSE IF given THEN s ELSE "none"

\* Mutant: a column the source does not give is cleared.
Merge_Clears(s, existing, data) ==
  [sources |-> existing.sources \cup {s},
   score |-> Higher(existing.score, data.score),
   label |-> MergedLabel(existing, data),
   desc |-> MergedDesc(s, existing, data),
   isKev |-> existing.isKev \/ data.isKev,
   epss |-> data.epss,
   refs |-> MergedList(GivesRefs, s, existing.refs, data.refs),
   pkgs |-> MergedList(GivesPkgs, s, existing.pkgs, data.pkgs),
   rawOsv |-> IF s = "osv" THEN data.rawOsv ELSE existing.rawOsv]

\* The columns that upsert() writes.
Merge(s, existing, data) ==
  [sources |-> existing.sources \cup {s},
   score |-> Higher(existing.score, data.score),
   label |-> MergedLabel(existing, data),
   desc |-> MergedDesc(s, existing, data),
   isKev |-> existing.isKev \/ data.isKev,
   epss |-> Else(data.epss, existing.epss),
   refs |-> MergedList(GivesRefs, s, existing.refs, data.refs),
   pkgs |-> MergedList(GivesPkgs, s, existing.pkgs, data.pkgs),
   rawOsv |-> IF s = "osv" THEN data.rawOsv ELSE existing.rawOsv]

\* The columns of create().
Created(s, data) ==
  [sources |-> {s}, score |-> data.score, label |-> data.label,
   desc |-> IF data.desc THEN s ELSE "none",
   isKev |-> data.isKev, epss |-> data.epss,
   refs |-> MergedList(GivesRefs, s, "none", data.refs),
   pkgs |-> MergedList(GivesPkgs, s, "none", data.pkgs),
   rawOsv |-> data.rawOsv]

-----------------------------------------------------------------------------
Entry(pair, epss, lists, doc) ==
  [score |-> pair[1], label |-> pair[2], desc |-> TRUE, isKev |-> FALSE, epss |-> epss,
   refs |-> lists[1], pkgs |-> lists[2], rawOsv |-> doc]

\* What mapCve(), mapAdvisory() (with an EPSS value of its own) and mapOsv() deliver.
Entries(s) ==
  CASE s = "nvd"    -> {Entry(o, NoScore, l, NoDoc) : o \in Offers[s], l \in Lists[s]}
    [] s = "github" -> {Entry(o, day, l, NoDoc) : o \in Offers[s], l \in Lists[s]}
    [] s = "osv"    -> {Entry(Resolve(doc), NoScore, l, doc) : doc \in OsvDocs, l \in Lists[s]}

\* upsert() of a collector looks the row up.
Find(s) ==
  /\ s # "kev"
  /\ upsert[s].pc = "idle"
  /\ left[s] > 0
  /\ Cardinality({c \in Source \ {"kev"} : upsert[c] # Idle}) < MaxOpen
  /\ left' = [left EXCEPT ![s] = @ - 1]
  /\ \E data \in Entries(s) :
       upsert' = [upsert EXCEPT ![s] = [pc |-> "write", existing |-> row, data |-> data]]
  /\ UNCHANGED <<row, script, day>>

\* The KEV catalogue is fetched whole every time and keeps listing the vulnerability.
FindKev ==
  /\ upsert["kev"].pc = "idle"
  /\ upsert' = [upsert EXCEPT !["kev"] =
                  [pc |-> "write", existing |-> row,
                   data |-> [NoData EXCEPT !.desc = TRUE, !.isKev = TRUE]]]
  /\ UNCHANGED <<row, left, script, day>>

\* create(), rejected when the row was made in between, or update().
Write(s) ==
  /\ upsert[s].pc = "write"
  /\ row' = IF upsert[s].existing = NoRow
            THEN IF row = NoRow THEN Created(s, upsert[s].data) ELSE row
            ELSE Merge(s, upsert[s].existing, upsert[s].data)
  /\ upsert' = [upsert EXCEPT ![s] = Idle]
  /\ UNCHANGED <<left, script, day>>

\* The write is rejected, or the collector or the process dies.
Drop(s) ==
  /\ upsert[s].pc = "write"
  /\ upsert' = [upsert EXCEPT ![s] = Idle]
  /\ UNCHANGED <<row, left, script, day>>

-----------------------------------------------------------------------------
NextDay ==
  /\ day < LastDay
  /\ day' = day + 1
  /\ UNCHANGED <<row, upsert, left, script>>

\* Mutant: scores are filled in, not refreshed.
RefreshEpss_Fill ==
  /\ row # NoRow
  /\ row' = [row EXCEPT !.epss = Else(@, day)]
  /\ UNCHANGED <<upsert, left, script, day>>

\* sync() of the EPSS collector: bulkUpdateEpss() of the batch with this vulnerability.
RefreshEpss ==
  /\ row # NoRow
  /\ row' = [row EXCEPT !.epss = day]
  /\ UNCHANGED <<upsert, left, script, day>>

\* runOsvSeverityBackfill(): the batch is read ...
ReadBatch ==
  /\ script = NoBatch
  /\ row.label = NoLabel
  /\ "osv" \in row.sources
  /\ Resolve(row.rawOsv)[2] # NoLabel
  /\ script' = Resolve(row.rawOsv)
  /\ UNCHANGED <<row, upsert, left, day>>

\* Mutant: the label is not asked for again.
WriteBatch_Unchecked ==
  /\ script # NoBatch
  /\ script' = NoBatch
  /\ row' = [row EXCEPT !.label = script[2], !.score = Else(@, script[1])]
  /\ UNCHANGED <<upsert, left, day>>

\* ... and written where the severity is still NULL.
WriteBatch ==
  /\ script # NoBatch
  /\ script' = NoBatch
  /\ row' = IF row.label = NoLabel
            THEN [row EXCEPT !.label = script[2], !.score = Else(@, script[1])]
            ELSE row
  /\ UNCHANGED <<upsert, left, day>>

Next ==
  \/ \E s \in Source : Find(s) \/ Write(s) \/ Drop(s)
  \/ FindKev
  \/ NextDay \/ RefreshEpss
  \/ ReadBatch \/ WriteBatch

Spec == Init /\ [][Next]_vars

\* The 30 minute cron reads KEV again and again, EPSS is refreshed every day, and not
\* every upsert is cut off.
FairSpec ==
  /\ Spec
  /\ WF_vars(FindKev) /\ SF_vars(Write("kev"))
  /\ WF_vars(RefreshEpss)

-----------------------------------------------------------------------------
Row ==
  [sources: SUBSET Source, score: Score, label: Label, desc: Source \cup {"none"},
   isKev: BOOLEAN, epss: NoScore..LastDay, refs: GivesRefs \cup {"none"},
   pkgs: GivesPkgs \cup {"none"}, rawOsv: OsvDocs \cup {NoDoc}]

Data ==
  [score: Score, label: Label, desc: BOOLEAN, isKev: BOOLEAN, epss: NoScore..LastDay,
   refs: BOOLEAN, pkgs: BOOLEAN, rawOsv: OsvDocs \cup {NoDoc}]

TypeOK ==
  /\ row \in Row
  /\ upsert \in [Source -> [pc: {"idle", "write"}, existing: Row, data: Data]]
  /\ left \in [Source \ {"kev"} -> 0..Deliveries]
  /\ script \in Score \X Label
  /\ day \in 1..LastDay

\* "Severity follows whichever score wins the merge" (vuln-cve.repository.ts:369): however
\* upserts overlap, the score and the label of the row were given together by one source.
LabelFollowsScore ==
  <<row.score, row.label>> \in
    (UNION {Offers[s] : s \in DOMAIN Offers}) \cup {Resolve(doc) : doc \in OsvDocs} \cup {NoBatch}

\* Every merged column that r has is in n, which is the row after it.
NothingLost(r, n) ==
  /\ r.sources \subseteq n.sources
  /\ r.score <= n.score
  /\ r.label # NoLabel => n.label # NoLabel
  /\ r.desc # "none" => n.desc # "none"
  /\ r.isKev => n.isKev
  /\ r.epss # NoScore => n.epss # NoScore

\* The lists of n are those of r, or what s delivers, which may be nothing.
ListsReplaced(s, data, r, n) ==
  /\ n.refs = r.refs \/ (s # "kev" /\ n.refs = IF data.refs THEN s ELSE "none")
  /\ n.pkgs = r.pkgs \/ (s \in GivesPkgs /\ n.pkgs = IF data.pkgs THEN s ELSE "none")

\* An upsert that overlaps with no other write of the row erases nothing but its lists: the
\* merged columns stay filled, and references and packages are lost only to a source that sets
\* them, which replaces them by its own or by null (vuln-cve.repository.ts:146-149).
MergeErasesOnlyLists ==
  [][\A s \in Source :
       (upsert[s].pc = "write" /\ upsert'[s].pc = "idle" /\ upsert[s].existing = row)
         => NothingLost(row, row') /\ ListsReplaced(s, upsert[s].data, row, row')]_vars

\* "existing values (from NVD or GitHub) are never overwritten"
\* (osv-severity-backfill.ts:5): not even by a batch read before they were written.
BackfillOverwritesNothing ==
  [][(script # NoBatch /\ script' = NoBatch)
       => /\ row.label # NoLabel => row'.label = row.label
          /\ row.score # NoScore => row'.score = row.score]_vars

\* What overlapping upserts undo is restored by the full refreshes: a listed vulnerability
\* is again and again marked as exploited, and carries the EPSS value of the day.
RefreshesRestore == []<>row.isKev /\ []<>(row.epss = day)
=============================================================================
