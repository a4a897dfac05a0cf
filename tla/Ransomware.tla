----------------------------- MODULE Ransomware -----------------------------
(***************************************************************************)
(* The syncs of the ransomware groups (GroupsSync) and of the victims      *)
(* (RansomwareRecovery).  What they share, the data source, each of the    *)
(* two modules has as far as it matters there, so that a behaviour is      *)
(* about one of them (part).                                               *)
(***************************************************************************)
EXTENDS Naturals, FiniteSets

CONSTANTS
  Group, BatchSize, Followed, Unfollowed,  \* GroupsSync
  Victim, Country,                         \* RansomwareRecovery
  MaxVersion
CONSTANT Of(_)

VARIABLES
  part,
  version, row, source, progress, job, list,    \* the groups
  api, recent, stored, lastSync, up, sync       \* the victims

groups == <<version, row, source, progress, job, list>>
victims == <<api, recent, stored, lastSync, up, sync>>
vars == <<part, groups, victims>>

Groups == INSTANCE GroupsSync

Victims == INSTANCE RansomwareRecovery

ASSUME RansomwareAssumption == Groups!GroupsAssumption /\ Victims!RecoveryAssumption

\* The part a behaviour is not about starts in one of its states.
Init ==
  /\ part \in {"groups", "victims"}
  /\ Groups!Init /\ (part # "groups" => source)
  /\ Victims!Init /\ (part # "victims" => lastSync = "none")

InGroups == part = "groups" /\ UNCHANGED <<part, victims>>
InVictims == part = "victims" /\ UNCHANGED <<part, groups>>

Next ==
  \/ InGroups /\ Groups!Next
  \/ InVictims /\ Victims!Next

\* The crons fire and the syncs go on; the database does not refuse the refresh of the list,
\* nor it and the API the nightly sync, for ever, and the process does not crash for ever.
Fairness ==
  /\ WF_vars(InGroups /\ Groups!RefreshList)
  /\ \A j \in Followed \cup Unfollowed : WF_vars(InGroups /\ Groups!Proceed(j))
  /\ \A g \in Group : SF_vars(InGroups /\ Groups!SaveListed(g))
  /\ WF_vars(InVictims /\ Victims!Boot)
  /\ WF_vars(InVictims /\ Victims!StartSync("nightly"))
  /\ \A s \in Victims!Sync : WF_vars(InVictims /\ Victims!Proceed(s))
  /\ \A v \in Victim : /\ SF_vars(InVictims /\ Victims!FetchCountry("nightly", Of(v)))
                       /\ SF_vars(InVictims /\ Victims!Save("nightly", v))
  /\ <>[][~Victims!Crash]_vars

Safety == Init /\ [][Next]_vars

Spec == Safety /\ Fairness

-----------------------------------------------------------------------------
\* GroupsSync: one followed sync at a time, the snapshot says so, and one that is about to be
\* completed has reported every group.
ProgressHonest == Groups!ProgressHonest /\ Groups!EveryGroupReported

\* GroupsSync: details are never lost.
DetailsKept == [][Groups!DetailsKept]_vars

\* GroupsSync: every row is brought up to date.
GroupsCurrent == <>[](part = "groups" => Groups!RowsCurrent)

\* RansomwareRecovery: every victim is stored in the end.
VictimsRecovered == <>[](part = "victims" => Victims!AllStored)
=============================================================================
