------------------------- MODULE RansomwareRecovery -------------------------
(***************************************************************************)
(* The ransomware victims (ransomware.service.ts, data-sources.service.ts, *)
(* sync-recovery.service.ts): a refresh of the recent ones every half      *)
(* hour, a sync of every country at night, and the recovery that the boot  *)
(* starts when the data source was last synchronised too long ago.  The    *)
(* process may stop anywhere.                                              *)
(*                                                                         *)
(* What the API says of a victim is abstracted to a version number; every  *)
(* victim has the id the API gave it, and an API key is configured.  What  *)
(* the syncs do to the groups is in GroupsSync.                            *)
(***************************************************************************)
EXTENDS Naturals, FiniteSets

CONSTANTS
  Victim, Country,
  MaxVersion     \* bound: versions of a victim
CONSTANT Of(_)   \* Of(v): the country of victim v

\* Asserted by the module that instantiates this one.
RecoveryAssumption == MaxVersion \in Nat \ {0} /\ \A v \in Victim : Of(v) \in Country

VARIABLES
  api,      \* api[v]: its present version, 0 before it is published
  recent,   \* the victims in /victims/recent
  stored,   \* ransomware_victims_data: its version, 0 without a row
  lastSync, \* of the data source: "none" (no row), "never", "old", "recent"
  up,       \* the process runs
  sync      \* sync[s]: the local variables of the syncs

recoveryVars == <<api, recent, stored, lastSync, up, sync>>

\* The cron of every half hour, or the button of the data source; the nightly cron, and the
\* recovery (or the button that starts its second half alone).
Full == {"nightly", "recovery"}
Sync == {"refresh"} \cup Full

Nobody == [v \in Victim |-> 0]
NoSync == [pc |-> "idle", got |-> Nobody, todo |-> {}, ok |-> TRUE, count |-> 0]

Init ==
  /\ api = Nobody /\ recent = {} /\ stored = Nobody
  /\ lastSync \in {"none", "never", "old", "recent"}
  /\ up = FALSE
  /\ sync = [s \in Sync |-> NoSync]

Stamped == IF lastSync = "none" THEN lastSync ELSE "recent"

\* SyncRecoveryService.onModuleInit()
Boot ==
  /\ ~up
  /\ up' = TRUE
  /\ sync' = IF lastSync = "recent" THEN sync ELSE [sync EXCEPT !["recovery"].pc = "groups"]
  /\ UNCHANGED <<api, recent, stored, lastSync>>

Crash ==
  /\ up
  /\ up' = FALSE
  /\ sync' = [s \in Sync |-> NoSync]
  /\ UNCHANGED <<api, recent, stored, lastSync>>

\* The crons and the buttons.
StartSync(s) ==
  /\ up /\ sync[s].pc = "idle"
  /\ sync' = [sync EXCEPT ![s].pc = IF s \in Full THEN "groups" ELSE "recent"]
  /\ UNCHANGED <<api, recent, stored, lastSync, up>>

\* syncGroups() ends, well or not; syncVictimsByCountry() follows.
GroupsDone(s) ==
  /\ sync[s].pc = "groups"
  /\ lastSync' \in {lastSync, Stamped}
  /\ sync' = [sync EXCEPT ![s].pc = "countries", ![s].todo = Country]
  /\ UNCHANGED <<api, recent, stored, up>>

Answered(vs) == [v \in Victim |-> IF v \in vs THEN api[v] ELSE 0]

\* getVictims(): the recent victims are read ...
FetchRecent(s) ==
  /\ sync[s].pc = "recent"
  /\ sync' = [sync EXCEPT ![s].pc = "save", ![s].got = Answered(recent)]
  /\ UNCHANGED <<api, recent, stored, lastSync, up>>

\* ... or not, which the sync does not mind.
FetchRecentFails(s) ==
  /\ sync[s].pc = "recent"
  /\ sync' = [sync EXCEPT ![s].pc = "save"]
  /\ UNCHANGED <<api, recent, stored, lastSync, up>>

\* getVictimsByCountry(): the victims of a country are read ...
FetchCountry(s, c) ==
  /\ sync[s].pc = "countries" /\ c \in sync[s].todo
  /\ sync' = [sync EXCEPT ![s].todo = @ \ {c},
                ![s].got = [v \in Victim |-> IF Of(v) = c THEN api[v] ELSE @[v]]]
  /\ UNCHANGED <<api, recent, stored, lastSync, up>>

\* ... or not, and count as none.
FetchCountryFails(s, c) ==
  /\ sync[s].pc = "countries" /\ c \in sync[s].todo
  /\ sync' = [sync EXCEPT ![s].todo = @ \ {c}]
  /\ UNCHANGED <<api, recent, stored, lastSync, up>>

CountriesDone(s) ==
  /\ sync[s].pc = "countries" /\ sync[s].todo = {}
  /\ sync' = [sync EXCEPT ![s].pc = "save"]
  /\ UNCHANGED <<api, recent, stored, lastSync, up>>

\* Mutant: a victim that has a row is not updated.
Save_Once(s, v) ==
  /\ sync[s].pc = "save" /\ sync[s].got[v] # 0
  /\ stored' = IF stored[v] = 0 THEN [stored EXCEPT ![v] = sync[s].got[v]] ELSE stored
  /\ sync' = [sync EXCEPT ![s].got[v] = 0, ![s].count = IF s \in Full THEN 1 ELSE 0]
  /\ UNCHANGED <<api, recent, lastSync, up>>

\* saveVictimsToDatabase() writes the victims one by one.
Save(s, v) ==
  /\ sync[s].pc = "save" /\ sync[s].got[v] # 0
  /\ stored' = [stored EXCEPT ![v] = sync[s].got[v]]
  /\ sync' = [sync EXCEPT ![s].got[v] = 0, ![s].count = IF s \in Full THEN 1 ELSE 0]
  /\ UNCHANGED <<api, recent, lastSync, up>>

\* A write fails, and with it what is left of the sync: performSync() and syncVictimsByCountry()
\* leave the data source as it is, syncDataSource() stamps it all the same.
SaveFails(s) ==
  /\ sync[s].pc = "save" /\ sync[s].got # Nobody
  /\ lastSync' \in (IF s \in Full THEN {lastSync} ELSE {lastSync, Stamped})
  /\ sync' = [sync EXCEPT ![s] = NoSync]
  /\ UNCHANGED <<api, recent, stored, up>>

\* The groups of the same refresh fail: the victims go on, the stamp does not follow.
GroupsFail ==
  /\ sync["refresh"].pc \in {"recent", "save"} /\ sync["refresh"].ok
  /\ sync' = [sync EXCEPT !["refresh"].ok = FALSE]
  /\ UNCHANGED <<api, recent, stored, lastSync, up>>

\* syncVictimsByCountry() stamps the data source if it stored a victim; performSync() stamps or
\* creates it, unless the groups failed, which syncDataSource() does not ask.
Done(s) ==
  /\ sync[s].pc = "save" /\ sync[s].got = Nobody
  /\ lastSync' \in
       CASE s \in Full   -> IF sync[s].count > 0 THEN {Stamped} ELSE {lastSync}
         [] sync[s].ok   -> IF lastSync = "none" THEN {"never"} ELSE {"recent"}
         [] OTHER        -> {lastSync, Stamped}
  /\ sync' = [sync EXCEPT ![s] = NoSync]
  /\ UNCHANGED <<api, recent, stored, up>>

-----------------------------------------------------------------------------
\* A victim is published, or changed, and is recent for some time.
Publish(v) ==
  /\ api[v] < MaxVersion
  /\ api' = [api EXCEPT ![v] = @ + 1]
  /\ recent' = recent \cup {v}
  /\ UNCHANGED <<stored, lastSync, up, sync>>

NoLongerRecent(v) ==
  /\ v \in recent
  /\ recent' = recent \ {v}
  /\ UNCHANGED <<api, stored, lastSync, up, sync>>

\* RANSOMWARE_RECOVERY_STALE_HOURS pass.
Age ==
  /\ lastSync = "recent"
  /\ lastSync' = "old"
  /\ UNCHANGED <<api, recent, stored, up, sync>>

DeleteSource ==
  /\ lastSync # "none"
  /\ lastSync' = "none"
  /\ UNCHANGED <<api, recent, stored, up, sync>>

Proceed(s) ==
  \/ GroupsDone(s) \/ FetchRecent(s) \/ CountriesDone(s) \/ Done(s)
  \/ \E c \in Country : FetchCountry(s, c)
  \/ \E v \in Victim : Save(s, v)

Fails ==
  \/ Crash \/ GroupsFail
  \/ \E s \in Sync : FetchRecentFails(s) \/ SaveFails(s)
  \/ \E s \in Sync : \E c \in Country : FetchCountryFails(s, c)

Next ==
  \/ Boot \/ Age \/ DeleteSource \/ Fails
  \/ \E s \in Sync : StartSync(s) \/ Proceed(s)
  \/ \E v \in Victim : Publish(v) \/ NoLongerRecent(v)

-----------------------------------------------------------------------------
TypeOK ==
  /\ \A v \in Victim : stored[v] \in 0..api[v]
  /\ lastSync \in {"none", "never", "old", "recent"}
  /\ \A s \in Sync : sync[s].pc # "idle" => up

\* When the API has stopped changing and refusing, and the process crashing, every victim that
\* was ever published is stored for good, in its last version: also one that was recent only
\* while the process was down.
AllStored == stored = api
=============================================================================
