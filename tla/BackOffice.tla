----------------------------- MODULE BackOffice -----------------------------
(***************************************************************************)
(* The parts that people edit: the risk register and its links, the watch  *)
(* profiles, the actors, the accounts and the whitelist.  They share no    *)
(* state of this model, so a behaviour is about one of them (part).        *)
(***************************************************************************)
EXTENDS Integers, FiniteSets, Sequences

CONSTANTS
  Update, Rating,                \* RiskRegister
  Link,                          \* RiskLinks
  Edit, Channel, Requester, MaxEvents,  \* WatchProfiles
  Actor, Hito, Editor, MaxText,  \* Actors
  User, Root, Session, MaxSteps, \* Accounts
  Width, Entries                 \* IpWhitelist

VARIABLES
  part,
  risk, update, overlap, cleared,                                      \* the risk register
  treatment, control, kpi, action, link, asked,                        \* its links
  profile, items, edit, channels, subscription, request, sweep, events, together, passed,
  actors, of, text, editor, changed, index, ingest, aside, late, unseen,  \* the actors
  row, token, session, begun, demoted,                                 \* the accounts
  ip, allowed                                                          \* the whitelist

register == <<risk, update, overlap, cleared>>
links == <<treatment, control, kpi, action, link, asked>>
profiles ==
  <<profile, items, edit, channels, subscription, request, sweep, events, together, passed>>
milestones == <<actors, of, text, editor, changed, index, ingest, aside, late, unseen>>
accounts == <<row, token, session, begun, demoted>>
whitelist == <<ip, allowed>>
vars == <<part, register, links, profiles, milestones, accounts, whitelist>>

Register == INSTANCE RiskRegister

Links == INSTANCE RiskLinks

Profiles == INSTANCE WatchProfiles WITH Request <- Requester

Milestones == INSTANCE Actors WITH Request <- Editor, request <- editor

Accounts == INSTANCE Accounts WITH Request <- Session, request <- session

Whitelist == INSTANCE IpWhitelist

ASSUME BackOfficeAssumption ==
  /\ Register!RegisterAssumption /\ Profiles!ProfilesAssumption
  /\ Milestones!ActorsAssumption /\ Accounts!AccountsAssumption
  /\ Whitelist!WhitelistAssumption

Parts == {"register", "links", "profiles", "actors", "accounts", "whitelist"}

\* The parts a behaviour is not about start in one of their states.
Init ==
  /\ part \in Parts
  /\ Register!Init
  /\ part # "register" => risk.factors = [g \in Register!Factor |-> CHOOSE v \in Rating : TRUE]
  /\ Links!Init
  /\ Profiles!Init
  /\ Milestones!Init /\ (part # "actors" => of = [h \in Hito |-> CHOOSE a \in Actor : TRUE])
  /\ Accounts!Init
  /\ Whitelist!Init /\ (part # "whitelist" => ip = 0 /\ allowed = {})

InRegister ==
  part = "register" /\ UNCHANGED <<part, links, profiles, milestones, accounts, whitelist>>
InLinks ==
  part = "links" /\ UNCHANGED <<part, register, profiles, milestones, accounts, whitelist>>
InProfiles ==
  part = "profiles" /\ UNCHANGED <<part, register, links, milestones, accounts, whitelist>>
InActors ==
  part = "actors" /\ UNCHANGED <<part, register, links, profiles, accounts, whitelist>>
InAccounts ==
  part = "accounts" /\ UNCHANGED <<part, register, links, profiles, milestones, whitelist>>
InWhitelist ==
  part = "whitelist" /\ UNCHANGED <<part, register, links, profiles, milestones, accounts>>

Next ==
  \/ InRegister /\ Register!Next
  \/ InLinks /\ Links!Next
  \/ InProfiles /\ Profiles!Next
  \/ InActors /\ Milestones!Next
  \/ InAccounts /\ Accounts!Next
  \/ InWhitelist /\ Whitelist!Next

Spec == Init /\ [][Next]_vars

-----------------------------------------------------------------------------
\* RiskRegister: the scores stored are those of the factors stored.
ScoresFollow == Register!ScoresFollow

\* RiskLinks, WatchProfiles: links are looked up, then written.  A row has the link it was last
\* given until that is deleted, and the database refuses nothing that was looked up but for what
\* was deleted, or came to name it, in between.
LookUpsHold == Links!LinksAsAsked /\ Links!RefusedByRace /\ Profiles!RefusedByRace

\* WatchProfiles: a profile has the items of one update, and no event is passed over without one
\* of the known reasons.
ProfileWhole == Profiles!ItemsOfOneUpdate /\ Profiles!NothingPassedSilently

\* Actors: an update deletes only milestones it has read.
NothingUnseenDeleted == Milestones!NothingUnseenDeleted

\* Actors: the chunks of an actor have its milestones, but for those edited on their own and for
\* what was updated while the ingestion ran.
ChunksFollowActor == Milestones!ChunksFollowActor

\* Accounts: there is an administrator, unless one took its own rights or two crossed.
AdminLeft == Accounts!AdminLeft

\* IpWhitelist: loopback is let in, and any other address exactly if a block covers it; a block
\* of prefix 0 covers one address only.
AllowsExactlyTheBlocks == Whitelist!AllowsExactlyTheBlocks
=============================================================================
