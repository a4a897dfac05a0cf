-------------------------- MODULE BackOffice_proofs --------------------------
(***************************************************************************)
(* Proofs about the parts that people edit, for any number of objects and  *)
(* of overlapping requests: the watch profiles (what the items of one are  *)
(* of, and what a sweep between the two statements of an update may pass   *)
(* over), the actors, their milestones and the chunks ingested from them,  *)
(* the scores of the risk register, the links that are looked up before    *)
(* they are written, the accounts and the whitelist.                       *)
(***************************************************************************)
EXTENDS BackOffice, FiniteSetTheorems, FunctionTheorems, TLAPS

\* The steps of the composition are steps of each part.
LEMMA RegisterSteps ==
  /\ Init => Register!Init
  /\ [Next]_vars => [Register!Next]_(Register!registerVars)
<1>1. Init => Register!Init
  BY DEF Init
<1>2. [Next]_vars => [Register!Next]_(Register!registerVars)
  BY DEF Next, vars, Register!registerVars, register, links, profiles, milestones, accounts,
         whitelist,
         InRegister, InLinks, InProfiles, InActors, InAccounts, InWhitelist
<1>3. QED
  BY <1>1, <1>2

LEMMA LinksSteps ==
  /\ Init => Links!Init
  /\ [Next]_vars => [Links!Next]_(Links!linksVars)
<1>1. Init => Links!Init
  BY DEF Init
<1>2. [Next]_vars => [Links!Next]_(Links!linksVars)
  BY DEF Next, vars, Links!linksVars, register, links, profiles, milestones, accounts, whitelist,
         InRegister, InLinks, InProfiles, InActors, InAccounts, InWhitelist
<1>3. QED
  BY <1>1, <1>2

LEMMA ProfilesSteps ==
  /\ Init => Profiles!Init
  /\ [Next]_vars => [Profiles!Next]_(Profiles!profilesVars)
<1>1. Init => Profiles!Init
  BY DEF Init
<1>2. [Next]_vars => [Profiles!Next]_(Profiles!profilesVars)
  BY DEF Next, vars, Profiles!profilesVars, register, links, profiles, milestones, accounts,
         whitelist,
         InRegister, InLinks, InProfiles, InActors, InAccounts, InWhitelist
<1>3. QED
  BY <1>1, <1>2

LEMMA ActorsSteps ==
  /\ Init => Milestones!Init
  /\ [Next]_vars => [Milestones!Next]_(Milestones!actorsVars)
<1>1. Init => Milestones!Init
  BY DEF Init
<1>2. [Next]_vars => [Milestones!Next]_(Milestones!actorsVars)
  BY DEF Next, vars, Milestones!actorsVars, register, links, profiles, milestones, accounts,
         whitelist,
         InRegister, InLinks, InProfiles, InActors, InAccounts, InWhitelist
<1>3. QED
  BY <1>1, <1>2

LEMMA AccountsSteps ==
  /\ Init => Accounts!Init
  /\ [Next]_vars => [Accounts!Next]_(Accounts!accountsVars)
<1>1. Init => Accounts!Init
  BY DEF Init
<1>2. [Next]_vars => [Accounts!Next]_(Accounts!accountsVars)
  BY DEF Next, vars, Accounts!accountsVars, register, links, profiles, milestones, accounts,
         whitelist,
         InRegister, InLinks, InProfiles, InActors, InAccounts, InWhitelist
<1>3. QED
  BY <1>1, <1>2

-----------------------------------------------------------------------------
\* WatchProfiles
EditState == {"new", "owned", "refused", "emptied", "ok", "error"}

ProfilesTyped ==
  /\ profile \in BOOLEAN
  /\ edit \in [Edit -> EditState]

LEMMA ProfilesTypedInit == Profiles!Init => ProfilesTyped
  BY DEF Profiles!Init, ProfilesTyped, EditState

\* The requests about channels and subscriptions leave the profile and its sweep alone.
OfRequest(r) ==
  \/ Profiles!Validate(r) \/ Profiles!Subscribe(r)
  \/ Profiles!CountSubscriptions(r) \/ Profiles!DeleteChannel(r)
  \/ Profiles!FindSubscription(r) \/ Profiles!EnsureChannel(r)
  \/ Profiles!Resubscribe(r) \/ Profiles!Unsubscribe(r)

LEMMA RequestsApart ==
  ASSUME NEW r \in Requester, OfRequest(r)
  PROVE  UNCHANGED <<profile, items, edit, sweep, together, passed>>
  BY DEF OfRequest, Profiles!Validate, Profiles!Subscribe, Profiles!CountSubscriptions,
     Profiles!DeleteChannel, Profiles!FindSubscription, Profiles!EnsureChannel,
     Profiles!Resubscribe, Profiles!Unsubscribe

LEMMA ProfilesTypedStep ==
  ProfilesTyped /\ [Profiles!Next]_(Profiles!profilesVars) => ProfilesTyped'
<1> SUFFICES ASSUME ProfilesTyped, [Profiles!Next]_(Profiles!profilesVars) PROVE ProfilesTyped'
  OBVIOUS
<1> USE DEF ProfilesTyped, EditState
<1>1. ASSUME NEW e \in Edit,
             Profiles!Own(e) \/ Profiles!Empty(e) \/ Profiles!Write(e) \/ Profiles!WriteFails(e)
      PROVE  ProfilesTyped'
  BY <1>1 DEF Profiles!Own, Profiles!Empty, Profiles!Emptying, Profiles!Write, Profiles!WriteFails
<1>2. ASSUME NEW r \in Requester, OfRequest(r)
      PROVE  ProfilesTyped'
  BY <1>2, RequestsApart
<1>3. CASE \/ Profiles!RemoveProfile \/ Profiles!Sweep \/ Profiles!Load \/ Profiles!Match
           \/ UNCHANGED Profiles!profilesVars
  BY <1>3 DEF Profiles!RemoveProfile, Profiles!Sweep, Profiles!Load, Profiles!Match,
     Profiles!profilesVars
<1>4. QED
  BY <1>1, <1>2, <1>3 DEF Profiles!Next, OfRequest

-----------------------------------------------------------------------------
\* Unless two updates were between their statements at once, the profile has the items of one
\* update, or none while one is between its statements.
OneAtATime ==
  ~together =>
    \/ Profiles!Emptied = {} /\ (items = {} \/ \E x : items = {x})
    \/ items = {} /\ \E e \in Edit : Profiles!Emptied = {e}

LEMMA OneInit == Profiles!Init => OneAtATime
  BY DEF Profiles!Init, OneAtATime, Profiles!Emptied

LEMMA OneStep ==
  ProfilesTyped /\ OneAtATime /\ [Profiles!Next]_(Profiles!profilesVars) => OneAtATime'
<1> SUFFICES ASSUME ProfilesTyped, OneAtATime, [Profiles!Next]_(Profiles!profilesVars)
             PROVE  OneAtATime'
  OBVIOUS
<1>1. CASE UNCHANGED <<items, edit, together>>
  BY <1>1 DEF OneAtATime, Profiles!Emptied
<1>2. ASSUME NEW e \in Edit, Profiles!Own(e) PROVE OneAtATime'
  <2>1. Profiles!Emptied' = Profiles!Emptied /\ UNCHANGED <<items, together>>
    BY <1>2 DEF Profiles!Own, Profiles!Emptied, ProfilesTyped
  <2>2. QED
    BY <2>1 DEF OneAtATime
<1>3. ASSUME NEW e \in Edit, Profiles!Empty(e) PROVE OneAtATime'
  <2>1. /\ Profiles!Emptied' = Profiles!Emptied \cup {e}
        /\ items' = {} /\ together' = (Profiles!Emptied # {})
    BY <1>3 DEF Profiles!Empty, Profiles!Emptying, Profiles!Emptied, ProfilesTyped
  <2>2. QED
    BY <2>1 DEF OneAtATime
<1>4. ASSUME NEW e \in Edit, Profiles!Write(e) \/ Profiles!WriteFails(e) PROVE OneAtATime'
  <2>1. /\ e \in Profiles!Emptied /\ Profiles!Emptied' = Profiles!Emptied \ {e}
        /\ together' = together
        /\ items' = items \cup {e} \/ items' = items
    BY <1>4 DEF Profiles!Write, Profiles!WriteFails, Profiles!Emptied, ProfilesTyped, EditState
  <2>2. together = FALSE => Profiles!Emptied = {e} /\ items = {}
    BY <2>1 DEF OneAtATime
  <2>3. QED
    BY <2>1, <2>2 DEF OneAtATime
<1>5. CASE Profiles!RemoveProfile
  BY <1>5 DEF Profiles!RemoveProfile, OneAtATime, Profiles!Emptied
<1>6. QED
  BY <1>1, <1>2, <1>3, <1>4, <1>5, RequestsApart
     DEF Profiles!Next, OfRequest, Profiles!Sweep, Profiles!Load, Profiles!Match,
     Profiles!profilesVars

-----------------------------------------------------------------------------
Unfinished == \E e \in Edit : edit[e] \in {"emptied", "error"}

\* A profile without items has an update that is between its statements or failed there, and a
\* sweep that has read no items knows it.
EmptyExplained ==
  /\ passed # "lost"
  /\ profile /\ items = {} => Unfinished
  /\ sweep.pc = "match" /\ sweep.items = {} => ~sweep.known \/ sweep.excused

LEMMA EmptyInit == Profiles!Init => EmptyExplained
  BY DEF Profiles!Init, EmptyExplained, Profiles!Idle

LEMMA EmptyStep ==
  ProfilesTyped /\ EmptyExplained /\ [Profiles!Next]_(Profiles!profilesVars) => EmptyExplained'
<1> SUFFICES ASSUME ProfilesTyped, EmptyExplained, [Profiles!Next]_(Profiles!profilesVars)
             PROVE  EmptyExplained'
  OBVIOUS
<1> USE DEF EmptyExplained, Unfinished
<1>1. CASE UNCHANGED <<profile, items, edit, sweep, passed>>
  BY <1>1
<1>2. ASSUME NEW e \in Edit,
             Profiles!Own(e) \/ Profiles!Empty(e) \/ Profiles!Write(e) \/ Profiles!WriteFails(e)
      PROVE  EmptyExplained'
  BY <1>2 DEF Profiles!Own, Profiles!Empty, Profiles!Emptying, Profiles!Write,
     Profiles!WriteFails, ProfilesTyped, EditState
<1>3. CASE Profiles!RemoveProfile
  BY <1>3 DEF Profiles!RemoveProfile
<1>4. CASE Profiles!Sweep
  BY <1>4 DEF Profiles!Sweep, Profiles!Idle
<1>5. CASE Profiles!Load
  <2>1. /\ UNCHANGED <<profile, items, edit, passed>>
        /\ sweep'.items = items /\ sweep'.known = profile /\ sweep'.excused = Unfinished
    BY <1>5 DEF Profiles!Load
  <2>2. QED
    BY <2>1 DEF ProfilesTyped
<1>6. CASE Profiles!Match
  <2>1. passed' # "lost"
    BY <1>6 DEF Profiles!Match
  <2>2. QED
    BY <1>6, <2>1 DEF Profiles!Match, Profiles!Idle
<1>7. QED
  BY <1>1, <1>2, <1>3, <1>4, <1>5, <1>6, RequestsApart
     DEF Profiles!Next, OfRequest, Profiles!profilesVars

\* The items of a profile are those of one update, unless two were between their statements at
\* once; and a sweep passes an event over only because the profile was deleted, or because an
\* update of it was between its statements, or failed there.
THEOREM ProfileCorrect == Spec => []ProfileWhole
<1>1. OneAtATime => Profiles!ItemsOfOneUpdate
  BY DEF OneAtATime, Profiles!ItemsOfOneUpdate
<1>2. EmptyExplained => Profiles!NothingPassedSilently
  BY DEF EmptyExplained, Profiles!NothingPassedSilently
<1>3. OneAtATime /\ EmptyExplained => ProfileWhole
  BY <1>1, <1>2 DEF ProfileWhole
<1>4. QED
  BY ProfilesSteps, ProfilesTypedInit, ProfilesTypedStep, OneInit, OneStep, EmptyInit, EmptyStep,
     <1>3, PTL DEF Spec

-----------------------------------------------------------------------------
\* Actors
LEMMA NoneIsNoActor == Milestones!None \notin Actor
  BY BackOfficeAssumption DEF Milestones!ActorsAssumption

RequestState ==
  [pc : {"new", "update", "edit", "remove", "ended"}, actor : Actor \cup {Milestones!None},
   delete : SUBSET Hito, update : SUBSET Hito, read : SUBSET Hito,
   hito : Hito \cup {Milestones!None}]

ActorsTyped ==
  /\ actors \subseteq Actor
  /\ of \in [Hito -> Actor \cup {Milestones!None}]
  /\ text \in [Hito -> Nat]
  /\ editor \in [Editor -> RequestState]
  /\ \A r \in Editor : /\ editor[r].pc = "update" => editor[r].actor \in Actor
                       /\ editor[r].pc \in {"edit", "remove"} => editor[r].hito \in Hito

LEMMA NoRequestType == Milestones!NoRequest \in RequestState /\ Milestones!NoRequest.pc = "new"
  BY DEF Milestones!NoRequest, RequestState

LEMMA EndType ==
  ASSUME ActorsTyped, NEW r \in Editor, Milestones!End(r)
  PROVE  /\ editor' \in [Editor -> RequestState]
         /\ editor'[r].pc = "ended" /\ editor'[r].delete = {}
         /\ \A q \in Editor \ {r} : editor'[q] = editor[q]
  BY DEF Milestones!End, Milestones!NoRequest, RequestState, ActorsTyped

LEMMA ActorsTypedInit == Milestones!Init => ActorsTyped
  BY NoRequestType DEF Milestones!Init, ActorsTyped

\* The ingestion reads actors and milestones and writes chunks.
Ingest ==
  \/ Milestones!IngestRead \/ Milestones!IngestDelete \/ Milestones!IngestInsert
  \/ Milestones!IngestStamp \/ Milestones!IngestFails

LEMMA IngestApart == Ingest => UNCHANGED <<actors, of, text, editor, unseen>>
  BY DEF Ingest, Milestones!IngestRead, Milestones!IngestDelete, Milestones!IngestInsert,
     Milestones!IngestStamp, Milestones!IngestFails

LEMMA ActorsTypedStep == ActorsTyped /\ [Milestones!Next]_(Milestones!actorsVars) => ActorsTyped'
<1> SUFFICES ASSUME ActorsTyped, [Milestones!Next]_(Milestones!actorsVars) PROVE ActorsTyped'
  OBVIOUS
<1>1. ASSUME NEW r \in Editor, Milestones!ReadActor(r) PROVE ActorsTyped'
  <2>1. PICK a \in actors, listed \in SUBSET Hito :
          editor' = [editor EXCEPT ![r] =
            [Milestones!NoRequest EXCEPT !.pc = "update", !.actor = a,
                              !.read = Milestones!HitosOf(a),
                              !.update = listed, !.delete = Milestones!HitosOf(a) \ listed]]
    BY <1>1 DEF Milestones!ReadActor, Milestones!HitosOf
  <2>2. Milestones!HitosOf(a) \subseteq Hito /\ a \in Actor
    BY DEF Milestones!HitosOf, ActorsTyped
  <2>3. QED
    BY <1>1, <2>1, <2>2 DEF Milestones!ReadActor, ActorsTyped, Milestones!NoRequest, RequestState
<1>2. ASSUME NEW r \in Editor, Milestones!UpdateActor(r) PROVE ActorsTyped'
  <2>1. of' \in [Hito -> Actor \cup {Milestones!None}] /\ text' \in [Hito -> Nat]
    BY <1>2 DEF Milestones!UpdateActor, ActorsTyped
  <2>2. QED
    BY <1>2, <2>1, EndType DEF Milestones!UpdateActor, ActorsTyped
<1>3. ASSUME NEW r \in Editor, Milestones!ReadHito(r) PROVE ActorsTyped'
  <2>1. PICK h \in Hito, pc \in {"edit", "remove"} :
          editor' = [editor EXCEPT ![r] = [Milestones!NoRequest EXCEPT !.pc = pc, !.hito = h]]
    BY <1>3 DEF Milestones!ReadHito
  <2> DEFINE R == [Milestones!NoRequest EXCEPT !.pc = pc, !.hito = h]
  <2>2. R \in RequestState /\ R.pc = pc /\ R.hito = h
    BY NoRequestType DEF RequestState
  <2>3. QED
    BY <1>3, <2>1, <2>2 DEF Milestones!ReadHito, ActorsTyped
<1>4. ASSUME NEW r \in Editor, Milestones!EditHito(r) PROVE ActorsTyped'
  <2>1. of' \in [Hito -> Actor \cup {Milestones!None}] /\ text' \in [Hito -> Nat]
    BY <1>4 DEF Milestones!EditHito, ActorsTyped
  <2>2. QED
    BY <1>4, <2>1, EndType DEF Milestones!EditHito, ActorsTyped
<1>5. ASSUME NEW r \in Editor, Milestones!RemoveHito(r) PROVE ActorsTyped'
  <2>1. of' \in [Hito -> Actor \cup {Milestones!None}]
    BY <1>5 DEF Milestones!RemoveHito, ActorsTyped
  <2>2. QED
    BY <1>5, <2>1, EndType DEF Milestones!RemoveHito, ActorsTyped
<1>6. ASSUME NEW r \in Editor, Milestones!RemoveActor(r) PROVE ActorsTyped'
  BY <1>6, EndType DEF Milestones!RemoveActor, ActorsTyped
<1>7. CASE Ingest \/ UNCHANGED Milestones!actorsVars
  BY <1>7, IngestApart DEF Milestones!actorsVars, ActorsTyped
<1>8. QED
  BY <1>1, <1>2, <1>3, <1>4, <1>5, <1>6, <1>7 DEF Milestones!Next, Milestones!Step, Ingest

-----------------------------------------------------------------------------
\* What an update is about to delete it has read.
DeletesRead == unseen = {} /\ \A r \in Editor : editor[r].delete \subseteq editor[r].read

LEMMA DeletesReadStep ==
  ActorsTyped /\ DeletesRead /\ [Milestones!Next]_(Milestones!actorsVars) => DeletesRead'
<1> SUFFICES ASSUME ActorsTyped, DeletesRead, [Milestones!Next]_(Milestones!actorsVars)
             PROVE  DeletesRead'
  OBVIOUS
<1> USE DEF DeletesRead
<1>1. ASSUME NEW r \in Editor, Milestones!ReadActor(r) PROVE DeletesRead'
  BY <1>1 DEF Milestones!ReadActor, Milestones!NoRequest, ActorsTyped
<1>2. ASSUME NEW r \in Editor, Milestones!UpdateActor(r) PROVE DeletesRead'
  <2>1. Milestones!Deleted(r) \ editor[r].read = {}
    BY DEF Milestones!Deleted
  <2>2. unseen' = {}
    BY <1>2, <2>1 DEF Milestones!UpdateActor
  <2>3. QED
    BY <1>2, <2>2, EndType DEF Milestones!UpdateActor
<1>3. ASSUME NEW r \in Editor, Milestones!ReadHito(r) PROVE DeletesRead'
  BY <1>3 DEF Milestones!ReadHito, Milestones!NoRequest, ActorsTyped
<1>4. ASSUME NEW r \in Editor,
             Milestones!EditHito(r) \/ Milestones!RemoveHito(r) \/ Milestones!RemoveActor(r)
      PROVE  DeletesRead'
  BY <1>4, EndType DEF Milestones!EditHito, Milestones!RemoveHito, Milestones!RemoveActor
<1>5. CASE Ingest \/ UNCHANGED Milestones!actorsVars
  BY <1>5, IngestApart DEF Milestones!actorsVars
<1>6. QED
  BY <1>1, <1>2, <1>3, <1>4, <1>5 DEF Milestones!Next, Milestones!Step, Ingest

\* However requests overlap, an update deletes no milestone that it has not read.
THEOREM NothingUnseenCorrect == Spec => []NothingUnseenDeleted
<1>1. Milestones!Init => DeletesRead
  BY DEF Milestones!Init, DeletesRead, Milestones!NoRequest
<1>2. DeletesRead => NothingUnseenDeleted
  BY DEF DeletesRead, NothingUnseenDeleted, Milestones!NothingUnseenDeleted
<1>3. QED
  BY ActorsSteps, ActorsTypedInit, ActorsTypedStep, DeletesReadStep, <1>1, <1>2, PTL DEF Spec

-----------------------------------------------------------------------------
LEMMA SameContent ==
  ASSUME NEW b, \A h \in Hito : (of'[h] = b <=> of[h] = b) /\ (of[h] = b => text'[h] = text[h])
  PROVE  Milestones!Content(b)' = Milestones!Content(b)
<1>1. Milestones!HitosOf(b)' = Milestones!HitosOf(b)
  BY DEF Milestones!HitosOf
<1>2. \A h \in Milestones!HitosOf(b) : text'[h] = text[h]
  BY DEF Milestones!HitosOf
<1>3. QED
  BY <1>1, <1>2 DEF Milestones!Content

IngestState ==
  [pc : {"idle", "loop", "insert"}, read : [Actor -> SUBSET (Hito \X Nat)], todo : SUBSET Actor,
   actor : Actor \cup {Milestones!None}]

\* What the ingestion has before it are actors that changed; those it is done with have the
\* chunks of what it read, which is what they are, unless they are left behind.
IngestSound ==
  /\ ingest \in IngestState
  /\ changed \subseteq Actor /\ DOMAIN index = Actor
  /\ ingest.todo \cap actors \subseteq changed
  /\ ingest.pc = "insert" =>
       ingest.actor \in Actor /\ (ingest.actor \in actors => ingest.actor \in changed)
  /\ ingest.pc # "idle" => \A a \in actors \cap changed :
       \/ a \in late
       \/ /\ a \in aside \/ ingest.read[a] = Milestones!Content(a)
          /\ \/ a \in ingest.todo
             \/ ingest.pc = "insert" /\ ingest.actor = a
             \/ index[a] = ingest.read[a]

ChunksSound == IngestSound /\ Milestones!ChunksFollowActor

\* What any request does to an actor that stays: it changes, late for an ingestion that runs, or
\* keeps its milestones, or is set aside.
EditKeeps ==
  /\ UNCHANGED <<index, ingest>>
  /\ actors' \subseteq actors /\ changed' \subseteq Actor
  /\ \A b \in actors' :
       /\ b \in changed => b \in changed'
       /\ b \in aside => b \in aside'
       /\ b \in late => b \in late'
       /\ \/ b \in changed' /\ (ingest.pc = "idle" \/ b \in late')
          \/ /\ b \in changed' => b \in changed
             /\ Milestones!Content(b)' = Milestones!Content(b) \/ b \in aside'

LEMMA EditsKeep ==
  ASSUME ActorsTyped, changed \subseteq Actor, NEW r \in Editor, Milestones!Step(r)
  PROVE  EditKeeps
<1>1. CASE Milestones!ReadActor(r) \/ Milestones!ReadHito(r)
  <2>1. UNCHANGED <<actors, of, text, changed, index, ingest, aside, late>>
    BY <1>1 DEF Milestones!ReadActor, Milestones!ReadHito
  <2>2. \A b : Milestones!Content(b)' = Milestones!Content(b)
    BY <2>1, SameContent
  <2>3. QED
    BY <2>1, <2>2 DEF EditKeeps
<1>2. CASE Milestones!UpdateActor(r)
  <2> DEFINE a == editor[r].actor
  <2>1. CASE UNCHANGED <<of, text, changed, late>>
    <3>1. \A b : Milestones!Content(b)' = Milestones!Content(b)
      BY <2>1, SameContent
    <3>2. QED
      BY <1>2, <2>1, <3>1 DEF Milestones!UpdateActor, EditKeeps
  <2>2. CASE ~UNCHANGED <<of, text, changed, late>>
    <3>1. /\ a \in Actor /\ changed' = changed \cup {a}
          /\ late' = IF ingest.pc = "idle" THEN late ELSE late \cup {a}
          /\ editor[r].update \subseteq Milestones!HitosOf(a)
          /\ \E new \in SUBSET {h \in Hito : of[h] = Milestones!None} :
               of' = [h \in Hito |-> IF h \in Milestones!Deleted(r) THEN Milestones!None
                                      ELSE IF h \in new THEN a ELSE of[h]]
          /\ text' = [h \in Hito |->
               IF h \in editor[r].update /\ text[h] < MaxText THEN text[h] + 1 ELSE text[h]]
      BY <1>2, <2>2 DEF Milestones!UpdateActor, ActorsTyped
    <3>2. ASSUME NEW b \in actors, b # a PROVE Milestones!Content(b)' = Milestones!Content(b)
      <4>1. b # Milestones!None
        BY NoneIsNoActor DEF ActorsTyped
      <4>2. \A h \in Hito : (of'[h] = b <=> of[h] = b) /\ (of[h] = b => text'[h] = text[h])
        BY <3>1, <3>2, <4>1 DEF Milestones!HitosOf, Milestones!Deleted
      <4>3. QED
        BY <4>2, SameContent
    <3>3. UNCHANGED <<actors, index, ingest, aside>>
      BY <1>2 DEF Milestones!UpdateActor
    <3>4. QED
      BY <3>1, <3>2, <3>3 DEF EditKeeps
  <2>3. QED
    BY <2>1, <2>2
<1>3. CASE Milestones!EditHito(r)
  <2>1. UNCHANGED <<actors, changed, index, ingest, late>>
    BY <1>3 DEF Milestones!EditHito
  <2>2. CASE UNCHANGED <<of, text, aside>>
    <3>1. \A b : Milestones!Content(b)' = Milestones!Content(b)
      BY <2>2, SameContent
    <3>2. QED
      BY <2>1, <2>2, <3>1 DEF EditKeeps
  <2>3. CASE ~UNCHANGED <<of, text, aside>>
    <3>1. PICK h \in Hito : h = editor[r].hito
      BY <1>3 DEF Milestones!EditHito, ActorsTyped
    <3>2. PICK a \in actors : of' = [of EXCEPT ![h] = a] /\ aside' = aside \cup {of[h], a}
      BY <1>3, <2>3, <3>1 DEF Milestones!EditHito
    <3>3. \A g \in Hito : g # h => text'[g] = text[g]
      BY <1>3, <2>3, <3>1 DEF Milestones!EditHito, ActorsTyped
    <3>4. ASSUME NEW b, b \notin {of[h], a} PROVE Milestones!Content(b)' = Milestones!Content(b)
      <4>1. \A g \in Hito : (of'[g] = b <=> of[g] = b) /\ (of[g] = b => text'[g] = text[g])
        BY <3>2, <3>3, <3>4 DEF ActorsTyped
      <4>2. QED
        BY <4>1, SameContent
    <3>5. QED
      BY <2>1, <3>2, <3>4 DEF EditKeeps
  <2>4. QED
    BY <2>2, <2>3
<1>4. CASE Milestones!RemoveHito(r)
  <2>1. UNCHANGED <<actors, text, changed, index, ingest, late>>
    BY <1>4 DEF Milestones!RemoveHito
  <2>2. PICK h \in Hito : h = editor[r].hito
    BY <1>4 DEF Milestones!RemoveHito, ActorsTyped
  <2>3. \/ of' = [of EXCEPT ![h] = Milestones!None] /\ aside' = aside \cup {of[h]}
        \/ UNCHANGED <<of, aside>>
    BY <1>4, <2>2 DEF Milestones!RemoveHito
  <2>4. ASSUME NEW b \in actors, b \notin aside'
        PROVE  Milestones!Content(b)' = Milestones!Content(b)
    <3>1. \A g \in Hito : (of'[g] = b <=> of[g] = b) /\ text'[g] = text[g]
      BY <2>1, <2>3, <2>4, NoneIsNoActor DEF ActorsTyped
    <3>2. QED
      BY <3>1, SameContent
  <2>5. QED
    BY <2>1, <2>3, <2>4 DEF EditKeeps
<1>5. CASE Milestones!RemoveActor(r)
  <2>1. PICK a \in actors : /\ actors' = actors \ {a} /\ changed' = changed \ {a}
                            /\ of' = [h \in Hito |-> IF of[h] = a THEN Milestones!None ELSE of[h]]
    BY <1>5 DEF Milestones!RemoveActor
  <2>2. UNCHANGED <<text, index, ingest, aside, late>>
    BY <1>5 DEF Milestones!RemoveActor
  <2>3. ASSUME NEW b \in actors' PROVE Milestones!Content(b)' = Milestones!Content(b)
    <3>1. b # a /\ b # Milestones!None
      BY <2>1, <2>3, NoneIsNoActor DEF ActorsTyped
    <3>2. \A h \in Hito : (of'[h] = b <=> of[h] = b) /\ text'[h] = text[h]
      BY <2>1, <2>2, <3>1
    <3>3. QED
      BY <3>2, SameContent
  <2>4. QED
    BY <2>1, <2>2, <2>3 DEF EditKeeps
<1>6. QED
  BY <1>1, <1>2, <1>3, <1>4, <1>5 DEF Milestones!Step

LEMMA ChunksEdit ==
  ASSUME ActorsTyped, ChunksSound, EditKeeps
  PROVE  ChunksSound'
<1> USE DEF ChunksSound, EditKeeps
<1>1. Milestones!ChunksFollowActor'
  BY DEF Milestones!ChunksFollowActor
<1>2. /\ (ingest \in IngestState)' /\ (changed \subseteq Actor /\ DOMAIN index = Actor)'
      /\ (ingest.todo \cap actors \subseteq changed)'
      /\ (ingest.pc = "insert" =>
            ingest.actor \in Actor /\ (ingest.actor \in actors => ingest.actor \in changed))'
  BY DEF IngestSound
<1>3. ASSUME ingest.pc # "idle", NEW a \in actors' \cap changed', a \notin late'
      PROVE  /\ a \in aside' \/ ingest.read[a] = Milestones!Content(a)'
             /\ \/ a \in ingest.todo
                \/ ingest.pc = "insert" /\ ingest.actor = a
                \/ index[a] = ingest.read[a]
  BY <1>3 DEF IngestSound
<1>4. QED
  BY <1>1, <1>2, <1>3 DEF IngestSound

LEMMA ContentType == ActorsTyped => \A a : Milestones!Content(a) \in SUBSET (Hito \X Nat)
  BY DEF ActorsTyped, Milestones!Content, Milestones!HitosOf

LEMMA WaitingType == Milestones!Waiting \in IngestState
  BY DEF Milestones!Waiting, IngestState

LEMMA ChunksIngest ==
  ASSUME ActorsTyped, ChunksSound, Ingest
  PROVE  ChunksSound'
<1>1. /\ UNCHANGED actors /\ actors \subseteq Actor
      /\ \A a : Milestones!Content(a)' = Milestones!Content(a)
  BY IngestApart, SameContent DEF ActorsTyped
<1>2. CASE Milestones!IngestRead
  <2>1. ingest' \in IngestState
    BY <1>2, ContentType DEF Milestones!IngestRead, Milestones!Waiting, IngestState, ChunksSound,
       IngestSound
  <2>2. /\ ingest'.pc = "loop" /\ ingest'.todo = changed
        /\ \A a \in Actor : ingest'.read[a] = Milestones!Content(a)
        /\ aside' = aside \ changed /\ late' = late \ changed /\ UNCHANGED <<changed, index>>
    BY <1>2 DEF Milestones!IngestRead, Milestones!Waiting
  <2>3. QED
    BY <1>1, <2>1, <2>2 DEF ChunksSound, IngestSound, Milestones!ChunksFollowActor
<1>3. CASE Milestones!IngestDelete
  <2>1. PICK a \in ingest.todo :
          /\ ingest' = [ingest EXCEPT !.pc = "insert", !.todo = @ \ {a}, !.actor = a]
          /\ index' = [index EXCEPT ![a] = {}]
    BY <1>3 DEF Milestones!IngestDelete
  <2>2. /\ ingest' \in IngestState /\ a \in Actor
        /\ ingest'.pc = "insert" /\ ingest'.todo = ingest.todo \ {a} /\ ingest'.actor = a
        /\ ingest'.read = ingest.read /\ ingest.pc = "loop"
    BY <1>3, <2>1 DEF Milestones!IngestDelete, ChunksSound, IngestSound, IngestState
  <2>3. /\ DOMAIN index' = Actor /\ \A b \in Actor : b # a => index'[b] = index[b]
        /\ UNCHANGED <<changed, aside, late>>
    BY <1>3, <2>1 DEF Milestones!IngestDelete, ChunksSound, IngestSound
  <2>4. a \in actors => a \in changed
    BY DEF ChunksSound, IngestSound
  <2>5. QED
    BY <1>1, <2>2, <2>3, <2>4 DEF ChunksSound, IngestSound, Milestones!ChunksFollowActor
<1>4. CASE Milestones!IngestInsert
  <2> DEFINE a == ingest.actor
  <2>1. /\ ingest' \in IngestState /\ a \in Actor
        /\ ingest'.pc = "loop" /\ ingest'.todo = ingest.todo /\ ingest'.read = ingest.read
        /\ ingest.pc = "insert"
    BY <1>4 DEF Milestones!IngestInsert, ChunksSound, IngestSound, IngestState
  <2>2. /\ DOMAIN index' = Actor /\ index'[a] = ingest.read[a]
        /\ \A b \in Actor : b # a => index'[b] = index[b]
        /\ UNCHANGED <<changed, aside, late>>
    BY <1>4, <2>1 DEF Milestones!IngestInsert, ChunksSound, IngestSound
  <2>3. a \in actors => a \in changed
    BY <2>1 DEF ChunksSound, IngestSound
  <2>4. QED
    BY <1>1, <2>1, <2>2, <2>3 DEF ChunksSound, IngestSound, Milestones!ChunksFollowActor
<1>5. CASE Milestones!IngestStamp
  <2>1. /\ ingest' \in IngestState /\ ingest'.pc = "idle" /\ ingest'.todo = {}
        /\ changed' = {} /\ UNCHANGED <<index, aside, late>>
        /\ ingest.pc = "loop" /\ ingest.todo = {}
    BY <1>5, WaitingType DEF Milestones!IngestStamp, Milestones!Waiting
  <2>2. ASSUME NEW a \in actors PROVE index[a] = Milestones!Content(a) \/ a \in aside \cup late
    BY <2>1 DEF ChunksSound, IngestSound, Milestones!ChunksFollowActor
  <2>3. QED
    BY <1>1, <2>1, <2>2 DEF ChunksSound, IngestSound, Milestones!ChunksFollowActor
<1>6. CASE Milestones!IngestFails
  <2>1. /\ ingest' \in IngestState /\ ingest'.pc = "idle" /\ ingest'.todo = {}
        /\ UNCHANGED <<changed, index, aside, late>>
    BY <1>6, WaitingType DEF Milestones!IngestFails, Milestones!Waiting
  <2>2. QED
    BY <1>1, <2>1 DEF ChunksSound, IngestSound, Milestones!ChunksFollowActor
<1>7. QED
  BY <1>2, <1>3, <1>4, <1>5, <1>6 DEF Ingest

LEMMA ChunksStep ==
  ActorsTyped /\ ChunksSound /\ [Milestones!Next]_(Milestones!actorsVars) => ChunksSound'
<1> SUFFICES ASSUME ActorsTyped, ChunksSound, [Milestones!Next]_(Milestones!actorsVars)
             PROVE  ChunksSound'
  OBVIOUS
<1>1. ASSUME NEW r \in Editor, Milestones!Step(r) PROVE ChunksSound'
  BY <1>1, EditsKeep, ChunksEdit DEF ChunksSound, IngestSound
<1>2. CASE Ingest
  BY <1>2, ChunksIngest
<1>3. CASE UNCHANGED Milestones!actorsVars
  <2>1. \A a : Milestones!Content(a)' = Milestones!Content(a)
    BY <1>3, SameContent DEF Milestones!actorsVars
  <2>2. QED
    BY <1>3, <2>1 DEF Milestones!actorsVars, ChunksSound, IngestSound,
       Milestones!ChunksFollowActor
<1>4. QED
  BY <1>1, <1>2, <1>3 DEF Milestones!Next, Ingest

\* Once the last update of an actor was ingested its chunks have its milestones as they are,
\* whatever the ingestion met with, unless one of them was changed on its own since it was read,
\* or the actor was updated between that read and the move of the watermark.
THEOREM ChunksCorrect == Spec => []ChunksFollowActor
<1>1. Milestones!Init => ChunksSound
  BY WaitingType DEF Milestones!Init, Milestones!ChunksFollowActor, ChunksSound, IngestSound,
     Milestones!Waiting
<1>2. ChunksSound => ChunksFollowActor
  BY DEF ChunksSound, ChunksFollowActor
<1>3. QED
  BY ActorsSteps, ActorsTypedInit, ActorsTypedStep, ChunksStep, <1>1, <1>2, PTL DEF Spec

-----------------------------------------------------------------------------
(***************************************************************************)
(* LookUpsHold: the links of the register.                                 *)
(***************************************************************************)

Named == {"control", "null", "absent"}
Asks == {"control", "null", "same"}
LinkState ==
  [pc : {"new", "kpi", "action", "ok", "error", "unchecked", "not_found"},
   row : Link \cup {"none"}, asks : Asks,
   saw : SUBSET {"treatment", "control"}, lost : SUBSET {"treatment", "control"}]

LinksTyped ==
  /\ treatment \in BOOLEAN /\ control \in BOOLEAN
  /\ link \in [Link -> LinkState]
  /\ kpi \in [Link -> Named] /\ action \in [Link -> Named]
  /\ asked \in [Link -> {"control", "null"}]

\* A request that has not written yet created nothing, and names a KPI there is, or its own; a
\* row is a KPI or an action.
RowsApart ==
  /\ \A l \in Link :
       link[l].pc \in {"new", "kpi", "action"} => kpi[l] = "absent" /\ action[l] = "absent"
  /\ \A l \in Link : link[l].pc = "kpi" =>
       link[l].row \in Link /\ (link[l].row = l \/ kpi[link[l].row] # "absent")
  /\ \A l \in Link : kpi[l] = "absent" \/ action[l] = "absent"

\* What a request is about to name it has seen.
NamesSeen ==
  \A l \in Link :
    /\ link[l].pc = "kpi" /\ link[l].asks = "control" => "control" \in link[l].saw
    /\ link[l].pc = "action" => "treatment" \in link[l].saw /\ link[l].asks # "same"
    /\ link[l].pc = "error" => link[l].lost # {}

LinksSound == LinksTyped /\ RowsApart /\ NamesSeen /\ Links!LinksAsAsked

\* Where a request ends.
LEMMA LinkEnd ==
  ASSUME LinksTyped, NEW l \in Link, NEW s \in {"ok", "error", "unchecked", "not_found"},
         Links!End(l, s)
  PROVE  /\ link' \in [Link -> LinkState]
         /\ link'[l].pc = s /\ link'[l].lost = link[l].saw \cap Links!Missing
         /\ \A q \in Link \ {l} : link'[q] = link[q]
<1>1. link[l].saw \cap Links!Missing \in SUBSET {"treatment", "control"}
  BY DEF LinksTyped, LinkState
<1>2. [Links!NoLink EXCEPT !.pc = s, !.lost = link[l].saw \cap Links!Missing] \in LinkState
  BY <1>1 DEF Links!NoLink, LinkState, Asks
<1>3. QED
  BY <1>2 DEF Links!End, LinksTyped, Links!NoLink

LEMMA MissingIs ==
  /\ "control" \in Links!Missing <=> ~control
  /\ "treatment" \in Links!Missing <=> ~treatment
  BY DEF Links!Missing

\* What is left when a request ends and changes nothing.
LEMMA LinkRefused ==
  ASSUME LinksSound, NEW l \in Link, NEW s \in {"error", "unchecked", "not_found"},
         Links!End(l, s), s = "error" => link[l].saw \cap Links!Missing # {},
         UNCHANGED <<treatment, control, kpi, action, asked>>
  PROVE  LinksSound'
<1>1. /\ link' \in [Link -> LinkState]
      /\ link'[l].pc = s /\ link'[l].lost = link[l].saw \cap Links!Missing
      /\ \A q \in Link \ {l} : link'[q] = link[q]
  BY LinkEnd DEF LinksSound
<1>2. LinksTyped'
  BY <1>1 DEF LinksSound, LinksTyped
<1>3. RowsApart' /\ NamesSeen'
  BY <1>1 DEF LinksSound, RowsApart, NamesSeen
<1>4. Links!LinksAsAsked'
  BY DEF LinksSound, Links!LinksAsAsked
<1>5. QED
  BY <1>2, <1>3, <1>4 DEF LinksSound

\* What is left when a request ends that gave a row its link.
LEMMA LinkWritten ==
  ASSUME LinksSound, NEW l \in Link, Links!End(l, "ok"), NEW k \in Link, NEW asks \in Asks,
         asks = "control" => control, UNCHANGED <<treatment, control>>,
         asked' = [asked EXCEPT ![k] = Links!Given(asked[k], asks)],
         \/ /\ kpi' = [kpi EXCEPT ![k] = Links!Given(kpi[k], asks)] /\ UNCHANGED action
            /\ action[k] = "absent" /\ (k = l \/ kpi[k] # "absent")
         \/ /\ action' = [action EXCEPT ![k] = Links!Given(action[k], asks)] /\ UNCHANGED kpi
            /\ kpi[k] = "absent" /\ (k = l \/ action[k] # "absent")
  PROVE  LinksSound'
<1>1. /\ link' \in [Link -> LinkState] /\ link'[l].pc = "ok"
      /\ \A q \in Link \ {l} : link'[q] = link[q]
  BY LinkEnd DEF LinksSound
<1>2. LinksTyped'
  BY <1>1 DEF LinksSound, LinksTyped, Links!Given, Named, Asks
<1>3. \A q \in Link : q # k => kpi'[q] = kpi[q] /\ action'[q] = action[q] /\ asked'[q] = asked[q]
  BY DEF LinksSound, LinksTyped
<1>4. kpi[k] # "absent" => kpi'[k] # "absent"
  BY DEF LinksSound, LinksTyped, Links!Given, Asks
<1>5. \A q \in Link \ {l} : link[q].pc \in {"new", "kpi", "action"} => q # k
  BY DEF LinksSound, RowsApart
<1>6. kpi'[k] = "absent" \/ action'[k] = "absent"
  BY DEF LinksSound, LinksTyped
<1>7. RowsApart'
  BY <1>1, <1>3, <1>4, <1>5, <1>6 DEF LinksSound, RowsApart, LinksTyped, LinkState
<1>8. NamesSeen'
  BY <1>1 DEF LinksSound, NamesSeen
<1>9. ASSUME NEW q \in Link, NEW has \in {kpi'[q], action'[q]}, has # "absent"
      PROVE  has = IF control THEN asked'[q] ELSE "null"
  <2>1. CASE q # k
    BY <1>3, <1>9, <2>1 DEF LinksSound, Links!LinksAsAsked
  <2>2. CASE q = k /\ has = kpi'[k] /\ kpi'[k] # kpi[k]
    BY <1>9, <2>2 DEF LinksSound, LinksTyped, Links!Given, Asks
  <2>3. QED
    <3>1. CASE q = k /\ asks = "same"
      BY <1>9, <3>1 DEF LinksSound, LinksTyped, Links!Given, Links!LinksAsAsked
    <3>2. CASE q = k /\ asks # "same"
      BY <1>6, <1>9, <3>2 DEF LinksSound, LinksTyped, Links!Given, Asks
    <3>3. QED
      BY <2>1, <3>1, <3>2
<1>10. QED
  BY <1>2, <1>7, <1>8, <1>9 DEF LinksSound, Links!LinksAsAsked

\* What is left when a look-up finds what it needs.
LEMMA LinkFound ==
  ASSUME LinksSound, NEW l \in Link, NEW R \in LinkState,
         link' = [link EXCEPT ![l] = R], link[l].pc = "new",
         \/ /\ R.pc = "kpi" /\ R.row \in Link /\ (R.row = l \/ kpi[R.row] # "absent")
            /\ R.asks = "control" => "control" \in R.saw
         \/ R.pc = "action" /\ "treatment" \in R.saw /\ R.asks # "same",
         UNCHANGED <<treatment, control, kpi, action, asked>>
  PROVE  LinksSound'
<1>1. link' \in [Link -> LinkState] /\ link'[l] = R /\ \A q \in Link \ {l} : link'[q] = link[q]
  BY DEF LinksSound, LinksTyped
<1>2. LinksTyped'
  BY <1>1 DEF LinksSound, LinksTyped
<1>3. RowsApart' /\ NamesSeen'
  BY <1>1 DEF LinksSound, RowsApart, NamesSeen
<1>4. QED
  BY <1>2, <1>3 DEF LinksSound, Links!LinksAsAsked

LEMMA LinksStep == LinksSound /\ [Links!Next]_(Links!linksVars) => LinksSound'
<1> SUFFICES ASSUME LinksSound, [Links!Next]_(Links!linksVars) PROVE LinksSound'
  OBVIOUS
<1>1. ASSUME NEW l \in Link, Links!EnsureKpi(l) PROVE LinksSound'
  <2>1. PICK k \in Link, asks \in Asks :
          /\ k = l \/ kpi[k] # "absent"
          /\ IF asks = "control" /\ ~control THEN Links!End(l, "not_found")
             ELSE link' = [link EXCEPT ![l] =
                    [Links!NoLink EXCEPT !.pc = "kpi", !.row = k, !.asks = asks,
                                         !.saw = IF asks = "control" THEN {"control"} ELSE {}]]
    BY <1>1 DEF Links!EnsureKpi, Asks
  <2>2. link[l].pc = "new" /\ UNCHANGED <<treatment, control, kpi, action, asked>>
    BY <1>1 DEF Links!EnsureKpi
  <2>3. CASE asks = "control" /\ ~control
    BY <2>1, <2>2, <2>3, LinkRefused
  <2>4. CASE ~(asks = "control" /\ ~control)
    <3> DEFINE R == [Links!NoLink EXCEPT !.pc = "kpi", !.row = k, !.asks = asks,
                                         !.saw = IF asks = "control" THEN {"control"} ELSE {}]
    <3>1. /\ R \in LinkState /\ R.pc = "kpi" /\ R.row = k /\ R.asks = asks
          /\ asks = "control" => "control" \in R.saw
      BY DEF Links!NoLink, LinkState
    <3> HIDE DEF R
    <3>2. link' = [link EXCEPT ![l] = R]
      BY <2>1, <2>4 DEF R
    <3>3. QED
      BY <2>1, <2>2, <3>1, <3>2, LinkFound
  <2>5. QED
    BY <2>3, <2>4
<1>2. ASSUME NEW l \in Link, Links!WriteKpi(l) PROVE LinksSound'
  <2> DEFINE k == link[l].row
             asks == link[l].asks
  <2>1. link[l].pc = "kpi" /\ UNCHANGED <<treatment, control, action>>
    BY <1>2 DEF Links!WriteKpi
  <2>2. /\ k \in Link /\ asks \in Asks
        /\ action[k] = "absent" /\ (k = l \/ kpi[k] # "absent")
    BY <2>1 DEF LinksSound, LinksTyped, LinkState, RowsApart
  <2>3. CASE asks = "control" /\ ~control
    <3>1. "control" \in link[l].saw \cap Links!Missing
      BY <2>1, <2>3, MissingIs DEF LinksSound, NamesSeen
    <3>2. Links!End(l, "error") /\ UNCHANGED <<kpi, asked>>
      BY <1>2, <2>3 DEF Links!WriteKpi
    <3>3. QED
      BY <2>1, <3>1, <3>2, LinkRefused
  <2>4. CASE ~(asks = "control" /\ ~control)
    <3>1. /\ kpi' = [kpi EXCEPT ![k] = Links!Given(kpi[k], asks)]
          /\ asked' = [asked EXCEPT ![k] = Links!Given(asked[k], asks)]
          /\ Links!End(l, "ok")
      BY <1>2, <2>4 DEF Links!WriteKpi
    <3> HIDE DEF k, asks
    <3>2. QED
      BY <2>1, <2>2, <2>4, <3>1, LinkWritten
  <2>5. QED
    BY <2>3, <2>4
<1>3. ASSUME NEW l \in Link, Links!EnsureAction(l) PROVE LinksSound'
  <2>1. link[l].pc = "new" /\ UNCHANGED <<treatment, control, kpi, action, asked>>
    BY <1>3 DEF Links!EnsureAction
  <2>2. CASE treatment
    <3>1. PICK asks \in {"control", "null"} :
            link' = [link EXCEPT ![l] =
              [Links!NoLink EXCEPT !.pc = "action", !.row = l, !.asks = asks,
                                   !.saw = {"treatment"}]]
      BY <1>3, <2>2 DEF Links!EnsureAction
    <3> DEFINE R ==
          [Links!NoLink EXCEPT !.pc = "action", !.row = l, !.asks = asks, !.saw = {"treatment"}]
    <3>2. R \in LinkState /\ R.pc = "action" /\ "treatment" \in R.saw /\ R.asks # "same"
      BY DEF Links!NoLink, LinkState, Asks
    <3> HIDE DEF R
    <3>3. link' = [link EXCEPT ![l] = R]
      BY <3>1 DEF R
    <3>4. QED
      BY <2>1, <3>2, <3>3, LinkFound
  <2>3. CASE ~treatment
    <3>1. Links!End(l, "not_found")
      BY <1>3, <2>3 DEF Links!EnsureAction
    <3>2. QED
      BY <2>1, <3>1, LinkRefused
  <2>4. QED
    BY <2>2, <2>3
<1>4. ASSUME NEW l \in Link, Links!CreateAction(l) PROVE LinksSound'
  <2> DEFINE asks == link[l].asks
  <2>1. link[l].pc = "action" /\ UNCHANGED <<treatment, control, kpi>>
    BY <1>4 DEF Links!CreateAction
  <2>2. /\ asks \in Asks /\ asks # "same" /\ kpi[l] = "absent" /\ action[l] = "absent"
        /\ "treatment" \in link[l].saw
    BY <2>1 DEF LinksSound, LinksTyped, LinkState, RowsApart, NamesSeen
  <2>3. CASE ~treatment
    <3>1. "treatment" \in link[l].saw \cap Links!Missing
      BY <2>2, <2>3, MissingIs
    <3>2. Links!End(l, "error") /\ UNCHANGED <<action, asked>>
      BY <1>4, <2>3 DEF Links!CreateAction
    <3>3. QED
      BY <2>1, <3>1, <3>2, LinkRefused
  <2>4. CASE treatment /\ asks = "control" /\ ~control
    <3>1. Links!End(l, "unchecked") /\ UNCHANGED <<action, asked>>
      BY <1>4, <2>4 DEF Links!CreateAction
    <3>2. QED
      BY <2>1, <3>1, LinkRefused
  <2>5. CASE treatment /\ ~(asks = "control" /\ ~control)
    <3>1. /\ action' = [action EXCEPT ![l] = Links!Given(action[l], asks)]
          /\ asked' = [asked EXCEPT ![l] = Links!Given(asked[l], asks)]
          /\ Links!End(l, "ok")
      BY <1>4, <2>2, <2>5 DEF Links!CreateAction, Links!Given
    <3> HIDE DEF asks
    <3>2. QED
      BY <2>1, <2>2, <2>5, <3>1, LinkWritten
  <2>6. QED
    BY <2>3, <2>4, <2>5
<1>5. ASSUME NEW l \in Link, Links!UpdateAction(l) PROVE LinksSound'
  <2>1. PICK a \in Link, asks \in Asks :
          IF action[a] = "absent" \/ (asks = "control" /\ ~control)
          THEN UNCHANGED <<action, asked>> /\ Links!End(l, "unchecked")
          ELSE /\ action' = [action EXCEPT ![a] = Links!Given(action[a], asks)]
               /\ asked' = [asked EXCEPT ![a] = Links!Given(asked[a], asks)]
               /\ Links!End(l, "ok")
    BY <1>5 DEF Links!UpdateAction, Asks
  <2>2. UNCHANGED <<treatment, control, kpi>>
    BY <1>5 DEF Links!UpdateAction
  <2>3. CASE action[a] = "absent" \/ (asks = "control" /\ ~control)
    BY <2>1, <2>2, <2>3, LinkRefused
  <2>4. CASE ~(action[a] = "absent" \/ (asks = "control" /\ ~control))
    <3>1. kpi[a] = "absent"
      BY <2>4 DEF LinksSound, RowsApart
    <3>2. QED
      BY <2>1, <2>2, <2>4, <3>1, LinkWritten
  <2>5. QED
    BY <2>3, <2>4
<1>6. ASSUME NEW l \in Link, Links!RemoveAction(l) PROVE LinksSound'
  BY <1>6 DEF Links!RemoveAction, LinksSound, LinksTyped, RowsApart, NamesSeen,
     Links!LinksAsAsked, Named
<1>7. CASE Links!RemoveTreatment
  BY <1>7 DEF Links!RemoveTreatment, LinksSound, LinksTyped, RowsApart, NamesSeen,
     Links!LinksAsAsked, Named
<1>8. CASE Links!RemoveControl
  <2>1. /\ kpi' \in [Link -> Named] /\ action' \in [Link -> Named]
        /\ \A l \in Link : /\ kpi'[l] = "absent" <=> kpi[l] = "absent"
                           /\ action'[l] = "absent" <=> action[l] = "absent"
                           /\ kpi'[l] \in {"absent", "null"} /\ action'[l] \in {"absent", "null"}
    BY <1>8 DEF Links!RemoveControl, Links!Unlinked, LinksSound, LinksTyped, Named
  <2>2. control' = FALSE /\ UNCHANGED <<treatment, link, asked>>
    BY <1>8 DEF Links!RemoveControl
  <2>3. LinksTyped'
    BY <2>1, <2>2 DEF LinksSound, LinksTyped
  <2>4. RowsApart' /\ NamesSeen'
    BY <2>1, <2>2 DEF LinksSound, RowsApart, NamesSeen
  <2>5. Links!LinksAsAsked'
    BY <2>1, <2>2 DEF Links!LinksAsAsked
  <2>6. QED
    BY <2>3, <2>4, <2>5 DEF LinksSound
<1>9. CASE UNCHANGED Links!linksVars
  BY <1>9 DEF Links!linksVars, LinksSound, LinksTyped, RowsApart, NamesSeen, Links!LinksAsAsked
<1>10. QED
  BY <1>1, <1>2, <1>3, <1>4, <1>5, <1>6, <1>7, <1>8, <1>9 DEF Links!Next, Links!Step

LEMMA LinksInit == Links!Init => LinksSound
<1> SUFFICES ASSUME Links!Init PROVE LinksSound
  OBVIOUS
<1>1. Links!NoLink \in LinkState /\ Links!NoLink.pc = "new"
  BY DEF Links!NoLink, LinkState, Asks
<1>2. QED
  BY <1>1 DEF Links!Init, LinksSound, LinksTyped, RowsApart, NamesSeen, Links!LinksAsAsked, Named

-----------------------------------------------------------------------------
(***************************************************************************)
(* LookUpsHold: subscriptions and channels.                                *)
(***************************************************************************)

Facts == {"subscription", "channel", "unused"}
RequesterState ==
  [pc : {"new", "create", "ensure", "update", "unsubscribe", "delete", "ok", "error", "refused"},
   row : Profiles!Row, channel : Channel \cup {Profiles!None},
   saw : SUBSET Facts, lost : SUBSET Facts]

\* What the write of a request needs was looked up.
NeedsSeen(q) ==
  /\ q.pc = "create" => "channel" \in q.saw
  /\ q.pc \in {"ensure", "update", "unsubscribe"} => "subscription" \in q.saw
  /\ q.pc = "update" => q.channel = Profiles!None \/ "channel" \in q.saw
  /\ q.pc = "delete" => "channel" \in q.saw /\ "unused" \in q.saw
  /\ q.pc = "error" => q.lost # {}

RequestsSound ==
  request \in [Requester -> RequesterState] /\ \A r \in Requester : NeedsSeen(request[r])

LEMMA HoldsIs ==
  ASSUME NEW r \in Requester
  PROVE  /\ "subscription" \in Profiles!Holds(r) <=> subscription[request[r].row] # Profiles!None
         /\ "channel" \in Profiles!Holds(r) <=> request[r].channel \in channels
  BY DEF Profiles!Holds

\* What is left when one request goes on or ends.
LEMMA RequestSet ==
  ASSUME RequestsSound, NEW r \in Requester, NEW q \in RequesterState, NeedsSeen(q),
         request' = [request EXCEPT ![r] = q]
  PROVE  RequestsSound'
<1>1. request' \in [Requester -> RequesterState]
  BY DEF RequestsSound
<1>2. \A p \in Requester : NeedsSeen(request'[p])
  BY DEF RequestsSound
<1>3. QED
  BY <1>1, <1>2 DEF RequestsSound, NeedsSeen

LEMMA RequestEnd ==
  ASSUME RequestsSound, NEW r \in Requester, NEW s \in {"ok", "error", "refused"},
         Profiles!End(r, s), s = "error" => request[r].saw \ Profiles!Holds(r) # {}
  PROVE  RequestsSound'
<1> DEFINE gone == IF s = "error" THEN request[r].saw \ Profiles!Holds(r) ELSE {}
           q == [Profiles!NoRequest EXCEPT !.pc = s, !.lost = gone]
<1>1. gone \in SUBSET Facts /\ (s = "error" => gone # {})
  BY DEF RequestsSound, RequesterState
<1>2. request' = [request EXCEPT ![r] = q]
  BY DEF Profiles!End
<1> HIDE DEF gone
<1>3. q \in RequesterState /\ q.pc = s /\ q.lost = gone
  BY <1>1 DEF Profiles!NoRequest, RequesterState, Profiles!Row
<1> HIDE DEF q
<1>4. NeedsSeen(q)
  BY <1>1, <1>3 DEF NeedsSeen
<1>5. QED
  BY <1>2, <1>3, <1>4, RequestSet

LEMMA RequestsStep == RequestsSound /\ [Profiles!Next]_(Profiles!profilesVars) => RequestsSound'
<1> SUFFICES ASSUME RequestsSound, [Profiles!Next]_(Profiles!profilesVars) PROVE RequestsSound'
  OBVIOUS
<1>1. "first" \in Profiles!Row
  BY DEF Profiles!Row
<1>2. ASSUME NEW r \in Requester, Profiles!Validate(r) PROVE RequestsSound'
  <2>1. PICK c \in Channel :
          \/ request' = [request EXCEPT ![r] =
               [Profiles!NoRequest EXCEPT !.pc = "create", !.channel = c, !.saw = {"channel"}]]
          \/ Profiles!End(r, "refused")
    BY <1>2 DEF Profiles!Validate
  <2> DEFINE q == [Profiles!NoRequest EXCEPT !.pc = "create", !.channel = c, !.saw = {"channel"}]
  <2>2. q \in RequesterState /\ q.pc = "create" /\ q.saw = {"channel"}
    BY <1>1 DEF Profiles!NoRequest, RequesterState, Facts
  <2>3. NeedsSeen(q)
    BY <2>2 DEF NeedsSeen
  <2>4. QED
    BY <2>1, <2>2, <2>3, RequestEnd, RequestSet
<1>3. ASSUME NEW r \in Requester, Profiles!Subscribe(r) PROVE RequestsSound'
  <2>1. "channel" \in request[r].saw
    BY <1>3 DEF Profiles!Subscribe, RequestsSound, NeedsSeen
  <2>2. QED
    BY <1>3, <2>1, RequestEnd DEF Profiles!Subscribe
<1>4. ASSUME NEW r \in Requester, Profiles!FindSubscription(r) PROVE RequestsSound'
  <2>1. PICK s \in Profiles!Row, next \in {"ensure", "unsubscribe"} :
          \/ request' = [request EXCEPT ![r] =
               [Profiles!NoRequest EXCEPT !.pc = next, !.row = s, !.saw = {"subscription"}]]
          \/ Profiles!End(r, "refused")
    BY <1>4 DEF Profiles!FindSubscription
  <2> DEFINE q == [Profiles!NoRequest EXCEPT !.pc = next, !.row = s, !.saw = {"subscription"}]
  <2>2. q \in RequesterState /\ q.pc = next /\ q.saw = {"subscription"}
    BY DEF Profiles!NoRequest, RequesterState, Facts
  <2>3. NeedsSeen(q)
    BY <2>2 DEF NeedsSeen
  <2>4. QED
    BY <2>1, <2>2, <2>3, RequestEnd, RequestSet
<1>5. ASSUME NEW r \in Requester, Profiles!EnsureChannel(r) PROVE RequestsSound'
  <2>1. CASE Profiles!End(r, "refused")
    BY <2>1, RequestEnd
  <2>2. CASE ~Profiles!End(r, "refused")
    <3> DEFINE Q == request[r]
    <3>1. PICK c \in Channel \cup {Profiles!None} :
            request' = [request EXCEPT ![r].pc = "update", ![r].channel = c,
              ![r].saw = IF c = Profiles!None THEN @ ELSE @ \cup {"channel"}]
      BY <1>5, <2>2 DEF Profiles!EnsureChannel
    <3> DEFINE q == [Q EXCEPT !.pc = "update", !.channel = c,
                              !.saw = IF c = Profiles!None THEN @ ELSE @ \cup {"channel"}]
    <3>2. Q \in RequesterState /\ Q.pc = "ensure" /\ "subscription" \in Q.saw
      BY <1>5 DEF Profiles!EnsureChannel, RequestsSound, NeedsSeen
    <3>3. request' = [request EXCEPT ![r] = q]
      BY <3>1, <3>2 DEF RequestsSound
    <3>4. /\ q \in RequesterState /\ q.pc = "update" /\ q.channel = c
          /\ "subscription" \in q.saw /\ (c = Profiles!None \/ "channel" \in q.saw)
      BY <3>2 DEF RequesterState, Facts
    <3>5. NeedsSeen(q)
      BY <3>4 DEF NeedsSeen
    <3>6. QED
      BY <3>3, <3>4, <3>5, RequestSet
  <2>3. QED
    BY <2>1, <2>2
<1>6. ASSUME NEW r \in Requester, Profiles!Resubscribe(r) PROVE RequestsSound'
  <2>1. /\ "subscription" \in request[r].saw
        /\ request[r].channel = Profiles!None \/ "channel" \in request[r].saw
    BY <1>6 DEF Profiles!Resubscribe, RequestsSound, NeedsSeen
  <2>2. CASE /\ subscription[request[r].row] # Profiles!None
             /\ request[r].channel \in channels \cup {Profiles!None}
    BY <1>6, <2>2, RequestEnd DEF Profiles!Resubscribe
  <2>3. CASE ~ /\ subscription[request[r].row] # Profiles!None
               /\ request[r].channel \in channels \cup {Profiles!None}
    <3>1. request[r].saw \ Profiles!Holds(r) # {}
      BY <2>1, <2>3, HoldsIs
    <3>2. QED
      BY <1>6, <2>3, <3>1, RequestEnd DEF Profiles!Resubscribe
  <2>4. QED
    BY <2>2, <2>3
<1>7. ASSUME NEW r \in Requester, Profiles!Unsubscribe(r) PROVE RequestsSound'
  <2>1. "subscription" \in request[r].saw
    BY <1>7 DEF Profiles!Unsubscribe, RequestsSound, NeedsSeen
  <2>2. QED
    BY <1>7, <2>1, HoldsIs, RequestEnd DEF Profiles!Unsubscribe
<1>8. ASSUME NEW r \in Requester, Profiles!CountSubscriptions(r) PROVE RequestsSound'
  <2>1. PICK c \in Channel :
          \/ request' = [request EXCEPT ![r] = [Profiles!NoRequest EXCEPT
               !.pc = "delete", !.channel = c, !.saw = {"channel", "unused"}]]
          \/ Profiles!End(r, "refused")
    BY <1>8 DEF Profiles!CountSubscriptions
  <2> DEFINE q == [Profiles!NoRequest EXCEPT !.pc = "delete", !.channel = c,
                                             !.saw = {"channel", "unused"}]
  <2>2. q \in RequesterState /\ q.pc = "delete" /\ q.saw = {"channel", "unused"}
    BY <1>1 DEF Profiles!NoRequest, RequesterState, Facts
  <2>3. NeedsSeen(q)
    BY <2>2 DEF NeedsSeen
  <2>4. QED
    BY <2>1, <2>2, <2>3, RequestEnd, RequestSet
<1>9. ASSUME NEW r \in Requester, Profiles!DeleteChannel(r) PROVE RequestsSound'
  <2>1. {"channel", "unused"} \subseteq request[r].saw
    BY <1>9 DEF Profiles!DeleteChannel, RequestsSound, NeedsSeen
  <2>2. QED
    BY <1>9, <2>1, RequestEnd DEF Profiles!DeleteChannel
<1>10. CASE UNCHANGED request
  BY <1>10 DEF RequestsSound
<1>11. QED
  BY <1>2, <1>3, <1>4, <1>5, <1>6, <1>7, <1>8, <1>9, <1>10
     DEF Profiles!Next, Profiles!Own, Profiles!Empty, Profiles!Emptying, Profiles!Write,
     Profiles!WriteFails, Profiles!RemoveProfile, Profiles!Sweep, Profiles!Load, Profiles!Match,
     Profiles!profilesVars

LEMMA RequestsInit == Profiles!Init => RequestsSound
<1> SUFFICES ASSUME Profiles!Init PROVE RequestsSound
  OBVIOUS
<1>1. Profiles!NoRequest \in RequesterState
  BY DEF Profiles!NoRequest, RequesterState, Profiles!Row
<1>2. QED
  BY <1>1 DEF Profiles!Init, RequestsSound, NeedsSeen, Profiles!NoRequest

\* However look-ups, links and deletions overlap, a KPI or an action has the control it was last
\* given by a request that was answered, or none once that is deleted, and the database refuses a
\* link, or the deletion of a channel, only because what was looked up has changed in between.
THEOREM LinksCorrect == Spec => []LookUpsHold
<1>1. LinksSound => Links!LinksAsAsked /\ Links!RefusedByRace
  BY DEF LinksSound, NamesSeen, Links!RefusedByRace
<1>2. RequestsSound => Profiles!RefusedByRace
  BY DEF RequestsSound, NeedsSeen, Profiles!RefusedByRace
<1>3. LinksSound /\ RequestsSound => LookUpsHold
  BY <1>1, <1>2 DEF LookUpsHold
<1>4. QED
  BY LinksSteps, ProfilesSteps, LinksInit, LinksStep, RequestsInit, RequestsStep, <1>3, PTL
     DEF Spec

-----------------------------------------------------------------------------
(***************************************************************************)
(* ScoresFollow.  The scores an update has computed are those of what it   *)
(* is going to write as long as nobody has written since it read, but for  *)
(* the residual factors it clears.                                         *)
(***************************************************************************)

Factors == [Register!Factor -> Nat]
AnyScores == {Register!Scores(f) : f \in Factors} \cup {Register!NoScores}
UpdateState ==
  [pc : {"new", "write", "done"}, sent : Factors, scores : AnyScores, stale : BOOLEAN]

RegisterTyped ==
  /\ risk \in [factors : Factors, scores : AnyScores, isActive : BOOLEAN]
  /\ update \in [Update -> UpdateState]

LEMMA SentFactors ==
  ASSUME NEW sent \in Register!Sent
  PROVE  /\ sent \in Factors
         /\ sent["likelihood"] # Register!Null /\ sent["impact"] # Register!Null
<1>1. \A v \in Rating : v \in Nat /\ v # Register!Null
  BY BackOfficeAssumption DEF Register!RegisterAssumption, Register!Null
<1>2. Register!Residual \subseteq Register!Factor
  BY DEF Register!Residual, Register!Factor
<1>3. Register!Keep \in Nat /\ Register!Null \in Nat /\ Register!Keep # Register!Null
  BY DEF Register!Keep, Register!Null
<1>4. CASE \E f \in Register!Factor, v \in Rating :
             sent = [g \in Register!Factor |-> IF g = f THEN v ELSE Register!Keep]
  BY <1>1, <1>3, <1>4 DEF Factors, Register!Factor
<1>5. CASE \E f \in Register!Residual :
             sent = [g \in Register!Factor |-> IF g = f THEN Register!Null ELSE Register!Keep]
  BY <1>2, <1>3, <1>5 DEF Factors, Register!Factor, Register!Residual
<1>6. QED
  BY <1>4, <1>5 DEF Register!Sent

LEMMA EffectiveFactors ==
  ASSUME NEW sent \in Register!Sent, NEW f \in Factors
  PROVE  Register!Effective(sent, f) \in Factors
  BY SentFactors DEF Register!Effective, Factors

LEMMA NoUpdateType ==
  Register!NoUpdate \in UpdateState /\ [Register!NoUpdate EXCEPT !.pc = "done"] \in UpdateState
<1>1. Register!NotSent \in Factors
  BY DEF Register!NotSent, Register!Keep, Factors
<1>2. QED
  BY <1>1 DEF Register!NoUpdate, UpdateState, AnyScores

LEMMA RegisterTypedInit == Register!Init => RegisterTyped
<1> SUFFICES ASSUME Register!Init PROVE RegisterTyped
  OBVIOUS
<1>1. PICK f \in Register!Stored :
        risk = [factors |-> f, scores |-> Register!Scores(f), isActive |-> TRUE]
  BY DEF Register!Init
<1>2. f \in Factors
  <2>1. DOMAIN f = Register!Factor /\ f = [g \in DOMAIN f |-> f[g]]
    BY DEF Register!Stored, Register!Factor
  <2>2. Rating \cup {Register!Null} \subseteq Nat
    BY BackOfficeAssumption DEF Register!RegisterAssumption, Register!Null
  <2>3. f \in [likelihood : Nat, impact : Nat, residualLikelihood : Nat, residualImpact : Nat]
    BY <2>2 DEF Register!Stored
  <2>4. QED
    BY <2>1, <2>3 DEF Factors, Register!Factor
<1>3. QED
  BY <1>1, <1>2, NoUpdateType DEF Register!Init, RegisterTyped, AnyScores

\* What Write(u) stores.
Written(u) ==
  [g \in Register!Factor |->
    IF update[u].sent[g] = Register!Keep THEN risk.factors[g] ELSE update[u].sent[g]]

LEMMA WriteStores ==
  ASSUME RegisterTyped, NEW u \in Update, Register!Write(u)
  PROVE  /\ risk' \in [factors : Factors, scores : AnyScores, isActive : BOOLEAN]
         /\ risk'.factors = Written(u) /\ risk'.scores = update[u].scores
<1>1. update[u].sent \in Factors /\ update[u].scores \in AnyScores /\ risk.factors \in Factors
  BY DEF RegisterTyped, UpdateState
<1>2. Written(u) \in Factors
  BY <1>1 DEF Written, Factors
<1>3. risk' = [risk EXCEPT !.factors = Written(u), !.scores = update[u].scores]
  BY DEF Register!Write, Written
<1>4. QED
  BY <1>1, <1>2, <1>3 DEF RegisterTyped

LEMMA RegisterTypedStep ==
  RegisterTyped /\ [Register!Next]_(Register!registerVars) => RegisterTyped'
<1> SUFFICES ASSUME RegisterTyped, [Register!Next]_(Register!registerVars)
             PROVE  RegisterTyped'
  OBVIOUS
<1>1. ASSUME NEW u \in Update, Register!Read(u) PROVE RegisterTyped'
  <2>1. PICK sent \in Register!Sent : update' = [update EXCEPT ![u] =
          [pc |-> "write", sent |-> sent,
           scores |-> Register!Scores(Register!Effective(sent, risk.factors)), stale |-> FALSE]]
    BY <1>1 DEF Register!Read
  <2>2. Register!Effective(sent, risk.factors) \in Factors /\ sent \in Factors
    BY EffectiveFactors, SentFactors DEF RegisterTyped
  <2>3. [pc |-> "write", sent |-> sent,
         scores |-> Register!Scores(Register!Effective(sent, risk.factors)), stale |-> FALSE]
          \in UpdateState
    BY <2>2 DEF UpdateState, AnyScores
  <2>4. QED
    BY <1>1, <2>1, <2>3 DEF Register!Read, RegisterTyped
<1>2. ASSUME NEW u \in Update, Register!Write(u) PROVE RegisterTyped'
  <2>1. \A v \in Update : [update[v] EXCEPT !.stale = TRUE] \in UpdateState
    BY DEF RegisterTyped, UpdateState
  <2>2. update' \in [Update -> UpdateState]
    BY <1>2, <2>1, NoUpdateType DEF Register!Write, RegisterTyped
  <2>3. QED
    BY <1>2, <2>2, WriteStores DEF RegisterTyped
<1>3. CASE Register!RemoveRisk
  BY <1>3 DEF Register!RemoveRisk, RegisterTyped
<1>4. CASE UNCHANGED Register!registerVars
  BY <1>4 DEF Register!registerVars, RegisterTyped
<1>5. QED
  BY <1>1, <1>2, <1>3, <1>4 DEF Register!Next

\* The scores an update has computed are of the row as it is, unless another has written since.
ComputedFresh ==
  \A u \in Update : update[u].pc = "write" =>
    /\ update[u].sent \in Register!Sent
    /\ ~update[u].stale =>
         update[u].scores = Register!Scores(Register!Effective(update[u].sent, risk.factors))

LEMMA ComputedFreshStep ==
  RegisterTyped /\ ComputedFresh /\ [Register!Next]_(Register!registerVars) => ComputedFresh'
<1> SUFFICES ASSUME RegisterTyped, ComputedFresh, [Register!Next]_(Register!registerVars)
             PROVE  ComputedFresh'
  OBVIOUS
<1>1. ASSUME NEW u \in Update, Register!Read(u) PROVE ComputedFresh'
  BY <1>1 DEF Register!Read, ComputedFresh, RegisterTyped
<1>2. ASSUME NEW u \in Update, Register!Write(u) PROVE ComputedFresh'
  <2> SUFFICES ASSUME NEW v \in Update, update'[v].pc = "write"
               PROVE  update'[v].sent \in Register!Sent /\ update'[v].stale
    BY DEF ComputedFresh
  <2>1. v # u
    BY <1>2 DEF Register!Write, Register!NoUpdate, RegisterTyped
  <2>2. update'[v] = IF update[v].pc = "write" THEN [update[v] EXCEPT !.stale = TRUE] ELSE update[v]
    BY <1>2, <2>1 DEF Register!Write
  <2>3. update[v].pc = "write" /\ update[v] \in UpdateState
    BY <2>2 DEF RegisterTyped
  <2>4. QED
    BY <2>2, <2>3 DEF ComputedFresh, UpdateState
<1>3. CASE Register!RemoveRisk
  BY <1>3 DEF Register!RemoveRisk, ComputedFresh, RegisterTyped
<1>4. CASE UNCHANGED Register!registerVars
  BY <1>4 DEF Register!registerVars, ComputedFresh
<1>5. QED
  BY <1>1, <1>2, <1>3, <1>4 DEF Register!Next

\* What is written and what was computed differ only in a residual factor that is cleared.
LEMMA EffectiveWritten ==
  ASSUME RegisterTyped, ComputedFresh, NEW u \in Update, update[u].pc = "write",
         NEW g \in Register!Factor,
         Written(u)[g] # Register!Effective(update[u].sent, risk.factors)[g]
  PROVE  /\ g \in Register!Residual
         /\ update[u].sent[g] = Register!Null /\ risk.factors[g] # Register!Null
<1>1. /\ update[u].sent["likelihood"] # Register!Null
      /\ update[u].sent["impact"] # Register!Null
  BY SentFactors DEF ComputedFresh
<1>2. update[u].sent[g] = Register!Null /\ risk.factors[g] # Register!Null
  BY DEF Written, Register!Effective, Register!Keep, Register!Null
<1>3. QED
  BY <1>1, <1>2 DEF Register!Factor, Register!Residual

LEMMA ScoresStep ==
  RegisterTyped /\ ComputedFresh /\ Register!ScoresFollow /\ [Register!Next]_(Register!registerVars)
    => Register!ScoresFollow'
<1> SUFFICES ASSUME RegisterTyped, ComputedFresh, Register!ScoresFollow,
                    [Register!Next]_(Register!registerVars)
             PROVE  Register!ScoresFollow'
  OBVIOUS
<1>1. ASSUME NEW u \in Update, Register!Read(u) PROVE Register!ScoresFollow'
  BY <1>1 DEF Register!Read, Register!ScoresFollow
<1>2. ASSUME NEW u \in Update, Register!Write(u) PROVE Register!ScoresFollow'
  <2> SUFFICES ASSUME ~overlap'
               PROVE  LET scores == Register!Scores(Written(u))
                      IN  /\ update[u].scores.inherent = scores.inherent
                          /\ update[u].scores.level = scores.level
                          /\ ~cleared' => update[u].scores.residual = scores.residual
    BY <1>2, WriteStores DEF Register!ScoresFollow
  <2> DEFINE eff == Register!Effective(update[u].sent, risk.factors)
  <2>1. update[u].pc = "write" /\ update[u].scores = Register!Scores(eff)
    BY <1>2 DEF Register!Write, ComputedFresh
  <2>2. Written(u)["likelihood"] = eff["likelihood"] /\ Written(u)["impact"] = eff["impact"]
    <3>1. /\ "likelihood" \in Register!Factor \ Register!Residual
          /\ "impact" \in Register!Factor \ Register!Residual
      BY DEF Register!Factor, Register!Residual
    <3>2. QED
      BY <2>1, <3>1, EffectiveWritten
  <2>3. ASSUME ~cleared'
        PROVE  /\ Written(u)["residualLikelihood"] = eff["residualLikelihood"]
               /\ Written(u)["residualImpact"] = eff["residualImpact"]
    <3>1. \A g \in Register!Residual :
            ~(update[u].sent[g] = Register!Null /\ risk.factors[g] # Register!Null)
      BY <1>2, <2>3 DEF Register!Write
    <3>2. {"residualLikelihood", "residualImpact"} \subseteq Register!Factor
      BY DEF Register!Factor
    <3>3. QED
      BY <2>1, <3>1, <3>2, EffectiveWritten
  <2> HIDE DEF eff
  <2>4. Register!Scores(eff).residual = Register!ResidualScore(eff) /\
        Register!Scores(Written(u)).residual = Register!ResidualScore(Written(u))
    BY DEF Register!Scores
  <2>5. ~cleared' => Register!ResidualScore(Written(u)) = Register!ResidualScore(eff)
    BY <2>3 DEF Register!ResidualScore
  <2>6. /\ Register!Scores(eff).inherent = Register!Scores(Written(u)).inherent
        /\ Register!Scores(eff).level = Register!Scores(Written(u)).level
    BY <2>2 DEF Register!Scores
  <2>7. QED
    BY <2>1, <2>4, <2>5, <2>6
<1>3. CASE Register!RemoveRisk
  BY <1>3 DEF Register!RemoveRisk, Register!ScoresFollow, RegisterTyped
<1>4. CASE UNCHANGED Register!registerVars
  BY <1>4 DEF Register!registerVars, Register!ScoresFollow
<1>5. QED
  BY <1>1, <1>2, <1>3, <1>4 DEF Register!Next

\* The scores stored are those of the factors stored, unless the last update overlapped another
\* one or cleared a residual factor.
THEOREM ScoresCorrect == Spec => []ScoresFollow
<1>1. Register!Init => ComputedFresh
  BY DEF Register!Init, ComputedFresh, Register!NoUpdate
<1>2. Register!Init => Register!ScoresFollow
  BY DEF Register!Init, Register!ScoresFollow
<1>3. Register!ScoresFollow => ScoresFollow
  BY DEF ScoresFollow
<1>4. QED
  BY RegisterSteps, RegisterTypedInit, RegisterTypedStep, ComputedFreshStep, ScoresStep,
     <1>1, <1>2, <1>3, PTL DEF Spec

-----------------------------------------------------------------------------
(***************************************************************************)
(* AdminLeft.  The administrator of a request that the guards let in is    *)
(* one when the request is handled, unless somebody was demoted, so that   *)
(* it survives whatever its request does to another account.               *)
(***************************************************************************)

Row == Accounts!Account \cup {Accounts!Absent}

AccountsTyped == row \in [User -> Row] /\ DOMAIN session = Session

LEMMA AccountsTypedInit == Accounts!Init => AccountsTyped
<1>1. Accounts!Admin \in Row /\ Accounts!Absent \in Row
  BY DEF Row, Accounts!Admin, Accounts!Account
<1>2. QED
  BY <1>1 DEF Accounts!Init, AccountsTyped

LEMMA AccountsTypedStep ==
  AccountsTyped /\ [Accounts!Next]_(Accounts!accountsVars) => AccountsTyped'
<1> SUFFICES ASSUME AccountsTyped, [Accounts!Next]_(Accounts!accountsVars) PROVE AccountsTyped'
  OBVIOUS
<1>1. /\ Accounts!Admin \in Row /\ Accounts!Absent \in Row /\ Accounts!Account \subseteq Row
      /\ [role |-> "USER", permission |-> "READ", isActive |-> TRUE] \in Row
  BY DEF Row, Accounts!Admin, Accounts!Account
<1>2. ASSUME NEW u \in User, Accounts!Register(u) \/ Accounts!Login(u) \/ Accounts!Expire(u)
      PROVE  AccountsTyped'
  BY <1>1, <1>2 DEF Accounts!Register, Accounts!Login, Accounts!Expire, AccountsTyped
<1>3. ASSUME NEW r \in Session, NEW u \in User,
             Accounts!Begin(r, u, "admin") \/ Accounts!Begin(r, u, "write")
      PROVE  AccountsTyped'
  BY <1>3 DEF Accounts!Begin, AccountsTyped
<1>4. ASSUME NEW r \in Session, NEW u \in User, Accounts!UpdateUser(r, u)
      PROVE  AccountsTyped'
  BY <1>1, <1>4 DEF Accounts!UpdateUser, Accounts!End, AccountsTyped
<1>5. ASSUME NEW r \in Session, NEW u \in User, Accounts!DeleteUser(r, u)
      PROVE  AccountsTyped'
  BY <1>1, <1>5 DEF Accounts!DeleteUser, Accounts!End, AccountsTyped
<1>6. ASSUME NEW r \in Session, Accounts!Handle(r) PROVE AccountsTyped'
  BY <1>6 DEF Accounts!Handle, Accounts!End, AccountsTyped
<1>7. CASE Accounts!Restart
  BY <1>1, <1>7 DEF Accounts!Restart, AccountsTyped
<1>8. CASE UNCHANGED Accounts!accountsVars
  BY <1>8 DEF Accounts!accountsVars, AccountsTyped
<1>9. QED
  BY <1>2, <1>3, <1>4, <1>5, <1>6, <1>7, <1>8 DEF Accounts!Next

AdminsAtWork ==
  ~demoted =>
    /\ Accounts!ActiveAdmins # {}
    /\ \A r \in Session : session[r].pc = "admin" => session[r].user \in Accounts!ActiveAdmins

LEMMA AdminsInit == Accounts!Init => AdminsAtWork
<1> SUFFICES ASSUME Accounts!Init PROVE AdminsAtWork
  OBVIOUS
<1>1. Root \in Accounts!ActiveAdmins
  BY BackOfficeAssumption
     DEF Accounts!AccountsAssumption, Accounts!Init, Accounts!ActiveAdmins, Accounts!Admin
<1>2. QED
  BY <1>1 DEF Accounts!Init, Accounts!NoRequest, AdminsAtWork

\* A request of an administrator r writes "new" into the row of an account.
LEMMA AdminsWrite ==
  ASSUME AccountsTyped, AdminsAtWork, NEW r \in Session, NEW u \in User, NEW new \in Row,
         session[r].pc = "admin", Accounts!End(r), row' = [row EXCEPT ![u] = new],
         ~demoted' => ~demoted /\ ~Accounts!Weakens(r, u, new)
  PROVE  AdminsAtWork'
<1> SUFFICES ASSUME ~demoted'
             PROVE  /\ Accounts!ActiveAdmins' # {}
                    /\ \A q \in Session : session'[q].pc = "admin"
                                            => session'[q].user \in Accounts!ActiveAdmins'
  BY DEF AdminsAtWork
<1>1. ~demoted /\ ~Accounts!Weakens(r, u, new)
  OBVIOUS
<1>2. \A v \in Accounts!ActiveAdmins : v # u \/ (new.role = "ADMIN" /\ new.isActive)
        => v \in Accounts!ActiveAdmins'
  BY DEF Accounts!ActiveAdmins, AccountsTyped
<1>3. \A q \in Session : session[q].pc = "admin" => session[q].user \in Accounts!ActiveAdmins'
  <2> SUFFICES ASSUME NEW q \in Session, session[q].pc = "admin"
               PROVE  session[q].user \in Accounts!ActiveAdmins'
    OBVIOUS
  <2>1. session[q].user \in Accounts!ActiveAdmins
    BY <1>1 DEF AdminsAtWork
  <2>2. session[q].user = u => new.role = "ADMIN" /\ new.isActive
    BY <1>1, <2>1 DEF Accounts!Weakens
  <2>3. QED
    BY <1>2, <2>1, <2>2
<1>4. \A q \in Session : session'[q].pc = "admin" => session'[q] = session[q]
  BY DEF Accounts!End, Accounts!NoRequest, AccountsTyped
<1>5. QED
  BY <1>3, <1>4

LEMMA AdminsStep ==
  AccountsTyped /\ AdminsAtWork /\ [Accounts!Next]_(Accounts!accountsVars) => AdminsAtWork'
<1> SUFFICES ASSUME AccountsTyped, AdminsAtWork, [Accounts!Next]_(Accounts!accountsVars)
             PROVE  AdminsAtWork'
  OBVIOUS
<1>1. ASSUME NEW u \in User, Accounts!Register(u) PROVE AdminsAtWork'
  <2>1. Accounts!ActiveAdmins \subseteq Accounts!ActiveAdmins'
    BY <1>1 DEF Accounts!Register, Accounts!ActiveAdmins, Accounts!Absent, AccountsTyped
  <2>2. QED
    BY <1>1, <2>1 DEF Accounts!Register, AdminsAtWork
<1>2. ASSUME NEW u \in User, Accounts!Login(u) \/ Accounts!Expire(u) PROVE AdminsAtWork'
  BY <1>2 DEF Accounts!Login, Accounts!Expire, AdminsAtWork, Accounts!ActiveAdmins
<1>3. ASSUME NEW r \in Session, NEW u \in User, Accounts!Begin(r, u, "admin")
      PROVE  AdminsAtWork'
  <2>1. u \in Accounts!ActiveAdmins
    BY <1>3 DEF Accounts!Begin, Accounts!Passes, Accounts!Profile, Accounts!ActiveAdmins
  <2>2. UNCHANGED <<row, demoted>> /\ Accounts!ActiveAdmins' = Accounts!ActiveAdmins
    BY <1>3 DEF Accounts!Begin, Accounts!ActiveAdmins
  <2>3. \A q \in Session : session'[q].pc = "admin"
          => session'[q].user = u \/ session'[q] = session[q]
    BY <1>3 DEF Accounts!Begin, AccountsTyped
  <2>4. QED
    BY <2>1, <2>2, <2>3 DEF AdminsAtWork
<1>4. ASSUME NEW r \in Session, NEW u \in User, Accounts!Begin(r, u, "write")
      PROVE  AdminsAtWork'
  <2>1. UNCHANGED <<row, demoted>> /\ Accounts!ActiveAdmins' = Accounts!ActiveAdmins
    BY <1>4 DEF Accounts!Begin, Accounts!ActiveAdmins
  <2>2. \A q \in Session : session'[q].pc = "admin" => session'[q] = session[q]
    BY <1>4 DEF Accounts!Begin, AccountsTyped
  <2>3. QED
    BY <2>1, <2>2 DEF AdminsAtWork
<1>5. ASSUME NEW r \in Session, NEW u \in User, Accounts!UpdateUser(r, u)
      PROVE  AdminsAtWork'
  <2>1. CASE UNCHANGED <<row, demoted>>
    BY <1>5, <2>1 DEF Accounts!UpdateUser, Accounts!End, Accounts!NoRequest, AdminsAtWork,
                      Accounts!ActiveAdmins, AccountsTyped
  <2>2. CASE ~UNCHANGED <<row, demoted>>
    <3>1. PICK new \in Accounts!Account :
            row' = [row EXCEPT ![u] = new] /\ demoted' = (demoted \/ Accounts!Weakens(r, u, new))
      BY <1>5, <2>2 DEF Accounts!UpdateUser
    <3>2. session[r].pc = "admin" /\ Accounts!End(r) /\ new \in Row
      BY <1>5 DEF Accounts!UpdateUser, Row
    <3>3. QED
      BY <3>1, <3>2, AdminsWrite
  <2>3. QED
    BY <2>1, <2>2
<1>6. ASSUME NEW r \in Session, NEW u \in User, Accounts!DeleteUser(r, u)
      PROVE  AdminsAtWork'
  <2>1. CASE UNCHANGED <<row, demoted>>
    BY <1>6, <2>1 DEF Accounts!DeleteUser, Accounts!End, Accounts!NoRequest, AdminsAtWork,
                      Accounts!ActiveAdmins, AccountsTyped
  <2>2. CASE ~UNCHANGED <<row, demoted>>
    <3>1. /\ u # session[r].user /\ row' = [row EXCEPT ![u] = Accounts!Absent]
          /\ demoted' =
               (demoted \/ (u # session[r].user /\ Accounts!Weakens(r, u, Accounts!Absent)))
      BY <1>6, <2>2 DEF Accounts!DeleteUser, Accounts!MayDelete
    <3>2. session[r].pc = "admin" /\ Accounts!End(r) /\ Accounts!Absent \in Row
      BY <1>6 DEF Accounts!DeleteUser, Row
    <3>3. QED
      BY <3>1, <3>2, AdminsWrite
  <2>3. QED
    BY <2>1, <2>2
<1>7. ASSUME NEW r \in Session, Accounts!Handle(r) PROVE AdminsAtWork'
  BY <1>7 DEF Accounts!Handle, Accounts!End, Accounts!NoRequest, AdminsAtWork,
              Accounts!ActiveAdmins, AccountsTyped
<1>8. CASE Accounts!Restart
  <2>1. Root \in Accounts!ActiveAdmins'
    BY <1>8, BackOfficeAssumption DEF Accounts!AccountsAssumption, Accounts!Restart,
       Accounts!ActiveAdmins, Accounts!Admin, AccountsTyped
  <2>2. QED
    BY <1>8, <2>1 DEF Accounts!Restart, Accounts!NoRequest, AdminsAtWork
<1>9. CASE UNCHANGED Accounts!accountsVars
  BY <1>9 DEF Accounts!accountsVars, AdminsAtWork, Accounts!ActiveAdmins
<1>10. QED
  BY <1>1, <1>2, <1>3, <1>4, <1>5, <1>6, <1>7, <1>8, <1>9 DEF Accounts!Next

\* There is an active administrator, unless one took its own rights, or those of one that was
\* under way itself.
THEOREM AdminCorrect == Spec => []AdminLeft
<1>1. AdminsAtWork => AdminLeft
  BY DEF AdminsAtWork, AdminLeft, Accounts!AdminLeft
<1>2. QED
  BY AccountsSteps, AccountsTypedInit, AccountsTypedStep, AdminsInit, AdminsStep,
     <1>1, PTL DEF Spec
-----------------------------------------------------------------------------
(***************************************************************************)
(* IpWhitelist, for words of any width: powers of two, the bits of a word  *)
(* and the mask.                                                           *)
(***************************************************************************)
LEMMA WhitelistSteps ==
  /\ Init => Whitelist!Init
  /\ [Next]_vars => [Whitelist!Next]_(Whitelist!whitelistVars)
<1>1. Init => Whitelist!Init
  BY DEF Init
<1>2. [Next]_vars => [Whitelist!Next]_(Whitelist!whitelistVars)
  BY DEF Next, vars, Whitelist!whitelistVars, register, links, profiles, milestones, accounts,
         whitelist,
         InRegister, InLinks, InProfiles, InActors, InAccounts, InWhitelist
<1>3. QED
  BY <1>1, <1>2

\* The least element of a nonempty set of numbers.
LEMMA LeastElement ==
  ASSUME NEW T \in SUBSET Nat, T # {}
  PROVE  \E x \in T : \A y \in T : x <= y
<1>1. PICK n \in T : TRUE
  OBVIOUS
<1> DEFINE F == {0..k : k \in T \cap 0..n}
<1>2. IsFiniteSet(0..n)
  BY FS_Interval
<1>3. F \in SUBSET SUBSET (0..n) /\ F # {}
  BY <1>1
<1> HIDE DEF F
<1>4. \E X \in F : \A Y \in F : ~ (<<Y, X>> \in StrictSubsetOrdering(0..n))
  <2>1. IsWellFoundedOn(StrictSubsetOrdering(0..n), SUBSET (0..n))
    BY <1>2, FS_FiniteSubsetsOfFinite, FS_StrictSubsetOrderingWellFounded
  <2>2. QED
    BY <1>3, <2>1, WFMin
<1>5. PICK X \in F : \A Y \in F : ~ (Y \subseteq X /\ Y # X)
  BY <1>3, <1>4 DEF StrictSubsetOrdering
<1>6. PICK k \in T \cap 0..n : X = 0..k
  BY DEF F
<1>7. ASSUME NEW y \in T, y < k PROVE FALSE
  <2>1. y \in 0..n /\ y \in Nat /\ k \in Nat
    BY <1>6, <1>7
  <2>2. 0..y \in F
    BY <2>1 DEF F
  <2>3. 0..y \subseteq X
    BY <1>6, <1>7, <2>1
  <2>4. k \in X /\ k \notin 0..y
    BY <1>6, <1>7, <2>1
  <2>5. QED
    BY <1>5, <2>2, <2>3, <2>4
<1>8. \A y \in T : k <= y
  BY <1>7
<1>9. QED
  BY <1>8

\* A power of two counts the subsets of an interval, so the next power is its double.
LEMMA Doubles ==
  ASSUME NEW n \in Nat
  PROVE  2^n \in Nat \ {0} /\ 2^(n + 1) = 2 * 2^n
<1> DEFINE old == SUBSET (1..n)
           new == {s \cup {n + 1} : s \in old}
<1>1. \A m \in Nat : IsFiniteSet(SUBSET (1..m)) /\ Cardinality(SUBSET (1..m)) = 2^m
  <2>1. ASSUME NEW m \in Nat
        PROVE  IsFiniteSet(SUBSET (1..m)) /\ Cardinality(SUBSET (1..m)) = 2^m
    <3>1. IsFiniteSet(1..m) /\ Cardinality(1..m) = m
      BY FS_Interval
    <3>2. QED
      BY <3>1, FS_SUBSET
  <2>2. QED
    BY <2>1
<1>2. IsFiniteSet(old) /\ Cardinality(old) = 2^n
  BY <1>1
<1>3. PICK f : f = [s \in old |-> s \cup {n + 1}]
  OBVIOUS
<1>4. ASSUME NEW s \in old, NEW t \in old, f[s] = f[t] PROVE s = t
  <2>1. n + 1 \notin s /\ n + 1 \notin t
    OBVIOUS
  <2>2. s \cup {n + 1} = t \cup {n + 1}
    BY <1>3, <1>4
  <2>3. QED
    BY <2>1, <2>2
<1>5. f \in Bijection(old, new)
  <2>1. f \in [old -> new] /\ \A t \in new : \E s \in old : f[s] = t
    BY <1>3
  <2>2. QED
    BY <1>4, <2>1, Fun_IsBij
<1>6. IsFiniteSet(new) /\ Cardinality(new) = 2^n
  <2> HIDE DEF old, new
  <2>1. ExistsBijection(old, new)
    BY <1>5 DEF ExistsBijection
  <2>2. QED
    BY <1>2, <2>1, FS_Bijection
<1>7. old \cap new = {}
  OBVIOUS
<1>8. SUBSET (1..(n + 1)) = old \cup new
  <2>1. 1..(n + 1) = (1..n) \cup {n + 1}
    OBVIOUS
  <2>2. ASSUME NEW s \in SUBSET (1..(n + 1)) PROVE s \in old \cup new
    <3>1. CASE n + 1 \in s
      <4>1. s \ {n + 1} \in old /\ s = (s \ {n + 1}) \cup {n + 1}
        BY <2>1, <3>1
      <4>2. QED
        BY <4>1
    <3>2. CASE n + 1 \notin s
      BY <2>1, <3>2
    <3>3. QED
      BY <3>1, <3>2
  <2>3. ASSUME NEW s \in old \cup new PROVE s \in SUBSET (1..(n + 1))
    BY <2>1
  <2>4. QED
    BY <2>2, <2>3
<1>9. Cardinality(old \cap new) = 0
  BY <1>7, FS_EmptySet
<1>10. Cardinality(old \cup new) = Cardinality(old) + Cardinality(new) - Cardinality(old \cap new)
  BY <1>2, <1>6, FS_Union
<1>11. 2^n \in Nat /\ 2^n # 0
  <2>1. Cardinality(old) \in Nat
    BY <1>2, FS_CardinalityType
  <2>2. old # {}
    OBVIOUS
  <2>3. Cardinality(old) # 0
    BY <1>2, <2>2, FS_EmptySet
  <2>4. QED
    BY <1>2, <2>1, <2>3
<1>12. 2^(n + 1) = Cardinality(old \cup new)
  <2> HIDE DEF old, new
  <2>1. n + 1 \in Nat
    OBVIOUS
  <2>2. QED
    BY <1>1, <1>8, <2>1
<1> HIDE DEF old, new
<1>13. QED
  BY <1>2, <1>6, <1>9, <1>10, <1>11, <1>12

LEMMA PowerOfSum ==
  ASSUME NEW a \in Nat, NEW b \in Nat
  PROVE  2^(a + b) = 2^a * 2^b
<1>1. SUFFICES ASSUME NEW B \in SUBSET Nat, B = {c \in Nat : 2^(a + c) # 2^a * 2^c}, B # {}
               PROVE  FALSE
  OBVIOUS
<1>2. PICK c \in B : \A d \in B : c <= d
  BY <1>1, LeastElement
<1>3. c # 0
  <2>1. 2^a \in Nat
    BY Doubles
  <2>2. 2^(a + 0) = 2^a * 2^0
    BY <2>1
  <2>3. QED
    BY <1>1, <2>2
<1>4. PICK d \in Nat : c = d + 1
  <2>1. c - 1 \in Nat
    BY <1>3
  <2>2. QED
    BY <2>1
<1>5. 2^(a + d) = 2^a * 2^d
  BY <1>1, <1>2, <1>4
<1>6. 2^((a + d) + 1) = 2 * 2^(a + d) /\ 2^(d + 1) = 2 * 2^d
  BY Doubles
<1>7. 2^a \in Nat /\ 2^d \in Nat
  BY Doubles
<1>8. (a + d) + 1 = a + c
  BY <1>4
<1>9. 2^(a + c) = 2 * (2^a * 2^d)
  BY <1>5, <1>6, <1>8
<1>10. 2^a * 2^c = 2^a * (2 * 2^d)
  BY <1>4, <1>6
<1>11. \A x, y \in Nat : x * (2 * y) = 2 * (x * y)
  OBVIOUS
<1>12. 2^(a + c) = 2^a * 2^c
  BY <1>7, <1>9, <1>10, <1>11
<1>13. QED
  BY <1>1, <1>12

\* Division by what the definition says.
LEMMA Quotient ==
  ASSUME NEW x \in Nat, NEW b \in Nat \ {0}, NEW q \in Nat, NEW r \in Nat,
         x = q * b + r, r < b
  PROVE  x \div b = q /\ x % b = r
  OBVIOUS

LEMMA Division ==
  ASSUME NEW x \in Nat, NEW b \in Nat \ {0}
  PROVE  /\ x \div b \in Nat /\ x % b \in Nat
         /\ x = (x \div b) * b + (x % b) /\ x % b < b
  OBVIOUS

\* One bit more to the right.
LEMMA NextBit ==
  ASSUME NEW x \in Nat, NEW i \in Nat
  PROVE  /\ x \div 2^i \in Nat /\ x \div 2^(i + 1) \in Nat
         /\ x \div 2^i = 2 * (x \div 2^(i + 1)) + ((x \div 2^i) % 2)
         /\ (x \div 2^i) % 2 \in {0, 1}
<1>1. PICK b : b = 2^i
  OBVIOUS
<1>2. b \in Nat \ {0} /\ 2^(i + 1) = 2 * b /\ 2 * b \in Nat \ {0}
  BY <1>1, Doubles
<1>3. PICK h, r : h = x \div b /\ r = x % b
  OBVIOUS
<1>4. h \in Nat /\ r \in Nat /\ x = h * b + r /\ r < b
  BY <1>2, <1>3, Division
<1>5. PICK q, d : q = h \div 2 /\ d = h % 2
  OBVIOUS
<1>6. q \in Nat /\ d \in {0, 1} /\ h = 2 * q + d
  BY <1>4, <1>5
<1>7. x = q * (2 * b) + (d * b + r) /\ d * b + r \in Nat /\ d * b + r < 2 * b
  <2>1. h * b = (2 * q + d) * b
    BY <1>6
  <2>2. (2 * q + d) * b = q * (2 * b) + d * b
    BY <1>2, <1>6
  <2>3. d * b \in {0, b}
    BY <1>2, <1>6
  <2>4. QED
    BY <1>2, <1>4, <1>6, <2>1, <2>2, <2>3
<1>8. x \div (2 * b) = q
  BY <1>2, <1>6, <1>7, Quotient
<1>9. QED
  BY <1>1, <1>2, <1>3, <1>4, <1>5, <1>6, <1>8

\* The leading bits of two words agree exactly if each of those bits does.
LEMMA LeadingBits ==
  ASSUME NEW x \in 0..(2^Width - 1), NEW y \in 0..(2^Width - 1), NEW k \in 0..Width
  PROVE  (x \div 2^k = y \div 2^k) <=>
           \A i \in k..(Width - 1) : (x \div 2^i) % 2 = (y \div 2^i) % 2
<1>1. x \in Nat /\ y \in Nat /\ k \in Nat /\ Width \in Nat /\ 2^Width \in Nat \ {0}
  BY BackOfficeAssumption, Doubles DEF Whitelist!WhitelistAssumption
<1>2. ASSUME x \div 2^k = y \div 2^k,
             NEW B, B = {i \in Nat : k <= i /\ x \div 2^i # y \div 2^i}, B # {}
      PROVE  FALSE
  <2>1. PICK i \in B : \A j \in B : i <= j
    BY <1>2, LeastElement
  <2>2. i \in Nat /\ i # k /\ k <= i
    BY <1>2, <2>1
  <2>3. PICK j \in Nat : i = j + 1
    <3>1. i - 1 \in Nat /\ i = (i - 1) + 1
      BY <1>1, <2>2
    <3>2. QED
      BY <3>1
  <2>4. x \div 2^j = y \div 2^j
    <3>1. k <= j /\ j < i
      BY <1>1, <2>2, <2>3
    <3>2. QED
      BY <1>2, <2>1, <2>2, <3>1
  <2>5. x \div 2^(j + 1) = y \div 2^(j + 1)
    <3>1. PICK p, q, h : /\ p = x \div 2^(j + 1) /\ q = y \div 2^(j + 1) /\ h = x \div 2^j
      OBVIOUS
    <3>2. p \in Nat /\ h = 2 * p + (h % 2) /\ h % 2 \in {0, 1}
      BY <1>1, <3>1, NextBit
    <3>3. /\ y \div 2^(j + 1) \in Nat
          /\ y \div 2^j = 2 * (y \div 2^(j + 1)) + ((y \div 2^j) % 2)
      BY <1>1, NextBit
    <3>4. q \in Nat /\ h = 2 * q + (h % 2)
      BY <2>4, <3>1, <3>3
    <3>5. p = q
      BY <3>2, <3>4
    <3>6. QED
      BY <3>1, <3>5
  <2>6. QED
    BY <1>2, <2>1, <2>3, <2>5
<1>3. ASSUME \A i \in k..(Width - 1) : (x \div 2^i) % 2 = (y \div 2^i) % 2,
             NEW B, B = {g \in 0..(Width - k) : x \div 2^(Width - g) # y \div 2^(Width - g)},
             B # {}
      PROVE  FALSE
  <2>1. B \in SUBSET Nat
    BY <1>1, <1>3
  <2>2. PICK g \in B : \A h \in B : g <= h
    BY <1>3, <2>1, LeastElement
  <2>3. g \in Nat /\ g <= Width - k /\ x \div 2^(Width - g) # y \div 2^(Width - g)
    BY <1>1, <1>3, <2>2
  <2>4. x \div 2^Width = 0 /\ y \div 2^Width = 0
    <3>1. PICK w : w = 2^Width
      OBVIOUS
    <3>2. w \in Nat \ {0} /\ x < w /\ y < w
      BY <1>1, <3>1
    <3>3. x = 0 * w + x /\ y = 0 * w + y
      BY <1>1, <3>2
    <3>4. x \div w = 0 /\ y \div w = 0
      BY <1>1, <3>2, <3>3, Quotient
    <3>5. QED
      BY <3>1, <3>4
  <2>5. g # 0
    BY <1>1, <2>3, <2>4
  <2>6. PICK i \in Nat : i = Width - g
    BY <1>1, <2>3
  <2>7. i \in k..(Width - 1) /\ i + 1 = Width - (g - 1)
        /\ g - 1 \in 0..(Width - k)
    BY <1>1, <2>3, <2>5, <2>6
  <2>8. x \div 2^(i + 1) = y \div 2^(i + 1)
    <3>1. g - 1 \notin B
      BY <2>1, <2>2, <2>3
    <3>2. QED
      BY <1>3, <2>7, <3>1
  <2>9. (x \div 2^i) % 2 = (y \div 2^i) % 2
    BY <1>3, <2>7
  <2>10. x \div 2^i = y \div 2^i
    <3>1. /\ x \div 2^i = 2 * (x \div 2^(i + 1)) + ((x \div 2^i) % 2)
          /\ y \div 2^i = 2 * (y \div 2^(i + 1)) + ((y \div 2^i) % 2)
      BY <1>1, NextBit
    <3>2. QED
      BY <2>8, <2>9, <3>1
  <2>11. QED
    BY <2>3, <2>6, <2>10
<1>4. ASSUME x \div 2^k = y \div 2^k, NEW i \in k..(Width - 1)
      PROVE  (x \div 2^i) % 2 = (y \div 2^i) % 2
  <2>1. i \in Nat /\ k <= i
    BY <1>1
  <2>2. PICK B : B = {j \in Nat : k <= j /\ x \div 2^j # y \div 2^j}
    OBVIOUS
  <2>3. i \notin B
    BY <1>2, <1>4, <2>2
  <2>4. x \div 2^i = y \div 2^i
    BY <2>1, <2>2, <2>3
  <2>5. QED
    BY <2>4
<1>5. ASSUME \A i \in k..(Width - 1) : (x \div 2^i) % 2 = (y \div 2^i) % 2
      PROVE  x \div 2^k = y \div 2^k
  <2>1. PICK B : B = {g \in 0..(Width - k) : x \div 2^(Width - g) # y \div 2^(Width - g)}
    OBVIOUS
  <2>2. Width - k \notin B
    BY <1>3, <1>5, <2>1
  <2>3. Width - k \in 0..(Width - k) /\ Width - (Width - k) = k
    BY <1>1
  <2>4. x \div 2^(Width - (Width - k)) = y \div 2^(Width - (Width - k))
    BY <2>1, <2>2, <2>3
  <2>5. QED
    BY <2>3, <2>4
<1>6. QED
  BY <1>4, <1>5

\* The ones of a word that ends in k zeros and has ones before.
LEMMA MaskBits ==
  ASSUME NEW k \in 0..(Width - 1)
  PROVE  Whitelist!Ones(2^Width - 2^k) = k..(Width - 1)
<1>1. k \in Nat /\ Width \in Nat /\ k < Width
  BY BackOfficeAssumption DEF Whitelist!WhitelistAssumption
<1>2. ASSUME NEW i \in 0..(Width - 1), k <= i
      PROVE  ((2^Width - 2^k) \div 2^i) % 2 = 1
  <2>1. PICK a, b \in Nat : i = k + a /\ Width = i + (b + 1)
    <3>1. i - k \in Nat /\ Width - i - 1 \in Nat
      BY <1>1, <1>2
    <3>2. i = k + (i - k) /\ Width = i + ((Width - i - 1) + 1)
      BY <1>1
    <3>3. QED
      BY <3>1, <3>2
  <2>2. PICK p, q, r : p = 2^k /\ q = 2^i /\ r = 2^b
    OBVIOUS
  <2>3. p \in Nat \ {0} /\ q \in Nat \ {0} /\ r \in Nat \ {0}
    BY <1>1, <1>2, <2>1, <2>2, Doubles
  <2>4. 2^Width = q * (2 * r)
    <3>1. 2^Width = 2^i * 2^(b + 1)
      BY <1>1, <2>1, PowerOfSum
    <3>2. QED
      BY <2>1, <2>2, <3>1, Doubles
  <2>5. p <= q
    <3>1. q = p * 2^a /\ 2^a \in Nat \ {0}
      BY <1>1, <2>1, <2>2, PowerOfSum, Doubles
    <3>2. QED
      BY <2>3, <3>1
  <2>6. q * (2 * r) - p = (2 * r - 1) * q + (q - p)
    BY <2>3
  <2>7. q * (2 * r) - p \in Nat /\ 2 * r - 1 \in Nat /\ q - p \in Nat /\ q - p < q
    <3>1. 2 * r - 1 \in Nat /\ q - p \in Nat /\ q - p < q
      BY <2>3, <2>5
    <3>2. (2 * r - 1) * q \in Nat
      BY <2>3, <3>1
    <3>3. QED
      BY <2>6, <3>1, <3>2
  <2>8. (q * (2 * r) - p) \div q = 2 * r - 1
    BY <2>3, <2>6, <2>7, Quotient
  <2>9. (2 * r - 1) % 2 = 1
    BY <2>3
  <2>10. QED
    BY <2>2, <2>4, <2>8, <2>9
<1>3. ASSUME NEW i \in 0..(Width - 1), i < k
      PROVE  ((2^Width - 2^k) \div 2^i) % 2 = 0
  <2>1. PICK a, b \in Nat : k = i + (a + 1) /\ Width = k + b
    <3>1. k - i - 1 \in Nat /\ Width - k \in Nat
      BY <1>1, <1>3
    <3>2. k = i + ((k - i - 1) + 1) /\ Width = k + (Width - k)
      BY <1>1
    <3>3. QED
      BY <3>1, <3>2
  <2>2. PICK p, q, r : p = 2^a /\ q = 2^i /\ r = 2^b
    OBVIOUS
  <2>3. p \in Nat \ {0} /\ q \in Nat \ {0} /\ r \in Nat \ {0}
    BY <1>1, <2>1, <2>2, Doubles
  <2>4. 2^k = q * (2 * p)
    <3>1. 2^k = 2^i * 2^(a + 1)
      BY <2>1, PowerOfSum
    <3>2. QED
      BY <2>1, <2>2, <3>1, Doubles
  <2>5. 2^Width = (q * (2 * p)) * r
    BY <1>1, <2>1, <2>2, <2>4, PowerOfSum
  <2>6. PICK h : h = p * r - p
    OBVIOUS
  <2>7. h \in Nat
    <3>1. p * (r - 1) \in Nat
      BY <2>3
    <3>2. p * (r - 1) = p * r - p
      BY <2>3
    <3>3. QED
      BY <2>6, <3>1, <3>2
  <2>8. 2^Width - 2^k = (2 * h) * q + 0
    <3>1. (q * (2 * p)) * r - q * (2 * p) = (2 * (p * r - p)) * q
      BY <2>3
    <3>2. (2 * (p * r - p)) * q \in Nat
      BY <2>3, <2>6, <2>7
    <3>3. QED
      BY <2>4, <2>5, <2>6, <3>1, <3>2
  <2>9. 2^Width - 2^k \in Nat
    BY <2>3, <2>7, <2>8
  <2>10. (2^Width - 2^k) \div q = 2 * h
    BY <2>3, <2>7, <2>8, <2>9, Quotient
  <2>11. (2 * h) % 2 = 0
    BY <2>7
  <2>12. QED
    BY <2>2, <2>10, <2>11
<1>4. ASSUME NEW i \in 0..(Width - 1)
      PROVE  ((2^Width - 2^k) \div 2^i) % 2 = 1 <=> i \in k..(Width - 1)
  <2>1. CASE k <= i
    BY <1>1, <1>2, <2>1
  <2>2. CASE i < k
    BY <1>1, <1>3, <2>2
  <2>3. QED
    BY <1>1, <2>1, <2>2
<1>5. k..(Width - 1) \subseteq 0..(Width - 1)
  BY <1>1
<1>6. QED
  BY <1>4, <1>5 DEF Whitelist!Ones

\* The mask of a prefix; of prefix 0, the whole word.
LEMMA MaskIs ==
  ASSUME NEW prefix \in 0..Width
  PROVE  Whitelist!Ones(Whitelist!MaskNum(prefix)) =
           (IF prefix = 0 THEN 0 ELSE Width - prefix)..(Width - 1)
<1>1. PICK k : k = IF prefix = 0 THEN 0 ELSE Width - prefix
  OBVIOUS
<1>2. Width \in Nat \ {0} /\ k \in Nat /\ k < Width /\ k \in 0..(Width - 1)
  BY <1>1, BackOfficeAssumption DEF Whitelist!WhitelistAssumption
<1>3. (Width - prefix) % Width = k
  <2>1. CASE prefix = 0
    BY <1>1, <1>2, <2>1
  <2>2. CASE prefix # 0
    BY <1>1, <1>2, <2>2
  <2>3. QED
    BY <2>1, <2>2
<1>4. PICK w, p : w = 2^Width /\ p = 2^k
  OBVIOUS
<1>5. w \in Nat \ {0} /\ p \in Nat \ {0} /\ p <= w
  <2>1. w \in Nat \ {0} /\ p \in Nat \ {0}
    BY <1>2, <1>4, Doubles
  <2>2. PICK d \in Nat : Width = k + d
    <3>1. Width - k \in Nat /\ Width = k + (Width - k)
      BY <1>2
    <3>2. QED
      BY <3>1
  <2>3. w = p * 2^d /\ 2^d \in Nat \ {0}
    BY <1>2, <1>4, <2>2, PowerOfSum, Doubles
  <2>4. QED
    BY <2>1, <2>3
<1>6. (w - 1) * p = (p - 1) * w + (w - p)
  BY <1>5
<1>7. (w - 1) * p \in Nat /\ p - 1 \in Nat /\ w - p \in Nat /\ w - p < w
  BY <1>5
<1>8. ((w - 1) * p) % w = w - p
  BY <1>5, <1>6, <1>7, Quotient
<1>9. Whitelist!MaskNum(prefix) = 2^Width - 2^k
  BY <1>3, <1>4, <1>8 DEF Whitelist!MaskNum
<1>10. QED
  BY <1>1, <1>2, <1>9, MaskBits

WhitelistTyped == ip \in Whitelist!Address /\ allowed \in SUBSET Whitelist!Block

LEMMA WhitelistInit == Whitelist!Init => WhitelistTyped
<1> SUFFICES ASSUME Whitelist!Init PROVE WhitelistTyped
  OBVIOUS
<1>1. PICK n \in 0..Entries :
        \E f \in [1..n -> Whitelist!Block] : allowed = {f[i] : i \in 1..n}
  BY DEF Whitelist!Init
<1>2. PICK f \in [1..n -> Whitelist!Block] : allowed = {f[i] : i \in 1..n}
  BY <1>1
<1>3. \A i \in 1..n : f[i] \in Whitelist!Block
  OBVIOUS
<1>4. QED
  BY <1>2, <1>3 DEF Whitelist!Init, WhitelistTyped

\* The & of two words with the mask of a prefix compares their leading bits.
LEMMA InBlock ==
  ASSUME ip \in Whitelist!Address, NEW b \in Whitelist!Block
  PROVE  Whitelist!IsIpInCidr(b) <=>
           IF b.prefix = 0 THEN ip = b.network ELSE Whitelist!Covers(b)
<1>1. /\ Width \in Nat \ {0} /\ b.prefix \in 0..Width /\ b.network \in 0..(2^Width - 1)
      /\ ip \in 0..(2^Width - 1)
  BY BackOfficeAssumption
     DEF Whitelist!WhitelistAssumption, Whitelist!Block, Whitelist!Address
<1>2. PICK k : k = IF b.prefix = 0 THEN 0 ELSE Width - b.prefix
  OBVIOUS
<1>3. k \in 0..(Width - 1) /\ k \in 0..Width
  BY <1>1, <1>2
<1>4. Whitelist!Ones(Whitelist!MaskNum(b.prefix)) = k..(Width - 1)
  BY <1>1, <1>2, MaskIs
<1>5. Whitelist!IsIpInCidr(b) <=>
        Whitelist!Ones(ip) \cap (k..(Width - 1))
          = Whitelist!Ones(b.network) \cap (k..(Width - 1))
  BY <1>4 DEF Whitelist!IsIpInCidr
<1>6. ASSUME NEW i \in k..(Width - 1)
      PROVE  /\ i \in 0..(Width - 1)
             /\ (ip \div 2^i) % 2 \in {0, 1} /\ (b.network \div 2^i) % 2 \in {0, 1}
  <2>1. i \in Nat /\ i \in 0..(Width - 1)
    BY <1>1, <1>3
  <2>2. ip \in Nat /\ b.network \in Nat
    BY <1>1
  <2>3. QED
    BY <2>1, <2>2, NextBit
<1>7. Whitelist!IsIpInCidr(b) <=>
        \A i \in k..(Width - 1) : (ip \div 2^i) % 2 = (b.network \div 2^i) % 2
  <2>1. ASSUME NEW i \in k..(Width - 1)
        PROVE  (i \in Whitelist!Ones(ip) <=> i \in Whitelist!Ones(b.network)) <=>
                 (ip \div 2^i) % 2 = (b.network \div 2^i) % 2
    <3>1. /\ i \in Whitelist!Ones(ip) <=> (ip \div 2^i) % 2 = 1
          /\ i \in Whitelist!Ones(b.network) <=> (b.network \div 2^i) % 2 = 1
      BY <1>6 DEF Whitelist!Ones
    <3>2. QED
      BY <1>6, <3>1
  <2>2. PICK A, B, K : /\ A = Whitelist!Ones(ip) /\ B = Whitelist!Ones(b.network)
                       /\ K = k..(Width - 1)
    OBVIOUS
  <2>3. (A \cap K = B \cap K) <=> \A i \in K : (i \in A <=> i \in B)
    OBVIOUS
  <2>4. QED
    BY <1>5, <2>1, <2>2, <2>3
<1>8. Whitelist!IsIpInCidr(b) <=> ip \div 2^k = b.network \div 2^k
  BY <1>1, <1>3, <1>7, LeadingBits
<1>9. CASE b.prefix = 0
  <2>1. 2^k = 1
    BY <1>2, <1>9
  <2>2. ip \div 1 = ip /\ b.network \div 1 = b.network
    BY <1>1
  <2>3. QED
    BY <1>8, <1>9, <2>1, <2>2
<1>10. CASE b.prefix # 0
  BY <1>2, <1>8, <1>10 DEF Whitelist!Covers, Whitelist!Leading
<1>11. QED
  BY <1>9, <1>10

\* Of any addresses and blocks, the shifts and the & of the guard let in loopback and what a block
\* of the list covers: one of prefix 1 or more the addresses that share its leading bits, one of
\* prefix 0 its network address alone.
THEOREM WhitelistCorrect == Spec => []AllowsExactlyTheBlocks
<1>1. WhitelistTyped /\ [Whitelist!Next]_(Whitelist!whitelistVars) => WhitelistTyped'
  BY DEF WhitelistTyped, Whitelist!Next, Whitelist!whitelistVars, Whitelist!Address,
         Whitelist!Block
<1>2. WhitelistTyped => AllowsExactlyTheBlocks
  <2> SUFFICES ASSUME WhitelistTyped, allowed # {}
               PROVE  Whitelist!CanActivate <=>
                        \/ ip = Whitelist!Loopback
                        \/ \E b \in allowed : IF b.prefix = 0 THEN ip = b.network
                                              ELSE Whitelist!Covers(b)
    BY DEF AllowsExactlyTheBlocks, Whitelist!AllowsExactlyTheBlocks
  <2>1. \A b \in allowed : Whitelist!IsIpInCidr(b) <=>
                             IF b.prefix = 0 THEN ip = b.network ELSE Whitelist!Covers(b)
    BY InBlock DEF WhitelistTyped
  <2>2. QED
    BY <2>1 DEF Whitelist!CanActivate
<1>3. QED
  BY WhitelistSteps, WhitelistInit, <1>1, <1>2, PTL DEF Spec
=============================================================================
