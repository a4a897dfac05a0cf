------------------------------- MODULE Actors -------------------------------
(***************************************************************************)
(* Threat actors and their milestones, the "hitos"                         *)
(* (actors/actors.service.ts): an actor is updated together with the list  *)
(* of its milestones, which are also edited, moved and removed on their    *)
(* own; and the chunks that the assistant answers from                     *)
(* (ingestActors() of ai-chat/ingestion/ingestion.service.ts).             *)
(*                                                                         *)
(* An update sends some field of the actor, so that updatedAt moves.  The  *)
(* pauses and purges of the ingestion are module EmbeddingIndex.           *)
(***************************************************************************)
EXTENDS Naturals, FiniteSets

CONSTANTS
  Actor,    \* bound: the actors
  Hito,     \* bound: the milestones ever created
  Request,  \* bound: the requests, each sent once
  MaxText   \* bound: edits of a milestone

None == "none"

\* Asserted by the module that instantiates this one.
ActorsAssumption ==
  IsFiniteSet(Actor) /\ IsFiniteSet(Hito) /\ MaxText \in Nat /\ None \notin Actor

VARIABLES
  actors,   \* the actors that exist
  of,       \* of[h]: the actor of a milestone, or "none"
  text,     \* text[h]: its description, a version
  request,  \* request[r]: the local variables of update(), remove() or updateHito()
  changed,  \* the actors whose updatedAt lies past the watermark
  index,    \* index[a]: the milestones the chunks of the actor are of
  ingest,   \* the local variables of ingestActors()
  aside,    \* history: actors with milestones edited on their own since they were read for it
  late,     \* history: actors updated after the ingestion read and before it ended
  unseen    \* history: milestones deleted by an update that had not read them

actorsVars == <<actors, of, text, request, changed, index, ingest, aside, late, unseen>>

HitosOf(a) == {h \in Hito : of[h] = a}
Content(a) == {<<h, text[h]>> : h \in HitosOf(a)}

NoRequest ==
  [pc |-> "new", actor |-> None, delete |-> {}, update |-> {}, read |-> {}, hito |-> None]

Waiting == [pc |-> "idle", read |-> [a \in Actor |-> {}], todo |-> {}, actor |-> None]

Init ==
  /\ actors = Actor
  /\ \E o \in [Hito -> Actor \cup {None}] : of = o
  /\ text = [h \in Hito |-> 1]
  /\ request = [r \in Request |-> NoRequest]
  /\ changed = {}
  /\ index = [a \in Actor |-> Content(a)]
  /\ ingest = Waiting
  /\ aside = {} /\ late = {} /\ unseen = {}

End(r) == request' = [request EXCEPT ![r] = [NoRequest EXCEPT !.pc = "ended"]]

-----------------------------------------------------------------------------
\* Mutant: what is not in the list is deleted, whatever has been read.
Deleted_AtWrite(r) == HitosOf(request[r].actor) \ request[r].update

\* update() deletes those of the milestones it has read that are not in the list it was sent.
Deleted(r) == request[r].delete \cap HitosOf(request[r].actor)

\* update(): the actor is read with its milestones.  The list sent has some of those it had.
ReadActor(r) ==
  /\ request[r].pc = "new"
  /\ \E a \in actors : \E listed \in SUBSET HitosOf(a) :
       request' = [request EXCEPT ![r] =
         [NoRequest EXCEPT !.pc = "update", !.actor = a, !.read = HitosOf(a),
                           !.update = listed, !.delete = HitosOf(a) \ listed]]
  /\ UNCHANGED <<actors, of, text, changed, index, ingest, aside, late, unseen>>

\* One transaction, which fails if the actor, or a milestone of the list, is not there any more;
\* the list may have new ones.
UpdateActor(r) ==
  /\ request[r].pc = "update"
  /\ LET a == request[r].actor
         gone == Deleted(r)
     IN  IF a \in actors /\ request[r].update \subseteq HitosOf(a)
         THEN /\ \E new \in SUBSET {h \in Hito : of[h] = None} :
                   /\ Cardinality(new) <= 1
                   /\ of' = [h \in Hito |->
                        IF h \in gone THEN None ELSE IF h \in new THEN a ELSE of[h]]
              /\ text' = [h \in Hito |->
                   IF h \in request[r].update /\ text[h] < MaxText THEN text[h] + 1 ELSE text[h]]
              /\ changed' = changed \cup {a}
              /\ late' = IF ingest.pc = "idle" THEN late ELSE late \cup {a}
              /\ unseen' = unseen \cup (gone \ request[r].read)
         ELSE UNCHANGED <<of, text, changed, late, unseen>>
  /\ End(r)
  /\ UNCHANGED <<actors, index, ingest, aside>>

\* updateHito(), removeHito(): the milestone is looked up ...
ReadHito(r) ==
  /\ request[r].pc = "new"
  /\ \E h \in Hito : \E pc \in {"edit", "remove"} :
       /\ of[h] # None
       /\ request' = [request EXCEPT ![r] = [NoRequest EXCEPT !.pc = pc, !.hito = h]]
  /\ UNCHANGED <<actors, of, text, changed, index, ingest, aside, late, unseen>>

\* ... and edited, which may move it to another actor, or fails for one that is gone.  Neither
\* actor counts as updated.
EditHito(r) ==
  /\ request[r].pc = "edit"
  /\ LET h == request[r].hito
     IN  IF of[h] # None /\ actors # {}
         THEN /\ \E a \in actors : of' = [of EXCEPT ![h] = a] /\ aside' = aside \cup {of[h], a}
              /\ text' = [text EXCEPT ![h] = IF @ < MaxText THEN @ + 1 ELSE @]
         ELSE UNCHANGED <<of, text, aside>>
  /\ End(r)
  /\ UNCHANGED <<actors, changed, index, ingest, late, unseen>>

\* ... or removed.
RemoveHito(r) ==
  /\ request[r].pc = "remove"
  /\ LET h == request[r].hito
     IN  IF of[h] # None THEN of' = [of EXCEPT ![h] = None] /\ aside' = aside \cup {of[h]}
         ELSE UNCHANGED <<of, aside>>
  /\ End(r)
  /\ UNCHANGED <<actors, text, changed, index, ingest, late, unseen>>

\* remove(): one transaction.  The chunks of the actor stay.
RemoveActor(r) ==
  /\ request[r].pc = "new"
  /\ \E a \in actors :
       /\ actors' = actors \ {a}
       /\ of' = [h \in Hito |-> IF of[h] = a THEN None ELSE of[h]]
       /\ changed' = changed \ {a}
  /\ End(r)
  /\ UNCHANGED <<text, index, ingest, aside, late, unseen>>

-----------------------------------------------------------------------------
\* ingestActors() reads the actors updated since the watermark, with their milestones ...
IngestRead ==
  /\ ingest.pc = "idle" /\ changed # {}
  /\ ingest' = [Waiting EXCEPT !.pc = "loop", !.todo = changed,
                               !.read = [a \in Actor |-> Content(a)]]
  /\ aside' = aside \ changed /\ late' = late \ changed
  /\ UNCHANGED <<actors, of, text, request, changed, index, unseen>>

\* ... and for each of them deletes its chunks ...
IngestDelete ==
  /\ ingest.pc = "loop"
  /\ \E a \in ingest.todo :
       /\ ingest' = [ingest EXCEPT !.pc = "insert", !.todo = @ \ {a}, !.actor = a]
       /\ index' = [index EXCEPT ![a] = {}]
  /\ UNCHANGED <<actors, of, text, request, changed, aside, late, unseen>>

\* ... embeds what it read, and inserts that ...
IngestInsert ==
  /\ ingest.pc = "insert"
  /\ index' = [index EXCEPT ![ingest.actor] = ingest.read[ingest.actor]]
  /\ ingest' = [ingest EXCEPT !.pc = "loop", !.actor = None]
  /\ UNCHANGED <<actors, of, text, request, changed, aside, late, unseen>>

\* ... and the watermark is the time of the end, past whatever was updated meanwhile.
IngestStamp ==
  /\ ingest.pc = "loop" /\ ingest.todo = {}
  /\ changed' = {}
  /\ ingest' = Waiting
  /\ UNCHANGED <<actors, of, text, request, index, aside, late, unseen>>

\* Mutant: the watermark is moved in a finally.
IngestFails_Stamps ==
  /\ ingest.pc # "idle"
  /\ changed' = {}
  /\ ingest' = Waiting
  /\ UNCHANGED <<actors, of, text, request, index, aside, late, unseen>>

\* Ollama or the database fails, or the process restarts: the watermark stays.
IngestFails ==
  /\ ingest.pc # "idle"
  /\ ingest' = Waiting
  /\ UNCHANGED <<actors, of, text, request, changed, index, aside, late, unseen>>

Step(r) ==
  \/ ReadActor(r) \/ UpdateActor(r) \/ ReadHito(r) \/ EditHito(r) \/ RemoveHito(r)
  \/ RemoveActor(r)

Next ==
  \/ \E r \in Request : Step(r)
  \/ IngestRead \/ IngestDelete \/ IngestInsert \/ IngestStamp \/ IngestFails

-----------------------------------------------------------------------------
\* However updates, moves and removals overlap, an update deletes no milestone that it had not
\* read, say one that was added or moved to the actor meanwhile.
NothingUnseenDeleted == unseen = {}

\* The chunks of an actor have its milestones as they are once its last update was ingested,
\* whatever failed in between.  Two kinds of actor are left behind until they are updated
\* again: those with a milestone edited, moved or removed on its own since they were read, and
\* those updated after the ingestion read and before it moved the watermark to the time of its
\* end.
ChunksFollowActor ==
  \A a \in actors \ changed : index[a] = Content(a) \/ a \in aside \cup late
=============================================================================
