--------------------------- MODULE WatchProfiles ---------------------------
(***************************************************************************)
(* The settings a sweep for vulnerability alerts works from                *)
(* (alerts/vuln/vuln-watch-profiles.service.ts, alerts/alerts.service.ts): *)
(* a watch profile with its items, the notification channels and the       *)
(* subscriptions that name them, edited while sweeps read them.            *)
(*                                                                         *)
(* Every event is in the profile, whatever its items; a sweep handles one  *)
(* of the events since the sweep before it.  The rest of the sweep is      *)
(* module AlertSweep.                                                      *)
(***************************************************************************)
EXTENDS Naturals, FiniteSets

CONSTANTS
  Edit,      \* bound: the updates of the profile, each sent once
  Channel,   \* bound: the notification channels
  Request,   \* bound: the other requests, each sent once
  MaxEvents  \* bound: the events that are swept

None == "none"

\* A subscription is known by the request that created it.
Row == {"first"} \cup Request

\* Asserted by the module that instantiates this one.
ProfilesAssumption == IsFiniteSet(Edit) /\ MaxEvents \in Nat /\ None \notin Channel

VARIABLES
  profile,       \* whether it exists
  items,         \* its items: the edits they are of
  edit,          \* edit[e]: where update() is
  channels,      \* the notification channels that exist
  subscription,  \* subscription[s]: the channel it names, or "none" if there is no such row
  request,       \* request[r]: the local variables of the requests about subscriptions and channels
  sweep,         \* the sweep: what it has read
  events,        \* events swept so far
  together,      \* history: the items were last deleted with another edit between its statements
  passed         \* history: why an event was passed over, or "none"

profilesVars ==
  <<profile, items, edit, channels, subscription, request, sweep, events, together, passed>>

\* row: the subscription; saw: what was looked up and found; lost is history: what of that did
\* not hold any more when the request failed.
NoRequest == [pc |-> "new", row |-> "first", channel |-> None, saw |-> {}, lost |-> {}]

Idle == [pc |-> "idle", items |-> {}, known |-> FALSE, excused |-> FALSE]

Init ==
  /\ profile = TRUE /\ items = {"first"}
  /\ edit = [e \in Edit |-> "new"]
  /\ channels = Channel
  /\ subscription = [s \in Row |-> IF s = "first" THEN CHOOSE c \in Channel : TRUE ELSE None]
  /\ request = [r \in Request |-> NoRequest]
  /\ sweep = Idle /\ events = 0
  /\ together = FALSE /\ passed = "none"

Emptied == {e \in Edit : edit[e] = "emptied"}

-----------------------------------------------------------------------------
\* Mutant: the items are deleted before the body is parsed.
Own_Empties(e) ==
  /\ edit[e] = "new"
  /\ edit' = [edit EXCEPT ![e] = "refused"]
  /\ items' = {}
  /\ UNCHANGED <<profile, channels, subscription, request, sweep, events, together, passed>>

\* update(): the owner is checked and the body parsed, which has an item at least ...
Own(e) ==
  /\ edit[e] = "new"
  /\ \/ profile /\ edit' = [edit EXCEPT ![e] = "owned"]
     \/ edit' = [edit EXCEPT ![e] = "refused"]
  /\ UNCHANGED <<profile, items, channels, subscription, request, sweep, events, together, passed>>

Emptying(e) ==
  /\ edit[e] = "owned"
  /\ edit' = [edit EXCEPT ![e] = "emptied"]
  /\ together' = (Emptied # {})
  /\ UNCHANGED <<profile, channels, subscription, request, sweep, events, passed>>

\* ... the items are deleted ...
Empty(e) == Emptying(e) /\ items' = {}

\* ... and the new ones created with the rest of the profile, if it is still there.
Write(e) ==
  /\ edit[e] = "emptied"
  /\ IF profile THEN items' = items \cup {e} ELSE UNCHANGED items
  /\ edit' = [edit EXCEPT ![e] = IF profile THEN "ok" ELSE "error"]
  /\ UNCHANGED <<profile, channels, subscription, request, sweep, events, together, passed>>

\* The second statement fails, or the process restarts before it: the profile stays empty.
WriteFails(e) ==
  /\ edit[e] = "emptied"
  /\ edit' = [edit EXCEPT ![e] = "error"]
  /\ UNCHANGED <<profile, items, channels, subscription, request, sweep, events, together, passed>>

\* remove(), whatever subscriptions name the profile.
RemoveProfile ==
  /\ profile
  /\ profile' = FALSE /\ items' = {}
  /\ UNCHANGED <<edit, channels, subscription, request, sweep, events, together, passed>>

-----------------------------------------------------------------------------
\* What a request may look up, and what of it holds now.
Holds(r) ==
  (IF subscription[request[r].row] # None THEN {"subscription"} ELSE {})
  \cup (IF request[r].channel \in channels THEN {"channel"} ELSE {})
  \cup (IF \E s \in Row : subscription[s] = request[r].channel THEN {} ELSE {"unused"})

End(r, result) ==
  request' = [request EXCEPT ![r] =
    [NoRequest EXCEPT !.pc = result,
                      !.lost = IF result = "error" THEN request[r].saw \ Holds(r) ELSE {}]]

\* createSubscription(): ensureChannelOwnership() and validateProfileIds() ...
Validate(r) ==
  /\ request[r].pc = "new"
  /\ \E c \in Channel :
       IF c \in channels /\ profile
       THEN request' = [request EXCEPT ![r] =
              [NoRequest EXCEPT !.pc = "create", !.channel = c, !.saw = {"channel"}]]
       ELSE End(r, "refused")
  /\ UNCHANGED <<profile, items, edit, channels, subscription, sweep, events, together, passed>>

\* ... and the subscription is created; the database refuses it without its channel.
Subscribe(r) ==
  /\ request[r].pc = "create"
  /\ IF "channel" \in Holds(r)
     THEN subscription' = [subscription EXCEPT ![r] = request[r].channel] /\ End(r, "ok")
     ELSE UNCHANGED subscription /\ End(r, "error")
  /\ UNCHANGED <<profile, items, edit, channels, sweep, events, together, passed>>

\* updateSubscription(), deleteSubscription(): the subscription is looked up ...
FindSubscription(r) ==
  /\ request[r].pc = "new"
  /\ \E s \in Row : \E next \in {"ensure", "unsubscribe"} :
       IF subscription[s] # None
       THEN request' = [request EXCEPT ![r] =
              [NoRequest EXCEPT !.pc = next, !.row = s, !.saw = {"subscription"}]]
       ELSE End(r, "refused")
  /\ UNCHANGED <<profile, items, edit, channels, subscription, sweep, events, together, passed>>

\* ... the channel it is to name, if any, and the profile of its settings, if any ...
EnsureChannel(r) ==
  /\ request[r].pc = "ensure"
  /\ \/ \E c \in Channel \cup {None} :
          IF c \in channels \cup {None}
          THEN request' = [request EXCEPT ![r].pc = "update", ![r].channel = c,
                 ![r].saw = IF c = None THEN @ ELSE @ \cup {"channel"}]
          ELSE End(r, "refused")
     \/ ~profile /\ End(r, "refused")
  /\ UNCHANGED <<profile, items, edit, channels, subscription, sweep, events, together, passed>>

\* ... and it is updated, which needs both still there ...
Resubscribe(r) ==
  /\ request[r].pc = "update"
  /\ LET s == request[r].row
         c == request[r].channel
     IN  IF subscription[s] # None /\ c \in channels \cup {None}
         THEN /\ subscription' = IF c = None THEN subscription ELSE [subscription EXCEPT ![s] = c]
              /\ End(r, "ok")
         ELSE UNCHANGED subscription /\ End(r, "error")
  /\ UNCHANGED <<profile, items, edit, channels, sweep, events, together, passed>>

\* ... or deleted.
Unsubscribe(r) ==
  /\ request[r].pc = "unsubscribe"
  /\ LET s == request[r].row
     IN  IF subscription[s] # None
         THEN subscription' = [subscription EXCEPT ![s] = None] /\ End(r, "ok")
         ELSE UNCHANGED subscription /\ End(r, "error")
  /\ UNCHANGED <<profile, items, edit, channels, sweep, events, together, passed>>

\* deleteNotificationChannel(): a channel with subscriptions is refused ...
CountSubscriptions(r) ==
  /\ request[r].pc = "new"
  /\ \E c \in Channel :
       IF c \in channels /\ \A s \in Row : subscription[s] # c
       THEN request' = [request EXCEPT ![r] =
              [NoRequest EXCEPT !.pc = "delete", !.channel = c, !.saw = {"channel", "unused"}]]
       ELSE End(r, "refused")
  /\ UNCHANGED <<profile, items, edit, channels, subscription, sweep, events, together, passed>>

\* ... by the database as well, if one came to name it since they were counted.
DeleteChannel(r) ==
  /\ request[r].pc = "delete"
  /\ IF {"channel", "unused"} \subseteq Holds(r)
     THEN channels' = channels \ {request[r].channel} /\ End(r, "ok")
     ELSE UNCHANGED channels /\ End(r, "error")
  /\ UNCHANGED <<profile, items, edit, subscription, sweep, events, together, passed>>

-----------------------------------------------------------------------------
\* The sweep reads its subscriptions ...
Sweep ==
  /\ sweep.pc = "idle" /\ events < MaxEvents /\ \E s \in Row : subscription[s] # None
  /\ events' = events + 1
  /\ sweep' = [Idle EXCEPT !.pc = "load"]
  /\ UNCHANGED <<profile, items, edit, channels, subscription, request, together, passed>>

\* ... then their profiles ...
Load ==
  /\ sweep.pc = "load"
  /\ sweep' = [pc |-> "match", items |-> items, known |-> profile,
               excused |-> \E e \in Edit : edit[e] \in {"emptied", "error"}]
  /\ UNCHANGED <<profile, items, edit, channels, subscription, request, events, together, passed>>

\* ... and passes over what no item of a profile matches; there is no second chance.
Match ==
  /\ sweep.pc = "match"
  /\ passed' = IF sweep.items # {} THEN passed
               ELSE CASE ~sweep.known -> "removed" [] sweep.excused -> "empty" [] OTHER -> "lost"
  /\ sweep' = Idle
  /\ UNCHANGED <<profile, items, edit, channels, subscription, request, events, together>>

Next ==
  \/ \E e \in Edit : Own(e) \/ Empty(e) \/ Write(e) \/ WriteFails(e)
  \/ \E r \in Request : Validate(r) \/ Subscribe(r) \/ CountSubscriptions(r) \/ DeleteChannel(r)
  \/ \E r \in Request : FindSubscription(r) \/ EnsureChannel(r) \/ Resubscribe(r) \/ Unsubscribe(r)
  \/ RemoveProfile \/ Sweep \/ Load \/ Match

-----------------------------------------------------------------------------
\* update() is two statements.  The items are those of one update, unless two of them were between
\* their statements at once; the next update that runs alone repairs the profile.
ItemsOfOneUpdate == ~together => \A x, y \in items : x = y

\* A sweep passes an event over only because the profile was deleted, or because an update of it
\* was between its statements, or failed there.
NothingPassedSilently == passed # "lost"

\* Whatever else comes between the look-ups of a request and its write, the database refuses the
\* write only because something that was looked up has changed since.
RefusedByRace == \A r \in Request : request[r].pc = "error" => request[r].lost # {}
=============================================================================
