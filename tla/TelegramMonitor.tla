-------------------------- MODULE TelegramMonitor --------------------------
(***************************************************************************)
(* The monitor of Telegram channels (alerts/telegram-channel.service.ts):  *)
(* one MTProto client that listens to the channels of a table and stores   *)
(* their messages, restarted by the boot and by a finished login, by a     *)
(* change of the table and by a watchdog that reconnects it every few      *)
(* minutes and whenever it seems dead.  Only reconnections of the watchdog *)
(* exclude each other.                                                     *)
(*                                                                         *)
(* The API credentials are configured.  A reconnection finds fewer than    *)
(* 100 new messages.                                                       *)
(***************************************************************************)
EXTENDS Naturals, FiniteSets

CONSTANTS
  Channel,     \* channels that may be monitored
  EnvChannel,  \* the ones TELEGRAM_CHANNEL_USERNAME adds
  Message,     \* bound: the messages ever published, each of a channel
  Client       \* bound: the clients that exist at a time

CONSTANT Of(_) \* Of(m): the channel of message m

None == "none"

\* Asserted by the module that instantiates this one.
MonitorAssumption ==
  /\ EnvChannel \subseteq Channel
  /\ \A m \in Message : Of(m) \in Channel
  /\ IsFiniteSet(Client) /\ None \notin Client

VARIABLES
  active,       \* the active rows of telegram_monitored_channels
  names,        \* channelUsernames
  ids,          \* the channels channelIds knows
  client,       \* the current client, or None
  live,         \* the clients with a connection to Telegram
  handlers,     \* the clients with an event handler
  isConnected, watchdog, isReconnecting,
  task,         \* task[t]: the local variables of initialize(), reloadChannels(), reconnect()
  published, saved, \* the messages published, and stored in telegram_channel_messages
  overlap       \* history: two tasks were under way together, and it still shows

monitorVars ==
  <<active, names, ids, client, live, handlers, isConnected, watchdog, isReconnecting, task,
    published, saved, overlap>>

connection == <<client, live, handlers, isConnected>>
messages == <<published, saved>>

Task == {"initialize", "reload", "reconnect"}
NoTask == [pc |-> "idle", own |-> None, list |-> {}]

Init ==
  /\ active \in SUBSET Channel
  /\ names = {} /\ ids = {}
  /\ client = None /\ live = {} /\ handlers = {}
  /\ isConnected = FALSE /\ watchdog = FALSE /\ isReconnecting = FALSE
  /\ task = [t \in Task |-> IF t = "initialize" THEN [NoTask EXCEPT !.pc = "load"] ELSE NoTask]
  /\ published = {} /\ saved = {}
  /\ overlap = FALSE

Goto(t, pc) == task' = [task EXCEPT ![t].pc = pc, ![t].list = {}]

AllIdle == \A t \in Task : task[t].pc = "idle"

\* Nothing is left of the tasks that overlapped.
Settled == AllIdle /\ live \subseteq {client} /\ ids \subseteq names

Begin(t, pc, list) ==
  /\ task[t].pc = "idle"
  /\ task' = [task EXCEPT ![t] = [NoTask EXCEPT !.pc = pc, !.list = list]]
  /\ overlap' = ~(AllIdle /\ (Settled \/ ~overlap))

-----------------------------------------------------------------------------
\* restartWithFreshSession()
Restart ==
  /\ Begin("initialize", "destroy", {})
  /\ watchdog' = FALSE
  /\ UNCHANGED <<active, names, ids, connection, isReconnecting, messages>>

\* A row is created, updated or deleted, and reloadChannels() follows.
ChangeChannels ==
  /\ \E a \in SUBSET Channel : active' = a
  /\ Begin("reload", "load", names)
  /\ UNCHANGED <<names, ids, connection, watchdog, isReconnecting, messages>>

\* checkConnectionAndReconnectIfNeeded(): the forced reconnection or a sign of death.
WatchdogFires ==
  /\ watchdog /\ ~isReconnecting /\ names # {}
  /\ Begin("reconnect", "destroy", {})
  /\ isReconnecting' = TRUE
  /\ UNCHANGED <<active, names, ids, connection, watchdog, messages>>

\* loadChannelsFromDatabase(), or its fallback; a reload without a change ends here.
Load(t) ==
  /\ task[t].pc = "load"
  /\ names' \in {active \cup EnvChannel, EnvChannel}
  /\ Goto(t, CASE t = "reload" /\ names' # task[t].list       -> "destroy"
               [] t = "initialize" /\ names' # {}             -> "connect"
               [] OTHER                                       -> "idle")
  /\ UNCHANGED <<active, ids, connection, watchdog, isReconnecting, messages, overlap>>

AfterDestroy(t) ==
  CASE t = "initialize"              -> "load"
    [] t = "reload" /\ names = {}    -> "idle"
    [] OTHER                         -> "connect"

\* Mutant: disconnect() instead of destroy(), which leaves the update loop running.
Destroy_Disconnects(t) ==
  /\ task[t].pc = "destroy"
  /\ IF client = None
     THEN /\ isConnected' = FALSE
          /\ Goto(t, AfterDestroy(t))
     ELSE /\ Goto(t, "destroyed")
          /\ UNCHANGED isConnected
  /\ UNCHANGED <<active, names, ids, client, live, handlers, watchdog, isReconnecting, messages,
                 overlap>>

\* ensureDisconnected() destroys the client ...
Destroy(t) ==
  /\ task[t].pc = "destroy"
  /\ IF client = None
     THEN /\ isConnected' = FALSE
          /\ Goto(t, AfterDestroy(t))
          /\ UNCHANGED live
     ELSE /\ live' = live \ {client}
          /\ Goto(t, "destroyed")
          /\ UNCHANGED isConnected
  /\ UNCHANGED <<active, names, ids, client, handlers, watchdog, isReconnecting, messages,
                 overlap>>

\* ... and forgets it, or another one that was made in the meantime.
Destroyed(t) ==
  /\ task[t].pc = "destroyed"
  /\ client' = None
  /\ handlers' = handlers \cap live
  /\ isConnected' = FALSE
  /\ ids' = {}
  /\ Goto(t, AfterDestroy(t))
  /\ UNCHANGED <<active, names, live, watchdog, isReconnecting, messages, overlap>>

\* A client nobody refers to is used again, a zombie among them last.
Unused ==
  LET free == Client \ ({client} \cup {task[u].own : u \in Task})
  IN  IF free \subseteq live THEN free ELSE free \ live

\* connect() makes a client and waits for its connection.
Connect(t) ==
  /\ task[t].pc = "connect"
  /\ Unused # {}
  /\ client' = CHOOSE c \in Unused : TRUE
  /\ handlers' = handlers \ {client'}
  /\ live' = live \ {client'}
  /\ task' = [task EXCEPT ![t].pc = "connecting", ![t].own = client']
  /\ UNCHANGED <<active, names, ids, isConnected, watchdog, isReconnecting, messages,
                 overlap>>

\* The end of initialize() starts the watchdog if it has listened; the end of reconnect()
\* clears its flag.
Return(t, listened) ==
  /\ task' = [task EXCEPT ![t] = NoTask]
  /\ watchdog' = (watchdog \/ (t = "initialize" /\ listened))
  /\ isReconnecting' = (isReconnecting /\ t # "reconnect")

\* The authorization is asked of the present client ...
Connected(t) ==
  /\ task[t].pc = "connecting"
  /\ client # None
  /\ live' = live \cup {task[t].own}
  /\ isConnected' = TRUE
  /\ task' = [task EXCEPT ![t].pc = "listen", ![t].own = None]
  /\ UNCHANGED <<active, names, ids, client, handlers, watchdog, isReconnecting, messages,
                 overlap>>

\* ... and without it nothing is listened to, unless another task has connected.
NotAuthorized(t) ==
  /\ task[t].pc = "connecting"
  /\ client # None
  /\ live' = live \cup {task[t].own}
  /\ IF isConnected
     THEN /\ task' = [task EXCEPT ![t].pc = "listen", ![t].own = None]
          /\ UNCHANGED <<watchdog, isReconnecting>>
     ELSE Return(t, FALSE)
  /\ UNCHANGED <<active, names, ids, client, handlers, isConnected, messages, overlap>>

\* connect() throws; initialize() then starts no watchdog.
ConnectFails(t) ==
  /\ task[t].pc = "connecting"
  /\ Return(t, FALSE)
  /\ UNCHANGED <<active, names, ids, connection, messages, overlap>>

\* startListening() forgets the channels it knew and looks the present ones up ...
Listen(t) ==
  /\ task[t].pc = "listen"
  /\ IF isConnected
     THEN /\ ids' = {}
          /\ task' = [task EXCEPT ![t].pc = "resolve", ![t].list = names]
          /\ UNCHANGED <<watchdog, isReconnecting>>
     ELSE /\ Return(t, FALSE)
          /\ UNCHANGED ids
  /\ UNCHANGED <<active, names, connection, messages, overlap>>

\* ... adds a handler to the present client ...
Resolve(t) ==
  /\ task[t].pc = "resolve"
  /\ client # None /\ task[t].list # {}
  /\ ids' = ids \cup task[t].list
  /\ handlers' = handlers \cup {client}
  /\ Goto(t, "fetch")
  /\ UNCHANGED <<active, names, client, live, isConnected, watchdog, isReconnecting, messages,
                 overlap>>

\* ... unless none of them is found (and none was by another task) ...
NoneFound(t) ==
  /\ task[t].pc = "resolve"
  /\ IF ids = {} \/ client = None
     THEN /\ Return(t, TRUE)
          /\ UNCHANGED handlers
     ELSE /\ Goto(t, "fetch")
          /\ handlers' = handlers \cup {client}
          /\ UNCHANGED <<watchdog, isReconnecting>>
  /\ UNCHANGED <<active, names, ids, client, live, isConnected, messages, overlap>>

\* Mutant: only what is published from now on is stored.
Fetch_Nothing(t) ==
  /\ task[t].pc = "fetch"
  /\ Return(t, TRUE)
  /\ UNCHANGED <<active, names, ids, connection, messages, overlap>>

\* ... and stores the recent messages of its channels ...
Fetch(t) ==
  /\ task[t].pc = "fetch"
  /\ client \in live
  /\ saved' = saved \cup {m \in published : Of(m) \in names}
  /\ Return(t, TRUE)
  /\ UNCHANGED <<active, names, ids, connection, published, overlap>>

\* ... or fails to.
FetchFails(t) ==
  /\ task[t].pc = "fetch"
  /\ Return(t, TRUE)
  /\ UNCHANGED <<active, names, ids, connection, messages, overlap>>

-----------------------------------------------------------------------------
Publish(m) ==
  /\ published' = published \cup {m}
  /\ UNCHANGED <<active, names, ids, connection, watchdog, isReconnecting, task, saved, overlap>>

\* The handler of a client gets a message; those of channels it does not know are ignored.
Deliver(m) ==
  /\ m \in published
  /\ live \cap handlers # {}
  /\ Of(m) \in ids
  /\ saved' = saved \cup {m}
  /\ UNCHANGED <<active, names, ids, connection, watchdog, isReconnecting, task, published,
                 overlap>>

LoseConnection(c) ==
  /\ c \in live
  /\ live' = live \ {c}
  /\ UNCHANGED <<active, names, ids, client, handlers, isConnected, watchdog, isReconnecting,
                 task, messages, overlap>>

Step(t) ==
  \/ Load(t) \/ Destroy(t) \/ Destroyed(t) \/ Connect(t) \/ Connected(t) \/ NotAuthorized(t)
  \/ ConnectFails(t) \/ Listen(t) \/ Resolve(t) \/ NoneFound(t) \/ Fetch(t) \/ FetchFails(t)

Next ==
  \/ Restart \/ ChangeChannels \/ WatchdogFires
  \/ \E t \in Task : Step(t)
  \/ \E m \in Message : Publish(m) \/ Deliver(m)
  \/ \E c \in Client : LoseConnection(c)

-----------------------------------------------------------------------------
\* Tasks that do not overlap leave one connection to Telegram at most: destroy(), and not
\* disconnect(), ends the old one ("a zombie update loop", telegram-channel.service.ts:196).
OneConnection == (AllIdle /\ ~overlap) => \A c, d \in live : c = d

\* When the tasks have ended, messages are taken from channels of the last load only.
MonitoredOnly == (AllIdle /\ ~overlap) => ids \subseteq names

\* As long as the watchdog runs, a message of a monitored channel is stored in the end:
\* what no handler was told, the next reconnection that gets through fetches.
NothingMissed ==
  \A m \in Message :
    (m \in published /\ watchdog)
      ~> (m \in saved \/ ~watchdog \/ Of(m) \notin names)
=============================================================================
