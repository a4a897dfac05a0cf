------------------------------ MODULE Telegram ------------------------------
(***************************************************************************)
(* The three services behind the Telegram monitoring: the store of its     *)
(* secrets, the login of its account and the monitor.  They share no state *)
(* of this model, so a behaviour is about one of them (part).              *)
(***************************************************************************)
EXTENDS FiniteSets, Integers

CONSTANTS
  Caller, Value, Corrupted,              \* SecretStore
  Request, MaxLogin,                     \* TelegramLogin
  Channel, EnvChannel, Message, Client,  \* TelegramMonitor
  Of(_)

VARIABLES
  part,                                          \* what this behaviour is about
  stored, cached, call, raced,                   \* the secrets
  pending, connected, authorized, expired, started, req, session, replaced, \* the login
  active, names, ids, client, live, handlers, isConnected, watchdog, isReconnecting, task,
  published, saved, overlap                      \* the monitor

secrets == <<stored, cached, call, raced>>
login == <<pending, connected, authorized, expired, started, req, session, replaced>>
monitor == <<active, names, ids, client, live, handlers, isConnected, watchdog,
             isReconnecting, task, published, saved, overlap>>
vars == <<part, secrets, login, monitor>>

Secrets == INSTANCE SecretStore

Login == INSTANCE TelegramLogin

Monitor == INSTANCE TelegramMonitor

ASSUME TelegramAssumption ==
  Secrets!SecretStoreAssumption /\ Login!TelegramLoginAssumption /\ Monitor!MonitorAssumption

\* The parts a behaviour is not about start in one of their states.
Init ==
  /\ part \in {"secrets", "login", "monitor"}
  /\ Secrets!Init /\ Login!Init
  /\ Monitor!Init /\ (part # "monitor" => active = {})

InSecrets == part = "secrets" /\ UNCHANGED <<part, login, monitor>>
InLogin == part = "login" /\ UNCHANGED <<part, secrets, monitor>>
InMonitor == part = "monitor" /\ UNCHANGED <<part, secrets, login>>

Next ==
  \/ InSecrets /\ Secrets!Next
  \/ InLogin /\ Login!Next
  \/ InMonitor /\ Monitor!Next

\* The tasks of the monitor go on, the watchdog fires, connections are not lost for ever,
\* and neither Telegram nor the database refuses a reconnection for ever.
Fairness ==
  /\ \A t \in Monitor!Task : WF_vars(InMonitor /\ Monitor!Step(t))
  /\ WF_vars(InMonitor /\ Monitor!WatchdogFires)
  /\ <>[][\A c \in Client : ~Monitor!LoseConnection(c)]_vars
  /\ SF_vars(InMonitor /\ Monitor!Connected("reconnect"))
  /\ SF_vars(InMonitor /\ Monitor!Resolve("reconnect"))
  /\ SF_vars(InMonitor /\ Monitor!Fetch("reconnect"))

Safety == Init /\ [][Next]_vars

Spec == Safety /\ Fairness

-----------------------------------------------------------------------------
\* SecretStore: no old value stays in the cache.
CacheCurrent == Secrets!CacheCurrent

\* TelegramLogin: what is stored was signed in.
StoredIsAuthorized == Login!StoredIsAuthorized

\* TelegramLogin: the pending login has its client.
PendingUsable == Login!PendingUsable

\* TelegramMonitor: tasks that do not overlap leave one connection, which listens to channels of
\* the last load only.
OneConnection == Monitor!OneConnection /\ Monitor!MonitoredOnly

\* TelegramMonitor: every message is stored as long as the watchdog runs.
NothingMissed == Monitor!NothingMissed
=============================================================================
