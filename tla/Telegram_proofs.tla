-------------------------- MODULE Telegram_proofs --------------------------
(***************************************************************************)
(* Proofs about the services behind the Telegram monitoring, for any       *)
(* number of overlapping calls and requests, any values, logins, channels, *)
(* messages and clients: the cache of a secret holds no old value; what a  *)
(* login stores was signed in, and one left pending can be answered; tasks *)
(* of the monitor that do not overlap leave one connection.                *)
(***************************************************************************)
EXTENDS Telegram, TLAPS

\* The steps of the composition are steps of each part.
LEMMA SecretSteps ==
  /\ Init => Secrets!Init
  /\ [Next]_vars => [Secrets!Next]_(Secrets!secretVars)
<1>1. Init => Secrets!Init
  BY DEF Init
<1>2. [Next]_vars => [Secrets!Next]_(Secrets!secretVars)
  BY DEF Next, vars, Secrets!secretVars, secrets, login, monitor,
         InSecrets, InLogin, InMonitor
<1>3. QED
  BY <1>1, <1>2

LEMMA LoginSteps ==
  /\ Init => Login!Init
  /\ [Next]_vars => [Login!Next]_(Login!loginVars)
<1>1. Init => Login!Init
  BY DEF Init
<1>2. [Next]_vars => [Login!Next]_(Login!loginVars)
  BY DEF Next, vars, Login!loginVars, secrets, login, monitor,
         InSecrets, InLogin, InMonitor
<1>3. QED
  BY <1>1, <1>2

LEMMA MonitorSteps ==
  /\ Init => Monitor!Init
  /\ [Next]_vars => [Monitor!Next]_(Monitor!monitorVars)
<1>1. Init => Monitor!Init
  BY DEF Init
<1>2. [Next]_vars => [Monitor!Next]_(Monitor!monitorVars)
  BY DEF Next, vars, Monitor!monitorVars, secrets, login, monitor, Monitor!connection,
         Monitor!messages,
         InSecrets, InLogin, InMonitor
<1>3. QED
  BY <1>1, <1>2

-----------------------------------------------------------------------------
\* SecretStore
Forgetting == \E c \in Caller : call[c].pc = "forget"

\* Once the cache entry was deleted with no get() about to fill it, and until the row is
\* written again, the cache and every get() that has its value agree with the row.
CacheInv ==
  /\ DOMAIN call = Caller
  /\ (~raced /\ ~Forgetting) =>
       /\ cached \in {Secrets!NotCached, Secrets!Resolved(stored)}
       /\ \A c \in Caller : call[c].pc = "fill" => call[c].value = Secrets!Resolved(stored)

LEMMA CacheInit == Secrets!Init => CacheInv
  BY DEF Secrets!Init, CacheInv, Secrets!Quiet

LEMMA CacheStep == CacheInv /\ [Secrets!Next]_(Secrets!secretVars) => CacheInv'
<1> SUFFICES ASSUME CacheInv, [Secrets!Next]_(Secrets!secretVars) PROVE CacheInv'
  OBVIOUS
<1> USE DEF CacheInv, Forgetting
<1>1. ASSUME NEW c \in Caller, Secrets!GetMisses(c) PROVE CacheInv'
  BY <1>1 DEF Secrets!GetMisses
<1>2. ASSUME NEW c \in Caller, Secrets!Query(c) PROVE CacheInv'
  BY <1>2 DEF Secrets!Query
<1>3. ASSUME NEW c \in Caller, Secrets!Fill(c) PROVE CacheInv'
  BY <1>3 DEF Secrets!Fill, Secrets!Quiet
<1>4. ASSUME NEW c \in Caller, NEW v, Secrets!Put(c, v) PROVE CacheInv'
  BY <1>4 DEF Secrets!Put
<1>5. ASSUME NEW c \in Caller, Secrets!Forget(c) PROVE CacheInv'
  BY <1>5 DEF Secrets!Forget, Secrets!Filling, Secrets!Quiet
<1>6. CASE Secrets!Restart
  BY <1>6 DEF Secrets!Restart, Secrets!Quiet
<1>7. CASE UNCHANGED Secrets!secretVars
  BY <1>7 DEF Secrets!secretVars
<1>8. QED
  BY <1>1, <1>2, <1>3, <1>4, <1>5, <1>6, <1>7 DEF Secrets!Next

\* With no set() or clear() in flight, the cache has what the store resolves to, unless a
\* get() was between its query and its fill when the entry was deleted.
THEOREM CacheCorrect == Spec => []CacheCurrent
<1>1. CacheInv => CacheCurrent
  BY DEF CacheInv, CacheCurrent, Secrets!CacheCurrent, Forgetting
<1>2. QED
  BY SecretSteps, CacheInit, CacheStep, <1>1, PTL DEF Spec, Safety

-----------------------------------------------------------------------------
\* TelegramLogin
Stage == {"idle", "discard_first", "discard", "connect", "send_code", "sign_in",
          "store", "disconnect"}
RequestState == [pc : Stage, login : Nat]

\* Logins are numbered as they start, and a request holds one that has started.
LoginTyped ==
  /\ started \in Nat /\ pending \in 0..started
  /\ req \in [Request -> RequestState]
  /\ \A r \in Request : req[r].login <= started

LEMMA LoginTypedInit == Login!Init => LoginTyped
  BY DEF Login!Init, LoginTyped, RequestState, Stage, Login!NoRequest, Login!None

LEMMA LoginTypedStep == LoginTyped /\ [Login!Next]_(Login!loginVars) => LoginTyped'
<1> SUFFICES ASSUME LoginTyped, [Login!Next]_(Login!loginVars) PROVE LoginTyped'
  OBVIOUS
<1> USE DEF LoginTyped, RequestState, Stage, Login!Goto, Login!None
<1>1. ASSUME NEW r \in Request, Login!Start(r) PROVE LoginTyped'
  BY <1>1 DEF Login!Start
<1>2. ASSUME NEW r \in Request, Login!Discarded(r) PROVE LoginTyped'
  BY <1>2 DEF Login!Discarded
<1>3. ASSUME NEW r \in Request, Login!Connect(r) PROVE LoginTyped'
  BY <1>3 DEF Login!Connect
<1>4. ASSUME NEW r \in Request, Login!CodeSent(r) PROVE LoginTyped'
  BY <1>4 DEF Login!CodeSent
<1>5. ASSUME NEW r \in Request, Login!CodeFails(r) PROVE LoginTyped'
  BY <1>5 DEF Login!CodeFails
<1>6. ASSUME NEW r \in Request, Login!Answer(r) PROVE LoginTyped'
  BY <1>6 DEF Login!Answer, Login!Expired
<1>7. ASSUME NEW r \in Request, Login!SignedIn(r) PROVE LoginTyped'
  BY <1>7 DEF Login!SignedIn, Login!Finish
<1>8. ASSUME NEW r \in Request, Login!PasswordNeeded(r) PROVE LoginTyped'
  BY <1>8 DEF Login!PasswordNeeded
<1>9. ASSUME NEW r \in Request, Login!Refused(r) PROVE LoginTyped'
  BY <1>9 DEF Login!Refused
<1>10. ASSUME NEW r \in Request, Login!Store(r) PROVE LoginTyped'
  BY <1>10 DEF Login!Store
<1>11. ASSUME NEW r \in Request, Login!Finished(r) PROVE LoginTyped'
  BY <1>11 DEF Login!Finished
<1>12. CASE Login!Expire \/ UNCHANGED Login!loginVars
  BY <1>12 DEF Login!Expire, Login!loginVars
<1>13. QED
  BY <1>1, <1>2, <1>3, <1>4, <1>5, <1>6, <1>7, <1>8, <1>9, <1>10, <1>11, <1>12 DEF Login!Next

-----------------------------------------------------------------------------
\* While an answer is on its way nothing but its login is pending, and what is about to be
\* stored is signed in, as long as no other login became pending meanwhile.
SessionInv ==
  ~replaced =>
    /\ \A r \in Request :
         /\ req[r].pc = "sign_in" => pending \in {Login!None, req[r].login}
         /\ req[r].pc = "store" => req[r].login \in authorized
    /\ session # Login!None => session \in authorized

LEMMA SessionInit == Login!Init => SessionInv
  BY DEF Login!Init, SessionInv, Login!NoRequest

LEMMA SessionStep == LoginTyped /\ SessionInv /\ [Login!Next]_(Login!loginVars) => SessionInv'
<1> SUFFICES ASSUME LoginTyped, SessionInv, [Login!Next]_(Login!loginVars) PROVE SessionInv'
  OBVIOUS
<1> USE DEF SessionInv, LoginTyped, RequestState, Stage, Login!Goto, Login!None
<1>1. ASSUME NEW r \in Request, Login!Start(r) PROVE SessionInv'
  BY <1>1 DEF Login!Start
<1>2. ASSUME NEW r \in Request, Login!Discarded(r) PROVE SessionInv'
  BY <1>2 DEF Login!Discarded
<1>3. ASSUME NEW r \in Request, Login!Connect(r) PROVE SessionInv'
  BY <1>3 DEF Login!Connect
<1>4. ASSUME NEW r \in Request, Login!CodeSent(r) PROVE SessionInv'
  BY <1>4 DEF Login!CodeSent, Login!Answering
<1>5. ASSUME NEW r \in Request, Login!CodeFails(r) PROVE SessionInv'
  BY <1>5 DEF Login!CodeFails
<1>6. ASSUME NEW r \in Request, Login!Answer(r) PROVE SessionInv'
  BY <1>6 DEF Login!Answer, Login!Expired
<1>7. ASSUME NEW r \in Request, Login!SignedIn(r) PROVE SessionInv'
  BY <1>7 DEF Login!SignedIn, Login!Finish
<1>8. ASSUME NEW r \in Request, Login!PasswordNeeded(r) PROVE SessionInv'
  BY <1>8 DEF Login!PasswordNeeded
<1>9. ASSUME NEW r \in Request, Login!Refused(r) PROVE SessionInv'
  BY <1>9 DEF Login!Refused
<1>10. ASSUME NEW r \in Request, Login!Store(r) PROVE SessionInv'
  BY <1>10 DEF Login!Store
<1>11. ASSUME NEW r \in Request, Login!Finished(r) PROVE SessionInv'
  BY <1>11 DEF Login!Finished
<1>12. CASE Login!Expire \/ UNCHANGED Login!loginVars
  BY <1>12 DEF Login!Expire, Login!loginVars
<1>13. QED
  BY <1>1, <1>2, <1>3, <1>4, <1>5, <1>6, <1>7, <1>8, <1>9, <1>10, <1>11, <1>12 DEF Login!Next

\* The session the monitor restarts with is one Telegram has signed in, unless another login
\* became pending while an answer was on its way.
THEOREM SessionAuthorized == Spec => []StoredIsAuthorized
<1>1. SessionInv => StoredIsAuthorized
  BY DEF SessionInv, StoredIsAuthorized, Login!StoredIsAuthorized
<1>2. QED
  BY LoginSteps, LoginTypedInit, LoginTypedStep, SessionInit, SessionStep, <1>1, PTL
  DEF Spec, Safety

-----------------------------------------------------------------------------
\* The login a request has just connected is no one else's, and not yet pending.
Fresh(r) ==
  /\ req[r].login \in connected
  /\ req[r].login \notin {Login!None, pending}
  /\ \A q \in Request \ {r} : req[q].login # req[r].login

\* Whoever disconnects a login that is pending has yet to drop it.
PendingInv ==
  /\ \A r \in Request : req[r].pc = "send_code" => Fresh(r)
  /\ (pending # Login!None /\ pending \notin connected) =>
       \E r \in Request : req[r].pc \in {"discard_first", "discard", "disconnect"}

LEMMA PendingInit == Login!Init => PendingInv
  BY DEF Login!Init, PendingInv, Login!NoRequest

LEMMA PendingStep == LoginTyped /\ PendingInv /\ [Login!Next]_(Login!loginVars) => PendingInv'
<1> SUFFICES ASSUME LoginTyped, PendingInv, [Login!Next]_(Login!loginVars) PROVE PendingInv'
  OBVIOUS
<1> USE DEF PendingInv, Fresh, LoginTyped, RequestState, Stage, Login!Goto, Login!None
<1>1. ASSUME NEW r \in Request, Login!Start(r) PROVE PendingInv'
  BY <1>1 DEF Login!Start
<1>2. ASSUME NEW r \in Request, Login!Discarded(r) PROVE PendingInv'
  BY <1>2 DEF Login!Discarded
<1>3. ASSUME NEW r \in Request, Login!Connect(r) PROVE PendingInv'
  BY <1>3 DEF Login!Connect
<1>4. ASSUME NEW r \in Request, Login!CodeSent(r) PROVE PendingInv'
  BY <1>4 DEF Login!CodeSent
<1>5. ASSUME NEW r \in Request, Login!CodeFails(r) PROVE PendingInv'
  BY <1>5 DEF Login!CodeFails
<1>6. ASSUME NEW r \in Request, Login!Answer(r) PROVE PendingInv'
  BY <1>6 DEF Login!Answer, Login!Expired
<1>7. ASSUME NEW r \in Request, Login!SignedIn(r) PROVE PendingInv'
  BY <1>7 DEF Login!SignedIn, Login!Finish
<1>8. ASSUME NEW r \in Request, Login!PasswordNeeded(r) PROVE PendingInv'
  BY <1>8 DEF Login!PasswordNeeded
<1>9. ASSUME NEW r \in Request, Login!Refused(r) PROVE PendingInv'
  BY <1>9 DEF Login!Refused
<1>10. ASSUME NEW r \in Request, Login!Store(r) PROVE PendingInv'
  BY <1>10 DEF Login!Store
<1>11. ASSUME NEW r \in Request, Login!Finished(r) PROVE PendingInv'
  BY <1>11 DEF Login!Finished
<1>12. CASE Login!Expire \/ UNCHANGED Login!loginVars
  BY <1>12 DEF Login!Expire, Login!loginVars
<1>13. QED
  BY <1>1, <1>2, <1>3, <1>4, <1>5, <1>6, <1>7, <1>8, <1>9, <1>10, <1>11, <1>12 DEF Login!Next

\* A login that is pending while no request is in flight has its client connected, so that
\* the administrator can answer it.
THEOREM PendingAnswerable == Spec => []PendingUsable
<1>1. PendingInv => PendingUsable
  BY DEF PendingInv, PendingUsable, Login!PendingUsable
<1>2. QED
  BY LoginSteps, LoginTypedInit, LoginTypedStep, PendingInit, PendingStep, <1>1, PTL
  DEF Spec, Safety
-----------------------------------------------------------------------------
\* TelegramMonitor
Pc == {"idle", "load", "destroy", "destroyed", "connect", "connecting", "listen", "resolve",
       "fetch"}

TaskState == [pc: Pc, own: Client \cup {"none"}, list: SUBSET Channel]

MonitorTyped ==
  /\ live \subseteq Client /\ client \in Client \cup {"none"}
  /\ active \subseteq Channel /\ names \subseteq Channel
  /\ task \in [Monitor!Task -> TaskState]
  /\ \A t \in Monitor!Task : task[t].pc = "connecting" => task[t].own \in Client
  /\ overlap \in BOOLEAN
  /\ client = "none" => ids = {}

\* What a task that is under way alone has left of the connection.
Alone(t) ==
  /\ \A u \in Monitor!Task \ {t} : task[u].pc = "idle"
  /\ task[t].pc \in {"destroyed", "connect", "connecting"} => live = {}
  /\ task[t].pc = "connect" => client = "none"
  /\ task[t].pc = "connecting" => task[t].own = client /\ ids = {}
  /\ task[t].pc = "load" => IF t = "reload" THEN task[t].list = names
                            ELSE client = "none"
  /\ task[t].pc = "resolve" => task[t].list = names
  /\ task[t].pc \notin {"destroy", "destroyed"} => ids \subseteq names

MonitorInv ==
  /\ MonitorTyped
  /\ ~overlap => /\ live \subseteq {client}
                 /\ Monitor!AllIdle => ids \subseteq names
                 /\ \A t \in Monitor!Task : task[t].pc # "idle" => Alone(t)

LEMMA MonitorConstants ==
  /\ Monitor!None = "none" /\ "none" \notin Client /\ EnvChannel \subseteq Channel
  /\ Monitor!Task = {"initialize", "reload", "reconnect"}
  BY TelegramAssumption DEF Monitor!MonitorAssumption, Monitor!None, Monitor!Task

LEMMA MonitorInit == Monitor!Init => MonitorInv
<1> SUFFICES ASSUME Monitor!Init PROVE MonitorInv
  OBVIOUS
<1>1. Monitor!NoTask \in TaskState /\ Monitor!NoTask.pc = "idle"
  BY DEF Monitor!NoTask, TaskState, Pc, Monitor!None
<1>2. /\ [Monitor!NoTask EXCEPT !.pc = "load"] \in TaskState
      /\ [Monitor!NoTask EXCEPT !.pc = "load"].pc = "load"
  BY <1>1 DEF TaskState, Pc
<1>3. /\ task \in [Monitor!Task -> TaskState]
      /\ \A t \in Monitor!Task : task[t].pc = IF t = "initialize" THEN "load" ELSE "idle"
  BY <1>1, <1>2 DEF Monitor!Init
<1>4. MonitorTyped
  <2>1. \A t \in Monitor!Task : task[t].pc # "connecting"
    BY <1>3
  <2>2. QED
    BY <1>3, <2>1 DEF Monitor!Init, MonitorTyped, Monitor!None
<1>5. \A t \in Monitor!Task : task[t].pc # "idle" => Alone(t)
  BY <1>3 DEF Monitor!Init, Alone, Monitor!None
<1>6. QED
  BY <1>3, <1>4, <1>5 DEF MonitorInv, Monitor!Init, Monitor!AllIdle, Monitor!Task

\* A task begins alone, or is counted as an overlap.
LEMMA BeginStep ==
  ASSUME MonitorInv, NEW t \in Monitor!Task, NEW p \in Pc \ {"idle"}, NEW l \in SUBSET Channel,
         Monitor!Begin(t, p, l), p = "destroy" \/ (p = "load" /\ t = "reload" /\ l = names),
         active' \subseteq Channel, UNCHANGED <<names, ids, client, live>>
  PROVE  MonitorInv'
<1> DEFINE s == [Monitor!NoTask EXCEPT !.pc = p, !.list = l]
<1>1. task' = [task EXCEPT ![t] = s] /\ overlap' \in BOOLEAN
  BY DEF Monitor!Begin
<1>2. s \in TaskState /\ s.pc = p /\ s.list = l
  BY DEF Monitor!NoTask, TaskState, Pc, Monitor!None
<1> HIDE DEF s
<1>3. /\ task' \in [Monitor!Task -> TaskState] /\ task'[t].pc = p /\ task'[t].list = l
      /\ \A u \in Monitor!Task \ {t} : task'[u] = task[u]
  BY <1>1, <1>2 DEF MonitorInv, MonitorTyped
<1>4. MonitorTyped'
  BY <1>1, <1>3 DEF MonitorInv, MonitorTyped, Pc
<1>5. ASSUME ~overlap'
      PROVE  /\ live \subseteq {client} /\ ids \subseteq names
             /\ \A u \in Monitor!Task \ {t} : task'[u].pc = "idle"
  <2>1. Monitor!AllIdle /\ (Monitor!Settled \/ ~overlap)
    BY <1>5 DEF Monitor!Begin
  <2>2. QED
    BY <1>3, <2>1 DEF Monitor!AllIdle, Monitor!Settled, MonitorInv
<1>6. ASSUME ~overlap' PROVE Alone(t)'
  BY <1>3, <1>5, <1>6 DEF Alone
<1>7. QED
  BY <1>3, <1>4, <1>5, <1>6 DEF MonitorInv, Monitor!AllIdle

\* A step of a task keeps the invariant if it keeps what is known of the task when it is alone.
LEMMA AloneStep ==
  ASSUME MonitorInv, NEW t \in Monitor!Task, task[t].pc # "idle", MonitorTyped', overlap' = overlap,
         \A u \in Monitor!Task \ {t} : task'[u] = task[u],
         (live \subseteq {client} /\ Alone(t)) => live' \subseteq {client'} /\ Alone(t)'
  PROVE  MonitorInv'
<1> SUFFICES ASSUME ~overlap
             PROVE  /\ live' \subseteq {client'}
                    /\ Monitor!AllIdle' => ids' \subseteq names'
                    /\ \A u \in Monitor!Task : task'[u].pc # "idle" => Alone(u)'
  BY DEF MonitorInv
<1>1. live \subseteq {client} /\ Alone(t)
  BY DEF MonitorInv
<1>2. live' \subseteq {client'} /\ Alone(t)'
  BY <1>1
<1>3. \A u \in Monitor!Task \ {t} : task'[u].pc = "idle"
  BY <1>1 DEF Alone
<1>4. Monitor!AllIdle' => ids' \subseteq names'
  BY <1>2 DEF Alone, Monitor!AllIdle
<1>5. QED
  BY <1>2, <1>3, <1>4

LEMMA GoneTo ==
  ASSUME MonitorTyped, NEW t \in Monitor!Task, NEW p \in Pc, Monitor!Goto(t, p)
  PROVE  /\ task' \in [Monitor!Task -> TaskState]
         /\ task'[t].pc = p /\ task'[t].own = task[t].own /\ task'[t].list = {}
         /\ \A u \in Monitor!Task \ {t} : task'[u] = task[u]
<1> DEFINE s == [task[t] EXCEPT !.pc = p, !.list = {}]
<1>1. task[t] \in TaskState
  BY DEF MonitorTyped
<1>2. s \in TaskState /\ s.pc = p /\ s.own = task[t].own /\ s.list = {}
  BY <1>1 DEF TaskState
<1>3. task' = [task EXCEPT ![t] = s]
  BY DEF Monitor!Goto, MonitorTyped
<1> HIDE DEF s
<1>4. QED
  BY <1>2, <1>3 DEF MonitorTyped

LEMMA Returned ==
  ASSUME MonitorTyped, NEW t \in Monitor!Task, NEW listened, Monitor!Return(t, listened)
  PROVE  /\ task' \in [Monitor!Task -> TaskState] /\ task'[t].pc = "idle"
         /\ \A u \in Monitor!Task \ {t} : task'[u] = task[u]
<1>1. Monitor!NoTask \in TaskState /\ Monitor!NoTask.pc = "idle"
  BY DEF Monitor!NoTask, TaskState, Pc, Monitor!None
<1>2. QED
  BY <1>1 DEF Monitor!Return, MonitorTyped

\* connect() and startListening() change more of a task than where it is.
LEMMA TaskSet ==
  ASSUME MonitorTyped, NEW t \in Monitor!Task, NEW p \in Pc, NEW o \in Client \cup {"none"},
         task' = [task EXCEPT ![t].pc = p, ![t].own = o]
  PROVE  /\ task' \in [Monitor!Task -> TaskState] /\ task'[t].pc = p /\ task'[t].own = o
         /\ \A u \in Monitor!Task \ {t} : task'[u] = task[u]
<1> DEFINE s == [task[t] EXCEPT !.pc = p, !.own = o]
<1>1. task[t] \in TaskState
  BY DEF MonitorTyped
<1>2. s \in TaskState /\ s.pc = p /\ s.own = o
  BY <1>1 DEF TaskState
<1>3. task' = [task EXCEPT ![t] = s]
  BY DEF MonitorTyped
<1> HIDE DEF s
<1>4. QED
  BY <1>2, <1>3 DEF MonitorTyped

LEMMA TaskListed ==
  ASSUME MonitorTyped, NEW t \in Monitor!Task, NEW p \in Pc, NEW l \in SUBSET Channel,
         task' = [task EXCEPT ![t].pc = p, ![t].list = l]
  PROVE  /\ task' \in [Monitor!Task -> TaskState] /\ task'[t].pc = p /\ task'[t].list = l
         /\ \A u \in Monitor!Task \ {t} : task'[u] = task[u]
<1> DEFINE s == [task[t] EXCEPT !.pc = p, !.list = l]
<1>1. task[t] \in TaskState
  BY DEF MonitorTyped
<1>2. s \in TaskState /\ s.pc = p /\ s.list = l
  BY <1>1 DEF TaskState
<1>3. task' = [task EXCEPT ![t] = s]
  BY DEF MonitorTyped
<1> HIDE DEF s
<1>4. QED
  BY <1>2, <1>3 DEF MonitorTyped

LEMMA TaskStep ==
  ASSUME MonitorInv, NEW t \in Monitor!Task, Monitor!Step(t) PROVE MonitorInv'
<1>0. /\ MonitorTyped /\ overlap' = overlap /\ active' = active
      /\ Monitor!None = "none" /\ "none" \notin Client /\ task[t].pc # "idle"
  BY MonitorConstants DEF MonitorInv, Monitor!Step, Monitor!Load, Monitor!Destroy,
     Monitor!Destroyed, Monitor!Connect, Monitor!Connected, Monitor!NotAuthorized,
     Monitor!ConnectFails, Monitor!Listen, Monitor!Resolve, Monitor!NoneFound, Monitor!Fetch,
     Monitor!FetchFails
<1>1. CASE Monitor!Load(t)
  <2> DEFINE p == CASE t = "reload" /\ names' # task[t].list -> "destroy"
                    [] t = "initialize" /\ names' # {}       -> "connect"
                    [] OTHER                                 -> "idle"
  <2>1. /\ task[t].pc = "load" /\ UNCHANGED <<ids, client, live>>
        /\ names' \in {active \cup EnvChannel, EnvChannel} /\ Monitor!Goto(t, p)
    BY <1>1 DEF Monitor!Load, Monitor!connection
  <2>2. p \in Pc /\ p \in {"destroy", "connect", "idle"}
    BY DEF Pc
  <2>3. /\ p = "destroy" \/ t # "reload" \/ names' = task[t].list
        /\ p = "connect" => t # "reload"
    OBVIOUS
  <2> HIDE DEF p
  <2>4. /\ task' \in [Monitor!Task -> TaskState] /\ task'[t].pc = p
        /\ \A u \in Monitor!Task \ {t} : task'[u] = task[u]
    BY <1>0, <2>1, <2>2, GoneTo
  <2>5. MonitorTyped'
    BY <1>0, <2>1, <2>2, <2>4, MonitorConstants DEF MonitorTyped
  <2>6. ASSUME live \subseteq {client}, Alone(t) PROVE live' \subseteq {client'} /\ Alone(t)'
    <3>1. t # "reload" => client = "none" /\ ids = {} /\ live = {}
      BY <1>0, <2>1, <2>6 DEF Alone, MonitorTyped
    <3>2. t = "reload" => task[t].list = names /\ ids \subseteq names
      BY <2>1, <2>6 DEF Alone
    <3>3. QED
      BY <2>1, <2>2, <2>3, <2>4, <2>6, <3>1, <3>2 DEF Alone
  <2>7. QED
    BY <1>0, <2>4, <2>5, <2>6, AloneStep
<1>2. CASE Monitor!Destroy(t)
  <2>1. /\ task[t].pc = "destroy" /\ UNCHANGED <<names, ids, client>>
        /\ Monitor!Goto(t, IF client = "none" THEN Monitor!AfterDestroy(t) ELSE "destroyed")
        /\ live' = IF client = "none" THEN live ELSE live \ {client}
    BY <1>0, <1>2 DEF Monitor!Destroy
  <2> DEFINE p == IF client = "none" THEN Monitor!AfterDestroy(t) ELSE "destroyed"
  <2>2. /\ p \in Pc /\ p \in {"load", "idle", "connect", "destroyed"}
        /\ p = "load" => t # "reload"
        /\ p # "destroyed" => client = "none"
    BY DEF Monitor!AfterDestroy, Pc
  <2> HIDE DEF p
  <2>3. /\ task' \in [Monitor!Task -> TaskState] /\ task'[t].pc = p
        /\ \A u \in Monitor!Task \ {t} : task'[u] = task[u]
    BY <1>0, <2>1, <2>2, GoneTo DEF p
  <2>4. MonitorTyped'
    BY <1>0, <2>1, <2>2, <2>3 DEF MonitorTyped
  <2>5. ASSUME live \subseteq {client}, Alone(t) PROVE live' \subseteq {client'} /\ Alone(t)'
    <3>1. live' = {}
      BY <1>0, <2>1, <2>5 DEF MonitorTyped
    <3>2. client = "none" => ids = {}
      BY <1>0 DEF MonitorTyped
    <3>3. QED
      BY <2>1, <2>2, <2>3, <2>5, <3>1, <3>2 DEF Alone
  <2>6. QED
    BY <1>0, <2>3, <2>4, <2>5, AloneStep
<1>3. CASE Monitor!Destroyed(t)
  <2>1. /\ task[t].pc = "destroyed" /\ UNCHANGED <<names, live>> /\ client' = "none" /\ ids' = {}
        /\ Monitor!Goto(t, Monitor!AfterDestroy(t))
    BY <1>0, <1>3 DEF Monitor!Destroyed
  <2>2. /\ Monitor!AfterDestroy(t) \in Pc /\ Monitor!AfterDestroy(t) \in {"load", "idle", "connect"}
        /\ Monitor!AfterDestroy(t) = "load" => t # "reload"
    BY DEF Monitor!AfterDestroy, Pc
  <2>3. /\ task' \in [Monitor!Task -> TaskState] /\ task'[t].pc = Monitor!AfterDestroy(t)
        /\ \A u \in Monitor!Task \ {t} : task'[u] = task[u]
    BY <1>0, <2>1, <2>2, GoneTo
  <2>4. MonitorTyped'
    BY <1>0, <2>1, <2>2, <2>3 DEF MonitorTyped
  <2>5. ASSUME live \subseteq {client}, Alone(t) PROVE live' \subseteq {client'} /\ Alone(t)'
    BY <2>1, <2>2, <2>3, <2>5 DEF Alone
  <2>6. QED
    BY <1>0, <2>3, <2>4, <2>5, AloneStep
<1>4. CASE Monitor!Connect(t)
  <2>1. /\ task[t].pc = "connect" /\ UNCHANGED <<names, ids>> /\ live' = live \ {client'}
        /\ client' \in Client
        /\ task' = [task EXCEPT ![t].pc = "connecting", ![t].own = client']
    BY <1>4 DEF Monitor!Connect, Monitor!Unused
  <2>2. "connecting" \in Pc
    BY DEF Pc
  <2>3. PICK c \in Client : client' = c
    BY <2>1
  <2>4. /\ task' \in [Monitor!Task -> TaskState]
        /\ task'[t].pc = "connecting" /\ task'[t].own = client'
        /\ \A u \in Monitor!Task \ {t} : task'[u] = task[u]
    BY <1>0, <2>1, <2>2, <2>3, TaskSet
  <2>5. MonitorTyped'
    BY <1>0, <2>1, <2>4 DEF MonitorTyped
  <2>6. ASSUME live \subseteq {client}, Alone(t) PROVE live' \subseteq {client'} /\ Alone(t)'
    BY <1>0, <2>1, <2>4, <2>6 DEF Alone, MonitorTyped
  <2>7. QED
    BY <1>0, <2>4, <2>5, <2>6, AloneStep
<1>5. CASE Monitor!Connected(t) \/ Monitor!NotAuthorized(t)
  <2>1. /\ task[t].pc = "connecting" /\ UNCHANGED <<names, ids, client>> /\ client # "none"
        /\ live' = live \cup {task[t].own}
    BY <1>0, <1>5 DEF Monitor!Connected, Monitor!NotAuthorized
  <2>2. /\ task' \in [Monitor!Task -> TaskState] /\ task'[t].pc \in {"idle", "listen"}
        /\ \A u \in Monitor!Task \ {t} : task'[u] = task[u]
    <3>1. CASE Monitor!Return(t, FALSE)
      BY <1>0, <3>1, Returned
    <3>2. CASE task' = [task EXCEPT ![t].pc = "listen", ![t].own = Monitor!None]
      <4>1. "listen" \in Pc /\ "none" \in Client \cup {"none"}
        BY DEF Pc
      <4>2. task' = [task EXCEPT ![t].pc = "listen", ![t].own = "none"]
        BY <1>0, <3>2
      <4>3. QED
        BY <1>0, <4>1, <4>2, TaskSet
    <3>3. QED
      BY <1>5, <3>1, <3>2 DEF Monitor!Connected, Monitor!NotAuthorized
  <2>3. MonitorTyped'
    BY <1>0, <2>1, <2>2 DEF MonitorTyped
  <2>4. ASSUME live \subseteq {client}, Alone(t) PROVE live' \subseteq {client'} /\ Alone(t)'
    BY <2>1, <2>2, <2>4 DEF Alone
  <2>5. QED
    BY <1>0, <2>2, <2>3, <2>4, AloneStep
<1>6. CASE Monitor!ConnectFails(t)
  <2>1. /\ task[t].pc = "connecting" /\ UNCHANGED <<names, ids, client, live>>
        /\ Monitor!Return(t, FALSE)
    BY <1>6 DEF Monitor!ConnectFails, Monitor!connection
  <2>2. /\ task' \in [Monitor!Task -> TaskState] /\ task'[t].pc = "idle"
        /\ \A u \in Monitor!Task \ {t} : task'[u] = task[u]
    BY <1>0, <2>1, Returned
  <2>3. MonitorTyped'
    BY <1>0, <2>1, <2>2 DEF MonitorTyped
  <2>4. ASSUME live \subseteq {client}, Alone(t) PROVE live' \subseteq {client'} /\ Alone(t)'
    BY <2>1, <2>2, <2>4 DEF Alone
  <2>5. QED
    BY <1>0, <2>2, <2>3, <2>4, AloneStep
<1>7. CASE Monitor!Listen(t)
  <2>1. /\ task[t].pc = "listen" /\ UNCHANGED <<names, client, live>>
        /\ \/ ids' = {} /\ task' = [task EXCEPT ![t].pc = "resolve", ![t].list = names]
           \/ ids' = ids /\ Monitor!Return(t, FALSE)
    BY <1>7 DEF Monitor!Listen, Monitor!connection
  <2>2. /\ task' \in [Monitor!Task -> TaskState]
        /\ task'[t].pc = "idle" \/ (task'[t].pc = "resolve" /\ task'[t].list = names)
        /\ \A u \in Monitor!Task \ {t} : task'[u] = task[u]
    <3>1. CASE Monitor!Return(t, FALSE)
      BY <1>0, <3>1, Returned
    <3>2. CASE task' = [task EXCEPT ![t].pc = "resolve", ![t].list = names]
      <4>1. "resolve" \in Pc /\ names \in SUBSET Channel
        BY <1>0 DEF Pc, MonitorTyped
      <4>2. QED
        BY <1>0, <3>2, <4>1, TaskListed
    <3>3. QED
      BY <2>1, <3>1, <3>2
  <2>3. MonitorTyped'
    BY <1>0, <2>1, <2>2 DEF MonitorTyped
  <2>4. ASSUME live \subseteq {client}, Alone(t) PROVE live' \subseteq {client'} /\ Alone(t)'
    BY <2>1, <2>2, <2>4 DEF Alone
  <2>5. QED
    BY <1>0, <2>2, <2>3, <2>4, AloneStep
<1>8. CASE Monitor!Resolve(t)
  <2>1. /\ task[t].pc = "resolve" /\ UNCHANGED <<names, client, live>> /\ client # "none"
        /\ ids' = ids \cup task[t].list /\ Monitor!Goto(t, "fetch")
    BY <1>0, <1>8 DEF Monitor!Resolve
  <2>2. /\ task' \in [Monitor!Task -> TaskState] /\ task'[t].pc = "fetch"
        /\ \A u \in Monitor!Task \ {t} : task'[u] = task[u]
    <3>1. "fetch" \in Pc
      BY DEF Pc
    <3>2. QED
      BY <1>0, <2>1, <3>1, GoneTo
  <2>3. MonitorTyped'
    BY <1>0, <2>1, <2>2 DEF MonitorTyped
  <2>4. ASSUME live \subseteq {client}, Alone(t) PROVE live' \subseteq {client'} /\ Alone(t)'
    BY <2>1, <2>2, <2>4 DEF Alone
  <2>5. QED
    BY <1>0, <2>2, <2>3, <2>4, AloneStep
<1>9. CASE Monitor!NoneFound(t) \/ Monitor!Fetch(t) \/ Monitor!FetchFails(t)
  <2>1. /\ task[t].pc \in {"resolve", "fetch"} /\ UNCHANGED <<names, ids, client, live>>
        /\ Monitor!Return(t, TRUE) \/ Monitor!Goto(t, "fetch")
    BY <1>9 DEF Monitor!NoneFound, Monitor!Fetch, Monitor!FetchFails, Monitor!connection
  <2>2. /\ task' \in [Monitor!Task -> TaskState] /\ task'[t].pc \in {"idle", "fetch"}
        /\ \A u \in Monitor!Task \ {t} : task'[u] = task[u]
    <3>1. "fetch" \in Pc
      BY DEF Pc
    <3>2. QED
      BY <1>0, <2>1, <3>1, GoneTo, Returned
  <2>3. MonitorTyped'
    BY <1>0, <2>1, <2>2 DEF MonitorTyped
  <2>4. ASSUME live \subseteq {client}, Alone(t) PROVE live' \subseteq {client'} /\ Alone(t)'
    BY <2>1, <2>2, <2>4 DEF Alone
  <2>5. QED
    BY <1>0, <2>2, <2>3, <2>4, AloneStep
<1>10. QED
  BY <1>1, <1>2, <1>3, <1>4, <1>5, <1>6, <1>7, <1>8, <1>9 DEF Monitor!Step

LEMMA MonitorStep == MonitorInv /\ [Monitor!Next]_(Monitor!monitorVars) => MonitorInv'
<1> SUFFICES ASSUME MonitorInv, [Monitor!Next]_(Monitor!monitorVars) PROVE MonitorInv'
  OBVIOUS
<1>0. MonitorTyped /\ Monitor!Task = {"initialize", "reload", "reconnect"}
  BY MonitorConstants DEF MonitorInv
<1>1. CASE Monitor!Restart
  <2>1. "destroy" \in Pc \ {"idle"} /\ {} \in SUBSET Channel /\ "initialize" \in Monitor!Task
    BY <1>0 DEF Pc
  <2>2. Monitor!Begin("initialize", "destroy", {}) /\ UNCHANGED <<active, names, ids, client, live>>
    BY <1>1 DEF Monitor!Restart, Monitor!connection
  <2>3. QED
    BY <1>0, <2>1, <2>2, BeginStep DEF MonitorTyped
<1>2. CASE Monitor!ChangeChannels
  <2>1. "load" \in Pc \ {"idle"} /\ names \in SUBSET Channel /\ "reload" \in Monitor!Task
    BY <1>0 DEF Pc, MonitorTyped
  <2>2. /\ Monitor!Begin("reload", "load", names) /\ UNCHANGED <<names, ids, client, live>>
        /\ active' \subseteq Channel
    BY <1>2 DEF Monitor!ChangeChannels, Monitor!connection
  <2>3. QED
    BY <2>1, <2>2, BeginStep
<1>3. CASE Monitor!WatchdogFires
  <2>1. "destroy" \in Pc \ {"idle"} /\ {} \in SUBSET Channel /\ "reconnect" \in Monitor!Task
    BY <1>0 DEF Pc
  <2>2. Monitor!Begin("reconnect", "destroy", {}) /\ UNCHANGED <<active, names, ids, client, live>>
    BY <1>3 DEF Monitor!WatchdogFires, Monitor!connection
  <2>3. QED
    BY <1>0, <2>1, <2>2, BeginStep DEF MonitorTyped
<1>4. ASSUME NEW t \in Monitor!Task, Monitor!Step(t) PROVE MonitorInv'
  BY <1>4, TaskStep
<1>5. CASE \/ \E m \in Message : Monitor!Publish(m) \/ Monitor!Deliver(m)
           \/ \E c \in Client : Monitor!LoseConnection(c)
           \/ UNCHANGED Monitor!monitorVars
  <2>1. UNCHANGED <<active, names, ids, client, task, overlap>> /\ live' \subseteq live
    BY <1>5 DEF Monitor!Publish, Monitor!Deliver, Monitor!LoseConnection, Monitor!monitorVars,
                Monitor!connection, Monitor!messages
  <2>2. MonitorTyped'
    BY <1>0, <2>1 DEF MonitorTyped
  <2>3. \A t \in Monitor!Task : Alone(t) => Alone(t)'
    BY <2>1 DEF Alone
  <2>4. QED
    BY <2>1, <2>2, <2>3 DEF MonitorInv, Monitor!AllIdle
<1>6. QED
  BY <1>1, <1>2, <1>3, <1>4, <1>5 DEF Monitor!Next

\* Tasks that do not overlap leave one connection to Telegram at most, which listens to channels
\* of the last load only: destroy(), and not disconnect(), ends the old client ("a zombie update
\* loop", telegram-channel.service.ts:196).
THEOREM OneConnectionCorrect == Spec => []OneConnection
<1>1. MonitorInv => OneConnection
  <2> SUFFICES ASSUME MonitorInv, Monitor!AllIdle, ~overlap
               PROVE  (\A c, d \in live : c = d) /\ ids \subseteq names
    BY DEF OneConnection, Monitor!OneConnection, Monitor!MonitoredOnly
  <2>1. live \subseteq {client} /\ ids \subseteq names
    BY DEF MonitorInv
  <2>2. QED
    BY <2>1
<1>2. QED
  BY MonitorSteps, MonitorInit, MonitorStep, <1>1, PTL DEF Spec, Safety
=============================================================================
