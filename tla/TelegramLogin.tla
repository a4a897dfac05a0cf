--------------------------- MODULE TelegramLogin ---------------------------
(***************************************************************************)
(* The login of the monitored Telegram account                             *)
(* (platform-secrets/telegram-auth.service.ts): an administrator asks for  *)
(* a code, answers it and, with 2FA, a password.  One pending login is     *)
(* kept in memory; requests that overlap share it, and each is resumed     *)
(* after its calls to Telegram with whatever is pending then.              *)
(*                                                                         *)
(* Logins are numbered by the client they connect.                         *)
(***************************************************************************)
EXTENDS Integers

CONSTANTS
  Request,  \* requests that may be in flight together
  MaxLogin  \* bound: the logins ever started

\* Asserted by the module that instantiates this one.
TelegramLoginAssumption == MaxLogin \in Nat

VARIABLES
  pending,    \* the pending login, or None
  connected,  \* the clients of logins that are connected
  authorized, \* the logins Telegram has signed in
  expired,    \* the logins older than PENDING_TTL_MS
  started,    \* the number of logins started
  req,        \* req[r]: the local variables of a request
  session,    \* the login whose session is stored, or None
  replaced    \* history: a login became pending while another one was being answered

loginVars == <<pending, connected, authorized, expired, started, req, session, replaced>>

None == 0
Login == 1..MaxLogin
NoRequest == [pc |-> "idle", login |-> None]

Init ==
  /\ pending = None
  /\ connected = {} /\ authorized = {} /\ expired = {}
  /\ started = 0
  /\ req = [r \in Request |-> NoRequest]
  /\ session = None
  /\ replaced = FALSE

Goto(r, pc, login) == req' = [req EXCEPT ![r] = [pc |-> pc, login |-> login]]

-----------------------------------------------------------------------------
\* startLogin(): discardPending() first, if there is one.
Start(r) ==
  /\ req[r].pc = "idle"
  /\ IF pending = None
     THEN Goto(r, "connect", None) /\ UNCHANGED connected
     ELSE Goto(r, "discard_first", pending) /\ connected' = connected \ {pending}
  /\ UNCHANGED <<pending, authorized, expired, started, session, replaced>>

\* Mutant: a discarded login stays pending.
Discarded_Stays(r) ==
  /\ req[r].pc \in {"discard_first", "discard"}
  /\ IF req[r].pc = "discard" THEN Goto(r, "idle", None) ELSE Goto(r, "connect", None)
  /\ UNCHANGED <<pending, connected, authorized, expired, started, session, replaced>>

\* The end of discardPending(): whatever is pending now is dropped.
Discarded(r) ==
  /\ req[r].pc \in {"discard_first", "discard"}
  /\ pending' = None
  /\ IF req[r].pc = "discard" THEN Goto(r, "idle", None) ELSE Goto(r, "connect", None)
  /\ UNCHANGED <<connected, authorized, expired, started, session, replaced>>

Connect(r) ==
  /\ req[r].pc = "connect"
  /\ started < MaxLogin
  /\ started' = started + 1
  /\ connected' = connected \cup {started + 1}
  /\ Goto(r, "send_code", started + 1)
  /\ UNCHANGED <<pending, authorized, expired, session, replaced>>

\* The login of another request is being answered.
Answering == \E r \in Request : req[r].pc \in {"sign_in", "store", "disconnect"}

CodeSent(r) ==
  /\ req[r].pc = "send_code"
  /\ pending' = req[r].login
  /\ replaced' = (replaced \/ Answering)
  /\ Goto(r, "idle", None)
  /\ UNCHANGED <<connected, authorized, expired, started, session>>

\* connect() or sendCode() throws: nothing becomes pending, and a client stays connected.
CodeFails(r) ==
  /\ req[r].pc \in {"connect", "send_code"}
  /\ Goto(r, "idle", None)
  /\ UNCHANGED <<pending, connected, authorized, expired, started, session, replaced>>

\* requirePending() of a login that has expired: the discard is not waited for.
Expired(r) ==
  /\ pending # None
  /\ pending \in expired
  /\ Goto(r, "discard", pending)
  /\ connected' = connected \ {pending}
  /\ UNCHANGED <<pending, authorized, expired, started, session, replaced>>

\* verifyCode() or submitPassword(): the answer goes to Telegram.
Answer(r) ==
  /\ req[r].pc = "idle"
  /\ pending # None
  /\ \/ Expired(r)
     \/ /\ pending \notin expired
        /\ Goto(r, "sign_in", pending)
        /\ UNCHANGED <<pending, connected, authorized, expired, started, session, replaced>>

\* finish(): the session of what is pending now is to be stored.
Finish(r) ==
  \/ pending = None /\ Goto(r, "idle", None) /\ UNCHANGED connected
  \/ pending \in expired /\ Goto(r, "discard", pending) /\ connected' = connected \ {pending}
  \/ /\ pending \notin expired \cup {None}
     /\ Goto(r, "store", pending)
     /\ UNCHANGED connected

SignedIn(r) ==
  /\ req[r].pc = "sign_in"
  /\ req[r].login \in connected
  /\ authorized' = authorized \cup {req[r].login}
  /\ Finish(r)
  /\ UNCHANGED <<pending, expired, started, session, replaced>>

\* Mutant: a code that is right finishes the login, whether or not a password is due.
PasswordNeeded_Finishes(r) ==
  /\ req[r].pc = "sign_in"
  /\ Finish(r)
  /\ UNCHANGED <<pending, authorized, expired, started, session, replaced>>

\* SESSION_PASSWORD_NEEDED: the login stays pending for submitPassword().
PasswordNeeded(r) ==
  /\ req[r].pc = "sign_in"
  /\ Goto(r, "idle", None)
  /\ UNCHANGED <<pending, connected, authorized, expired, started, session, replaced>>

\* A wrong code or password discards what is pending now.
Refused(r) ==
  /\ req[r].pc = "sign_in"
  /\ IF pending = None
     THEN Goto(r, "idle", None) /\ UNCHANGED connected
     ELSE Goto(r, "discard", pending) /\ connected' = connected \ {pending}
  /\ UNCHANGED <<pending, authorized, expired, started, session, replaced>>

Store(r) ==
  /\ req[r].pc = "store"
  /\ session' = req[r].login
  /\ connected' = connected \ {req[r].login}
  /\ Goto(r, "disconnect", req[r].login)
  /\ UNCHANGED <<pending, authorized, expired, started, replaced>>

\* The end of finish(): nothing is pending, and the monitor is restarted.
Finished(r) ==
  /\ req[r].pc = "disconnect"
  /\ pending' = None
  /\ Goto(r, "idle", None)
  /\ UNCHANGED <<connected, authorized, expired, started, session, replaced>>

Expire ==
  /\ pending # None
  /\ expired' = expired \cup {pending}
  /\ UNCHANGED <<pending, connected, authorized, started, req, session, replaced>>

Next ==
  \/ \E r \in Request :
       \/ Start(r) \/ Discarded(r) \/ Connect(r) \/ CodeSent(r) \/ CodeFails(r)
       \/ Answer(r) \/ SignedIn(r) \/ PasswordNeeded(r) \/ Refused(r)
       \/ Store(r) \/ Finished(r)
  \/ Expire

-----------------------------------------------------------------------------
\* The session the monitor restarts with is one that Telegram has signed in, unless the
\* administrator asked for another code while an answer was on its way.
StoredIsAuthorized == session # None => session \in authorized \/ replaced

\* A login that is pending while no request is in flight can be answered: its client is
\* connected.
PendingUsable ==
  (pending # None /\ \A r \in Request : req[r].pc = "idle") => pending \in connected
=============================================================================
