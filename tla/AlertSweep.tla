---------------------------- MODULE AlertSweep ----------------------------
(***************************************************************************)
(* The alert sweep (alerts/alert-processor.service.ts), for one of its     *)
(* three sources: processAlerts() takes a snapshot of the subscriptions,   *)
(* reads since from monitored_services.lastCheck, queries the newest       *)
(* events stamped since then, and for every subscription and event calls   *)
(* dispatchEvent(): look alert_history up, send to Telegram, insert the    *)
(* row.  A scheduled sweep sets lastCheck when it ends.  Events are        *)
(* stamped by their source and stored later, whatever sweeps do meanwhile. *)
(*                                                                         *)
(* The 5 minute cron and POST /alerts/trigger-manual-check start sweeps;   *)
(* nothing keeps two of them from overlapping.  Each action is the code    *)
(* between two awaits of one sweep.                                        *)
(*                                                                         *)
(* Every event matches every subscription: filters only shrink the pairs.  *)
(* The pairs are dispatched in any order; the code goes through the        *)
(* subscriptions in the order of the database and newest event first.  The *)
(* chats of a channel are one recipient, reached when one of them is.      *)
(***************************************************************************)
EXTENDS SyncState, FiniteSets

CONSTANTS
  Sub,        \* subscriptions, enabled and with an active Telegram channel
  Event,      \* CVEs, victims or channel messages, by their eventId
  Sweep,      \* slots for sweeps that may be in flight together
  Take,       \* the 500 of the event queries
  Lookback,   \* getDefaultLookbackDate()
  MayDelete,  \* whether users delete subscriptions
  MayAbort,   \* whether database calls may fail and the bot token be missing
  MaxTime,    \* bound: the clock stops here, after the stamp of every event
  MaxLost     \* bound: how often failures and restarts lose the outcome of a pair

ASSUME AlertAssumption ==
  /\ IsFiniteSet(Sweep)
  /\ Take \in Nat \ {0} /\ Lookback \in Nat /\ MaxTime \in Nat /\ MaxLost \in Nat
  /\ {MayDelete, MayAbort} \subseteq BOOLEAN

VARIABLES
  now,       \* the clock
  stamp,     \* stamp[e]: discovered, date or modifiedAt of e; Null until e is stored
  live,      \* rows of alert_subscriptions
  history,   \* history[p]: deliveryStatus of the alert_history row of p, or "none"
  lastCheck, \* monitored_services.lastCheck
  sweep,     \* sweep[w]: the local variables of each sweep
  attempts,  \* history: attempts[p] counts the deliveries of p handed to Telegram
  lost,      \* history: lost[p] counts those whose outcome was never recorded
  delivered, \* history: the pairs Telegram accepted at least once
  out,       \* history: out[w]: the pairs that sweep w leaves out, though they have no row
  missed     \* history: the pairs that lastCheck was moved past, or was past already, without
             \* a sweep having taken them up

vars == <<now, stamp, live, history, lastCheck, sweep, attempts, lost, delivered, out, missed>>
ghosts == <<attempts, lost, delivered, out, missed>>

Pair == Sub \X Event

NoPair == <<>>

Idle == [pc |-> "idle", scheduled |-> FALSE, subs |-> {}, since |-> Null, todo |-> {},
         pair |-> NoPair, ok |-> FALSE]

Init ==
  /\ now = 0
  /\ stamp = [e \in Event |-> Null]
  /\ live = Sub
  /\ history = [p \in Pair |-> "none"]
  /\ lastCheck = Null
  /\ sweep = [w \in Sweep |-> Idle]
  /\ attempts = [p \in Pair |-> 0]
  /\ lost = [p \in Pair |-> 0]
  /\ delivered = {}
  /\ out = [w \in Sweep |-> {}]
  /\ missed = {}

-----------------------------------------------------------------------------
Tick ==
  /\ now < MaxTime
  /\ now' = now + 1
  /\ UNCHANGED <<stamp, live, history, lastCheck, sweep, ghosts>>

\* The pairs of a set of events.
Of(events) == Sub \X events

\* The sweep has its events: what is stored now is none of them.
PastQuery(w) == sweep[w].pc \in {"next", "send", "record", "finish"}

\* A collector stores an event, at any time, under the time its source gives it: a
\* publication or modification upstream, which is earlier than now and may be earlier than
\* lastCheck, so that no later query selects it.
Store(e) ==
  /\ stamp[e] = Null
  /\ \E t \in 0..now :
       /\ t < MaxTime
       /\ stamp' = [stamp EXCEPT ![e] = t]
       /\ missed' = IF t < lastCheck THEN missed \cup Of({e}) ELSE missed
  /\ out' = [w \in Sweep |-> IF PastQuery(w) THEN out[w] \cup Of({e}) ELSE out[w]]
  /\ UNCHANGED <<now, live, history, lastCheck, sweep, attempts, lost, delivered>>

\* deleteSubscription(): its rows stay, with subscriptionId NULL, and are found no more.
Delete(s) ==
  /\ MayDelete
  /\ s \in live
  /\ live' = live \ {s}
  /\ history' = [p \in Pair |-> IF p[1] = s THEN "none" ELSE history[p]]
  /\ UNCHANGED <<now, stamp, lastCheck, sweep, ghosts>>

-----------------------------------------------------------------------------
\* processAlerts() reads the subscriptions; without any it returns.
Begin(w, scheduled) ==
  /\ sweep[w].pc = "idle"
  /\ sweep' = [sweep EXCEPT
                 ![w] = IF live = {} THEN Idle
                        ELSE [Idle EXCEPT !.pc = "since", !.scheduled = scheduled,
                                          !.subs = live]]
  /\ UNCHANGED <<now, stamp, live, history, lastCheck, ghosts>>

\* ensureMonitoredService() and since.
ReadSince(w) ==
  /\ sweep[w].pc = "since"
  /\ LET default == IF Lookback < now THEN now - Lookback ELSE 0
     IN  sweep' = [sweep EXCEPT ![w].pc = "query", ![w].since = OrElse(lastCheck, default)]
  /\ UNCHANGED <<now, stamp, live, history, lastCheck, ghosts>>

\* It rejects, or loses the race to create the row: the whole sweep is over.
ServiceFails(w) ==
  /\ MayAbort
  /\ sweep[w].pc = "since"
  /\ sweep' = [sweep EXCEPT ![w] = Idle]
  /\ UNCHANGED <<now, stamp, live, history, lastCheck, ghosts>>

\* orderBy desc, take: any Take newest events among those stamped since.
Newest(found) ==
  {chosen \in SUBSET found :
     /\ Cardinality(chosen) = IF Cardinality(found) < Take THEN Cardinality(found) ELSE Take
     /\ \A e \in chosen, f \in found \ chosen : stamp[f] <= stamp[e]}

\* With no check before, events stamped before the default look-back are not asked for.
TooOld(w) == {e \in Event : lastCheck = Null /\ stamp[e] # Null /\ stamp[e] < sweep[w].since}

TakeUp(w, found) ==
  /\ \E events \in Newest(found) :
       /\ sweep' = [sweep EXCEPT ![w].pc = "next", ![w].todo = sweep[w].subs \X events]
       /\ out' = [out EXCEPT ![w] = Of((found \ events) \cup TooOld(w))]
  /\ UNCHANGED <<now, stamp, live, history, lastCheck, attempts, lost, delivered, missed>>

\* Mutant: an event stamped at the instant of the last check is left out.
Query_Strict(w) ==
  /\ sweep[w].pc = "query"
  /\ TakeUp(w, {e \in Event : stamp[e] # Null /\ sweep[w].since < stamp[e]})

Query(w) ==
  /\ sweep[w].pc = "query"
  /\ TakeUp(w, {e \in Event : stamp[e] # Null /\ sweep[w].since <= stamp[e]})

\* The error is caught around the source, whose finally still moves lastCheck.
QueryFails(w) ==
  /\ MayAbort
  /\ sweep[w].pc = "query"
  /\ sweep' = [sweep EXCEPT ![w].pc = "finish"]
  /\ out' = [out EXCEPT ![w] = Of({e \in Event : stamp[e] # Null})]
  /\ UNCHANGED <<now, stamp, live, history, lastCheck, attempts, lost, delivered, missed>>

\* Mutant: alert_history is not looked up.
Check_Blind(w, p) ==
  /\ sweep[w].pc = "next"
  /\ p \in sweep[w].todo
  /\ sweep' = [sweep EXCEPT ![w].todo = @ \ {p}, ![w].pc = "send", ![w].pair = p]
  /\ UNCHANGED <<now, stamp, live, history, lastCheck, ghosts>>

\* dispatchEvent(): a pair with a row, whatever its status, is passed over.
Check(w, p) ==
  /\ sweep[w].pc = "next"
  /\ p \in sweep[w].todo
  /\ \/ /\ history[p] # "none"
        /\ sweep' = [sweep EXCEPT ![w].todo = @ \ {p}]
     \/ /\ history[p] = "none"
        /\ sweep' = [sweep EXCEPT ![w].todo = @ \ {p}, ![w].pc = "send", ![w].pair = p]
  /\ UNCHANGED <<now, stamp, live, history, lastCheck, ghosts>>

\* No bot token or no chat id: a warning is logged and the pair is dropped.
Skip(w) ==
  /\ MayAbort
  /\ sweep[w].pc = "next"
  /\ \E p \in sweep[w].todo :
       /\ sweep' = [sweep EXCEPT ![w].todo = @ \ {p}]
       /\ out' = [out EXCEPT ![w] = @ \cup {p}]
  /\ UNCHANGED <<now, stamp, live, history, lastCheck, attempts, lost, delivered, missed>>

\* sendHtmlMessage() answers success or error, and never throws.
Send(w) ==
  /\ sweep[w].pc = "send"
  /\ \E ok \in BOOLEAN :
       /\ sweep' = [sweep EXCEPT ![w].pc = "record", ![w].ok = ok]
       /\ delivered' = IF ok THEN delivered \cup {sweep[w].pair} ELSE delivered
  /\ attempts' = [attempts EXCEPT ![sweep[w].pair] = @ + 1]
  /\ UNCHANGED <<now, stamp, live, history, lastCheck, lost, out, missed>>

\* Mutant: the answer of Telegram is not looked at.
Outcome_Sent(w) == "SENT"

Outcome(w) == IF sweep[w].ok THEN "SENT" ELSE "ERROR"

\* The insert.  A row made meanwhile by another sweep (P2002) is left as it is.
Record(w) ==
  /\ sweep[w].pc = "record"
  /\ sweep[w].pair[1] \in live
  /\ history' = [history EXCEPT ![sweep[w].pair] = IF @ = "none" THEN Outcome(w) ELSE @]
  /\ sweep' = [sweep EXCEPT ![w].pc = "next", ![w].pair = NoPair, ![w].ok = FALSE]
  /\ UNCHANGED <<now, stamp, live, lastCheck, ghosts>>

\* Any other error of the insert is rethrown and ends the source.  A subscription
\* deleted meanwhile is such an error: the foreign key has nothing to point to.
RecordFails(w) ==
  /\ sweep[w].pc = "record"
  /\ (MayAbort /\ lost[sweep[w].pair] < MaxLost) \/ sweep[w].pair[1] \notin live
  /\ sweep' = [sweep EXCEPT ![w].pc = "finish", ![w].todo = {}, ![w].pair = NoPair,
                            ![w].ok = FALSE]
  /\ lost' = [lost EXCEPT ![sweep[w].pair] = @ + 1]
  /\ out' = [out EXCEPT ![w] = @ \cup sweep[w].todo \cup {sweep[w].pair}]
  /\ UNCHANGED <<now, stamp, live, history, lastCheck, attempts, delivered, missed>>

\* updateLastCheck(), in the finally of a scheduled sweep.
Finish(w) ==
  /\ sweep[w].pc = "finish" \/ (sweep[w].pc = "next" /\ sweep[w].todo = {})
  /\ lastCheck' = IF sweep[w].scheduled THEN now ELSE lastCheck
  /\ missed' = IF sweep[w].scheduled THEN missed \cup {p \in out[w] : stamp[p[2]] < now}
                                    ELSE missed
  /\ sweep' = [sweep EXCEPT ![w] = Idle]
  /\ out' = [out EXCEPT ![w] = {}]
  /\ UNCHANGED <<now, stamp, live, history, attempts, lost, delivered>>

\* The process dies: every sweep is gone, and lastCheck stays where it was.
Crash ==
  /\ \E w \in Sweep : sweep[w].pc # "idle"
  /\ sweep' = [w \in Sweep |-> Idle]
  /\ lost' = [p \in Pair |-> lost[p] + Cardinality({w \in Sweep : sweep[w].pc = "record"
                                                                  /\ sweep[w].pair = p})]
  /\ \A p \in Pair : lost'[p] = lost[p] \/ lost'[p] <= MaxLost
  /\ out' = [w \in Sweep |-> {}]
  /\ UNCHANGED <<now, stamp, live, history, lastCheck, attempts, delivered, missed>>

Step(w) ==
  \/ \E scheduled \in BOOLEAN : Begin(w, scheduled)
  \/ ReadSince(w) \/ ServiceFails(w) \/ Query(w) \/ QueryFails(w)
  \/ \E p \in Pair : Check(w, p)
  \/ Skip(w) \/ Send(w) \/ Record(w) \/ RecordFails(w) \/ Finish(w)

Next ==
  \/ Tick
  \/ \E e \in Event : Store(e)
  \/ \E s \in Sub : Delete(s)
  \/ \E w \in Sweep : Step(w)
  \/ Crash

Spec == Init /\ [][Next]_vars

\* The slot the cron keeps using.
Cron == CHOOSE w \in Sweep : TRUE

\* Time passes; the cron keeps firing, whatever administrators trigger by hand; what runs in its
\* slot goes on, and no failure or restart hits the same point of its sweeps for ever.
Fairness ==
  /\ WF_vars(Tick)
  /\ WF_vars(Step(Cron)) /\ SF_vars(Begin(Cron, TRUE))
  /\ SF_vars(sweep[Cron].scheduled /\ ReadSince(Cron))
  /\ SF_vars(sweep[Cron].scheduled /\ Query(Cron))
  /\ \A p \in Pair : SF_vars(sweep[Cron].scheduled /\ Check(Cron, p))
  /\ SF_vars(sweep[Cron].scheduled /\ Send(Cron))
  /\ SF_vars(sweep[Cron].scheduled /\ Record(Cron))
  /\ SF_vars(sweep[Cron].scheduled /\ Finish(Cron))

FairSpec == Spec /\ Fairness

-----------------------------------------------------------------------------
SweepState ==
  [pc: {"idle", "since", "query", "next", "send", "record", "finish"},
   scheduled: BOOLEAN, subs: SUBSET Sub, since: Instant, todo: SUBSET Pair,
   pair: Pair \cup {NoPair}, ok: BOOLEAN]

TypeOK ==
  /\ now \in Nat
  /\ stamp \in [Event -> Instant]
  /\ live \in SUBSET Sub
  /\ history \in [Pair -> {"none", "SENT", "ERROR"}]
  /\ lastCheck \in Instant
  /\ sweep \in [Sweep -> SweepState]
  /\ \A w \in Sweep : sweep[w].pc \in {"send", "record"} => sweep[w].pair \in Pair
  /\ attempts \in [Pair -> Nat]
  /\ lost \in [Pair -> Nat]
  /\ delivered \in SUBSET Pair
  /\ out \in [Sweep -> SUBSET Pair]
  /\ missed \in SUBSET Pair

\* A subscriber gets an alert at most once for every sweep in flight together, plus once
\* for every delivery whose row could not be written or was cut off by a restart.
BoundedDuplicates ==
  \A p \in Pair : p[1] \in live => attempts[p] <= Cardinality(Sweep) + lost[p]

\* The inbox shows SENT only for what Telegram accepted; ERROR for something it accepted
\* needs a second delivery of the same alert.
StatusHonest ==
  \A p \in Pair : /\ history[p] = "SENT" => p \in delivered
                  /\ history[p] = "ERROR" /\ p \in delivered => attempts[p] > 1

\* Once lastCheck is past an event, every subscription has its row, whatever overlapped and
\* wherever the process died, but for the events that no sweep took up: stored under a stamp
\* that lastCheck was past already, or behind the query of the sweep that moved lastCheck past
\* them, or left out by that very sweep (cut off by take, too old for its default look-back,
\* without a bot token, or behind an error).
NoAlertMissed ==
  \A p \in Pair : (p[1] \in live /\ stamp[p[2]] # Null /\ stamp[p[2]] < lastCheck) =>
    history[p] # "none" \/ p \in missed

\* In the face of restarts, every stored event is in the end recorded for every subscription,
\* but for those same events.
EventuallyRecorded ==
  \A p \in Pair : stamp[p[2]] # Null ~> history[p] # "none" \/ p[1] \notin live \/ p \in missed

\* "cron cada 5 min matchea CVEs contra paquetes/CPE del perfil" (README.md:257): once a check
\* is past an event, every subscription has its row.  It is false of events that are stored
\* after the time they are stamped with.
EveryEventAlerted ==
  \A p \in Pair : (p[1] \in live /\ stamp[p[2]] # Null /\ stamp[p[2]] < lastCheck) =>
    history[p] # "none"
=============================================================================
