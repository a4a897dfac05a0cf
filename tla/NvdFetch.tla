----------------------------- MODULE NvdFetch -----------------------------
(***************************************************************************)
(* One page of the NVD collector (vuln-monitor/collectors/nvd.collector.ts *)
(* fetchPage): the request is repeated after a rate limit, at most         *)
(* MAX_RETRIES times, and without the API key after the key was rejected.  *)
(* rejectedKey belongs to the collector, so runs that overlap share it: a  *)
(* run that starts clears it when the key was changed or an hour passed.   *)
(* A run of this module fetches one page.                                  *)
(***************************************************************************)
EXTENDS Integers

CONSTANTS
  Run,         \* slots for runs that may be in flight together
  Key,         \* the API keys an administrator may configure
  BadKey,      \* the keys NVD rejects
  MaxRetries,  \* MAX_RETRIES
  Cooldown,    \* REJECTED_KEY_COOLDOWN_MS, in ticks
  MaxResets,   \* bound: the resets counted during one page
  MaxTime      \* bound: the clock stops here, and keys are changed before

\* Asserted by the module that instantiates this one.
NvdFetchAssumption ==
  /\ BadKey \subseteq Key
  /\ MaxRetries \in Nat \ {0} /\ Cooldown \in Nat \ {0}
  /\ MaxResets \in Nat /\ MaxTime \in Nat

VARIABLES
  clock,    \* the clock
  secret,   \* the configured nvd_api_key
  rejected, \* rejectedKey
  fetch     \* fetch[r]: the local variables of a run and of fetchPage()

fetchVars == <<clock, secret, rejected, fetch>>

NoKey == "none"
NotRejected == [key |-> NoKey, at |-> 0]

\* resets counts the times rejectedKey was cleared while the page was being fetched.
NoFetch == [pc |-> "idle", key |-> NoKey, attempt |-> 0, withKey |-> FALSE, requests |-> 0,
            resets |-> 0]

Init ==
  /\ clock = 0
  /\ secret \in Key \cup {NoKey}
  /\ rejected = NotRejected
  /\ fetch = [r \in Run |-> NoFetch]

Tick ==
  /\ clock < MaxTime
  /\ clock' = clock + 1
  /\ UNCHANGED <<secret, rejected, fetch>>

\* The administrator sets or removes nvd_api_key.
ChangeKey(k) ==
  /\ clock < MaxTime
  /\ secret' = k
  /\ UNCHANGED <<clock, rejected, fetch>>

-----------------------------------------------------------------------------
\* Mutant: a changed key does not count.
Stale_Expiry(k) == rejected # NotRejected /\ clock - rejected.at >= Cooldown

\* resetRejectedKeyIfStale()
Stale(k) ==
  /\ rejected # NotRejected
  /\ \/ k = NoKey
     \/ k # rejected.key
     \/ clock - rejected.at >= Cooldown

CountReset(f) == IF f.resets < MaxResets THEN [f EXCEPT !.resets = @ + 1] ELSE f

\* More requests than these make no difference to RequestsBounded.
CountRequest(n) == IF n < MaxRetries + 2 + MaxResets THEN n + 1 ELSE n

\* sync() reads the key, clears a stale rejection and comes to a page.
Start(r) ==
  /\ fetch[r].pc = "idle"
  /\ rejected' = IF Stale(secret) THEN NotRejected ELSE rejected
  /\ fetch' = [q \in Run |->
                 IF q = r THEN [NoFetch EXCEPT !.pc = "send", !.key = secret, !.attempt = 1]
                 ELSE IF Stale(secret) /\ fetch[q].pc # "idle" THEN CountReset(fetch[q])
                 ELSE fetch[q]]
  /\ UNCHANGED <<clock, secret>>

\* Mutant: the key is sent whether it was rejected or not.
Send_Always(r) ==
  /\ fetch[r].pc = "send"
  /\ fetch' = [fetch EXCEPT ![r].pc = "wait", ![r].requests = CountRequest(@),
                            ![r].withKey = fetch[r].key # NoKey]
  /\ UNCHANGED <<clock, secret, rejected>>

\* One attempt: the key goes along unless it is known to be rejected.
Send(r) ==
  /\ fetch[r].pc = "send"
  /\ fetch' = [fetch EXCEPT ![r].pc = "wait", ![r].requests = CountRequest(@),
                            ![r].withKey = fetch[r].key # NoKey /\ rejected = NotRejected]
  /\ UNCHANGED <<clock, secret, rejected>>

\* NVD answers 404 to a bad key, and the attempt is made again without it.
KeyRejected(r) ==
  /\ fetch[r].pc = "wait"
  /\ fetch[r].withKey
  /\ fetch[r].key \in BadKey
  /\ rejected' = [key |-> fetch[r].key, at |-> clock]
  /\ fetch' = [fetch EXCEPT ![r].pc = "send"]
  /\ UNCHANGED <<clock, secret>>

\* 403 or 429: another attempt, 30 seconds later.
RateLimited(r) ==
  /\ fetch[r].pc = "wait"
  /\ fetch[r].attempt < MaxRetries
  /\ fetch' = [fetch EXCEPT ![r].pc = "send", ![r].attempt = @ + 1]
  /\ UNCHANGED <<clock, secret, rejected>>

\* The page is returned, or any other answer, or none, is thrown and ends the run.
Done(r) ==
  /\ fetch[r].pc = "wait"
  /\ fetch' = [fetch EXCEPT ![r] = NoFetch]
  /\ UNCHANGED <<clock, secret, rejected>>

Answered(r) == KeyRejected(r) \/ RateLimited(r) \/ Done(r)

Next ==
  \/ Tick
  \/ \E k \in Key \cup {NoKey} : ChangeKey(k)
  \/ \E r \in Run : Start(r) \/ Send(r) \/ Answered(r)

-----------------------------------------------------------------------------
FetchOK ==
  /\ clock \in 0..MaxTime
  /\ secret \in Key \cup {NoKey}
  /\ rejected \in [key: Key \cup {NoKey}, at: 0..MaxTime]
  /\ \A r \in Run :
       /\ fetch[r].pc \in {"idle", "send", "wait"}
       /\ fetch[r].attempt \in 0..MaxRetries

\* "this branch cannot run twice for the same page" (nvd.collector.ts:215) holds between
\* two resets of rejectedKey by other runs: a page costs no more requests than its
\* attempts and one for every time the key could be rejected.
RequestsBounded ==
  \A r \in Run :
    fetch[r].resets < MaxResets => fetch[r].requests <= MaxRetries + 1 + fetch[r].resets

\* A key that replaces another one is tried in the end, although the rejection of the old
\* one by a run that still uses it may hold it back.
NewKeyTried ==
  \A k \in Key :
    (secret = k /\ clock = MaxTime /\ rejected.key # k)
      ~> \E r \in Run : fetch[r].pc = "wait" /\ fetch[r].key = k /\ fetch[r].withKey
=============================================================================
