---------------------------- MODULE SyncPromise ----------------------------
(***************************************************************************)
(* What README.md:212 promises of every vulnerability source: lastSyncAt   *)
(* is "up to which date the data was synchronised".  The abstract source   *)
(* has no runs, windows, pages or cursors: items are modified upstream,    *)
(* versions of them are copied to the store, and the watermark may be set  *)
(* only to an instant below which the copy is complete.                    *)
(*                                                                         *)
(* The promise reaches back to horizon, the oldest instant the source was  *)
(* asked for when it had no watermark, and leaves out the versions the     *)
(* source gave up on, which may grow at any time but are never forgotten.  *)
(***************************************************************************)
EXTENDS Integers

CONSTANT Item

VARIABLES
  now,        \* the clock
  upstream,   \* upstream[i]: when i was last modified at the source
  store,      \* store[i]: the version of i held locally, or -1
  watermark,  \* lastSyncAt, or -1
  horizon,    \* how far back the promise reaches
  refused     \* the versions <<i, t>> given up on

vars == <<now, upstream, store, watermark, horizon, refused>>

\* Every item last modified in [horizon, w) is held in its current version, unless that
\* very version was given up on.
Complete(w) ==
  \A i \in Item : (horizon <= upstream[i] /\ upstream[i] < w)
                     => store[i] = upstream[i] \/ <<i, upstream[i]>> \in refused

Init ==
  /\ now \in Nat
  /\ upstream \in [Item -> 0..now]
  /\ store = [i \in Item |-> -1]
  /\ watermark = -1
  /\ horizon = 0
  /\ refused = {}

Tick ==
  /\ now' > now
  /\ UNCHANGED <<upstream, store, watermark, horizon, refused>>

\* The modification is newer than the watermark, which therefore stays honest.
Modify(i) ==
  /\ watermark <= now
  /\ upstream' = [upstream EXCEPT ![i] = now]
  /\ UNCHANGED <<now, store, watermark, horizon, refused>>

\* Some version is copied, but a version the watermark covers is not replaced by another.
Copy(i) ==
  /\ \E v \in 0..upstream[i] :
       /\ (horizon <= upstream[i] /\ upstream[i] < watermark) => v = upstream[i]
       /\ store' = [store EXCEPT ![i] = v]
  /\ UNCHANGED <<now, upstream, watermark, horizon, refused>>

\* Published versions are given up on: the only loss the promise allows.
GiveUp ==
  /\ refused \subseteq refused'
  /\ \A lost \in refused' \ refused : lost[1] \in Item /\ lost[2] \in 0..upstream[lost[1]]
  /\ UNCHANGED <<now, upstream, store, watermark, horizon>>

Advance ==
  /\ watermark' \in 0..now
  /\ Complete(watermark')
  /\ UNCHANGED <<now, upstream, store, horizon, refused>>

\* A source without watermark starts over, closer to the present.
RaiseHorizon ==
  /\ horizon' \in horizon..now
  /\ UNCHANGED <<now, upstream, store, watermark, refused>>

Next ==
  \/ Tick
  \/ \E i \in Item : Modify(i) \/ Copy(i)
  \/ GiveUp
  \/ Advance
  \/ RaiseHorizon

Spec == Init /\ [][Next]_vars
=============================================================================
