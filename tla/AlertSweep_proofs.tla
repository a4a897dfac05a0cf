------------------------- MODULE AlertSweep_proofs -------------------------
(***************************************************************************)
(* Proofs about the alert sweep, for every set of subscriptions, events    *)
(* and overlapping sweeps.                                                 *)
(***************************************************************************)
EXTENDS AlertSweep, FiniteSetTheorems, TLAPS

-----------------------------------------------------------------------------
LEMMA TypeInit == Init => TypeOK
  BY DEF Init, TypeOK, Idle, SweepState, Instant, Null, NoPair

\* A sweep whose local variables change keeps the type of sweep.
LEMMA SweepUpdate ==
  ASSUME TypeOK, NEW w \in Sweep, NEW R \in SweepState,
         R.pc \in {"send", "record"} => R.pair \in Pair,
         sweep' = [sweep EXCEPT ![w] = R]
  PROVE  /\ sweep' \in [Sweep -> SweepState]
         /\ \A v \in Sweep : sweep'[v].pc \in {"send", "record"} => sweep'[v].pair \in Pair
  BY DEF TypeOK

LEMMA FieldTypes ==
  ASSUME NEW R \in SweepState
  PROVE  /\ \A x \in {"query", "next", "send", "record", "finish"} :
              [R EXCEPT !.pc = x] \in SweepState /\ [R EXCEPT !.pc = x].pc = x
         /\ \A x \in Instant : [R EXCEPT !.since = x] \in SweepState
         /\ \A x \in SUBSET Pair : [R EXCEPT !.todo = x] \in SweepState
         /\ \A x \in Pair \cup {NoPair} :
              [R EXCEPT !.pair = x] \in SweepState /\ [R EXCEPT !.pair = x].pair = x
         /\ \A x \in BOOLEAN : [R EXCEPT !.ok = x] \in SweepState
  BY DEF SweepState

LEMMA IdleType == Idle \in SweepState /\ Idle.pc = "idle"
  BY DEF Idle, SweepState, Instant, Null, NoPair

\* What changes in the local variables of the sweep that takes a step.
LEMMA Locals ==
  ASSUME TypeOK, NEW w \in Sweep
  PROVE  /\ ReadSince(w) => sweep'[w].pc = "query"
         /\ Query(w) \/ Skip(w) \/ Record(w) => sweep'[w].pc = "next"
         /\ QueryFails(w) \/ RecordFails(w) => sweep'[w].pc = "finish"
         /\ ServiceFails(w) \/ Finish(w) => sweep'[w].pc = "idle"
         /\ \A b \in BOOLEAN : Begin(w, b) => sweep'[w].pc \in {"idle", "since"}
         /\ \A p \in Pair : Check(w, p) =>
              IF history[p] = "none" THEN sweep'[w].pc = "send" /\ sweep'[w].pair = p
                                     ELSE sweep'[w].pc = "next"
         /\ Send(w) => /\ sweep'[w].pc = "record" /\ sweep'[w].pair = sweep[w].pair
                       /\ (sweep'[w].ok => delivered' = delivered \cup {sweep[w].pair})
                       /\ (~sweep'[w].ok => delivered' = delivered)
                       /\ sweep'[w].ok \in BOOLEAN
<1> USE DEF TypeOK
<1>1. sweep \in [Sweep -> SweepState] /\ sweep[w] \in SweepState
  OBVIOUS
<1>2. ReadSince(w) => sweep'[w].pc = "query"
  BY <1>1 DEF ReadSince, SweepState
<1>3. Query(w) \/ Skip(w) \/ Record(w) => sweep'[w].pc = "next"
  <2>1. Query(w) => sweep'[w].pc = "next"
    BY <1>1 DEF Query, TakeUp, SweepState
  <2>2. Skip(w) => sweep'[w].pc = "next"
    BY <1>1 DEF Skip, SweepState
  <2>3. Record(w) => sweep'[w].pc = "next"
    BY <1>1 DEF Record, SweepState
  <2>4. QED
    BY <2>1, <2>2, <2>3
<1>4. QueryFails(w) \/ RecordFails(w) => sweep'[w].pc = "finish"
  BY <1>1 DEF QueryFails, RecordFails, SweepState
<1>5. ServiceFails(w) \/ Finish(w) => sweep'[w].pc = "idle"
  BY <1>1 DEF ServiceFails, Finish, Idle
<1>6. \A b \in BOOLEAN : Begin(w, b) => sweep'[w].pc \in {"idle", "since"}
  BY <1>1 DEF Begin, Idle
<1>7. \A p \in Pair : Check(w, p) =>
         IF history[p] = "none" THEN sweep'[w].pc = "send" /\ sweep'[w].pair = p
                                ELSE sweep'[w].pc = "next"
  BY <1>1 DEF Check, SweepState
<1>8. Send(w) => /\ sweep'[w].pc = "record" /\ sweep'[w].pair = sweep[w].pair
                 /\ (sweep'[w].ok => delivered' = delivered \cup {sweep[w].pair})
                 /\ (~sweep'[w].ok => delivered' = delivered)
                 /\ sweep'[w].ok \in BOOLEAN
  BY <1>1 DEF Send, SweepState
<1>9. QED
  BY <1>2, <1>3, <1>4, <1>5, <1>6, <1>7, <1>8

\* What a step leaves out are pairs.
LEMMA LeftOutType ==
  ASSUME TypeOK, [Next]_vars PROVE out' \in [Sweep -> SUBSET Pair] /\ missed' \in SUBSET Pair
<1> USE DEF TypeOK
<1>1. \A events \in SUBSET Event : Of(events) \in SUBSET Pair
  BY DEF Of, Pair
<1>2. ASSUME NEW e \in Event, Store(e)
      PROVE  out' \in [Sweep -> SUBSET Pair] /\ missed' \in SUBSET Pair
  BY <1>1, <1>2 DEF Store
<1>3. ASSUME NEW w \in Sweep, Step(w)
      PROVE  out' \in [Sweep -> SUBSET Pair] /\ missed' \in SUBSET Pair
  <2>1. CASE Query(w)
    <3>1. PICK found \in SUBSET Event : TakeUp(w, found)
      BY <2>1 DEF Query
    <3>2. PICK events : out' = [out EXCEPT ![w] = Of((found \ events) \cup TooOld(w))]
      BY <3>1 DEF TakeUp
    <3>3. (found \ events) \cup TooOld(w) \in SUBSET Event
      BY DEF TooOld
    <3>4. QED
      BY <1>1, <3>1, <3>2, <3>3 DEF TakeUp
  <2>2. CASE QueryFails(w)
    BY <1>1, <2>2 DEF QueryFails
  <2>3. CASE Skip(w)
    BY <2>3 DEF Skip, SweepState
  <2>4. CASE RecordFails(w)
    BY <2>4 DEF RecordFails, SweepState
  <2>5. CASE Finish(w)
    BY <2>5 DEF Finish
  <2>6. CASE \/ \E b \in BOOLEAN : Begin(w, b)
             \/ ReadSince(w) \/ ServiceFails(w) \/ Send(w) \/ Record(w)
             \/ \E p \in Pair : Check(w, p)
    BY <2>6 DEF Begin, ReadSince, ServiceFails, Send, Record, Check, ghosts
  <2>7. QED
    BY <1>3, <2>1, <2>2, <2>3, <2>4, <2>5, <2>6 DEF Step
<1>4. CASE Tick \/ (\E s \in Sub : Delete(s)) \/ Crash \/ UNCHANGED vars
  BY <1>4 DEF Tick, Delete, Crash, vars, ghosts
<1>5. QED
  BY <1>2, <1>3, <1>4 DEF Next

LEMMA TypeStep == TypeOK /\ [Next]_vars => TypeOK'
<1> SUFFICES ASSUME TypeOK, [Next]_vars PROVE TypeOK'
  OBVIOUS
<1>0. out' \in [Sweep -> SUBSET Pair] /\ missed' \in SUBSET Pair
  BY LeftOutType
<1> USE AlertAssumption DEF TypeOK, ghosts
<1>1. CASE Tick
  BY <1>1 DEF Tick
<1>2. ASSUME NEW e \in Event, Store(e) PROVE TypeOK'
  <2>1. PICK t \in 0..now : stamp' = [stamp EXCEPT ![e] = t]
    BY <1>2 DEF Store
  <2>2. stamp' \in [Event -> Instant]
    BY <2>1 DEF Instant
  <2>3. UNCHANGED <<now, live, history, lastCheck, sweep, attempts, lost, delivered>>
    BY <1>2 DEF Store
  <2>4. QED
    BY <1>0, <2>2, <2>3
<1>3. ASSUME NEW s \in Sub, Delete(s) PROVE TypeOK'
  BY <1>3 DEF Delete
<1>4. ASSUME NEW w \in Sweep, NEW b \in BOOLEAN, Begin(w, b) PROVE TypeOK'
  <2> DEFINE R == IF live = {} THEN Idle
                  ELSE [Idle EXCEPT !.pc = "since", !.scheduled = b, !.subs = live]
  <2>1. R \in SweepState /\ R.pc \in {"idle", "since"}
    BY DEF Idle, SweepState, Instant, Null, NoPair
  <2>2. sweep' = [sweep EXCEPT ![w] = R]
    BY <1>4 DEF Begin
  <2>3. QED
    <3> HIDE DEF R
    <3> QED  BY <1>4, <2>1, <2>2, SweepUpdate DEF Begin
<1>5. ASSUME NEW w \in Sweep, ReadSince(w) PROVE TypeOK'
  <2>1. PICK since : since = OrElse(lastCheck, IF Lookback < now THEN now - Lookback ELSE 0)
    OBVIOUS
  <2>2. since \in Instant
    BY <2>1 DEF OrElse, Instant, Null
  <2> DEFINE R == [sweep[w] EXCEPT !.pc = "query", !.since = since]
  <2>3. R \in SweepState /\ R.pc = "query"
    <3>1. [sweep[w] EXCEPT !.pc = "query"] \in SweepState
      BY FieldTypes
    <3>2. R \in SweepState
      BY <2>2, <3>1, FieldTypes
    <3>3. QED
      BY <3>2 DEF SweepState
  <2>4. sweep' = [sweep EXCEPT ![w] = R]
    BY <1>5, <2>1 DEF ReadSince
  <2>5. QED
    <3> HIDE DEF R
    <3> QED  BY <1>5, <2>3, <2>4, SweepUpdate DEF ReadSince
<1>6. ASSUME NEW w \in Sweep, ServiceFails(w) PROVE TypeOK'
  BY <1>6, IdleType, SweepUpdate DEF ServiceFails
<1>7. ASSUME NEW w \in Sweep, Query(w) PROVE TypeOK'
  <2>1. PICK events : /\ events \subseteq Event
                      /\ sweep' = [sweep EXCEPT ![w].pc = "next",
                                                ![w].todo = sweep[w].subs \X events]
    BY <1>7 DEF Query, TakeUp, Newest
  <2>2. sweep[w].subs \X events \in SUBSET Pair
    BY <2>1 DEF SweepState, Pair
  <2> DEFINE todo == sweep[w].subs \X events
             R == [sweep[w] EXCEPT !.pc = "next", !.todo = todo]
  <2>3. R \in SweepState /\ R.pc = "next"
    <3> HIDE DEF todo
    <3>1. [sweep[w] EXCEPT !.pc = "next"] \in SweepState
      BY FieldTypes
    <3>2. R \in SweepState
      BY <2>2, <3>1, FieldTypes DEF todo
    <3>3. QED
      BY <3>2 DEF SweepState
  <2>4. sweep' = [sweep EXCEPT ![w] = R]
    BY <2>1
  <2>5. QED
    <3> HIDE DEF R
    <3> QED  BY <1>0, <1>7, <2>3, <2>4, SweepUpdate DEF Query, TakeUp
<1>8. ASSUME NEW w \in Sweep, QueryFails(w) PROVE TypeOK'
  <2>1. [sweep[w] EXCEPT !.pc = "finish"] \in SweepState
        /\ [sweep[w] EXCEPT !.pc = "finish"].pc = "finish"
    BY FieldTypes
  <2>2. QED
    BY <1>0, <1>8, <2>1, SweepUpdate DEF QueryFails
<1>9. ASSUME NEW w \in Sweep, NEW p \in Pair, Check(w, p) PROVE TypeOK'
  <2> DEFINE todo == sweep[w].todo \ {p}
             T == [sweep[w] EXCEPT !.todo = todo]
             R == [sweep[w] EXCEPT !.todo = todo, !.pc = "send", !.pair = p]
  <2>1. todo \in SUBSET Pair
    BY DEF SweepState
  <2>2. T \in SweepState /\ T.pc = "next"
    <3> HIDE DEF todo
    <3>1. T \in SweepState
      BY <2>1, FieldTypes
    <3>2. sweep[w] \in SweepState /\ sweep[w].pc = "next"
      BY <1>9 DEF Check
    <3>3. QED
      BY <3>1, <3>2 DEF SweepState
  <2>3. R \in SweepState /\ R.pair = p
    <3>1. [sweep[w] EXCEPT !.todo = todo, !.pc = "send"] \in SweepState
      BY <2>2, FieldTypes
    <3>2. QED
      BY <3>1, FieldTypes
  <2>4. CASE history[p] # "none"
    <3>1. sweep' = [sweep EXCEPT ![w] = T]
      BY <1>9, <2>4 DEF Check
    <3> HIDE DEF T
    <3>2. QED
      BY <1>9, <2>2, <3>1, SweepUpdate DEF Check
  <2>5. CASE history[p] = "none"
    <3>1. sweep' = [sweep EXCEPT ![w] = R]
      BY <1>9, <2>5 DEF Check
    <3> HIDE DEF R
    <3>2. QED
      BY <1>9, <2>3, <3>1, SweepUpdate DEF Check
  <2>6. QED
    BY <2>4, <2>5
<1>10. ASSUME NEW w \in Sweep, Skip(w) PROVE TypeOK'
  <2>1. PICK p \in sweep[w].todo : sweep' = [sweep EXCEPT ![w].todo = @ \ {p}]
    BY <1>10 DEF Skip
  <2> DEFINE todo == sweep[w].todo \ {p}
             T == [sweep[w] EXCEPT !.todo = todo]
  <2>2. todo \in SUBSET Pair
    BY DEF SweepState
  <2>3. T \in SweepState /\ T.pc = "next"
    <3> HIDE DEF todo
    <3>1. T \in SweepState
      BY <2>2, FieldTypes
    <3>2. sweep[w] \in SweepState /\ sweep[w].pc = "next"
      BY <1>10 DEF Skip
    <3>3. QED
      BY <3>1, <3>2 DEF SweepState
  <2>4. sweep' = [sweep EXCEPT ![w] = T]
    BY <2>1
  <2>5. QED
    <3> HIDE DEF T
    <3> QED  BY <1>0, <1>10, <2>3, <2>4, SweepUpdate DEF Skip
<1>11. ASSUME NEW w \in Sweep, Send(w) PROVE TypeOK'
  <2>1. PICK ok \in BOOLEAN :
          /\ sweep' = [sweep EXCEPT ![w].pc = "record", ![w].ok = ok]
          /\ delivered' = IF ok THEN delivered \cup {sweep[w].pair} ELSE delivered
    BY <1>11 DEF Send
  <2> DEFINE R == [sweep[w] EXCEPT !.pc = "record", !.ok = ok]
  <2>2. sweep[w].pair \in Pair
    BY <1>11 DEF Send
  <2>3. R \in SweepState /\ R.pair = sweep[w].pair
    <3>1. [sweep[w] EXCEPT !.pc = "record"] \in SweepState
      BY FieldTypes
    <3>2. R \in SweepState
      BY <3>1, FieldTypes
    <3>3. QED
      BY <3>2 DEF SweepState
  <2>4. sweep' = [sweep EXCEPT ![w] = R]
    BY <2>1
  <2>5. attempts' \in [Pair -> Nat] /\ delivered' \in SUBSET Pair
    BY <1>11, <2>1, <2>2 DEF Send
  <2>6. QED
    <3> HIDE DEF R
    <3> QED  BY <1>11, <2>2, <2>3, <2>4, <2>5, SweepUpdate DEF Send
<1>12. ASSUME NEW w \in Sweep, Record(w) PROVE TypeOK'
  <2> DEFINE R == [sweep[w] EXCEPT !.pc = "next", !.pair = NoPair, !.ok = FALSE]
  <2>1. R \in SweepState /\ R.pc = "next"
    <3>1. [sweep[w] EXCEPT !.pc = "next"] \in SweepState
      BY FieldTypes
    <3>2. [sweep[w] EXCEPT !.pc = "next", !.pair = NoPair] \in SweepState
      BY <3>1, FieldTypes
    <3>3. R \in SweepState
      BY <3>2, FieldTypes
    <3>4. QED
      BY <3>3 DEF SweepState
  <2>2. sweep' = [sweep EXCEPT ![w] = R]
    BY <1>12 DEF Record
  <2>3. history' \in [Pair -> {"none", "SENT", "ERROR"}]
    BY <1>12 DEF Record, Outcome
  <2>4. QED
    <3> HIDE DEF R
    <3> QED  BY <1>12, <2>1, <2>2, <2>3, SweepUpdate DEF Record
<1>13. ASSUME NEW w \in Sweep, RecordFails(w) PROVE TypeOK'
  <2> DEFINE R == [sweep[w] EXCEPT !.pc = "finish", !.todo = {}, !.pair = NoPair,
                                   !.ok = FALSE]
  <2>1. R \in SweepState /\ R.pc = "finish"
    <3>1. [sweep[w] EXCEPT !.pc = "finish"] \in SweepState
      BY FieldTypes
    <3>2. [sweep[w] EXCEPT !.pc = "finish", !.todo = {}] \in SweepState
      BY <3>1, FieldTypes
    <3>3. [sweep[w] EXCEPT !.pc = "finish", !.todo = {}, !.pair = NoPair] \in SweepState
      BY <3>2, FieldTypes
    <3>4. R \in SweepState
      BY <3>3, FieldTypes
    <3>5. QED
      BY <3>4 DEF SweepState
  <2>2. sweep' = [sweep EXCEPT ![w] = R]
    BY <1>13 DEF RecordFails
  <2>3. lost' \in [Pair -> Nat]
    BY <1>13 DEF RecordFails
  <2>4. QED
    <3> HIDE DEF R
    <3> QED  BY <1>0, <1>13, <2>1, <2>2, <2>3, SweepUpdate DEF RecordFails
<1>14. ASSUME NEW w \in Sweep, Finish(w) PROVE TypeOK'
  <2>1. lastCheck' \in Instant
    BY <1>14 DEF Finish, Instant
  <2>2. QED
    BY <1>0, <1>14, <2>1, IdleType, SweepUpdate DEF Finish
<1>15. CASE Crash
  <2>1. \A p \in Pair : Cardinality({w \in Sweep : sweep[w].pc = "record"
                                                   /\ sweep[w].pair = p}) \in Nat
    <3>1. ASSUME NEW p \in Pair
          PROVE  Cardinality({w \in Sweep : sweep[w].pc = "record"
                                            /\ sweep[w].pair = p}) \in Nat
      <4> DEFINE G == {w \in Sweep : sweep[w].pc = "record" /\ sweep[w].pair = p}
      <4>1. G \in SUBSET Sweep
        OBVIOUS
      <4>2. QED
        BY <4>1, FS_Subset, FS_CardinalityType
    <3>2. QED
      BY <3>1
  <2>2. lost' \in [Pair -> Nat]
    BY <1>15, <2>1 DEF Crash
  <2>3. QED
    BY <1>0, <1>15, <2>2, IdleType DEF Crash
<1>16. CASE UNCHANGED vars
  BY <1>16 DEF vars
<1>17. QED
  BY <1>1, <1>2, <1>3, <1>4, <1>5, <1>6, <1>7, <1>8, <1>9, <1>10, <1>11, <1>12, <1>13,
     <1>14, <1>15, <1>16 DEF Next, Step

\* Every variable keeps its type.
THEOREM TypeCorrect == Spec => []TypeOK
  BY TypeInit, TypeStep, PTL DEF Spec
-----------------------------------------------------------------------------
\* A step of w is invisible to the other sweeps.
LEMMA Others ==
  ASSUME TypeOK, NEW w \in Sweep, Step(w)
  PROVE  \A v \in Sweep : v # w => sweep'[v] = sweep[v]
<1> USE DEF TypeOK
<1>1. ASSUME NEW b \in BOOLEAN, Begin(w, b) PROVE \A v \in Sweep : v # w => sweep'[v] = sweep[v]
  BY <1>1 DEF Begin
<1>2. ASSUME ReadSince(w) PROVE \A v \in Sweep : v # w => sweep'[v] = sweep[v]
  BY <1>2 DEF ReadSince
<1>3. ASSUME Query(w) \/ QueryFails(w) \/ ServiceFails(w) \/ Skip(w)
      PROVE  \A v \in Sweep : v # w => sweep'[v] = sweep[v]
  BY <1>3 DEF Query, TakeUp, QueryFails, ServiceFails, Skip
<1>4. ASSUME NEW p \in Pair, Check(w, p) PROVE \A v \in Sweep : v # w => sweep'[v] = sweep[v]
  BY <1>4 DEF Check
<1>5. ASSUME Send(w) \/ Record(w) \/ RecordFails(w) \/ Finish(w)
      PROVE  \A v \in Sweep : v # w => sweep'[v] = sweep[v]
  BY <1>5 DEF Send, Record, RecordFails, Finish
<1>6. QED
  BY <1>1, <1>2, <1>3, <1>4, <1>5 DEF Step

\* Every step but a delivery leaves no sweep newly about to write a row.
LEMMA NoNewRecord ==
  ASSUME TypeOK, [Next]_vars, \A w \in Sweep : ~Send(w)
  PROVE  \A v \in Sweep : sweep'[v].pc = "record" => sweep'[v] = sweep[v]
<1>1. ASSUME NEW w \in Sweep, Step(w)
      PROVE  \A v \in Sweep : sweep'[v].pc = "record" => sweep'[v] = sweep[v]
  <2>1. sweep'[w].pc # "record"
    BY <1>1, Locals DEF Step
  <2>2. QED
    BY <1>1, <2>1, Others
<1>2. ASSUME Crash PROVE \A v \in Sweep : sweep'[v].pc # "record"
  BY <1>2 DEF Crash, Idle
<1>3. ASSUME Tick \/ (\E e \in Event : Store(e)) \/ (\E s \in Sub : Delete(s)) \/ UNCHANGED vars
      PROVE  sweep' = sweep
  BY <1>3 DEF Tick, Store, Delete, vars
<1>4. QED
  BY <1>1, <1>2, <1>3 DEF Next

\* What Telegram answered, as the local variables of a sweep remember it.
Remembered ==
  \A p \in Pair :
    /\ p \in delivered => attempts[p] >= 1
    /\ \A w \in Sweep : sweep[w].pc = "record" /\ sweep[w].pair = p =>
         /\ attempts[p] >= 1
         /\ sweep[w].ok => p \in delivered
         /\ ~sweep[w].ok /\ p \in delivered => attempts[p] >= 2

HistoryInv ==
  \A p \in Pair : /\ history[p] = "SENT" => p \in delivered
                  /\ history[p] = "ERROR" => attempts[p] >= 1
                  /\ history[p] = "ERROR" /\ p \in delivered => attempts[p] >= 2

LEMMA RememberedStep ==
  ASSUME TypeOK, Remembered, [Next]_vars PROVE Remembered'
<1>1. ASSUME NEW w \in Sweep, Send(w) PROVE Remembered'
  <2> DEFINE q == sweep[w].pair
  <2>1. q \in Pair /\ attempts' = [attempts EXCEPT ![q] = @ + 1]
    BY <1>1 DEF Send, TypeOK
  <2>2. \A p \in Pair : /\ attempts[p] \in Nat /\ attempts'[p] \in Nat
                        /\ attempts'[p] >= attempts[p]
                        /\ p = q => attempts'[p] = attempts[p] + 1
    BY <2>1 DEF TypeOK
  <2>3. /\ sweep'[w].pc = "record" /\ sweep'[w].pair = q /\ sweep'[w].ok \in BOOLEAN
        /\ sweep'[w].ok => delivered' = delivered \cup {q}
        /\ ~sweep'[w].ok => delivered' = delivered
    BY <1>1, Locals
  <2>4. \A v \in Sweep : v # w => sweep'[v] = sweep[v]
    BY <1>1, Others DEF Step
  <2> HIDE DEF q
  <2>5. ASSUME NEW p \in Pair
        PROVE  p \in delivered' => attempts'[p] >= 1
    BY <2>2, <2>3 DEF Remembered
  <2>6. ASSUME NEW p \in Pair, NEW v \in Sweep, sweep'[v].pc = "record", sweep'[v].pair = p
        PROVE  /\ attempts'[p] >= 1
               /\ sweep'[v].ok => p \in delivered'
               /\ ~sweep'[v].ok /\ p \in delivered' => attempts'[p] >= 2
    <3>1. CASE v = w
      BY <2>2, <2>3, <2>6, <3>1 DEF Remembered
    <3>2. CASE v # w
      <4>1. sweep'[v] = sweep[v]
        BY <2>4, <3>2
      <4>2. /\ attempts[p] >= 1
            /\ sweep[v].ok => p \in delivered
            /\ ~sweep[v].ok /\ p \in delivered => attempts[p] >= 2
        BY <2>6, <4>1 DEF Remembered
      <4>3. QED
        BY <2>2, <2>3, <4>1, <4>2
    <3>3. QED
      BY <3>1, <3>2
  <2>7. QED
    BY <2>5, <2>6 DEF Remembered
<1>2. ASSUME \A w \in Sweep : ~Send(w) PROVE Remembered'
  <2>1. \A v \in Sweep : sweep'[v].pc = "record" => sweep'[v] = sweep[v]
    BY <1>2, NoNewRecord
  <2>2. attempts' = attempts /\ delivered' = delivered
    BY <1>2 DEF Next, Step, vars, ghosts, Tick, Store, Delete, Begin, ReadSince, ServiceFails,
       Query, TakeUp, QueryFails, Check, Skip, Record, RecordFails, Finish, Crash
  <2>3. QED
    BY <2>1, <2>2 DEF Remembered
<1>3. QED
  BY <1>1, <1>2

LEMMA HistoryStep ==
  ASSUME TypeOK, Remembered, HistoryInv, [Next]_vars PROVE HistoryInv'
<1>1. ASSUME NEW w \in Sweep, Send(w) PROVE HistoryInv'
  <2> DEFINE q == sweep[w].pair
  <2>1. q \in Pair /\ attempts' = [attempts EXCEPT ![q] = @ + 1] /\ history' = history
    BY <1>1 DEF Send, TypeOK
  <2>2. delivered' = delivered \cup {q} \/ delivered' = delivered
    BY <1>1, Locals
  <2> HIDE DEF q
  <2>3. \A p \in Pair : /\ attempts[p] \in Nat
                        /\ p # q => attempts'[p] = attempts[p]
                        /\ p = q => attempts'[p] = attempts[p] + 1
    BY <2>1 DEF TypeOK
  <2>4. QED
    BY <2>1, <2>2, <2>3 DEF HistoryInv
<1>2. ASSUME NEW w \in Sweep, Record(w) PROVE HistoryInv'
  <2> DEFINE q == sweep[w].pair
  <2>1. q \in Pair /\ sweep[w].pc = "record"
    BY <1>2 DEF Record, TypeOK
  <2>2. \A p \in Pair : \/ history'[p] = history[p]
                        \/ p = q /\ history'[p] = Outcome(w)
    BY <1>2, <2>1 DEF Record, TypeOK
  <2>3. attempts' = attempts /\ delivered' = delivered
    BY <1>2 DEF Record, ghosts
  <2>4. /\ attempts[q] >= 1
        /\ sweep[w].ok => q \in delivered
        /\ ~sweep[w].ok /\ q \in delivered => attempts[q] >= 2
    BY <2>1 DEF Remembered
  <2> HIDE DEF q
  <2>5. QED
    BY <2>2, <2>3, <2>4 DEF HistoryInv, Outcome
<1>3. ASSUME NEW s \in Sub, Delete(s) PROVE HistoryInv'
  BY <1>3 DEF Delete, ghosts, HistoryInv
<1>4. ASSUME \A w \in Sweep : ~Send(w) /\ ~Record(w), \A s \in Sub : ~Delete(s)
      PROVE  HistoryInv'
  <2>1. attempts' = attempts /\ delivered' = delivered /\ history' = history
    BY <1>4 DEF Next, Step, vars, ghosts, Tick, Store, Begin, ReadSince, ServiceFails,
       Query, TakeUp, QueryFails, Check, Skip, RecordFails, Finish, Crash
  <2>2. QED
    BY <2>1 DEF HistoryInv
<1>5. QED
  BY <1>1, <1>2, <1>3, <1>4

\* The inbox shows SENT only for what Telegram accepted, and ERROR for something it
\* accepted only when the alert was delivered twice.
THEOREM StatusCorrect == Spec => []StatusHonest
<1>1. Init => Remembered /\ HistoryInv
  BY DEF Init, Remembered, HistoryInv, Idle
<1>2. TypeOK /\ Remembered /\ HistoryInv /\ [Next]_vars => (Remembered /\ HistoryInv)'
  BY RememberedStep, HistoryStep
<1>3. TypeOK /\ HistoryInv => StatusHonest
  BY DEF TypeOK, HistoryInv, StatusHonest
<1>4. QED
  BY <1>1, <1>2, <1>3, TypeCorrect, PTL DEF Spec
-----------------------------------------------------------------------------
\* The sweeps about to send p, and those that sent it and have yet to write its row.
Sending(p) == {w \in Sweep : sweep[w].pc = "send" /\ sweep[w].pair = p}
Recording(p) == {w \in Sweep : sweep[w].pc = "record" /\ sweep[w].pair = p}

LEMMA Counts ==
  ASSUME NEW p
  PROVE  /\ IsFiniteSet(Sending(p)) /\ IsFiniteSet(Recording(p))
         /\ Cardinality(Sending(p)) \in Nat /\ Cardinality(Recording(p)) \in Nat
         /\ Cardinality(Sweep) \in Nat
         /\ Cardinality(Sending(p)) + Cardinality(Recording(p)) <= Cardinality(Sweep)
<1> DEFINE F == Sending(p)
           G == Recording(p)
<1>1. F \subseteq Sweep /\ G \subseteq Sweep /\ F \cap G = {}
  BY DEF Sending, Recording
<1> HIDE DEF F, G
<1>2. IsFiniteSet(F) /\ IsFiniteSet(G) /\ IsFiniteSet(F \cup G)
  BY <1>1, AlertAssumption, FS_Subset, FS_Union
<1>3. /\ Cardinality(F) \in Nat /\ Cardinality(G) \in Nat /\ Cardinality(Sweep) \in Nat
      /\ Cardinality(F \cap G) = 0
  BY <1>1, <1>2, AlertAssumption, FS_CardinalityType, FS_EmptySet
<1>4. Cardinality(F \cup G) = Cardinality(F) + Cardinality(G) - Cardinality(F \cap G)
  BY <1>2, FS_Union
<1>5. Cardinality(F \cup G) <= Cardinality(Sweep)
  <2>1. F \cup G \subseteq Sweep
    BY <1>1
  <2>2. QED
    BY <2>1, AlertAssumption, FS_Subset
<1>6. QED
  BY <1>2, <1>3, <1>4, <1>5 DEF F, G

\* A set without one of its elements.
LEMMA OneLess ==
  ASSUME NEW S, NEW x \in S, IsFiniteSet(S)
  PROVE  Cardinality(S \ {x}) = Cardinality(S) - 1
  BY FS_RemoveElement

\* Deliveries of p are paid for by a loss or by a sweep about to write the row; once there
\* is a row, only sweeps that looked before it was written are left to deliver again.
Paid ==
  \A p \in Pair : p[1] \in live =>
    /\ history[p] = "none" => attempts[p] <= lost[p] + Cardinality(Recording(p))
    /\ history[p] # "none" =>
         attempts[p] + Cardinality(Sending(p)) <= lost[p] + Cardinality(Sweep)

\* A step that changes no delivery and no row keeps what is paid.
LEMMA PaidUnchanged ==
  ASSUME Paid, live' \subseteq live, attempts' = attempts, lost' = lost,
         \A p \in Pair : p[1] \in live' => history'[p] = history[p],
         \A p \in Pair : Recording(p)' = Recording(p),
         \A p \in Pair : Sending(p)' = Sending(p) \/ history[p] = "none"
  PROVE  Paid'
  BY DEF Paid

LEMMA PaidStep == ASSUME TypeOK, Paid, [Next]_vars PROVE Paid'
<1> USE AlertAssumption
<1>1. ASSUME NEW w \in Sweep, Step(w), sweep[w].pc \notin {"send", "record"}
      PROVE  Paid'
  <2>1. /\ live' = live /\ attempts' = attempts /\ lost' = lost /\ history' = history
    BY <1>1 DEF Step, ghosts, Begin, ReadSince, ServiceFails, Query, TakeUp, QueryFails, Check,
       Skip, Send, Record, RecordFails, Finish
  <2>2. \A v \in Sweep : v # w => sweep'[v] = sweep[v]
    BY <1>1, Others
  <2>3. sweep'[w].pc # "record"
    BY <1>1, Locals DEF Step, Send
  <2>4. \A p \in Pair : Recording(p)' = Recording(p)
    BY <1>1, <2>2, <2>3 DEF Recording
  <2>5. sweep'[w].pc = "send" => sweep'[w].pair \in Pair /\ history[sweep'[w].pair] = "none"
    <3>1. CASE \E p \in Pair : Check(w, p)
      BY <3>1, Locals
    <3>2. CASE ~\E p \in Pair : Check(w, p)
      BY <1>1, <3>2, Locals DEF Step, Send, Record, RecordFails
    <3>3. QED
      BY <3>1, <3>2
  <2>6. \A p \in Pair : Sending(p)' = Sending(p) \/ history[p] = "none"
    BY <1>1, <2>2, <2>5 DEF Sending
  <2>7. QED
    BY <2>1, <2>4, <2>6, PaidUnchanged
<1>2. ASSUME NEW w \in Sweep, Send(w) PROVE Paid'
  <2>0. PICK q : q = sweep[w].pair
    OBVIOUS
  <2>1. /\ q \in Pair /\ sweep[w].pc = "send"
        /\ attempts' = [attempts EXCEPT ![q] = @ + 1]
        /\ live' = live /\ lost' = lost /\ history' = history
    BY <1>2, <2>0 DEF Send, TypeOK
  <2>2. /\ sweep'[w].pc = "record" /\ sweep'[w].pair = q
        /\ \A v \in Sweep : v # w => sweep'[v] = sweep[v]
    BY <1>2, <2>0, Locals, Others DEF Step
  <2>3. /\ Recording(q)' = Recording(q) \cup {w} /\ w \notin Recording(q)
        /\ Sending(q)' = Sending(q) \ {w} /\ w \in Sending(q)
    BY <2>0, <2>1, <2>2 DEF Recording, Sending
  <2>4. /\ Cardinality(Recording(q)') = Cardinality(Recording(q)) + 1
        /\ Cardinality(Sending(q)') = Cardinality(Sending(q)) - 1
    <3>1. IsFiniteSet(Recording(q)) /\ IsFiniteSet(Sending(q))
      BY Counts
    <3>2. Cardinality(Recording(q) \cup {w}) = Cardinality(Recording(q)) + 1
      BY <2>3, <3>1, FS_AddElement
    <3>3. Cardinality(Sending(q) \ {w}) = Cardinality(Sending(q)) - 1
      BY <2>3, <3>1, OneLess
    <3>4. QED
      BY <2>3, <3>2, <3>3
  <2>5. \A p \in Pair : p # q => /\ Recording(p)' = Recording(p) /\ Sending(p)' = Sending(p)
                                 /\ attempts'[p] = attempts[p]
    BY <2>0, <2>1, <2>2 DEF Recording, Sending, TypeOK
  <2>6. attempts'[q] = attempts[q] + 1 /\ attempts[q] \in Nat /\ lost[q] \in Nat
    BY <2>1 DEF TypeOK
  <2>7. ASSUME NEW p \in Pair, p[1] \in live'
        PROVE  /\ history'[p] = "none" => attempts'[p] <= lost'[p] + Cardinality(Recording(p)')
               /\ history'[p] # "none" =>
                    attempts'[p] + Cardinality(Sending(p)') <= lost'[p] + Cardinality(Sweep)
    <3>1. CASE p = q
      <4>1. /\ Cardinality(Sending(q)) \in Nat /\ Cardinality(Recording(q)) \in Nat
            /\ Cardinality(Sweep) \in Nat
        BY Counts
      <4>2. /\ history[q] = "none" => attempts[q] <= lost[q] + Cardinality(Recording(q))
            /\ history[q] # "none" =>
                 attempts[q] + Cardinality(Sending(q)) <= lost[q] + Cardinality(Sweep)
        BY <2>1, <2>7, <3>1 DEF Paid
      <4>3. QED
        BY <2>1, <2>4, <2>6, <3>1, <4>1, <4>2
    <3>2. CASE p # q
      BY <2>1, <2>5, <2>7, <3>2 DEF Paid
    <3>3. QED
      BY <3>1, <3>2
  <2>8. QED
    BY <2>7 DEF Paid
<1>3. ASSUME NEW w \in Sweep, Record(w) PROVE Paid'
  <2>0. PICK q : q = sweep[w].pair
    OBVIOUS
  <2>1. /\ q \in Pair /\ q[1] \in live /\ sweep[w].pc = "record"
        /\ live' = live /\ lost' = lost /\ attempts' = attempts
        /\ history' = [history EXCEPT ![q] = IF @ = "none" THEN Outcome(w) ELSE @]
    BY <1>3, <2>0 DEF Record, TypeOK, ghosts
  <2>2. /\ sweep'[w].pc = "next" /\ \A v \in Sweep : v # w => sweep'[v] = sweep[v]
    BY <1>3, Locals, Others DEF Step
  <2>3. \A p \in Pair : Sending(p)' = Sending(p) /\ (p # q => Recording(p)' = Recording(p))
    BY <2>0, <2>1, <2>2 DEF Sending, Recording
  <2>4. /\ \A p \in Pair : p # q => history'[p] = history[p]
        /\ history'[q] # "none"
        /\ history[q] # "none" => history'[q] = history[q]
    BY <2>1 DEF TypeOK, Outcome
  <2>5. ASSUME NEW p \in Pair, p[1] \in live'
        PROVE  /\ history'[p] = "none" => attempts'[p] <= lost'[p] + Cardinality(Recording(p)')
               /\ history'[p] # "none" =>
                    attempts'[p] + Cardinality(Sending(p)') <= lost'[p] + Cardinality(Sweep)
    <3>1. CASE p = q
      <4>1. /\ Cardinality(Sending(q)) \in Nat /\ Cardinality(Recording(q)) \in Nat
            /\ Cardinality(Sweep) \in Nat
            /\ Cardinality(Sending(q)) + Cardinality(Recording(q)) <= Cardinality(Sweep)
        BY Counts
      <4>2. attempts[q] \in Nat /\ lost[q] \in Nat
        BY <2>1 DEF TypeOK
      <4>3. /\ history[q] = "none" => attempts[q] <= lost[q] + Cardinality(Recording(q))
            /\ history[q] # "none" =>
                 attempts[q] + Cardinality(Sending(q)) <= lost[q] + Cardinality(Sweep)
        BY <2>1 DEF Paid
      <4>4. attempts[q] + Cardinality(Sending(q)) <= lost[q] + Cardinality(Sweep)
        BY <4>1, <4>2, <4>3
      <4>5. Sending(q)' = Sending(q)
        BY <2>1, <2>3
      <4>6. QED
        BY <2>1, <2>4, <3>1, <4>4, <4>5
    <3>2. CASE p # q
      BY <2>1, <2>3, <2>4, <2>5, <3>2 DEF Paid
    <3>3. QED
      BY <3>1, <3>2
  <2>6. QED
    BY <2>5 DEF Paid
<1>4. ASSUME NEW w \in Sweep, RecordFails(w) PROVE Paid'
  <2>0. PICK q : q = sweep[w].pair
    OBVIOUS
  <2>1. /\ q \in Pair /\ sweep[w].pc = "record"
        /\ live' = live /\ history' = history /\ attempts' = attempts
        /\ lost' = [lost EXCEPT ![q] = @ + 1]
    BY <1>4, <2>0 DEF RecordFails, TypeOK
  <2>2. /\ sweep'[w].pc = "finish" /\ \A v \in Sweep : v # w => sweep'[v] = sweep[v]
    BY <1>4, Locals, Others DEF Step
  <2>3. /\ \A p \in Pair : Sending(p)' = Sending(p)
        /\ \A p \in Pair : p # q => Recording(p)' = Recording(p) /\ lost'[p] = lost[p]
        /\ Recording(q)' = Recording(q) \ {w} /\ w \in Recording(q)
    BY <2>0, <2>1, <2>2 DEF Sending, Recording, TypeOK
  <2>4. Cardinality(Recording(q)') = Cardinality(Recording(q)) - 1
    <3>1. IsFiniteSet(Recording(q))
      BY Counts
    <3>2. Cardinality(Recording(q) \ {w}) = Cardinality(Recording(q)) - 1
      BY <2>3, <3>1, OneLess
    <3>3. QED
      BY <2>3, <3>2
  <2>5. lost'[q] = lost[q] + 1 /\ lost[q] \in Nat /\ attempts[q] \in Nat
    BY <2>1 DEF TypeOK
  <2>6. ASSUME NEW p \in Pair, p[1] \in live'
        PROVE  /\ history'[p] = "none" => attempts'[p] <= lost'[p] + Cardinality(Recording(p)')
               /\ history'[p] # "none" =>
                    attempts'[p] + Cardinality(Sending(p)') <= lost'[p] + Cardinality(Sweep)
    <3>1. CASE p = q
      <4>1. /\ Cardinality(Sending(q)) \in Nat /\ Cardinality(Recording(q)) \in Nat
            /\ Cardinality(Sweep) \in Nat
        BY Counts
      <4>2. /\ history[q] = "none" => attempts[q] <= lost[q] + Cardinality(Recording(q))
            /\ history[q] # "none" =>
                 attempts[q] + Cardinality(Sending(q)) <= lost[q] + Cardinality(Sweep)
        BY <2>1, <2>6, <3>1 DEF Paid
      <4>3. Sending(q)' = Sending(q)
        BY <2>1, <2>3
      <4>4. QED
        BY <2>1, <2>4, <2>5, <3>1, <4>1, <4>2, <4>3
    <3>2. CASE p # q
      BY <2>1, <2>3, <2>6, <3>2 DEF Paid
    <3>3. QED
      BY <3>1, <3>2
  <2>7. QED
    BY <2>6 DEF Paid
<1>5. ASSUME Crash PROVE Paid'
  <2>1. /\ live' = live /\ history' = history /\ attempts' = attempts
        /\ \A p \in Pair : lost'[p] = lost[p] + Cardinality(Recording(p))
        /\ \A v \in Sweep : sweep'[v].pc = "idle"
    BY <1>5 DEF Crash, Recording, Idle
  <2>2. \A p \in Pair : Sending(p)' = {} /\ Recording(p)' = {}
    BY <2>1 DEF Sending, Recording
  <2>3. ASSUME NEW p \in Pair, p[1] \in live'
        PROVE  /\ history'[p] = "none" => attempts'[p] <= lost'[p] + Cardinality(Recording(p)')
               /\ history'[p] # "none" =>
                    attempts'[p] + Cardinality(Sending(p)') <= lost'[p] + Cardinality(Sweep)
    <3>1. /\ Cardinality(Sending(p)) \in Nat /\ Cardinality(Recording(p)) \in Nat
          /\ Cardinality(Sweep) \in Nat
      BY Counts
    <3>2. attempts[p] \in Nat /\ lost[p] \in Nat
      BY DEF TypeOK
    <3>3. Cardinality(Sending(p)') = 0 /\ Cardinality(Recording(p)') = 0
      BY <2>2, FS_EmptySet
    <3>4. /\ history[p] = "none" => attempts[p] <= lost[p] + Cardinality(Recording(p))
          /\ history[p] # "none" =>
               attempts[p] + Cardinality(Sending(p)) <= lost[p] + Cardinality(Sweep)
      BY <2>1, <2>3 DEF Paid
    <3>5. QED
      BY <2>1, <3>1, <3>2, <3>3, <3>4
  <2>4. QED
    BY <2>3 DEF Paid
<1>6. ASSUME Tick \/ (\E e \in Event : Store(e)) \/ (\E s \in Sub : Delete(s)) \/ UNCHANGED vars
      PROVE  Paid'
  <2>1. /\ live' \subseteq live /\ attempts' = attempts /\ lost' = lost /\ sweep' = sweep
        /\ \A p \in Pair : p[1] \in live' => history'[p] = history[p]
    BY <1>6 DEF Tick, Store, Delete, vars, ghosts
  <2>2. \A p \in Pair : Sending(p)' = Sending(p) /\ Recording(p)' = Recording(p)
    BY <2>1 DEF Sending, Recording
  <2>3. QED
    BY <2>1, <2>2, PaidUnchanged
<1>7. ASSUME NEW w \in Sweep, Step(w), sweep[w].pc \in {"send", "record"}
      PROVE  Send(w) \/ Record(w) \/ RecordFails(w)
  BY <1>7 DEF Step, Begin, ReadSince, ServiceFails, Query, TakeUp, QueryFails, Check, Skip, Finish
<1>8. QED
  BY <1>1, <1>2, <1>3, <1>4, <1>5, <1>6, <1>7 DEF Next

\* A subscriber gets an alert at most once for every sweep in flight together, plus once
\* for every delivery whose outcome was lost.
THEOREM DuplicatesBounded == Spec => []BoundedDuplicates
<1>1. Init => Paid
  <2> SUFFICES ASSUME Init, NEW p \in Pair
               PROVE  history[p] = "none" /\ attempts[p] <= lost[p] + Cardinality(Recording(p))
    BY DEF Paid
  <2>1. history[p] = "none" /\ attempts[p] = 0 /\ lost[p] = 0
    BY DEF Init
  <2>2. QED
    BY <2>1, Counts
<1>2. TypeOK /\ Paid /\ [Next]_vars => Paid'
  BY PaidStep
<1>3. TypeOK /\ Paid => BoundedDuplicates
  <2> SUFFICES ASSUME TypeOK, Paid, NEW p \in Pair, p[1] \in live
               PROVE  attempts[p] <= Cardinality(Sweep) + lost[p]
    BY DEF BoundedDuplicates
  <2>1. attempts[p] \in Nat /\ lost[p] \in Nat
    BY DEF TypeOK
  <2>2. QED
    BY <2>1, Counts DEF Paid
<1>4. QED
  BY <1>1, <1>2, <1>3, TypeCorrect, PTL DEF Spec
-----------------------------------------------------------------------------
\* What was stamped before t has its rows, or was missed.
Settled(t) ==
  \A p \in Pair : (p[1] \in live /\ stamp[p[2]] # Null /\ stamp[p[2]] < t) =>
    history[p] # "none" \/ p \in missed

\* A sweep that has read the events accounts for every pair without a row: it still holds it,
\* leaves it out, or the pair had been missed before.
Held(w) ==
  \A p \in Pair : (p[1] \in live /\ stamp[p[2]] # Null /\ history[p] = "none") =>
    \/ sweep[w].pc # "finish" /\ p \in sweep[w].todo
    \/ sweep[w].pc \in {"send", "record"} /\ sweep[w].pair = p
    \/ p \in out[w] \cup missed

\* A sweep asks for no less than what no check is past.
SinceSound(w) ==
  sweep[w].since \in 0..now /\ (lastCheck = Null \/ sweep[w].since <= lastCheck)

SweepSound(w) ==
  /\ sweep[w].pc # "idle" => live \subseteq sweep[w].subs
  /\ sweep[w].pc = "query" => SinceSound(w)
  /\ PastQuery(w) => Held(w)

MissedInv ==
  /\ lastCheck <= now
  /\ Settled(lastCheck)
  /\ \A w \in Sweep : SweepSound(w)

LEMMA StampType ==
  ASSUME TypeOK, NEW p \in Pair PROVE p[2] \in Event /\ p[1] \in Sub /\ stamp[p[2]] \in Instant
  BY DEF TypeOK, Pair

\* What is claimed of a sweep stays true while rows are added, lastCheck goes on and
\* subscriptions go.
LEMMA SweepStays ==
  ASSUME TypeOK, NEW w \in Sweep, SweepSound(w), sweep'[w] = sweep[w], out'[w] = out[w],
         stamp' = stamp, live' \subseteq live, now' = now \/ now' = now + 1,
         lastCheck' = lastCheck \/ lastCheck' = now, lastCheck <= now, missed \subseteq missed',
         \A p \in Pair : p[1] \in live' /\ history[p] # "none" => history'[p] # "none"
  PROVE  SweepSound(w)'
<1>1. sweep'[w].pc # "idle" => live' \subseteq sweep'[w].subs
  BY DEF SweepSound
<1>2. sweep'[w].pc = "query" => SinceSound(w)'
  <2>1. now \in Nat /\ lastCheck \in Instant
    BY DEF TypeOK
  <2>2. QED
    BY <2>1 DEF SweepSound, SinceSound, Instant, Null
<1>3. PastQuery(w)' => Held(w)'
  BY DEF SweepSound, PastQuery, Held
<1>4. QED
  BY <1>1, <1>2, <1>3 DEF SweepSound

\* The step of a sweep that leaves lastCheck alone keeps the invariant, if it accounts for
\* its own pairs.
LEMMA OwnStep ==
  ASSUME TypeOK, MissedInv, NEW w \in Sweep, Step(w), SweepSound(w)',
         UNCHANGED <<now, stamp, live, lastCheck, missed>>,
         \A v \in Sweep : v # w => out'[v] = out[v],
         \A p \in Pair : history[p] # "none" => history'[p] # "none"
  PROVE  MissedInv'
<1>1. \A v \in Sweep : SweepSound(v)'
  <2>1. ASSUME NEW v \in Sweep, v # w PROVE SweepSound(v)'
    <3>1. sweep'[v] = sweep[v] /\ out'[v] = out[v]
      BY <2>1, Others
    <3>2. SweepSound(v) /\ lastCheck <= now
      BY DEF MissedInv
    <3>3. QED
      BY <3>1, <3>2, SweepStays
  <2>2. QED
    BY <2>1
<1>2. Settled(lastCheck)'
  BY DEF MissedInv, Settled
<1>3. QED
  BY <1>1, <1>2 DEF MissedInv

\* Storing an event: it was missed already, or will be asked for, or is left out.
LEMMA StoreStep ==
  ASSUME TypeOK, MissedInv, NEW e \in Event, Store(e) PROVE MissedInv'
<1>1. PICK t \in 0..now : /\ stamp' = [stamp EXCEPT ![e] = t]
                          /\ missed' = IF t < lastCheck THEN missed \cup Of({e}) ELSE missed
  BY DEF Store
<1>2. /\ UNCHANGED <<now, live, history, lastCheck, sweep>>
      /\ out' = [w \in Sweep |-> IF PastQuery(w) THEN out[w] \cup Of({e}) ELSE out[w]]
  BY DEF Store
<1>3. \A f \in Event : stamp'[f] = IF f = e THEN t ELSE stamp[f]
  BY <1>1 DEF TypeOK
<1>4. \A p \in Pair : p[2] \in Event /\ (p[2] = e => p \in Of({e}))
  BY DEF Pair, Of
<1>5. Settled(lastCheck)'
  BY <1>1, <1>2, <1>3, <1>4 DEF MissedInv, Settled
<1>6. ASSUME NEW w \in Sweep PROVE SweepSound(w)'
  <2>1. SweepSound(w) /\ missed \subseteq missed'
    BY <1>1 DEF MissedInv
  <2>2. PastQuery(w)' => Held(w)'
    <3> SUFFICES ASSUME PastQuery(w)', NEW p \in Pair, p[1] \in live', stamp'[p[2]] # Null,
                        history'[p] = "none"
                 PROVE  \/ sweep'[w].pc # "finish" /\ p \in sweep'[w].todo
                        \/ sweep'[w].pc \in {"send", "record"} /\ sweep'[w].pair = p
                        \/ p \in out'[w] \cup missed'
      BY DEF Held
    <3>1. PastQuery(w) /\ out'[w] = out[w] \cup Of({e})
      BY <1>2 DEF PastQuery
    <3>2. CASE p[2] = e
      BY <1>4, <3>1, <3>2
    <3>3. CASE p[2] # e
      <4>1. stamp[p[2]] # Null
        BY <1>3, <1>4, <3>3
      <4>2. QED
        BY <1>2, <2>1, <3>1, <4>1 DEF SweepSound, Held
    <3>4. QED
      BY <3>2, <3>3
  <2>3. QED
    BY <1>2, <2>1, <2>2 DEF SweepSound, SinceSound
<1>7. QED
  BY <1>2, <1>5, <1>6 DEF MissedInv

\* A query takes up or leaves out whatever lastCheck is not past.
LEMMA QueryStep ==
  ASSUME TypeOK, MissedInv, NEW w \in Sweep, Query(w) PROVE MissedInv'
<1> DEFINE found == {e \in Event : stamp[e] # Null /\ sweep[w].since <= stamp[e]}
<1>1. PICK events \in SUBSET found :
        /\ sweep' = [sweep EXCEPT ![w].pc = "next", ![w].todo = sweep[w].subs \X events]
        /\ out' = [out EXCEPT ![w] = Of((found \ events) \cup TooOld(w))]
  BY DEF Query, TakeUp, Newest
<1>2. UNCHANGED <<now, stamp, live, history, lastCheck, missed>>
  BY DEF Query, TakeUp
<1>3. /\ sweep'[w].pc = "next" /\ sweep'[w].subs = sweep[w].subs
      /\ sweep'[w].todo = sweep[w].subs \X events
      /\ out'[w] = Of((found \ events) \cup TooOld(w))
  BY <1>1 DEF SweepState, TypeOK
<1>4. live \subseteq sweep[w].subs /\ SinceSound(w) /\ Settled(lastCheck)
  BY DEF Query, MissedInv, SweepSound
<1>5. ASSUME NEW p \in Pair, p[1] \in live, stamp[p[2]] # Null, history[p] = "none"
      PROVE  p \in sweep'[w].todo \/ p \in out'[w] \cup missed'
  <2>1. p \in Sub \X Event /\ stamp[p[2]] \in Nat
    BY <1>5, StampType DEF Pair, Instant, Null
  <2>2. CASE stamp[p[2]] < sweep[w].since
    <3>1. CASE lastCheck = Null
      <4>1. p[2] \in TooOld(w)
        BY <1>5, <2>1, <2>2, <3>1 DEF TooOld
      <4>2. QED
        BY <1>3, <2>1, <4>1 DEF Of
    <3>2. CASE lastCheck # Null
      <4>1. lastCheck \in Nat
        BY <3>2 DEF TypeOK, Instant, Null
      <4>2. stamp[p[2]] < lastCheck
        BY <1>4, <2>1, <2>2, <3>2, <4>1 DEF SinceSound
      <4>3. QED
        BY <1>2, <1>4, <1>5, <4>2 DEF Settled
    <3>3. QED
      BY <3>1, <3>2
  <2>3. CASE ~(stamp[p[2]] < sweep[w].since)
    <3>1. p[2] \in found
      BY <1>4, <1>5, <2>1, <2>3 DEF SinceSound
    <3>2. CASE p[2] \in events
      <4>1. p \in sweep[w].subs \X events
        BY <1>4, <1>5, <2>1, <3>2
      <4>2. QED
        BY <1>3, <4>1
    <3>3. CASE p[2] \notin events
      <4>1. p[2] \in (found \ events) \cup TooOld(w)
        BY <3>1, <3>3
      <4>2. QED
        BY <1>3, <2>1, <4>1 DEF Of
    <3>4. QED
      BY <3>2, <3>3
  <2>4. QED
    BY <2>2, <2>3
<1>6. SweepSound(w)'
  <2>1. Held(w)'
    BY <1>2, <1>3, <1>5 DEF Held
  <2>2. QED
    BY <1>2, <1>3, <1>4, <2>1 DEF SweepSound
<1>7. Step(w) /\ \A v \in Sweep : v # w => out'[v] = out[v]
  BY <1>1 DEF Step, TypeOK
<1>8. QED
  BY <1>2, <1>6, <1>7, OwnStep

\* The end of a scheduled sweep moves lastCheck past what it accounts for.
LEMMA FinishStep ==
  ASSUME TypeOK, MissedInv, NEW w \in Sweep, Finish(w) PROVE MissedInv'
<1>1. /\ UNCHANGED <<now, stamp, live, history>>
      /\ lastCheck' = (IF sweep[w].scheduled THEN now ELSE lastCheck)
      /\ missed' = IF sweep[w].scheduled THEN missed \cup {p \in out[w] : stamp[p[2]] < now}
                                         ELSE missed
      /\ out' = [out EXCEPT ![w] = {}]
  BY DEF Finish
<1>2. sweep'[w] = Idle /\ \A v \in Sweep : v # w => sweep'[v] = sweep[v] /\ out'[v] = out[v]
  BY <1>1 DEF Finish, TypeOK
<1>3. lastCheck <= now /\ Settled(lastCheck) /\ \A v \in Sweep : SweepSound(v)
  BY DEF MissedInv
<1>4. Settled(lastCheck)'
  <2> SUFFICES ASSUME NEW p \in Pair, p[1] \in live, stamp[p[2]] # Null,
                      stamp[p[2]] < lastCheck', history[p] = "none"
               PROVE  p \in missed'
    BY <1>1 DEF Settled
  <2>1. CASE sweep[w].scheduled
    <3>1. Held(w) /\ (sweep[w].pc = "finish" \/ (sweep[w].pc = "next" /\ sweep[w].todo = {}))
      BY <1>3 DEF Finish, SweepSound, PastQuery
    <3>2. p \in out[w] \cup missed
      BY <3>1 DEF Held
    <3>3. QED
      BY <1>1, <2>1, <3>2
  <2>2. CASE ~sweep[w].scheduled
    BY <1>1, <1>3, <2>2 DEF Settled
  <2>3. QED
    BY <2>1, <2>2
<1>5. SweepSound(w)'
  BY <1>2 DEF SweepSound, Idle, PastQuery
<1>6. ASSUME NEW v \in Sweep, v # w PROVE SweepSound(v)'
  <2>1. missed \subseteq missed' /\ (lastCheck' = lastCheck \/ lastCheck' = now)
    BY <1>1
  <2>2. QED
    BY <1>1, <1>2, <1>3, <1>6, <2>1, SweepStays
<1>7. lastCheck' <= now'
  BY <1>1, <1>3 DEF TypeOK
<1>8. QED
  BY <1>4, <1>5, <1>6, <1>7 DEF MissedInv

\* Whatever else a sweep does, it keeps its account.
LEMMA SweepStep ==
  ASSUME TypeOK, MissedInv, NEW w \in Sweep, Step(w), ~Query(w), ~Finish(w) PROVE MissedInv'
<1>1. SweepSound(w) /\ sweep[w] \in SweepState /\ lastCheck <= now
  BY DEF MissedInv, TypeOK
<1>2. ASSUME NEW b \in BOOLEAN, Begin(w, b) PROVE MissedInv'
  <2>1. /\ sweep'[w].pc = "idle" \/ (sweep'[w].pc = "since" /\ sweep'[w].subs = live)
        /\ UNCHANGED <<now, stamp, live, history, lastCheck, ghosts>>
    BY <1>2 DEF Begin, Idle, TypeOK
  <2>2. SweepSound(w)'
    BY <2>1 DEF SweepSound, PastQuery
  <2>3. QED
    BY <2>1, <2>2, OwnStep DEF ghosts
<1>3. CASE ReadSince(w)
  <2>1. /\ sweep'[w].pc = "query" /\ sweep'[w].subs = sweep[w].subs /\ sweep[w].pc = "since"
        /\ sweep'[w].since = OrElse(lastCheck, IF Lookback < now THEN now - Lookback ELSE 0)
        /\ UNCHANGED <<now, stamp, live, history, lastCheck, ghosts>>
    BY <1>1, <1>3 DEF ReadSince, SweepState, TypeOK
  <2>2. SinceSound(w)'
    <3>1. now \in Nat /\ lastCheck \in Instant /\ Lookback \in Nat
      BY AlertAssumption DEF AlertAssumption, TypeOK
    <3>2. QED
      BY <1>1, <2>1, <3>1 DEF SinceSound, OrElse, Instant, Null
  <2>3. SweepSound(w)'
    BY <1>1, <2>1, <2>2 DEF SweepSound, PastQuery
  <2>4. QED
    BY <2>1, <2>3, OwnStep DEF ghosts
<1>4. CASE ServiceFails(w)
  <2>1. sweep'[w] = Idle /\ UNCHANGED <<now, stamp, live, history, lastCheck, ghosts>>
    BY <1>4 DEF ServiceFails, TypeOK
  <2>2. SweepSound(w)'
    BY <2>1 DEF SweepSound, PastQuery, Idle
  <2>3. QED
    BY <2>1, <2>2, OwnStep DEF ghosts
<1>5. CASE QueryFails(w)
  <2>1. /\ sweep[w].pc = "query" /\ sweep'[w].pc = "finish" /\ sweep'[w].subs = sweep[w].subs
        /\ UNCHANGED <<now, stamp, live, history, lastCheck, missed>>
        /\ out' = [out EXCEPT ![w] = Of({e \in Event : stamp[e] # Null})]
    BY <1>1, <1>5 DEF QueryFails, SweepState, TypeOK
  <2>2. Held(w)'
    <3>1. \A p \in Pair : stamp[p[2]] # Null => p \in Of({e \in Event : stamp[e] # Null})
      BY DEF Of, Pair
    <3>2. out'[w] = Of({e \in Event : stamp[e] # Null})
      BY <2>1 DEF TypeOK
    <3>3. QED
      BY <2>1, <3>1, <3>2 DEF Held
  <2>3. SweepSound(w)' /\ \A v \in Sweep : v # w => out'[v] = out[v]
    BY <1>1, <2>1, <2>2 DEF SweepSound, TypeOK
  <2>4. QED
    BY <2>1, <2>3, OwnStep
<1>6. ASSUME NEW p \in Pair, Check(w, p) PROVE MissedInv'
  <2>1. /\ sweep[w].pc = "next" /\ sweep'[w].subs = sweep[w].subs
        /\ sweep'[w].todo = sweep[w].todo \ {p}
        /\ IF history[p] = "none" THEN sweep'[w].pc = "send" /\ sweep'[w].pair = p
                                  ELSE sweep'[w].pc = "next"
        /\ UNCHANGED <<now, stamp, live, history, lastCheck, ghosts>>
    BY <1>1, <1>6 DEF Check, SweepState, TypeOK
  <2>2. PastQuery(w) /\ Held(w)
    BY <1>1, <2>1 DEF SweepSound, PastQuery
  <2>3. Held(w)'
    BY <2>1, <2>2 DEF Held, ghosts
  <2>4. SweepSound(w)'
    BY <1>1, <2>1, <2>3 DEF SweepSound
  <2>5. QED
    BY <2>1, <2>4, OwnStep DEF ghosts
<1>7. CASE Skip(w)
  <2>1. PICK p \in sweep[w].todo :
          /\ sweep' = [sweep EXCEPT ![w].todo = @ \ {p}]
          /\ out' = [out EXCEPT ![w] = @ \cup {p}]
    BY <1>7 DEF Skip
  <2>2. /\ sweep[w].pc = "next" /\ sweep'[w].pc = "next" /\ sweep'[w].subs = sweep[w].subs
        /\ sweep'[w].todo = sweep[w].todo \ {p} /\ out'[w] = out[w] \cup {p}
        /\ \A v \in Sweep : v # w => out'[v] = out[v]
        /\ UNCHANGED <<now, stamp, live, history, lastCheck, missed>>
    BY <1>1, <1>7, <2>1 DEF Skip, SweepState, TypeOK
  <2>3. PastQuery(w) /\ Held(w)
    BY <1>1, <2>2 DEF SweepSound, PastQuery
  <2>4. Held(w)'
    BY <2>2, <2>3 DEF Held
  <2>5. SweepSound(w)'
    BY <1>1, <2>2, <2>4 DEF SweepSound
  <2>6. QED
    BY <2>2, <2>5, OwnStep
<1>8. CASE Send(w)
  <2>1. /\ sweep[w].pc = "send" /\ sweep'[w].subs = sweep[w].subs
        /\ sweep'[w].todo = sweep[w].todo /\ sweep'[w].pair = sweep[w].pair
        /\ sweep'[w].pc = "record"
        /\ UNCHANGED <<now, stamp, live, history, lastCheck, out, missed>>
    BY <1>1, <1>8 DEF Send, SweepState, TypeOK
  <2>2. PastQuery(w) /\ Held(w)
    BY <1>1, <2>1 DEF SweepSound, PastQuery
  <2>3. Held(w)'
    BY <2>1, <2>2 DEF Held
  <2>4. SweepSound(w)'
    BY <1>1, <2>1, <2>3 DEF SweepSound
  <2>5. QED
    BY <2>1, <2>4, OwnStep
<1>9. CASE Record(w)
  <2>1. /\ sweep[w].pc = "record" /\ sweep'[w].subs = sweep[w].subs
        /\ sweep'[w].todo = sweep[w].todo /\ sweep'[w].pc = "next"
        /\ UNCHANGED <<now, stamp, live, lastCheck, out, missed>>
    BY <1>1, <1>9 DEF Record, SweepState, TypeOK, ghosts
  <2>2. /\ \A p \in Pair : history[p] # "none" => history'[p] # "none"
        /\ \A p \in Pair : history'[p] = "none" => history[p] = "none" /\ p # sweep[w].pair
    BY <1>9 DEF Record, Outcome, TypeOK
  <2>3. PastQuery(w) /\ Held(w)
    BY <1>1, <2>1 DEF SweepSound, PastQuery
  <2>4. Held(w)'
    BY <2>1, <2>2, <2>3 DEF Held
  <2>5. SweepSound(w)'
    BY <1>1, <2>1, <2>4 DEF SweepSound
  <2>6. QED
    BY <2>1, <2>2, <2>5, OwnStep
<1>10. CASE RecordFails(w)
  <2>1. /\ sweep[w].pc = "record" /\ sweep'[w].subs = sweep[w].subs /\ sweep'[w].pc = "finish"
        /\ out'[w] = out[w] \cup sweep[w].todo \cup {sweep[w].pair}
        /\ \A v \in Sweep : v # w => out'[v] = out[v]
        /\ UNCHANGED <<now, stamp, live, history, lastCheck, missed>>
    BY <1>1, <1>10 DEF RecordFails, SweepState, TypeOK
  <2>2. PastQuery(w) /\ Held(w)
    BY <1>1, <2>1 DEF SweepSound, PastQuery
  <2>3. Held(w)'
    BY <2>1, <2>2 DEF Held
  <2>4. SweepSound(w)'
    BY <1>1, <2>1, <2>3 DEF SweepSound
  <2>5. QED
    BY <2>1, <2>4, OwnStep
<1>11. QED
  BY <1>2, <1>3, <1>4, <1>5, <1>6, <1>7, <1>8, <1>9, <1>10 DEF Step

LEMMA MissedStep ==
  ASSUME TypeOK, MissedInv, [Next]_vars PROVE MissedInv'
<1>1. CASE Tick \/ (\E s \in Sub : Delete(s)) \/ UNCHANGED vars
  <2>1. /\ UNCHANGED <<stamp, lastCheck, sweep, out, missed>> /\ live' \subseteq live
        /\ now' = now \/ now' = now + 1
        /\ \A p \in Pair : p[1] \in live' => history'[p] = history[p]
    BY <1>1 DEF Tick, Delete, vars, ghosts
  <2>2. lastCheck' <= now'
    BY <2>1 DEF MissedInv, TypeOK, Instant, Null
  <2>3. Settled(lastCheck)'
    BY <2>1 DEF MissedInv, Settled
  <2>4. \A w \in Sweep : SweepSound(w)'
    BY <2>1, SweepStays DEF MissedInv
  <2>5. QED
    BY <2>2, <2>3, <2>4 DEF MissedInv
<1>2. ASSUME NEW e \in Event, Store(e) PROVE MissedInv'
  BY <1>2, StoreStep
<1>3. ASSUME NEW w \in Sweep, Step(w) PROVE MissedInv'
  BY <1>3, QueryStep, FinishStep, SweepStep
<1>4. CASE Crash
  <2>1. /\ \A w \in Sweep : sweep'[w] = Idle
        /\ UNCHANGED <<now, stamp, live, history, lastCheck, missed>>
    BY <1>4 DEF Crash
  <2>2. QED
    BY <2>1 DEF MissedInv, SweepSound, Settled, Idle, PastQuery
<1>5. QED
  BY <1>1, <1>2, <1>3, <1>4 DEF Next

\* Once lastCheck is past an event, every live subscription has its row, whatever overlapped,
\* failed or died on the way, but for the pairs that no sweep took up.
THEOREM AlertsCorrect == Spec => []NoAlertMissed
<1>1. Init => MissedInv
  <2>1. \A p \in Pair : p[2] \in Event
    BY DEF Pair
  <2>2. Init => Settled(lastCheck)
    BY <2>1 DEF Init, Settled
  <2>3. QED
    BY <2>2 DEF Init, MissedInv, SweepSound, PastQuery, Idle, Null
<1>2. TypeOK /\ MissedInv /\ [Next]_vars => MissedInv'
  BY MissedStep
<1>3. MissedInv => NoAlertMissed
  BY DEF MissedInv, Settled, NoAlertMissed
<1>4. QED
  BY <1>1, <1>2, <1>3, TypeCorrect, PTL DEF Spec
=============================================================================
