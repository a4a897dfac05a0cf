----------------------------- MODULE RiskLinks -----------------------------
(***************************************************************************)
(* What hangs together in the risk register (risk-operations/              *)
(* risk-operations.service.ts): treatments and their actions, controls and *)
(* KPIs, which are looked up, then linked, and deleted in between.         *)
(*                                                                         *)
(* One treatment, one control; the database checks a link when it is       *)
(* written, and on a deletion follows onDelete.                            *)
(***************************************************************************)
CONSTANT Link  \* bound: the requests that create or update a KPI or an action, each sent once

VARIABLES
  treatment, control,  \* whether they exist
  kpi,                 \* kpi[l]: the control of the KPI that l created, "null", or "absent"
  action,              \* action[l]: the control of the action that l created, likewise
  link,                \* link[l]: the local variables of the request
  asked                \* history: asked[l]: the control the row of l was last given

linksVars == <<treatment, control, kpi, action, link, asked>>

\* row: the request that created the row written; asks: controlId, "same" where an update has
\* none; saw: what was looked up and found; lost is history: what of that was gone when the
\* request failed.
NoLink == [pc |-> "new", row |-> "none", asks |-> "null", saw |-> {}, lost |-> {}]

Init ==
  /\ treatment = TRUE /\ control = TRUE
  /\ kpi = [l \in Link |-> "absent"] /\ action = [l \in Link |-> "absent"]
  /\ link = [l \in Link |-> NoLink]
  /\ asked = [l \in Link |-> "null"]

\* What a request may name and is gone.
Missing == (IF treatment THEN {} ELSE {"treatment"}) \cup (IF control THEN {} ELSE {"control"})

End(l, result) ==
  link' = [link EXCEPT ![l] = [NoLink EXCEPT !.pc = result, !.lost = link[l].saw \cap Missing]]

\* What an update leaves of a link.
Given(old, asks) == IF asks = "same" THEN old ELSE asks

-----------------------------------------------------------------------------
\* Mutant: an update does not look the control up.
EnsureKpi_Creation(l) ==
  /\ link[l].pc = "new"
  /\ \E k \in Link : \E asks \in {"control", "null", "same"} :
       /\ IF k = l THEN asks # "same" ELSE kpi[k] # "absent"
       /\ IF asks = "control" /\ ~control /\ k = l THEN End(l, "not_found")
          ELSE link' = [link EXCEPT ![l] = [NoLink EXCEPT !.pc = "kpi", !.row = k, !.asks = asks,
                 !.saw = IF asks = "control" /\ control THEN {"control"} ELSE {}]]
  /\ UNCHANGED <<treatment, control, kpi, action, asked>>

\* createKpi(), updateKpi(): ensureKpiLinks() looks up the control that is named ...
EnsureKpi(l) ==
  /\ link[l].pc = "new"
  /\ \E k \in Link : \E asks \in {"control", "null", "same"} :
       /\ IF k = l THEN asks # "same" ELSE kpi[k] # "absent"
       /\ IF asks = "control" /\ ~control THEN End(l, "not_found")
          ELSE link' = [link EXCEPT ![l] = [NoLink EXCEPT !.pc = "kpi", !.row = k, !.asks = asks,
                 !.saw = IF asks = "control" THEN {"control"} ELSE {}]]
  /\ UNCHANGED <<treatment, control, kpi, action, asked>>

\* ... and the KPI is written, unless the control is gone by now.
WriteKpi(l) ==
  /\ link[l].pc = "kpi"
  /\ LET k == link[l].row
         asks == link[l].asks
     IN  IF asks = "control" /\ ~control THEN UNCHANGED <<kpi, asked>> /\ End(l, "error")
         ELSE /\ kpi' = [kpi EXCEPT ![k] = Given(@, asks)]
              /\ asked' = [asked EXCEPT ![k] = Given(@, asks)]
              /\ End(l, "ok")
  /\ UNCHANGED <<treatment, control, action>>

\* createAction(): ensureTreatment() looks the treatment up, but nothing the control ...
EnsureAction(l) ==
  /\ link[l].pc = "new"
  /\ IF treatment
     THEN \E asks \in {"control", "null"} :
            link' = [link EXCEPT ![l] = [NoLink EXCEPT !.pc = "action", !.row = l, !.asks = asks,
                                                       !.saw = {"treatment"}]]
     ELSE End(l, "not_found")
  /\ UNCHANGED <<treatment, control, kpi, action, asked>>

\* ... and the action is created, unless either is gone.
CreateAction(l) ==
  /\ link[l].pc = "action"
  /\ LET asks == link[l].asks
     IN  IF ~treatment THEN UNCHANGED <<action, asked>> /\ End(l, "error")
         ELSE IF asks = "control" /\ ~control
         THEN UNCHANGED <<action, asked>> /\ End(l, "unchecked")
         ELSE /\ action' = [action EXCEPT ![l] = asks]
              /\ asked' = [asked EXCEPT ![l] = asks]
              /\ End(l, "ok")
  /\ UNCHANGED <<treatment, control, kpi>>

\* updateAction(): one statement, with no look-up of the action or of the control.
UpdateAction(l) ==
  /\ link[l].pc = "new"
  /\ \E a \in Link : \E asks \in {"control", "null", "same"} :
       IF action[a] = "absent" \/ (asks = "control" /\ ~control)
       THEN UNCHANGED <<action, asked>> /\ End(l, "unchecked")
       ELSE /\ action' = [action EXCEPT ![a] = Given(@, asks)]
            /\ asked' = [asked EXCEPT ![a] = Given(@, asks)]
            /\ End(l, "ok")
  /\ UNCHANGED <<treatment, control, kpi>>

-----------------------------------------------------------------------------
\* removeAction(); removeKpi() keeps the row.
RemoveAction(l) ==
  /\ action[l] # "absent"
  /\ action' = [action EXCEPT ![l] = "absent"]
  /\ UNCHANGED <<treatment, control, kpi, link, asked>>

\* removeTreatment(): its actions go with it (onDelete: Cascade).
RemoveTreatment ==
  /\ treatment
  /\ treatment' = FALSE
  /\ action' = [l \in Link |-> "absent"]
  /\ UNCHANGED <<control, kpi, link, asked>>

Unlinked(c) == IF c = "control" THEN "null" ELSE c

\* removeControl(): what names it names nothing (onDelete: SetNull).
RemoveControl ==
  /\ control
  /\ control' = FALSE
  /\ kpi' = [l \in Link |-> Unlinked(kpi[l])]
  /\ action' = [l \in Link |-> Unlinked(action[l])]
  /\ UNCHANGED <<treatment, link, asked>>

Step(l) ==
  EnsureKpi(l) \/ WriteKpi(l) \/ EnsureAction(l) \/ CreateAction(l) \/ UpdateAction(l)

Next ==
  \/ \E l \in Link : Step(l) \/ RemoveAction(l)
  \/ RemoveTreatment \/ RemoveControl

-----------------------------------------------------------------------------
\* However look-ups, links and deletions overlap, a KPI or an action has the control that the last
\* request that was answered gave it, until the control is deleted; a request that fails leaves
\* the link it found.
LinksAsAsked ==
  \A l \in Link : \A has \in {kpi[l], action[l]} :
    has # "absent" => has = IF control THEN asked[l] ELSE "null"

\* A request that looked up what it names is refused by the database only because that was
\* deleted since.  An action is not: its control is never looked up ("unchecked").
RefusedByRace == \A l \in Link : link[l].pc = "error" => link[l].lost # {}
=============================================================================
