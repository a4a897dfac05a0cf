---------------------------- MODULE RiskRegister ----------------------------
(***************************************************************************)
(* The scores of the risk register (risk-operations/                       *)
(* risk-operations.service.ts): an update reads the row, computes every    *)
(* score from what was sent or else from what was read, and writes; two    *)
(* updates of a row may overlap.                                           *)
(*                                                                         *)
(* A treatment has only the residual factors of a risk, computed alike: it *)
(* is the row whose likelihood and impact are never sent.                  *)
(***************************************************************************)
EXTENDS Naturals

CONSTANTS
  Update,  \* bound: the updates, each sent once
  Rating   \* the ratings in use, of 1..5

\* Asserted by the module that instantiates this one.
RegisterAssumption == Rating \subseteq 1..5 /\ Rating # {}

VARIABLES
  risk,     \* the row: the factors and the scores stored
  update,   \* update[u]: what is sent, and the scores computed
  overlap,  \* history: another update has written since the last one to write had read
  cleared   \* history: the last update to write cleared a residual factor

registerVars == <<risk, update, overlap, cleared>>

Null == 0
Keep == 6
Factor == {"likelihood", "impact", "residualLikelihood", "residualImpact"}
Residual == {"residualLikelihood", "residualImpact"}

Level(score) ==
  CASE score >= 20 -> "CRITICAL" [] score >= 12 -> "HIGH" [] score >= 6 -> "MEDIUM"
    [] OTHER -> "LOW"

\* residualScores(): no score without both factors.
ResidualScore(f) ==
  IF Null \in {f.residualLikelihood, f.residualImpact} THEN Null
  ELSE f.residualLikelihood * f.residualImpact

\* riskScores()
Scores(f) ==
  [inherent |-> f.likelihood * f.impact, level |-> Level(f.likelihood * f.impact),
   residual |-> ResidualScore(f)]

Stored == [likelihood : Rating, impact : Rating, residualLikelihood : Rating \cup {Null},
           residualImpact : Rating \cup {Null}]
\* An update sends one factor, or clears one: what more it sends is computed alike.
Sent ==
  {[g \in Factor |-> IF g = f THEN v ELSE Keep] : f \in Factor, v \in Rating}
  \cup {[g \in Factor |-> IF g = f THEN Null ELSE Keep] : f \in Residual}

NotSent == [g \in Factor |-> Keep]
NoScores == [inherent |-> 0, level |-> "LOW", residual |-> Null]
NoUpdate == [pc |-> "new", sent |-> NotSent, scores |-> NoScores, stale |-> FALSE]

\* createRisk(), createTreatment()
Init ==
  /\ \E f \in Stored : risk = [factors |-> f, scores |-> Scores(f), isActive |-> TRUE]
  /\ update = [u \in Update |-> NoUpdate]
  /\ overlap = FALSE /\ cleared = FALSE

-----------------------------------------------------------------------------
\* Mutant: a factor that is sent is ignored where there is one.
Effective_Current(sent, current) ==
  [g \in Factor |->
    IF current[g] # Null THEN current[g] ELSE IF sent[g] = Keep THEN Null ELSE sent[g]]

\* data.x ?? current.x: a factor that is cleared counts with its current value.
Effective(sent, current) ==
  [g \in Factor |-> IF sent[g] \in {Keep, Null} THEN current[g] ELSE sent[g]]

\* updateRisk(), updateTreatment(): the row is read and the scores are computed ...
Read(u) ==
  /\ update[u].pc = "new"
  /\ \E sent \in Sent :
       update' = [update EXCEPT ![u] =
         [pc |-> "write", sent |-> sent, scores |-> Scores(Effective(sent, risk.factors)),
          stale |-> FALSE]]
  /\ UNCHANGED <<risk, overlap, cleared>>

\* ... and what was sent is written with them.
Write(u) ==
  /\ update[u].pc = "write"
  /\ LET sent == update[u].sent
         clears == {g \in Residual : sent[g] = Null /\ risk.factors[g] # Null}
     IN  /\ risk' = [risk EXCEPT
              !.factors = [g \in Factor |-> IF sent[g] = Keep THEN risk.factors[g] ELSE sent[g]],
              !.scores = update[u].scores]
         /\ cleared' = (clears # {})
  /\ overlap' = update[u].stale
  /\ update' = [v \in Update |->
       IF v = u THEN [NoUpdate EXCEPT !.pc = "done"]
       ELSE IF update[v].pc = "write" THEN [update[v] EXCEPT !.stale = TRUE] ELSE update[v]]

\* removeRisk(): updates go on.
RemoveRisk ==
  /\ risk.isActive
  /\ risk' = [risk EXCEPT !.isActive = FALSE]
  /\ UNCHANGED <<update, overlap, cleared>>

Next == RemoveRisk \/ \E u \in Update : Read(u) \/ Write(u)

-----------------------------------------------------------------------------
\* The scores stored are those of the factors stored, however often the row is updated, unless
\* the last update overlapped another one, or cleared a residual factor: then the residual score
\* may be of the factor that is gone.  The next update that does neither repairs the row.
ScoresFollow ==
  ~overlap =>
    LET scores == Scores(risk.factors)
    IN  /\ risk.scores.inherent = scores.inherent /\ risk.scores.level = scores.level
        /\ ~cleared => risk.scores.residual = scores.residual
=============================================================================
