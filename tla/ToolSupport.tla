---------------------------- MODULE ToolSupport ----------------------------
(***************************************************************************)
(* The fallback chain of a chat turn (ai-chat/rag/rag.service.ts) and the  *)
(* cache of what each model is capable of (capability/model-capability.    *)
(* service.ts): tools, then the router, then retrieval.  Turns overlap,    *)
(* and an administrator may change the model under them.                   *)
(*                                                                         *)
(* The mode is "tools".  One request stands for those of a turn.           *)
(***************************************************************************)
EXTENDS Naturals, FiniteSets

CONSTANTS
  Turn,       \* bound: the turns under way
  Model,      \* models of Ollama
  WithTools,  \* the ones that support tools
  MaxChanges  \* bound: changes of the model

\* Asserted by the module that instantiates this one.
SupportAssumption == WithTools \subseteq Model /\ IsFiniteSet(Turn) /\ MaxChanges \in Nat

VARIABLES
  model,     \* the configured model
  support,   \* ModelCapabilityService.cache: support[m], or "absent"
  turn,      \* turn[t]: where ask() is, the model it asked last, its reason and its answer
  changes    \* history: how often the model was changed

supportVars == <<model, support, turn, changes>>

NoTurn == [pc |-> "idle", asked |-> "none", reason |-> "none", via |-> "none"]

Init ==
  /\ model \in Model
  /\ support = [m \in Model |-> "absent"]
  /\ turn = [t \in Turn |-> NoTurn]
  /\ changes = 0

Move(t, pc) == turn' = [turn EXCEPT ![t].pc = pc]
Degrade(t, reason) == turn' = [turn EXCEPT ![t].pc = "router", ![t].reason = reason]

\* ask() looks the model up in the cache ...
Ask(t) ==
  /\ turn[t].pc = "idle"
  /\ turn' = [turn EXCEPT ![t] =
       [NoTurn EXCEPT !.pc = CASE support[model] = "absent"      -> "detect"
                               [] support[model] = "unsupported" -> "router"
                               [] OTHER                          -> "tools",
                      !.asked = model,
                      !.reason = IF support[model] = "unsupported" THEN "model" ELSE "none"]]
  /\ UNCHANGED <<model, support, changes>>

\* Mutant: a lookup that fails is an answer.
Detected_Unsupported(m) == {IF m \in WithTools THEN "supported" ELSE "unsupported", "unsupported"}

\* detect(): a lookup that fails leaves the support unknown, which means to try.
Detected(m) == {IF m \in WithTools THEN "supported" ELSE "unsupported", "unknown"}

\* ... and asks Ollama if it is not there.
Detect(t) ==
  /\ turn[t].pc = "detect"
  /\ \E s \in Detected(turn[t].asked) :
       /\ support' = [support EXCEPT ![turn[t].asked] = s]
       /\ IF s = "unsupported" THEN Degrade(t, "model") ELSE Move(t, "tools")
  /\ UNCHANGED <<model, changes>>

\* The request with tools goes to the model configured now.
Send(t) ==
  /\ turn[t].pc = "tools"
  /\ turn' = [turn EXCEPT ![t].pc = "sent", ![t].asked = model]
  /\ UNCHANGED <<model, support, changes>>

Answered(t) ==
  /\ turn[t].pc = "sent" /\ turn[t].asked \in WithTools
  /\ turn' = [turn EXCEPT ![t].pc = "done", ![t].via = "tools"]
  /\ UNCHANGED <<model, support, changes>>

\* Ollama rejects the tools ...
Rejected(t) ==
  /\ turn[t].pc = "sent" /\ turn[t].asked \notin WithTools
  /\ Move(t, "mark")
  /\ UNCHANGED <<model, support, changes>>

\* ... or the request fails otherwise.
RequestFails(t) ==
  /\ turn[t].pc = "sent"
  /\ Degrade(t, "error")
  /\ UNCHANGED <<model, support, changes>>

\* The prompt does not fit: never degraded.
ConfigError(t) ==
  /\ turn[t].pc \in {"sent", "router"}
  /\ turn' = [turn EXCEPT ![t].pc = "done", ![t].via = "nothing"]
  /\ UNCHANGED <<model, support, changes>>

\* markUnsupported() marks the model configured now.
Mark(t) ==
  /\ turn[t].pc = "mark"
  /\ support' = [support EXCEPT ![model] = "unsupported"]
  /\ Degrade(t, "model")
  /\ UNCHANGED <<model, changes>>

Router(t) ==
  /\ turn[t].pc = "router"
  /\ \/ turn' = [turn EXCEPT ![t].pc = "done", ![t].via = "router"]
     \/ Move(t, "retrieve")
  /\ UNCHANGED <<model, support, changes>>

Retrieve(t) ==
  /\ turn[t].pc = "retrieve"
  /\ \E via \in {"retrieve", "nothing"} :
       turn' = [turn EXCEPT ![t].pc = "done", ![t].via = via]
  /\ UNCHANGED <<model, support, changes>>

\* The answer is sent, and the next question may come.
Done(t) ==
  /\ turn[t].pc = "done"
  /\ turn' = [turn EXCEPT ![t] = NoTurn]
  /\ UNCHANGED <<model, support, changes>>

\* Mutant: what was rejected is never asked again.
Expire_Known(m) ==
  /\ support[m] \in {"supported", "unknown"}
  /\ support' = [support EXCEPT ![m] = "absent"]
  /\ UNCHANGED <<model, turn, changes>>

\* KNOWN_TTL_MS or UNKNOWN_TTL_MS pass.
Expire(m) ==
  /\ support[m] # "absent"
  /\ support' = [support EXCEPT ![m] = "absent"]
  /\ UNCHANGED <<model, turn, changes>>

ChangeModel ==
  /\ changes < MaxChanges
  /\ \E m \in Model \ {model} : model' = m
  /\ changes' = changes + 1
  /\ UNCHANGED <<support, turn>>

Step(t) ==
  \/ Detect(t) \/ Send(t) \/ Answered(t) \/ Rejected(t) \/ RequestFails(t) \/ ConfigError(t)
  \/ Mark(t) \/ Router(t) \/ Retrieve(t) \/ Done(t)

Next ==
  \/ \E t \in Turn : Ask(t) \/ Step(t)
  \/ \E m \in Model : Expire(m)
  \/ ChangeModel

-----------------------------------------------------------------------------
TypeOK ==
  /\ model \in Model
  /\ \A m \in Model : support[m] \in {"absent", "supported", "unsupported", "unknown"}
  /\ \A t \in Turn : turn[t].via \in {"tools", "router", "retrieve"} =>
       (turn[t].via = "tools") = (turn[t].reason = "none")

\* As long as nobody changes the model, one that supports tools is never taken for one that
\* does not, whatever fails ("Detection failures resolve to `unknown`",
\* model-capability.service.ts:24).
BlameNeedsChange ==
  \A m \in WithTools : support[m] = "unsupported" => changes > 0

\* A turn of the old model may mark the new one.  Once the model stays and supports tools,
\* it is taken for one that does for good.
SupportSeen == model \in WithTools => support[model] # "unsupported"
=============================================================================
