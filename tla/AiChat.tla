------------------------------- MODULE AiChat -------------------------------
(***************************************************************************)
(* The assistant as a whole: the vector index its answers are retrieved    *)
(* from, a turn with tools and its context window, the fallback chain of   *)
(* overlapping turns, and a conversation.  The four share no state of this *)
(* model, so a behaviour is about one of them (part), and what is shown of *)
(* it is shown for every value of the constants.                           *)
(***************************************************************************)
EXTENDS Integers, FiniteSets, Sequences

CONSTANTS
  Entity, Purge, BatchSize, CarefulAdmin, MaxChats, MaxTime,         \* EmbeddingIndex
  NumCtx, Reserve, MinRound, MinCap, MaxCap, QuestionCap, MinBlock,  \* ContextBudget
  Frame, MaxSteps, System, Tools, Closing, Omitted, Call,
  HistorySizes, QuestionSizes, ResultSizes, MaxMessages,
  Turn, Model, WithTools, MaxChanges,                                \* ToolSupport
  Asked, Take, MaxHistory, MayOverlap                                \* Conversation

VARIABLES
  part,
  now, updated, index, watermark, ingest, manualPaused, chats, purge, adminPaused, overtaken,
  pc, history, question, block, results, cap, due, prompt, requests,  \* a turn with tools
  model, support, turn, changes,                                     \* the fallback chain
  rows, active, title, ask                                           \* a conversation

indexed == <<now, updated, index, watermark, ingest, manualPaused, chats, purge, adminPaused,
             overtaken>>
budget == <<pc, history, question, block, results, cap, due, prompt, requests>>
chain == <<model, support, turn, changes>>
conversation == <<rows, active, title, ask>>
vars == <<part, indexed, budget, chain, conversation>>

Index == INSTANCE EmbeddingIndex

Budget == INSTANCE ContextBudget WITH MaxHistory <- MaxMessages

Support == INSTANCE ToolSupport

Conversation == INSTANCE Conversation WITH Ask <- Asked

ASSUME AiChatAssumption ==
  /\ Index!EmbeddingAssumption /\ Budget!BudgetAssumption
  /\ Support!SupportAssumption /\ Conversation!ConversationAssumption

\* The parts a behaviour is not about start in one of their states.
Init ==
  /\ part \in {"index", "turn", "chain", "conversation"}
  /\ Index!Init
  /\ Budget!Init
  /\ part # "turn" => history = <<>> /\ question = CHOOSE q \in QuestionSizes : TRUE
  /\ Support!Init /\ (part # "chain" => model = CHOOSE m \in Model : TRUE)
  /\ Conversation!Init /\ (part # "conversation" => title = "default")

InIndex == part = "index" /\ UNCHANGED <<part, budget, chain, conversation>>
InTurn == part = "turn" /\ UNCHANGED <<part, indexed, chain, conversation>>
InChain == part = "chain" /\ UNCHANGED <<part, indexed, budget, conversation>>
InConversation == part = "conversation" /\ UNCHANGED <<part, indexed, budget, chain>>

Next ==
  \/ InIndex /\ Index!Next
  \/ InTurn /\ Budget!Next
  \/ InChain /\ Support!Next
  \/ InConversation /\ Conversation!Next

\* Turns go on, and the cache expires.
Fairness ==
  /\ \A t \in Turn : WF_vars(InChain /\ Support!Step(t))
  /\ \A m \in Model : WF_vars(InChain /\ Support!Expire(m))

Safety == Init /\ [][Next]_vars

Spec == Safety /\ Fairness

-----------------------------------------------------------------------------
\* EmbeddingIndex: the watermark claims only what is indexed.
IndexSound == Index!IndexSound

\* EmbeddingIndex: no wake-up is lost.
NoLostWakeup == Index!NoLostWakeup

\* EmbeddingIndex: no purge leaves the ingestion paused.
PauseAccounted == Index!PauseAccounted

\* ContextBudget: every prompt fits, with the block of the selected sources untrimmed, and a turn
\* makes no more tool calls and requests than it may.
BudgetKept == Budget!PromptFits /\ Budget!BlockKept /\ Budget!StepsBounded

\* ToolSupport: no capable model is taken for an incapable one unless the model was changed.
BlameNeedsChange == Support!BlameNeedsChange

\* ToolSupport: once the model stays, its support is seen.
SupportSeen == <>[](part = "chain" => Support!SupportSeen)

\* Conversation: a short conversation is sent as documented.
ShortSendsLast == Conversation!ShortSendsLast
=============================================================================
