---------------------------- MODULE Conversation ----------------------------
(***************************************************************************)
(* A conversation with the assistant (ai-chat/ai-chat.service.ts, and what *)
(* rag/chat-orchestrator.ts makes of its messages): questions are stored,  *)
(* read back with the messages before them, answered after minutes, and    *)
(* may overlap.                                                            *)
(***************************************************************************)
EXTENDS Naturals, Sequences, SequencesExt

CONSTANTS
  Ask,         \* bound: the questions ever asked, 1..n in that order
  Take,        \* messages ask() reads back
  MaxHistory,  \* MAX_HISTORY
  MayOverlap   \* whether a question may be asked before the one before has been answered

\* Asserted by the module that instantiates this one.
ConversationAssumption == Take \in Nat \ {0} /\ MaxHistory \in 1..Take /\ MayOverlap \in BOOLEAN

VARIABLES
  rows,     \* ai_conversation_messages, in the order of their timestamps
  active,   \* the conversation is not deleted
  title,    \* "default", "auto" or "chosen"
  ask       \* ask[a]: the local variables of ask()

conversationVars == <<rows, active, title, ask>>

Question(a) == [role |-> "user", ask |-> a]
Reply(a) == [role |-> "assistant", ask |-> a]

NoAsk == [pc |-> "new", title |-> "default", before |-> <<>>, prompt |-> <<>>]

Init ==
  /\ rows = <<>> /\ active = TRUE
  /\ title \in {"default", "chosen"}
  /\ ask = [a \in Ask |-> NoAsk]

UnderWay(a) == ask[a].pc \notin {"new", "ended"}
MayAsk(a) ==
  /\ ask[a].pc = "new"
  /\ \A b \in Ask : b < a => ask[b].pc # "new"
  /\ MayOverlap \/ \A b \in Ask : ~UnderWay(b)

LastOf(s, n) == IF Len(s) > n THEN SubSeq(s, Len(s) - n + 1, Len(s)) ELSE s
FirstOf(s, n) == IF Len(s) > n THEN SubSeq(s, 1, n) ELSE s

\* The conversation is looked up ...
Start(a) ==
  /\ MayAsk(a)
  /\ ask' = [ask EXCEPT ![a].pc = IF active THEN "store" ELSE "ended", ![a].title = title]
  /\ UNCHANGED <<rows, active, title>>

\* ... and the question stored.
Store(a) ==
  /\ ask[a].pc = "store"
  /\ rows' = Append(rows, Question(a))
  /\ ask' = [ask EXCEPT ![a].pc = "read", ![a].before = rows]
  /\ UNCHANGED <<active, title>>

\* Mutant: the question is left among the messages before it.
PromptOf_Twice(a, history) == Append(LastOf(history, MaxHistory), Question(a))

\* buildMessages()
PromptOf(a, history) ==
  LET earlier == IF history # <<>> /\ Last(history) = Question(a) THEN Front(history) ELSE history
  IN  Append(LastOf(earlier, MaxHistory), Question(a))

\* The oldest messages are read back (orderBy asc, take).
Read(a) ==
  /\ ask[a].pc = "read"
  /\ ask' = [ask EXCEPT ![a].pc = "answer", ![a].prompt = PromptOf(a, FirstOf(rows, Take))]
  /\ UNCHANGED <<rows, active, title>>

\* The answer is stored ...
Answer(a) ==
  /\ ask[a].pc = "answer"
  /\ rows' = Append(rows, Reply(a))
  /\ ask' = [ask EXCEPT ![a].pc = IF ask[a].title = "default" THEN "title" ELSE "ended"]
  /\ UNCHANGED <<active, title>>

\* ... unless there is none.
NoAnswer(a) ==
  /\ ask[a].pc = "answer"
  /\ ask' = [ask EXCEPT ![a].pc = "ended"]
  /\ UNCHANGED <<rows, active, title>>

\* The question becomes the title of a conversation that had none when it was asked.
SetTitle(a) ==
  /\ ask[a].pc = "title"
  /\ title' = "auto"
  /\ ask' = [ask EXCEPT ![a].pc = "ended"]
  /\ UNCHANGED <<rows, active>>

\* updateTitle(), deleteConversation()
UpdateTitle ==
  /\ active
  /\ title' = "chosen"
  /\ UNCHANGED <<rows, active, ask>>

DeleteConversation ==
  /\ active
  /\ active' = FALSE
  /\ UNCHANGED <<rows, title, ask>>

Next ==
  \/ \E a \in Ask : Start(a) \/ Store(a) \/ Read(a) \/ Answer(a) \/ NoAnswer(a) \/ SetTitle(a)
  \/ UpdateTitle \/ DeleteConversation

Spec == Init /\ [][Next]_conversationVars

-----------------------------------------------------------------------------
\* "Only the last 6 history messages are sent." (docs/ai-chat-tools.md:45)
SendsLastMessages ==
  \A a \in Ask : ask[a].pc = "answer" =>
    ask[a].prompt = Append(LastOf(ask[a].before, MaxHistory), Question(a))

\* As long as the conversation is short enough to be read as a whole, and questions do not
\* overlap, the model gets the question once, after the last messages before it.
ShortSendsLast ==
  \A a \in Ask : (ask[a].pc = "answer" /\ Len(rows) <= Take /\ Last(rows) = Question(a)) =>
    ask[a].prompt = Append(LastOf(ask[a].before, MaxHistory), Question(a))
=============================================================================
