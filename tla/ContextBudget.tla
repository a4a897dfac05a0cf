--------------------------- MODULE ContextBudget ---------------------------
(***************************************************************************)
(* One turn of the chat with tools (ai-chat/rag/chat-orchestrator.ts,      *)
(* context-budget.ts): the model asks for tools until it answers or a      *)
(* budget runs out, and every prompt is fitted to the context window.      *)
(*                                                                         *)
(* Sizes are in estimated tokens, the overhead of a message included.  The *)
(* tools themselves, which only read, are left out.                        *)
(***************************************************************************)
EXTENDS Integers, Sequences

CONSTANTS
  NumCtx,       \* RAG_CHAT_NUM_CTX
  Reserve,      \* ANSWER_RESERVE_TOKENS
  MinRound,     \* MIN_ROUND_TOKENS
  MinCap,       \* MIN_RESULT_CHARS, in tokens
  MaxCap,       \* MAX_RESULT_CHARS, in tokens
  QuestionCap,  \* RAG_QUERY_MAX_CHARS, in tokens
  MinBlock,     \* MIN_PREFETCH_CHARS, in tokens
  Frame,        \* PREFETCH_FRAME_CHARS, in tokens
  MaxSteps,     \* RAG_CHAT_MAX_TOOL_STEPS
  System,       \* size of the system prompt
  Tools,        \* size of the tool schemas
  Closing,      \* size of FORCE_CLOSURE_PROMPT
  Omitted,      \* size of a result replaced by "omitted"
  Call,         \* size of a message with a tool call
  HistorySizes, QuestionSizes, ResultSizes, MaxHistory

Available == NumCtx - Reserve

\* Asserted by the module that instantiates this one: the window has room for what is never
\* trimmed, and for a cut question with every call of a turn.
BudgetAssumption ==
  /\ {NumCtx, Reserve, MinRound, MinCap, MaxCap, QuestionCap, MinBlock, Frame, MaxSteps, System,
      Tools, Closing, Omitted, Call, MaxHistory} \subseteq Nat
  /\ HistorySizes \cup QuestionSizes \cup ResultSizes \subseteq Nat
  /\ Reserve < NumCtx /\ System + Tools <= Available
  /\ System + QuestionCap + MaxSteps * (Call + Omitted) + Closing <= Available
  /\ MaxSteps * (Call + Omitted) + Closing <= MinRound

VARIABLES
  pc, history, question,
  block,     \* the size of the block of selected sources in front of the question, or 0
  results,   \* the sizes of the tool results
  cap,       \* context.maxResultChars
  due,       \* the calls of the last response that are still to be executed
  prompt,    \* the last prompt that was sent
  requests   \* how many were

budgetVars == <<pc, history, question, block, results, cap, due, prompt, requests>>

\* A recursive function rather than a fold, for the proofs about it.
Sum(s) ==
  LET sum[i \in 0..Len(s)] == IF i = 0 THEN 0 ELSE sum[i - 1] + s[i]
  IN  sum[Len(s)]

Least(S) == CHOOSE x \in S : \A y \in S : x <= y
Lesser(x, y) == IF x < y THEN x ELSE y

Used(h, q, rs, extra, tools) ==
  System + Sum(h) + q + Sum(rs) + Len(rs) * Call + extra + tools

Without(n, rs) == [i \in 1..Len(rs) |-> IF i <= n THEN Omitted ELSE rs[i]]

\* clampResultCap() of 60 % of what remains.
ResultCap(remaining) ==
  LET share == (remaining * 6) \div 10
  IN  IF share < MinCap THEN MinCap ELSE Lesser(share, MaxCap)

Target(offered) == IF offered THEN Available - MinRound ELSE Available

\* Mutant: the question is never cut.
Cut_Never(h, rs, extra, tools) == FALSE

\* Whether the question must be cut, as the last resort.
Cut(h, rs, extra, tools) == Used(h, question + block, rs, extra, 0) > Available

ToolSize(offered) == IF offered THEN Tools ELSE 0

\* fitContext(): the oldest messages are dropped ...
Dropped(offered, extra) ==
  Least({k \in 0..Len(history) :
           \/ k = Len(history)
           \/ Used(SubSeq(history, k + 1, Len(history)), question + block, results, extra,
                   ToolSize(offered)) <= Target(offered)})

Kept(offered, extra) == SubSeq(history, Dropped(offered, extra) + 1, Len(history))

\* ... then the oldest results omitted ...
OmittedResults(h, offered, extra) ==
  Least({k \in 0..Len(results) :
           \/ k = Len(results)
           \/ Used(h, question + block, Without(k, results), extra, ToolSize(offered))
                <= Target(offered)})

\* ... then the tools withdrawn, then the question cut: the prompt of the messages h and the
\* results rs.
Assemble(h, rs, offered, extra) ==
  LET q == question + block
      over == Used(h, q, rs, extra, ToolSize(offered)) > Available
      cut == over /\ Cut(h, rs, extra, ToolSize(offered))
      asked == IF cut THEN Lesser(q, QuestionCap) ELSE q
      left == Available - Used(h, asked, rs, extra, IF over THEN 0 ELSE ToolSize(offered))
      closed == over \/ left < MinRound
  IN  [size |-> Used(h, asked, rs, extra, IF closed THEN 0 ELSE ToolSize(offered)),
       offered |-> offered /\ ~closed, forced |-> closed, cut |-> cut /\ asked < q,
       cap |-> ResultCap(IF closed THEN 0 ELSE left)]

Fit(offered, extra) ==
  LET h == Kept(offered, extra)
  IN  Assemble(h, Without(OmittedResults(h, offered, extra), results), offered, extra)

NoPrompt == [size |-> 0, offered |-> FALSE, forced |-> FALSE, cut |-> FALSE, cap |-> 0]

Init ==
  /\ pc = "select"
  /\ history \in UNION {[1..n -> HistorySizes] : n \in 0..MaxHistory}
  /\ question \in QuestionSizes
  /\ block = 0 /\ results = <<>> /\ cap = 0 /\ due = 0
  /\ prompt = NoPrompt /\ requests = 0

-----------------------------------------------------------------------------
\* prefetchBudgetChars()
PrefetchRoom ==
  LET fixed == Reserve + MinRound + Used(history, question, <<>>, 0, Tools)
  IN  IF fixed > NumCtx THEN 0 ELSE (NumCtx - fixed) \div 2

\* addSelectedContext(): a block as large as may be, or none.
Select ==
  /\ pc = "select"
  /\ \/ PrefetchRoom >= Frame + MinBlock /\ block' = PrefetchRoom
     \/ UNCHANGED block
  /\ pc' = "loop"
  /\ UNCHANGED <<history, question, results, cap, due, prompt, requests>>

\* The loop sends a prompt with the tools ...
Ask ==
  /\ pc = "loop"
  /\ Len(results) < MaxSteps
  /\ LET fit == Fit(TRUE, 0)
     IN  /\ ~fit.forced
         /\ prompt' = fit
         /\ cap' = fit.cap
  /\ requests' = requests + 1
  /\ pc' = "asked"
  /\ UNCHANGED <<history, question, block, results, due>>

\* ... or ends, with its steps or for want of room.
LeaveLoop ==
  /\ pc = "loop"
  /\ Len(results) >= MaxSteps \/ Fit(TRUE, 0).forced
  /\ pc' = "close"
  /\ UNCHANGED <<history, question, block, results, cap, due, prompt, requests>>

Calls(n) == Lesser(n, MaxSteps - Len(results))

\* The model asks for tools, possibly for several at once ...
CallTools ==
  /\ pc = "asked"
  /\ \E n \in 1..MaxSteps : due' = Calls(n)
  /\ pc' = "tools"
  /\ UNCHANGED <<history, question, block, results, cap, prompt, requests>>

\* ... and each is executed: its result, or its error, is at most as long as the cap.
Execute ==
  /\ pc = "tools"
  /\ \E n \in ResultSizes : results' = Append(results, Lesser(n, cap))
  /\ due' = due - 1
  /\ pc' = IF due = 1 THEN "loop" ELSE "tools"
  /\ UNCHANGED <<history, question, block, cap, prompt, requests>>

\* The model answers ...
Answer ==
  /\ pc \in {"asked", "closing"}
  /\ pc' = "answered"
  /\ UNCHANGED <<history, question, block, results, cap, due, prompt, requests>>

\* ... with nothing ...
EmptyAnswer ==
  /\ pc = "asked"
  /\ pc' = "close"
  /\ UNCHANGED <<history, question, block, results, cap, due, prompt, requests>>

\* ... or without the tools a question about data needs; or the request fails.
Fail ==
  /\ pc \in {"asked", "closing"}
  /\ pc' = "failed"
  /\ UNCHANGED <<history, question, block, results, cap, due, prompt, requests>>

\* The last request, without tools.
Close ==
  /\ pc = "close"
  /\ prompt' = Fit(FALSE, Closing)
  /\ requests' = requests + 1
  /\ pc' = "closing"
  /\ UNCHANGED <<history, question, block, results, cap, due>>

Next ==
  Select \/ Ask \/ LeaveLoop \/ CallTools \/ Execute \/ Answer \/ EmptyAnswer \/ Fail \/ Close

-----------------------------------------------------------------------------
\* Every prompt leaves the reserve of the answer free, and every one with tools a round more.
PromptFits ==
  /\ prompt.size <= Available
  /\ prompt.offered => prompt.size + MinRound <= Available

\* The block of the sources a user selected is never trimmed (context-budget.ts:135).
BlockKept == block > 0 => ~prompt.cut

\* A turn executes no more tools than it may, and sends one request more at most.
StepsBounded == Len(results) + due <= MaxSteps /\ requests <= MaxSteps + 1
=============================================================================
