SPECIFICATION Spec
INVARIANTS IndexSound NoLostWakeup PauseAccounted BudgetKept BlameNeedsChange ShortSendsLast
PROPERTY SupportSeen
CHECK_DEADLOCK FALSE
CONSTANTS
  Entity = {"e1", "e2"}
  Purge = {"p1"}
  BatchSize = 1
  CarefulAdmin = TRUE
  MaxChats = 1
  MaxTime = 2
  NumCtx = 8192
  Reserve = 1024
  MinRound = 900
  MinCap = 200
  MaxCap = 834
  QuestionCap = 1167
  MinBlock = 167
  Frame = 40
  MaxSteps = 3
  System = 430
  Tools = 1700
  Closing = 60
  Omitted = 30
  Call = 60
  HistorySizes = {20, 2500}
  QuestionSizes = {20, 3000, 9000}
  ResultSizes = {20, 834}
  MaxMessages = 3
  Turn = {1, 2}
  Model = {"qwen", "gemma"}
  WithTools = {"qwen"}
  MaxChanges = 2
  Asked = {1, 2, 3}
  Take = 4
  MaxHistory = 2
  MayOverlap = TRUE
