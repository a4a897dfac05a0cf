CONSTANTS
  Ask = {1, 2, 3, 4, 5, 6, 7, 8}
  Take = 12
  MaxHistory = 6
  MayOverlap = FALSE
SPECIFICATION Spec
INVARIANT SendsLastMessages
CHECK_DEADLOCK FALSE
