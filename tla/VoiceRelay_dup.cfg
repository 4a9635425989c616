SPECIFICATION Spec
CONSTANTS
  c1 = c1  c2 = c2  c3 = c3
  Calls <- MCCalls
  MaxToolCalls = 2
INVARIANT OneAnswerPerRound
CHECK_DEADLOCK FALSE
