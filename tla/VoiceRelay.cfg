SPECIFICATION FairSpec
CONSTANTS
  c1 = c1  c2 = c2  c3 = c3
  Calls <- MCCalls
  MaxToolCalls = 2
INVARIANTS TypeOK OutputsBeforeAnswer CompleteMeansAnswered
PROPERTIES CancelHitsTheLoop TurnEnds
CHECK_DEADLOCK FALSE
