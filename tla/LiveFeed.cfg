SPECIFICATION FairSpec
CONSTANTS
  s1 = s1  c1 = c1  c2 = c2
  None = None  Backend = Backend
  Screens <- MCScreens
  Conns <- MCConns
  MaxVersion = 2
  MaxBreaks = 1
  MaxGets = 1
  MaxAnswers = 1
CHECK_DEADLOCK FALSE
INVARIANTS TypeOK ToldEverything
PROPERTY EventuallyTold
