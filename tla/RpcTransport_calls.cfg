SPECIFICATION FairSpec
CONSTANTS
  c1 = c1
  c2 = c2
  NoCall = NoCall
  Calls <- MCCalls
  PipeRoom = 1
  MaxLines = 3
CHECK_DEADLOCK FALSE
INVARIANTS
  TypeOK
  PendingIsInFlight
  ResultIsTruthful
  StrayAnswersAreUnwanted
  EofWakesAll
PROPERTIES
  CallEnds
