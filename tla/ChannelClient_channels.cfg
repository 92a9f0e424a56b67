SPECIFICATION FairSpec
CONSTANTS
  Kinds <- AllKinds
  Word = 16
  MaxPipe = 2
INVARIANTS AckAccounting NoLostWakeup TimersMatch
PROPERTIES MarkerAfterItem AllSent 
CHECK_DEADLOCK FALSE
