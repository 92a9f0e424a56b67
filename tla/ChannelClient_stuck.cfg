SPECIFICATION FairSpec
CONSTANTS
  Kinds <- Full
  Word = 16
  MaxPipe = 2
PROPERTIES HungClientDropped
CHECK_DEADLOCK FALSE
