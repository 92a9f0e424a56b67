SPECIFICATION FairSpec
CONSTANTS
  c1 = c1
  c2 = c2
  c3 = c3
  Clients = {c1, c2, c3}
  Modes = {"single", "seamless", "multi"}
  Semi = {c1, c2}
  MaxMig = 3
INVARIANTS
  CallbackWillCome
  AnsweredOnce
  WaitsCovered
PROPERTIES
  EmulatorAnswered
