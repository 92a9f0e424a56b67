SPECIFICATION Spec
CONSTANTS
  c1 = c1
  c2 = c2
  b1 = b1
  b2 = b2
  b3 = b3
  Clients = {c1, c2}
  FlowControl <- Mixed
  Bufs = {b1, b2, b3}
  Window = 2
  Interval = 2
  SelfTokens = 1
  MaxSendQueue = 1
  MaxSend = 2
  BufLen = 2
  MaxAvail = 2
  Nil = Nil
  Self = Self
  NoToken = NoToken
  None = None
SYMMETRY BufSymmetry
CONSTRAINT Sides
INVARIANTS
  Inductive NoLostWakeup ClientWriteRetried
